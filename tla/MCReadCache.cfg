CONSTANTS
    Reader = {r1, r2}
    Ttl = 2
    MaxTime = 2
    MaxRevision = 2
SPECIFICATION Spec
SYMMETRY Symmetry
INVARIANTS TypeOK CurrentEntryAccurate HitIsSnapshot
PROPERTIES HitInPhase
CHECK_DEADLOCK FALSE
