CONSTANTS
    s1 = s1
    File = {1, 2}
    Submission = {s1}
    For <- OneSubmission
    Finish = {p1}
    Cleaner = {c1, c2}
    Ttl = 1
    Grace = 1
    Batch = 1
    Rounds = 2
    MaxTime = 3
SPECIFICATION Spec
SYMMETRY Symmetry
INVARIANTS TypeOK SubmittedKept NoOrphan
PROPERTIES GraceKept
CHECK_DEADLOCK FALSE
