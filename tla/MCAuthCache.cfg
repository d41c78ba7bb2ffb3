CONSTANTS
    Request = {r1, r2}
    Mutation = {m1}
    Lease = 2
    MaxTime = 3
    MaxRevision = 1
SPECIFICATION Spec
SYMMETRY Symmetry
INVARIANTS TypeOK FencedSlot FreshAfterDelete
PROPERTIES ImplementsFreshness
CHECK_DEADLOCK FALSE
