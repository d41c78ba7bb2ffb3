CONSTANTS
    Request = {r1}
    Mutation = {m1, m2}
    Lease = 2
    MaxTime = 3
    MaxRevision = 2
SPECIFICATION FairSpec
PROPERTIES FillEnds
CHECK_DEADLOCK FALSE
