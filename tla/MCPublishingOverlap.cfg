CONSTANTS
    Publisher = {p1}
    Spreader = {q1}
    Editor = {}
    Remover = {}
    Closer = {}
    Slug = {s1}
    MaxVersion = 1
    MaxAborts = 0
    Patient = FALSE
    Free = Free
SPECIFICATION FairSpec
INVARIANTS ShownIsWhole
CHECK_DEADLOCK FALSE
