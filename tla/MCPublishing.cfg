CONSTANTS
    Publisher = {p1}
    Spreader = {q1}
    Editor = {e1}
    Remover = {d1}
    Closer = {c1}
    Slug = {s1, s2}
    MaxVersion = 2
    MaxAborts = 1
    Patient = TRUE
    Free = Free
SPECIFICATION FairSpec
INVARIANTS TypeOK PublishedHasAssignment
PROPERTIES ImplementsPublication RequestsEnd
CHECK_DEADLOCK FALSE
