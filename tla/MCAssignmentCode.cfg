CONSTANTS
    Homework = {h1}
    Practice = {}
    Teacher = {t1, t2}
    Free = Free
    MaxAborts = 1
SPECIFICATION Spec
INVARIANTS RejudgedWithCode
CHECK_DEADLOCK FALSE
