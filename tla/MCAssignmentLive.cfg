CONSTANTS
    Homework = {h1}
    Practice = {p1}
    Teacher = {t1, t2}
    Free = Free
    MaxAborts = 0
SPECIFICATION FairSpec
INVARIANTS JudgeIsFed
PROPERTIES EverySolutionSettles ImplementsGrading
CHECK_DEADLOCK FALSE
