CONSTANTS
    Homework = {h1, h2}
    Practice = {p1}
    Teacher = {t1, t2}
    Free = Free
    MaxAborts = 1
SPECIFICATION Spec
SYMMETRY Symmetry
INVARIANTS TypeOK VerdictCurrent QuestionUsable SolutionHasProblem NoDeadlock
CHECK_DEADLOCK FALSE
