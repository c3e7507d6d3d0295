CONSTANTS
    Callers = {c1, c2}
    MaxStarts = 2
SPECIFICATION Spec
INVARIANTS ResumeRestoresPersistence
SYMMETRY CallerSymmetry
CHECK_DEADLOCK FALSE
