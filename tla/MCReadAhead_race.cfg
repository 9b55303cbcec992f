CONSTANTS
    t1 = t1
    t2 = t2
    Task = {t1, t2}
    WindowSize = 2
    MaxLen = 2
    Lens = {0, 2}
    MaxWant = 2
    MaxWrites = 1
    FailingWrites = FALSE
SPECIFICATION Spec
SYMMETRY Permuted
INVARIANTS
    ReadsAreCurrent
