CONSTANTS
    t1 = t1
    t2 = t2
    Task = {t1, t2}
    WindowSize = 2
    MaxLen = 3
    Lens = {1, 3}
    MaxWant = 3
    MaxWrites = 1
    FailingWrites = TRUE
SPECIFICATION Spec
SYMMETRY Permuted
INVARIANTS
    TypeOK
    CurrentUnlessOverlapped
    RightPositions
