CONSTANTS
    t1 = t1
    t2 = t2
    t3 = t3
    f1 = f1
    f2 = f2
    Task = {t1, t2, t3}
    File = {f1}
    MaxLen = 2
SPECIFICATION Spec
SYMMETRY Permuted
INVARIANTS
    TypeOK
    LenIsTheSize
    ShortMeansEnd
    AskedOnce
    NothingStaysOpen
