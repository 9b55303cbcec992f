CONSTANTS
    t1 = t1
    t2 = t2
    i1 = i1
    i2 = i2
    i3 = i3
    i4 = i4
    None = None
    Location <- MCLocation
    Inode = {i1, i2, i3, i4}
    Task = {t1, t2}
    MaxLen = 2
    Requests <- MCRequests
    Raws <- MCRaws
SPECIFICATION Spec
SYMMETRY Permuted
INVARIANTS
    TypeOK
    OnlyLocalCopiesLeave
    
PROPERTY
    NothingLostUnasked
