CONSTANTS
    BufLen = 3
    MaxLen = 7
    Args <- MCArgs
SPECIFICATION FairSpec
INVARIANTS
    TypeOK
    SuccessIsWhole
    EachByteInPlace
    NothingLeftOpen
    PathsLeadWhereTheySay
PROPERTIES
    SourceBeforeDest
    TransferEnds
