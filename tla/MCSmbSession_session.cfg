CONSTANTS
    t1 = t1
    t2 = t2
    f1 = f1
    f2 = f2
    h1 = h1
    h2 = h2
    None = None
    Task = {t1, t2}
    File = {f1, f2}
    Fh = {h1, h2}
    Abandoning = {t2}
    MaxQueue = 2
SPECIFICATION FairSpec
INVARIANTS
    TypeOK
    TableMatchesServer
    AnswersComeFromOwnHandle
    NoForgottenHandle
    ClosedBeforeContextGoes
PROPERTIES
    ShutdownMeansGone
    KeepsService
    EveryCallEnds
    
    ThreadEnds
