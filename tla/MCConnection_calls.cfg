CONSTANTS
    NoStatus = NoStatus
    Absent = Absent
    Written <- MCWritten
    Requests <- MCRequests
SPECIFICATION Spec
INVARIANTS
    TypeOK
    ReportedAsHappened
    
    StaleOnlyFromOwnSession
    ContextsAccounted
    CallerDecides
    EndpointsReadAsWritten
