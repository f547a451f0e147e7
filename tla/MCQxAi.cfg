SPECIFICATION Spec
CONSTANTS
    a1 = a1
    a2 = a2
    d0 = d0
    d1 = d1
    d2 = d2
    m1 = m1
    x1 = x1
    None = None
    Accounts = {a1, a2}
    DIDs = {d0, d1, d2}
    generate_did <- MCgenerate_did
    ZeroDID = d0
    GovernanceDIDs = {}
    SubjectDIDs = {d1, d2}
    MaxBlockNumber = 1
    ValidityPeriods = {0}
    Durations = {0}
    WorkerSuspensionPeriod = 1
    Customers = {a1}
    Models = {m1}
    Descriptors = {x1}
    MaxQueueSize = 2
    IdModulus = 4
    RequestBound = 3
INVARIANTS
    AiTypeOK
    QueueExact
    QueueFIFO
    RequestTablesAgree
    AnsweredExactlyOnce
PROPERTIES
    HistoryIsFinal
    InertWhileInvalid
    ServiceSpec
