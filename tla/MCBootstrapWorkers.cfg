SPECIFICATION BootstrapSpec
CONSTANTS
    a1 = a1
    a2 = a2
    alice = alice
    b1 = b1
    b2 = b2
    d0 = d0
    d1 = d1
    d2 = d2
    d3 = d3
    m1 = m1
    x1 = x1
    None = None
    Accounts = {a1, a2}
    DIDs = {d0, d1, d2, d3}
    generate_did <- MCgenerate_did
    ZeroDID = d0
    GovernanceDIDs = {d3}
    SubjectDIDs = {d1}
    MaxBlockNumber = 1
    ValidityPeriods = {}
    Durations = {0}
    WorkerSuspensionPeriod = 1
    Customers = {}
    Models = {m1}
    Descriptors = {x1}
    MaxQueueSize = 1
    IdModulus = 1
    RequestBound = 0
    Runs = {b1, b2}
    Alice = alice
    WorkerURIs <- MCWorkerURIs
    DefaultModels <- MCDefaultModels
    GovDID = d3
    NameAndHash = x1
    FaultBound = 1
INVARIANTS
    BootstrapTypeOK
    CompleteRunServes
    IssuedByGovernance
CHECK_DEADLOCK FALSE
