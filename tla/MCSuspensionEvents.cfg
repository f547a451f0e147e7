SPECIFICATION EventSpec
CONSTANTS
    a1 = a1
    a2 = a2
    d0 = d0
    d1 = d1
    d2 = d2
    None = None
    Accounts = {a1, a2}
    DIDs = {d0, d1, d2}
    generate_did <- MCgenerate_did
    ZeroDID = d0
    GovernanceDIDs = {d1}
    SubjectDIDs = {d0, d1}
    MaxBlockNumber = 3
    ValidityPeriods = {None, 0, 2}
    Durations = {None, 0}
    WorkerSuspensionPeriod = 2
INVARIANTS
    KiltTypeOK
    DIDMapsAgree
    HeldSuspensionBinds
PROPERTIES
    SuspensionOutlivesCalls
    RevivalNeedsReissue
