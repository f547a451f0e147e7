SPECIFICATION InjectionFairSpec
CONSTANTS
    Alice = Alice
    Bob = Bob
    p1 = p1
    p2 = p2
    Senders = {Alice, Bob}
    Injectors = {p1, p2}
    Waiting = {p1}
    Count = 3
    FaultBound = 2
INVARIANTS
    InjectionTypeOK
    GapsAreLosses
    SuccessIsOwned
PROPERTIES
    CountedIsIncluded
    InjectorsEnd
CHECK_DEADLOCK FALSE
