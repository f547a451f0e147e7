SPECIFICATION MeasureFairSpec
CONSTANTS
    Alice = Alice
    Bob = Bob
    Senders = {Alice, Bob}
    MaxHeight = 4
    TxCounts <- MCTxCounts
    FaultBound = 1
INVARIANTS
    MeasureTypeOK
    RowsExact
    RangesDisjoint
PROPERTIES
    MeasureEnds
CHECK_DEADLOCK FALSE
