SPECIFICATION Spec
CONSTANTS
    Old = {"e10"}
    New = {"e11"}
    Blocks <- MCBlocks
    MaxRecords = 1
INVARIANTS BlocksOwned DetailsOnlyWhereAsked StreamErrorIsReaders
CHECK_DEADLOCK FALSE
