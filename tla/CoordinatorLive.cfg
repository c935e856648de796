SPECIFICATION FairSpec
CONSTANTS
    None = None
CHECK_DEADLOCK FALSE
PROPERTY EveryTransactionEnds
PROPERTY EveryRequestAnswered
