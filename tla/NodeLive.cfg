SPECIFICATION FairSpec
CONSTANTS
    None = None
CHECK_DEADLOCK FALSE
PROPERTY PauseTakesEffect
PROPERTY Reconnects
PROPERTY JobsEnd
 
