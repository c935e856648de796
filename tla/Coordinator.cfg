SPECIFICATION Spec
CONSTANTS
    p1 = p1
    p2 = p2
    None = None
    Off = Off
SYMMETRY Pairs
CHECK_DEADLOCK FALSE
INVARIANT TypeOK
INVARIANT ReputationIsTrue
 
INVARIANT OfferedIsAvailable
INVARIANT TokensOnce
INVARIANT KeysKept
INVARIANT AnswersAreRight
INVARIANT GrantsBounded
 
PROPERTY SessionEndsOnce
