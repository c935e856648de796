SPECIFICATION Spec
CONSTANTS
    p1 = p1
    p2 = p2
    None = None
    Off = Off
SYMMETRY Alike
CHECK_DEADLOCK FALSE
INVARIANT TypeOK
 
INVARIANT ServerIsOwned
INVARIANT RuntimeInstalled
INVARIANT CacheSound
 
 
