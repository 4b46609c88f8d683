CONSTANTS
    l1 = l1  l2 = l2  f1 = f1  f2 = f2  k1 = k1  k2 = k2
    N = 3
    Files <- MCFiles
    Keys <- MCKeys
    FileOf <- MCFileOf
    KeyOf <- MCKeyOf
    Loops <- MCLoops
    MaxAttempts = 2
    EnableDedup = TRUE
    Unresolvable = TRUE
SPECIFICATION Spec
INVARIANTS
    NoEventLost
