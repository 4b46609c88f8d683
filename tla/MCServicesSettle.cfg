CONSTANTS
    l1 = l1  l2 = l2  f1 = f1  f2 = f2  k1 = k1  k2 = k2
    N = 3
    Files <- MCFiles
    Keys <- MCKeys
    FileOf <- MCFileOf
    KeyOf <- MCKeyOf
    Loops <- MCOneLoop
    MaxAttempts = 3
    EnableDedup = TRUE
    Unresolvable = FALSE
    c1 = c1  c2 = c2  a1 = a1
    Callers = {c1, c2}
    Accounts = {a1}
    AccountOf <- MCAccountOf
    MaxConfigures = 1
    PerMinute = 4
    GlobalPerMinute = 5
    n1 = n1  n2 = n2  k = k
    w1 = w1
    m1 = m1  m2 = m2  t1 = t1  t2 = t2  s1 = s1  s2 = s2
    Notes = {n1, n2}
    BatchKeys = {k}
    BatchKeyOf <- MCKeyOfNote
    WithButtons = {k}
    MaxPer = 2
    QueueSize = 1
    MaxFailures = 1
    Retries = 1
    MaxErrors = 2
    Streams = {w1}
    Seek = {w1}
    Chunks <- MCChunks
    ProxyConcurrency = 2
    ConcurrencyLimit = 1
    SoftOverLimit = 0
SPECIFICATION SettleSpec
CHECK_DEADLOCK FALSE
INVARIANTS
    SettleTypeOK
    NoEventLost
    NotesKept
PROPERTIES
    EventsSettle
    AcquireReturns
    BucketsKeepPromise
    NotesSettle
    StreamSettles
    RefreshOnce
    FramesReach
