CONSTANTS
    l1 = l1  l2 = l2  f1 = f1  f2 = f2  k1 = k1  k2 = k2
    N = 2
    Files <- MCFiles
    Keys <- MCKeys
    FileOf <- MCSameFile
    KeyOf <- MCTwoKeys
    Loops <- MCLoops
    MaxAttempts = 2
    EnableDedup = TRUE
    Unresolvable = FALSE
    x1 = x1  x2 = x2  g1 = g1  g2 = g2  d1 = d1  d2 = d2  d3 = d3  d4 = d4
    n1 = n1  n2 = n2  n3 = n3  n4 = n4
    MediaFiles = {x1, x2}
    CloudFolders = {g1, g2}
    FolderNames = {d1, d2, d3, d4}
    FileNames = {n1, n2, n3, n4}
    Own <- MCOwn
    Shared = {d1, d2, n1, n2}
    LifeSettings <- LifeChoices
    OpSets <- LifeUsers
    MaxOps = 4
    MaxBacklog = 4
    MaxCrashes = 1
    t1 = t1  r1 = r1  r2 = r2  m1 = m1  p1 = p1  p2 = p2
    y1 = y1  y2 = y2  y3 = y3  e1 = e1
    CloudFiles = {y1, y2, y3}
    Extras = {y3}
    Dirs = {e1}
    Parent <- MCParent
    DirNames = {n1, n2}
    Limit = 2
    Cap = 2
    MaxStreak = 5
    Cfg <- MCCfg
    Modes = {"auto_clean"}
    MaxChanges = 1
    MaxOddAnswers = 2
    i1 = i1  i2 = i2  s1 = s1  h1 = h1  h2 = h2
    a1 = a1  a2 = a2  a3 = a3
    c1 = c1  c2 = c2  c3 = c3  sx = sx  ss = ss
    Names <- MCNames
    First = a1
    Requests = {r1, r2}
    MaxRequests = 2
    MaxFaults = 1
    Folders <- MCFolders
    Up <- MCUp
    Concurrency = 1
    Timers = 3
    MaxWrites = 3
    Tokens = {t1}
    BotRequests = {r1, r2}
    Managers = {m1}
    Pollers = {p1, p2}
    MaxUpdates = 2
    MaxBotRequests = 2
    MaxRestarts = 1
    Episodes = {i1, i2}
    Series = {s1}
    SeriesOf <- MCSeriesOf
    Versions <- MCVersions
    Saved <- MCSaved
    Threshold = 1
    Reports = {h1, h2}
    MaxReports = 3
    MaxRewrites = 1
    Clients = {c1, c2, c3}
    Auth <- MCAuth
    Agent <- MCAgent
    Sources = {sx, ss}
    Kind <- MCKind
    Seek = {}
    MaxPlays = 2
    MaxInfos = 1
    MaxCacheSize = 1
    CacheTTL = 2
    Margin = 1
    Floor = 1
    Lives = {0, 9}
    MaxTime = 2
SPECIFICATION ServicesSpec
CHECK_DEADLOCK FALSE
INVARIANTS
    ServicesTypeOK
    Served
    NoGhosts
    UserKept
    UpdatesKept
    OnePoller
    FoundOrReported
    ChangesFollowed
    CollectedTold
    OneName
    MonitoredExist
    RedirectFits
PROPERTIES
    LiveInOrder
    Redone
    
