CONSTANTS
    t1 = t1  t2 = t2  f1 = f1  f2 = f2  r1 = r1  r2 = r2  r3 = r3
    None = None
    Fires <- MCFires
    Refreshers <- MCTwoRefreshers
    Loop = r1
    MinInterval = 2
    UserModes = {"interval", "daily", "manual"}
    Ids <- MCOneTask
    Cap = 2
    Hour = 2
    Day = 2
    IntervalMinutes = 1
    DailyAt = 1
SPECIFICATION FairSpec
INVARIANTS
    FiringIsExclusive
PROPERTIES
    JobsFire
