CONSTANTS
    t1 = t1  t2 = t2  f1 = f1  f2 = f2  r1 = r1  r2 = r2  r3 = r3
    None = None
    Fires <- MCFires
    Refreshers <- MCTwoRefreshers
    Loop = r1
    MinInterval = 2
    UserModes = {"interval", "manual"}
    Ids <- MCTwoTasks
    Cap = 3
    Hour = 4
    Day = 8
    IntervalMinutes = 3
    DailyAt = 2
SPECIFICATION Spec
PROPERTIES
    UserWritesLast
