CONSTANTS
    t1 = t1  t2 = t2  a1 = a1  a2 = a2  r1 = r1  r2 = r2  r3 = r3
    None = None
    TaskIds <- MCTaskIds
    Accounts <- MCAccounts
    Runs <- MCTwoRuns
    EditRunning = FALSE
SYMMETRY Symm
SPECIFICATION Spec
INVARIANTS
    AccountExclusive
    LockTellsHolder
    DoneMeansExited
    RowsAreLive
    GracefulRows
PROPERTIES
    NoTakeover
