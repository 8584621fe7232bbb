CONSTANTS
    Tasks = {1, 2, 3, 4, 5}
    Transactions <- MCTransactions
    LockContexts <- MCLockContexts
    MaxRunning = 2
    MaxUnique = 4
SPECIFICATION Spec
CHECK_DEADLOCK FALSE
INVARIANTS
    WriteFollowsRead
    MachineRewinds
PROPERTIES
    KeepsOrder
    TasksFinish
