SPECIFICATION Spec
CHECK_DEADLOCK FALSE
CONSTANTS
    Banks = 2
    TasksPerBank = 2
    Handlers = 2
    Transactions <- MCTransactions
    Conflicting <- MCConflicting
INVARIANTS
    TasksMeetTheirBank
    VerdictCoversBank
    EveryHandlerSwitches
    AssertionsHold
PROPERTY
    LockIsReleased
