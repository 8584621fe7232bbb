CONSTANTS
    P = P
    Q = Q
    B = B
    F = F
    Z = Z
    D = D
    S = S
    None = None
    Sysvar = S
    Programs <- MCPrograms
    Accounts <- MCAccounts
    Kind <- MCKind
    BuiltinCost <- MCBuiltinCost
    Owner <- MCOwner
    Pdas <- MCPdas
    TopLevel <- MCTopLevel
    Requests <- MCRequests
    InitialLamports <- MCLamports
    InstructionIndex = 0
    Budget = 9
    InvokeUnits = 1
    HeapCost = 1
    StackCapacity = 3
    TraceCapacity = 4
    PoolSize = 2
    MaxBuiltinSteps = 1
SPECIFICATION Spec
INVARIANTS
    ContextsFollowStack
    PrivilegesHaveASource
    NoIndirectReentry
    ReadsAreCollected
    BuffersAreExclusive
    SuccessConservesLamports
PROPERTY
    Terminates
