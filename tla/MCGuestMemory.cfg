CONSTANTS
    A = A
    S = S
    NoAccount = NoAccount
    Accounts = {A, S}
    Sysvar = S
    Writable = {A}
    U64Max = 20
    CacheSize = 2
    Usize = 16
    Layout <- MCLayout
    MaxIncrease = 2
    MaxDataLen = 4
    MaxGrowth = 3
    InputStart = 8
    ForbiddenOffsets <- MCForbiddenOffsets
    Calls <- MCCalls
    Addresses = {0, 1, 2, 3, 6, 8, 9, 10, 11, 13, 14, 15, 20}
    SyscallAddresses = {1, 9, 10, 14}
    AccessLens = {1, 2}
    InitialDeltas = {0, 2}
    MaxAccesses = 1
SPECIFICATION Spec
INVARIANTS
    CacheCoherent
    DetectionIsExact
    ModifiedIsTouched
    FaultsAreOutsideData
    MirrorsAccounts
    HeldPointersLive
    GrowthBounded
    NoRejectedRegion
PROPERTIES
    DeltaFollowsLengths
