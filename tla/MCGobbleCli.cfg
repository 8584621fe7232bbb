CONSTANTS
    T1 = T1
    T2 = T2
    P = P
    PD = PD
    R = R
    RD = RD
    L = L
    W = W
    I = I
    Old = Old
    New = New
    Bad = Bad
    None = None
    Keys <- MCKeys
    Sysvar = I
    Messages <- MCMessages
    LedgerStates <- MCLedgerStates
    FirstLedger <- MCFirstLedger
    Elfs = {Old, New, Bad}
    BadElf = Bad
    MaxChanges = 3
SPECIFICATION Spec
INVARIANTS
    KeysFollowMessage
    ProgramsRunTheirOwnImage
    
