CONSTANTS
    None = None
    p1 = p1
    b1 = b1
    b2 = b2
    Programs = {p1}
    LoaderV4 = {}
    Broken = {p1}
    Batches = {b1, b2}
    MaxSlot = 3
    PreparationStart = 1
    EpochStart = 3
    HighestSlotAtStartup = 0
    ShrinkTo = 1
    LeftBehindRun = FALSE
SYMMETRY Symmetry
SPECIFICATION Spec
INVARIANTS
    EnvironmentMatches
