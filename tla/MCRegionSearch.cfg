CONSTANTS
    MaxRegions = 7
    MaxAddress = 3
SPECIFICATION Spec
INVARIANTS
    FindsLastRegionBelow
    UncheckedReadsInBounds
