SPECIFICATION Spec
CONSTANTS
    InstructionLists <- MCInstructionLists
    RangeLists <- MCRangeLists
    IndexChoices <- MCIndexChoices
    U16 <- MCU16
INVARIANTS
    OffsetsSelectForbiddenBytes
    OffsetsSpareOtherInstructions
CHECK_DEADLOCK FALSE
