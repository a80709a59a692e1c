SPECIFICATION Spec
CONSTANTS
    byteBits = 2
    immBits = 5
    shamtBits = 3
    Regs = {0, 1, 2, 3, 10, 11}
    MemorySpace = 64
    InstructionOf <- MCInstructionOf
    Commands <- MCSrlCommands
    StartAddress = 4
    GlobalPointer = 48
    StackPointer = 59
PROPERTIES
    SrlBringsInZeros
