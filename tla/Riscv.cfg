SPECIFICATION FairSimSpec
CONSTANTS
    byteBits = 2
    immBits = 5
    shamtBits = 3
    Regs = {0, 1, 2, 3, 10, 11}
    MemorySpace = 64
    InstructionOf <- Decoded
    Commands <- MCAllCommands
    StartAddress = 4
    GlobalPointer = 48
    StackPointer = 59
    Flush <- MCFlush
    Nop <- MCNop
    EcallBits <- MCEcallBits
    Garbage <- MCGarbage
INVARIANTS
    SimTypeOK
    FetchFindsFile
    StagesHoldLines
    FlushDrains
    NoFetchPastMemory
    FlushSparesProgram
PROPERTIES
    ImplementsComments
    DumpReadsWholeLines
    StopsWithoutExit
