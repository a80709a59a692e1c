SPECIFICATION MCSpec
CONSTANTS
    setBits = 1
    linesPerSet = 2
    moreLines = 3
    blockBits = 1
    lfu = 0
    IntMax = 8
    MaxAccesses = 7
    Addrs = {0, 2, 4, 8, 12, 15}
INVARIANTS
    TypeOK
    TagsMatchBlocks
    NoBlockTwice
    ClocksOrderLines
    StatisticsAddUp
    LargerIncludesSmaller
PROPERTIES
    ImplementsPolicy
    AccessMovesOneBlock
    NewestSurvives
    EvictsByPolicy
    LfuImplementsPolicy
    LfuEvictsByPolicy
CHECK_DEADLOCK FALSE
