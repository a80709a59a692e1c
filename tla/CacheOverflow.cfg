SPECIFICATION Spec
CONSTANTS
    setBits = 0
    linesPerSet = 2
    blockBits = 1
    lfu = 0
    Addrs = {0, 2, 4}
    IntMax = 3
    MaxAccesses = 100
PROPERTIES
    NewestSurvives
CHECK_DEADLOCK FALSE
