CONSTANTS
    HashBytes = {0, 90, 171}
    DataBytes = {7, 255}
    DataIndexes = {0, 1, 524}
    AckNums = {0, 1, 2, 525}
    JunkHashNums = {0, 1, 74, 200}
    StaleBytes = {0, 1, 74, 200}
    Foreign = {}
CHECK_DEADLOCK FALSE
SPECIFICATION CodecSpec
INVARIANT WrittenInBuffer
