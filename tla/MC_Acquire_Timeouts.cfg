CONSTANTS
    n1 = n1
    n2 = n2
    cA = cA
    cB = cB
    NoData = NoData
    Nodes <- MCNodes
    Chunks <- MCChunks
    HasChunks <- MCHasChunks
    GetChunks <- MCGetChunks
    MAX_SEQ_NUM = 3
    MAX_TO_COUNTS = 3
    MAX_DUP_ACKS = 3
    MaxConn = 2
    DEFAULT_SS_THRESH = 2
    MaxWind = 3
    Duplicates = TRUE
SPECIFICATION Spec
CONSTRAINT InFlightBound
PROPERTY ConsecutiveTimeouts
