CONSTANTS
    n1 = n1
    n2 = n2
    cA = cA
    cB = cB
    cC = cC
    NoData = NoData
    Nodes <- SwapNodes
    Chunks <- SwapChunks
    HasChunks <- SwapHas
    GetChunks <- SwapGet
    MAX_SEQ_NUM = 2
    MAX_TO_COUNTS = 3
    MAX_DUP_ACKS = 3
    MaxConn = 1
    DEFAULT_SS_THRESH = 2
    MaxWind = 2
    Duplicates = FALSE
    MaxLoss = 2
SPECIFICATION LivenessSpec
PROPERTY AcquisitionLive
