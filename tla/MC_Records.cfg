CONSTANTS
    h1 = h1
    h2 = h2
    p1 = p1
    NoName = NoName
    ZeroData = ZeroData
    Hashes <- MCHashes
    Peers <- MCPeers
    Gets <- MCGets
    MaxGets = 2
    None <- NoName
    Zero <- ZeroData
    HasChunkFile <- MCNoChunks
    MasterFile <- MCNoMaster
SPECIFICATION Spec
INVARIANT ListsPartitioned
