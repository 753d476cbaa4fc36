CONSTANTS
    h1 = h1
    h2 = h2
    p1 = p1
    NoName = NoName
    ZeroData = ZeroData
    Hashes <- MCSetupHashes
    Peers <- MCPeers
    Gets <- MCSetupGets
    MaxGets = 1
    None <- NoName
    Zero <- ZeroData
    HasChunkFile <- MCHasChunks
    MasterFile <- MCMaster
SPECIFICATION Spec
INVARIANT OutputMatchesGet
