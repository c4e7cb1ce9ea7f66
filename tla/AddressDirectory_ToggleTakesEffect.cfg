\* Violation run: a flag write through a dangling smsgAddresses iterator.
CONSTANTS
    d1 = d1  d2 = d2  w1 = w1  w2 = w2  r1 = r1  bad = bad
    Threads <- MCDirThreads
    WalletAddrs <- MCWallet
    CompressedAddrs <- MCCompressed
    RemoteAddrs <- MCRemote
    BadAddrs <- MCBad
    ChainKeyAddrs <- MCChain
SYMMETRY DirThreadSymmetry
SPECIFICATION DirSpec
PROPERTY ToggleTakesEffect
