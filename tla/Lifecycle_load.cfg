CONSTANTS
    RpcThreads = {w1, w2}
    Users = {u1, u2}
    MaxLoads = 2
SPECIFICATION FairSpec
INVARIANTS TypeOK SyscallsReady RpcReadyWhenLoaded NothingLeft
PROPERTY LoadEnds
CHECK_DEADLOCK FALSE
