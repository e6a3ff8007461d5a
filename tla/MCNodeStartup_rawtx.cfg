\* A client calls SendRawTx during start-up.
CONSTANTS
    Orders <- StakeFirstOrders
    EarlyEmit = FALSE
    StateCap = 10
    AttCap = 1
    GossipCap = 1
    PoolCap = 1
    MaxRaw = 1
    MaxGossip = 0
    MaxFails = 0
SPECIFICATION Spec
CHECK_DEADLOCK FALSE
INVARIANT RawTxReachesPool
