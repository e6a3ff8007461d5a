\* One forge failure is reported while the producers' states may still be
\* on their way.
CONSTANTS
    Orders <- StakeFirstOrders
    EarlyEmit = FALSE
    StateCap = 10
    AttCap = 1
    GossipCap = 1
    PoolCap = 1
    MaxRaw = 0
    MaxGossip = 0
    MaxFails = 1
SPECIFICATION Spec
CHECK_DEADLOCK FALSE
PROPERTY StateSendsReturn
