\* The producers send their states in any order, after stateListener has
\* subscribed; no transactions and no forge failure.
CONSTANTS
    Orders <- AnyOrders
    EarlyEmit = FALSE
    StateCap = 10
    AttCap = 1
    GossipCap = 1
    PoolCap = 1
    MaxRaw = 0
    MaxGossip = 0
    MaxFails = 0
SPECIFICATION Spec
CHECK_DEADLOCK FALSE
PROPERTY StartupCompletes
