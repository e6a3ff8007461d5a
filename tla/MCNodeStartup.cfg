\* The producers send StakePoolInitialized before LocalSynced, and only
\* once stateListener has subscribed; one forge failure is reported.
CONSTANTS
    Orders <- StakeFirstOrders
    EarlyEmit = FALSE
    StateCap = 10
    AttCap = 1
    GossipCap = 1
    PoolCap = 1
    MaxRaw = 1
    MaxGossip = 1
    MaxFails = 1
SPECIFICATION Spec
CHECK_DEADLOCK FALSE
INVARIANT TypeOK
INVARIANT PoolStartsAfterSync
PROPERTY StartupCompletes
