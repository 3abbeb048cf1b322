SPECIFICATION PoolSpec
CONSTANTS
    Listeners = {l1}
    Loops = {h1, h2}
    ChannelSize = 1
    ConnPoolSize = 1
    MsgChanSize = 1
    ControlFlowSize = 1
    Period = 2
    Aggressive = TRUE
    MaxLocals = 2
    MaxFaults = 1
    MaxPool = 2
INVARIANTS PoolTypeOK PoolBalance NoLocalStranded PoolCounterExact
CHECK_DEADLOCK FALSE
