SPECIFICATION PoolSpec
CONSTANTS
    Listeners = {l1}
    Loops = {h1}
    ChannelSize = 3
    ConnPoolSize = 1
    MsgChanSize = 1
    ControlFlowSize = 4
    Period = 2
    Aggressive = FALSE
    MaxLocals = 1
    MaxFaults = 2
    MaxPool = 3
PROPERTIES LocalIsServed 
CHECK_DEADLOCK FALSE
