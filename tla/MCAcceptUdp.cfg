SPECIFICATION Spec
CONSTANTS
    Addrs = {a1, a2}
    Flows = {f1, f2}
    ChannelSize = 1
    PayloadSize = 2
    MaxFaults = 2
    Window = 10
    DefaultRtt = 1
    Skew = 0
    Times <- MCTimes
    Rtts = {0, 2}
INVARIANTS TypeOK NoSendOnClosed FlowOwnsEntry 
PROPERTY FlowEnds
CHECK_DEADLOCK FALSE
