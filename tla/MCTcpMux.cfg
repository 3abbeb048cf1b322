SPECIFICATION Spec
CONSTANTS
    Listeners = {l1}
    Sessions = {s1, s2, s3}
    MuxCon = 2
    ChannelSize = 2
    MaxLocals = 3
    MaxFaults = 1
    MaxDials = 2
INVARIANTS TypeOK MuxConBound CountersExact
 
CHECK_DEADLOCK FALSE
