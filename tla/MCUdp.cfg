SPECIFICATION Spec
CONSTANTS
    Addrs = {a1, a2}
    Flows = {f1, f2}
    Socks = {s1, s2, s3}
    ChannelSize = 1
    ConnPoolSize = 1
    MaxBuffered = 1
    MaxFaults = 1
    MaxPings = 1
    MaxRestarts = 1
    None = None
SYMMETRY Symmetry
INVARIANTS
    
    DatagramsUnderstood
    TunnelsSuffice
CHECK_DEADLOCK FALSE
