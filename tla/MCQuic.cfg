SPECIFICATION QuicSpec
CONSTANTS
    Conns = {c1, c2, c3, c4}
    ChannelSize = 1
    MuxCon = 2
    ConnectionPool = 2
    MaxUnderWay = 1
    MaxQuicFaults = 1
    None = None
 
CHECK_DEADLOCK FALSE
PROPERTY ServedUnlessHalted
