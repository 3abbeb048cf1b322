SPECIFICATION Spec
CONSTANTS
    MaxConns = 4
    ChannelSize = 2
    ConnPoolSize = 1
    MaxFaults = 2
INVARIANTS TypeOK ControlAgreed ControlIsControl CounterErrsLow
PROPERTIES RestartsAreCaused Reconnects
