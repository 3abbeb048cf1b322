SPECIFICATION Spec
CONSTANTS
    Files = {"plain", "behind", "clients", "idle", "hidden", "unstable", "clash", "toudp"}
    Decoded <- AllFiles
    Broken = "broken"
    Transports = {"tcp", "ws", "udp", "quic"}
    Mappings <- EdgeMappings
    MaxEdits = 2
 
 
PROPERTY NewestInForce
CHECK_DEADLOCK FALSE
