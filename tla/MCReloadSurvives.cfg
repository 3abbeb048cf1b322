SPECIFICATION Spec
CONSTANTS
    Files = {"plain", "behind"}
    Decoded <- SoundFiles
    Broken = "broken"
    Transports = {"tcp", "ws", "udp", "quic"}
    Mappings <- EdgeMappings
    MaxEdits = 1
INVARIANT ReloadSurvives
CHECK_DEADLOCK FALSE
