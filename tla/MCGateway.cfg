SPECIFICATION Spec
CONSTANTS
    SniInputs <- MCSniInputs
    HttpInputs <- MCHttpInputs
    Routed <- MCRouted
    Chunk = 4
    CopyBuffer = 3
    MaxHeader = 15
    MaxHello = 30
    MaxFlaps = 2
INVARIANTS
    RoutedByContent
    ReplayedExactly
 
CHECK_DEADLOCK FALSE
