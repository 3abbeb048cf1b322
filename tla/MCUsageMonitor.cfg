SPECIFICATION Spec
CONSTANTS
    Monitors = {m1, m2}
    Savers = {s1, s2}
    Viewers = {v1}
    Ports = {p1}
    MaxTraffic = 2
    MaxFaults = 1
INVARIANTS Accounting FileStaysDecodable
PROPERTY UsageIsSaved
CHECK_DEADLOCK FALSE
