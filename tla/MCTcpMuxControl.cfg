SPECIFICATION Spec
CONSTANTS
    Clients = {c1, c2}
    MaxConns = 4
    MultiIP = {TRUE, FALSE}
    MaxFaults = 1
INVARIANTS TypeOK OneChannelPerClient RoundRobinFair
PROPERTIES AllJoin OneIsServed
