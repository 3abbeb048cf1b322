--------------------------------- MODULE Tcp ---------------------------------
(***************************************************************************)
(* What the two models of the tcp transport have in common: TcpPool, the   *)
(* data path while one control channel is up, and TcpLifecycle, how that   *)
(* channel is established and lost.                                        *)
(***************************************************************************)
EXTENDS Integers

CONSTANTS
    ChannelSize,  \* capacity of tunnelChannel, localChannel and reqNewConnChan
    ConnPoolSize, \* the client's connection_pool
    MaxFaults     \* bound: broken connections, failed dials and late answers

VARIABLES
    localQ,          \* server: number of connections in localChannel
    poolConnections, \* client: counter of pooled tunnel connections
    faults           \* history: faults that happened
==============================================================================
