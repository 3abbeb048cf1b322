------------------------------- MODULE TcpPool -------------------------------
(***************************************************************************)
(* The data path of the tcp transport while one control channel is up:     *)
(* how the server turns accepted local connections into requests for       *)
(* tunnel connections, and how the client's pool answers them.             *)
(*                                                                         *)
(*   server   internal/server/transport/tcp.go: acceptLocalConn,           *)
(*            enqueueInbound, channelHandler (the SG_Chan branch),         *)
(*            acceptTunnelConn, handleLoop                                 *)
(*   client   internal/client/transport/tcp.go: channelHandler (the        *)
(*            SG_Chan branch), poolMaintainer, tunnelDialer                *)
(*                                                                         *)
(* Connections are interchangeable here, so a channel is its length, and   *)
(* the control connection is the number of SG_Chan bytes on it.  Loss of   *)
(* the control channel and Restart belong to TcpLifecycle.                 *)
(***************************************************************************)
EXTENDS Tcp, FiniteSets

CONSTANTS
    Listeners,       \* local listeners (goroutines of acceptLocalConn)
    Loops,           \* handleLoop goroutines (min(NumCPU, 4))
    MsgChanSize,     \* capacity of the client's msgChan (1000 in the code)
    ControlFlowSize, \* capacity of the client's controlFlow (100 in the code)
    Period,          \* pool ticks per load tick (10 in the code)
    Aggressive,      \* the client's aggressive_pool
    MaxLocals,       \* bound: local connections that arrive
    MaxPool          \* bound: the largest pool size that is explored

ASSUME PoolAssumption ==
    /\ IsFiniteSet(Listeners)
    /\ IsFiniteSet(Loops)
    /\ ChannelSize \in Nat \ {0}
    /\ ConnPoolSize \in Nat \ {0}
    /\ MsgChanSize \in Nat \ {0}
    /\ ControlFlowSize \in Nat \ {0}
    /\ Period \in Nat \ {0, 1}
    /\ Aggressive \in BOOLEAN
    /\ MaxLocals \in Nat
    /\ MaxFaults \in Nat
    /\ MaxPool \in Nat

VARIABLES
    accPc,           \* [Listeners -> {"accept", "request"}]
    loopPc,          \* [Loops -> {"idle", "check", "wait"}]
    reqQ,            \* tokens in reqNewConnChan
    liveQ,           \* usable connections in tunnelChannel
    deadQ,           \* connections in tunnelChannel whose client end is gone
    wire,            \* SG_Chan bytes on the control connection
    msgChan,         \* SG_Chan bytes in the client's msgChan
    maintPc,         \* poolMaintainer: "fill", "select" or "release"
    newPoolSize,     \* poolMaintainer's target
    controlFlow,     \* tokens in controlFlow
    load,            \* loadConnections
    poolSum,         \* poolConnectionsSum
    samples,         \* pool ticks since the last load tick
    dialing,         \* tunnelDialers that are dialing
    backlog,         \* established, not yet accepted by the server
    assigned,        \* target sent by the server, not yet read by the client
    closing,         \* closed by the server, not yet noticed by the client
    arrivals,        \* history: local connections that arrived
    released,        \* history: locals that left without using up a tunnel
    lost             \* history: requests and tunnels that were lost

poolServerVars == <<accPc, loopPc, localQ, reqQ, liveQ, deadQ>>
maintVars  == <<maintPc, newPoolSize, poolSum, samples>>
connVars   == <<dialing, backlog, assigned, closing>>
histVars   == <<arrivals, released, lost, faults>>
poolVars == <<poolServerVars, wire, msgChan, maintVars, controlFlow, load,
          poolConnections, connVars, histVars>>

PoolInit ==
    /\ accPc = [l \in Listeners |-> "accept"]
    /\ loopPc = [h \in Loops |-> "idle"]
    /\ localQ = 0 /\ reqQ = 0 /\ liveQ = 0 /\ deadQ = 0
    /\ wire = 0 /\ msgChan = 0
    /\ maintPc = "fill" /\ newPoolSize = 0 /\ poolSum = 0 /\ samples = 0
    /\ controlFlow = 0 /\ load = 0 /\ poolConnections = 0
    /\ dialing = 0 /\ backlog = 0 /\ assigned = 0 /\ closing = 0
    /\ arrivals = 0 /\ released = 0 /\ lost = 0 /\ faults = 0

-----------------------------------------------------------------------------
(* Server: local connections in, requests for tunnel connections out.      *)

\* acceptLocalConn -> enqueueInbound, first half: the connection goes into
\* localChannel.  The request follows in a step of its own, since a
\* handleLoop may take the connection in between.
AcceptLocal(l) ==
    /\ accPc[l] = "accept"
    /\ arrivals < MaxLocals
    /\ localQ < ChannelSize
    /\ localQ' = localQ + 1
    /\ accPc' = [accPc EXCEPT ![l] = "request"]
    /\ arrivals' = arrivals + 1
    /\ UNCHANGED <<loopPc, reqQ, liveQ, deadQ, wire, msgChan, maintVars, controlFlow,
                   load, poolConnections, connVars, released, lost, faults>>

\* localChannel is full: enqueueInbound returns false and the caller closes
\* the connection.
DiscardLocal(l) ==
    /\ accPc[l] = "accept"
    /\ arrivals < MaxLocals
    /\ localQ = ChannelSize
    /\ arrivals' = arrivals + 1
    /\ UNCHANGED <<poolServerVars, wire, msgChan, maintVars, controlFlow, load,
                   poolConnections, connVars, released, lost, faults>>

\* enqueueInbound, second half: a full reqNewConnChan loses the request
\* although the connection stays queued.
RequestTunnel(l) ==
    /\ accPc[l] = "request"
    /\ accPc' = [accPc EXCEPT ![l] = "accept"]
    /\ \/ reqQ < ChannelSize /\ reqQ' = reqQ + 1 /\ lost' = lost
       \/ reqQ = ChannelSize /\ reqQ' = reqQ /\ lost' = lost + 1
    /\ UNCHANGED <<loopPc, localQ, liveQ, deadQ, wire, msgChan, maintVars,
                   controlFlow, load, poolConnections, connVars, arrivals, released,
                   faults>>

\* channelHandler: a request becomes an SG_Chan byte on the control channel.
SendRequest ==
    /\ reqQ > 0
    /\ reqQ' = reqQ - 1
    /\ wire' = wire + 1
    /\ UNCHANGED <<accPc, loopPc, localQ, liveQ, deadQ, msgChan, maintVars,
                   controlFlow, load, poolConnections, connVars, histVars>>

\* Mutant: the connection is queued without looking for room.
AcceptTunnelUnchecked ==
    /\ backlog > 0
    /\ backlog' = backlog - 1
    /\ liveQ' = liveQ + 1
    /\ UNCHANGED <<accPc, loopPc, localQ, reqQ, deadQ, wire, msgChan, maintVars,
                   controlFlow, load, poolConnections, dialing, assigned, closing,
                   histVars>>

\* acceptTunnelConn: a tunnel connection is queued, or closed when
\* tunnelChannel is full.
AcceptTunnel ==
    /\ backlog > 0
    /\ backlog' = backlog - 1
    /\ \/ /\ liveQ + deadQ < ChannelSize
          /\ liveQ' = liveQ + 1
          /\ UNCHANGED <<closing, lost>>
       \/ /\ liveQ + deadQ = ChannelSize
          /\ closing' = closing + 1
          /\ lost' = lost + 1
          /\ UNCHANGED liveQ
    /\ UNCHANGED <<accPc, loopPc, localQ, reqQ, deadQ, wire, msgChan, maintVars,
                   controlFlow, load, poolConnections, dialing, assigned, arrivals,
                   released, faults>>

-----------------------------------------------------------------------------
(* Server: handleLoop.                                                     *)

\* A handleLoop takes a local connection.
TakeLocal(h) ==
    /\ loopPc[h] = "idle"
    /\ localQ > 0
    /\ localQ' = localQ - 1
    /\ loopPc' = [loopPc EXCEPT ![h] = "check"]
    /\ UNCHANGED <<accPc, reqQ, liveQ, deadQ, wire, msgChan, maintVars, controlFlow,
                   load, poolConnections, connVars, histVars>>

\* The connection is older than 3000 ms: it is closed.  The age is looked at
\* only before the loop starts to wait for a tunnel connection.
ExpireLocal(h) ==
    /\ loopPc[h] = "check"
    /\ loopPc' = [loopPc EXCEPT ![h] = "idle"]
    /\ released' = released + 1
    /\ UNCHANGED <<accPc, localQ, reqQ, liveQ, deadQ, wire, msgChan, maintVars,
                   controlFlow, load, poolConnections, connVars, arrivals, lost, faults>>

\* The connection is young enough: wait for a tunnel connection.
AwaitTunnel(h) ==
    /\ loopPc[h] = "check"
    /\ loopPc' = [loopPc EXCEPT ![h] = "wait"]
    /\ UNCHANGED <<accPc, localQ, reqQ, liveQ, deadQ, wire, msgChan, maintVars,
                   controlFlow, load, poolConnections, connVars, histVars>>

\* A usable tunnel connection: the target is sent over it and the pair is
\* handed to TCPConnectionHandler.
BridgeLive(h) ==
    /\ loopPc[h] = "wait"
    /\ liveQ > 0
    /\ liveQ' = liveQ - 1
    /\ assigned' = assigned + 1
    /\ loopPc' = [loopPc EXCEPT ![h] = "idle"]
    /\ UNCHANGED <<accPc, localQ, reqQ, deadQ, wire, msgChan, maintVars, controlFlow,
                   load, poolConnections, dialing, backlog, closing, histVars>>

\* A dead tunnel connection and the send fails: the tunnel connection is
\* closed and the loop starts over, age check included.
SkipDead(h) ==
    /\ loopPc[h] = "wait"
    /\ deadQ > 0
    /\ deadQ' = deadQ - 1
    /\ loopPc' = [loopPc EXCEPT ![h] = "check"]
    /\ UNCHANGED <<accPc, localQ, reqQ, liveQ, wire, msgChan, maintVars, controlFlow,
                   load, poolConnections, connVars, histVars>>

\* A dead tunnel connection and the kernel still takes the bytes: the pair
\* is bridged, and TCPConnectionHandler will close both ends.
BridgeDead(h) ==
    /\ loopPc[h] = "wait"
    /\ deadQ > 0
    /\ deadQ' = deadQ - 1
    /\ loopPc' = [loopPc EXCEPT ![h] = "idle"]
    /\ released' = released + 1
    /\ UNCHANGED <<accPc, localQ, reqQ, liveQ, wire, msgChan, maintVars, controlFlow,
                   load, poolConnections, connVars, arrivals, lost, faults>>

-----------------------------------------------------------------------------
(* Client: channelHandler.                                                 *)

\* The reading goroutine: ReceiveBinaryByte, then the send to msgChan.
ReadRequest ==
    /\ wire > 0
    /\ msgChan < MsgChanSize
    /\ wire' = wire - 1
    /\ msgChan' = msgChan + 1
    /\ UNCHANGED <<poolServerVars, maintVars, controlFlow, load, poolConnections, connVars,
                   histVars>>

\* Mutant: a token is taken and a tunnelDialer is started as well.
HandleRequestBoth ==
    /\ msgChan > 0
    /\ msgChan' = msgChan - 1
    /\ load' = load + 1
    /\ controlFlow' = IF controlFlow > 0 THEN controlFlow - 1 ELSE 0
    /\ dialing' = dialing + 1
    /\ UNCHANGED <<poolServerVars, wire, maintVars, poolConnections, backlog, assigned,
                   closing, histVars>>

\* SG_Chan: a waiting controlFlow token swallows the request, otherwise a
\* tunnelDialer starts.
HandleRequest ==
    /\ msgChan > 0
    /\ msgChan' = msgChan - 1
    /\ load' = load + 1
    /\ \/ controlFlow > 0 /\ controlFlow' = controlFlow - 1 /\ dialing' = dialing
       \/ controlFlow = 0 /\ controlFlow' = 0 /\ dialing' = dialing + 1
    /\ UNCHANGED <<poolServerVars, wire, maintVars, poolConnections, backlog, assigned,
                   closing, histVars>>

-----------------------------------------------------------------------------
(* Client: poolMaintainer.                                                 *)

\* The factors a, b, x and y; y is kept in quarters (4.0 and 0.75).
FactorA == IF Aggressive THEN 1 ELSE 4
FactorB == IF Aggressive THEN 2 ELSE 5
FactorX == IF Aggressive THEN 0 ELSE 3
FactorY4 == IF Aggressive THEN 3 ELSE 16

\* (n + 9) / 10
PerTick(n) == (n + Period - 1) \div Period

\* Mutant: an empty pool under little load does not grow.
GrowsOverstrict == PerTick(load) > PerTick(poolSum) * FactorB

Grows == PerTick(load) + FactorA > PerTick(poolSum) * FactorB

\* Mutant: x is added on the wrong side, so an idle pool never shrinks.
ShrinksSwapped ==
    /\ ~Grows
    /\ 4 * PerTick(load) > PerTick(poolSum) * FactorY4 + 4 * FactorX
    /\ newPoolSize > ConnPoolSize

\* Mutant: the pool may shrink below the configured size.
ShrinksBelow ==
    /\ ~Grows
    /\ 4 * (PerTick(load) + FactorX) < PerTick(poolSum) * FactorY4
    /\ newPoolSize > 0

Shrinks ==
    /\ ~Grows
    /\ 4 * (PerTick(load) + FactorX) < PerTick(poolSum) * FactorY4
    /\ newPoolSize > ConnPoolSize

\* The initial filling of the pool.
FillPool ==
    /\ maintPc = "fill"
    /\ maintPc' = "select"
    /\ newPoolSize' = ConnPoolSize
    /\ dialing' = dialing + ConnPoolSize
    /\ UNCHANGED <<poolServerVars, wire, msgChan, poolSum, samples, controlFlow, load,
                   poolConnections, backlog, assigned, closing, histVars>>

\* tickerPool: sample poolConnections.
TickPool ==
    /\ maintPc = "select"
    /\ samples < Period
    /\ poolSum' = poolSum + poolConnections
    /\ samples' = samples + 1
    /\ UNCHANGED <<poolServerVars, wire, msgChan, maintPc, newPoolSize, controlFlow, load,
                   poolConnections, connVars, histVars>>

\* tickerLoad: adjust the pool size.  The two tickers run side by side, so a
\* load tick may come one sample early.  At the bound MaxPool the pool is
\* left as it is.
TickLoad ==
    /\ maintPc = "select"
    /\ samples >= Period - 1
    /\ load' = 0
    /\ poolSum' = 0
    /\ samples' = 0
    /\ \/ /\ Grows
          /\ newPoolSize < MaxPool
          /\ newPoolSize' = newPoolSize + 1
          /\ dialing' = dialing + 1
          /\ UNCHANGED maintPc
       \/ /\ Shrinks
          /\ newPoolSize' = newPoolSize - 1
          /\ maintPc' = "release"
          /\ UNCHANGED dialing
       \/ /\ Grows => newPoolSize = MaxPool
          /\ ~Shrinks
          /\ UNCHANGED <<newPoolSize, maintPc, dialing>>
    /\ UNCHANGED <<poolServerVars, wire, msgChan, controlFlow, poolConnections, backlog,
                   assigned, closing, histVars>>

\* c.controlFlow <- struct{}{}: blocks the maintainer while controlFlow is full.
ReleaseOne ==
    /\ maintPc = "release"
    /\ controlFlow < ControlFlowSize
    /\ controlFlow' = controlFlow + 1
    /\ maintPc' = "select"
    /\ UNCHANGED <<poolServerVars, wire, msgChan, newPoolSize, poolSum, samples, load,
                   poolConnections, connVars, histVars>>

-----------------------------------------------------------------------------
(* Client: tunnelDialer.                                                   *)

\* TcpDialer succeeds: the connection is in the server's backlog and counted.
DialOk ==
    /\ dialing > 0
    /\ dialing' = dialing - 1
    /\ backlog' = backlog + 1
    /\ poolConnections' = poolConnections + 1
    /\ UNCHANGED <<poolServerVars, wire, msgChan, maintVars, controlFlow, load, assigned,
                   closing, histVars>>

\* All attempts of TcpDialer fail: the dialer is gone, "without retry".
DialFail ==
    /\ dialing > 0
    /\ faults < MaxFaults
    /\ faults' = faults + 1
    /\ dialing' = dialing - 1
    /\ lost' = lost + 1
    /\ UNCHANGED <<poolServerVars, wire, msgChan, maintVars, controlFlow, load,
                   poolConnections, backlog, assigned, closing, arrivals, released>>

\* The target arrives: the connection leaves the pool for localDialer.
RecvTarget ==
    /\ assigned > 0
    /\ assigned' = assigned - 1
    /\ poolConnections' = poolConnections - 1
    /\ UNCHANGED <<poolServerVars, wire, msgChan, maintVars, controlFlow, load, dialing,
                   backlog, closing, histVars>>

\* Mutant: the counter is decremented only when a target was received.
RecvClosedUncounted ==
    /\ closing > 0
    /\ closing' = closing - 1
    /\ UNCHANGED <<poolServerVars, wire, msgChan, maintVars, controlFlow, load,
                   poolConnections, dialing, backlog, assigned, histVars>>

\* The server closed the connection: the read fails.
RecvClosed ==
    /\ closing > 0
    /\ closing' = closing - 1
    /\ poolConnections' = poolConnections - 1
    /\ UNCHANGED <<poolServerVars, wire, msgChan, maintVars, controlFlow, load, dialing,
                   backlog, assigned, histVars>>

\* A pooled connection breaks: the client's read fails, the server keeps the
\* dead connection in tunnelChannel.
TunnelBreaks ==
    /\ liveQ > 0
    /\ faults < MaxFaults
    /\ faults' = faults + 1
    /\ liveQ' = liveQ - 1
    /\ deadQ' = deadQ + 1
    /\ poolConnections' = poolConnections - 1
    /\ lost' = lost + 1
    /\ UNCHANGED <<accPc, loopPc, localQ, reqQ, wire, msgChan, maintVars, controlFlow,
                   load, connVars, arrivals, released>>

-----------------------------------------------------------------------------
Acceptor(l) == AcceptLocal(l) \/ DiscardLocal(l) \/ RequestTunnel(l)

HandleLoop(h) ==
    TakeLocal(h) \/ ExpireLocal(h) \/ AwaitTunnel(h) \/ BridgeLive(h)
        \/ SkipDead(h) \/ BridgeDead(h)

PoolMaintainer == FillPool \/ TickPool \/ TickLoad \/ ReleaseOne

PoolNext ==
    \/ \E l \in Listeners : Acceptor(l)
    \/ \E h \in Loops : HandleLoop(h)
    \/ SendRequest \/ AcceptTunnel
    \/ ReadRequest \/ HandleRequest
    \/ PoolMaintainer
    \/ DialOk \/ DialFail \/ RecvTarget \/ RecvClosed
    \/ TunnelBreaks

(***************************************************************************)
(* Goroutines that can run do run, bytes and connections in flight arrive. *)
(* The two tickers of poolMaintainer both keep firing.  Nothing is assumed *)
(* of local clients, of the clock in ExpireLocal or of faults.             *)
(***************************************************************************)
PoolFairness ==
    /\ \A l \in Listeners : WF_poolVars(RequestTunnel(l))
    /\ \A h \in Loops : WF_poolVars(HandleLoop(h))
    /\ WF_poolVars(SendRequest) /\ WF_poolVars(AcceptTunnel)
    /\ WF_poolVars(ReadRequest) /\ WF_poolVars(HandleRequest)
    /\ WF_poolVars(FillPool) /\ WF_poolVars(TickPool) /\ WF_poolVars(ReleaseOne)
    /\ WF_poolVars(TickLoad)
    /\ WF_poolVars(DialOk) /\ WF_poolVars(RecvTarget) /\ WF_poolVars(RecvClosed)

PoolSpec == PoolInit /\ [][PoolNext]_poolVars /\ PoolFairness

-----------------------------------------------------------------------------
(* Properties.                                                             *)

Busy == {h \in Loops : loopPc[h] # "idle"}
Requesting == {l \in Listeners : accPc[l] = "request"}

\* Every variable keeps the type of the variable, channel or counter of the
\* code it stands for; the channels never hold more than their capacity.
PoolTypeOK ==
    /\ accPc \in [Listeners -> {"accept", "request"}]
    /\ loopPc \in [Loops -> {"idle", "check", "wait"}]
    /\ localQ \in 0..ChannelSize /\ reqQ \in 0..ChannelSize
    /\ liveQ \in Nat /\ deadQ \in Nat /\ liveQ + deadQ <= ChannelSize
    /\ wire \in Nat /\ msgChan \in 0..MsgChanSize
    /\ maintPc \in {"fill", "select", "release"}
    /\ newPoolSize \in Nat /\ poolSum \in Nat /\ samples \in 0..Period
    /\ controlFlow \in 0..ControlFlowSize
    /\ load \in Nat /\ poolConnections \in Nat
    /\ dialing \in Nat /\ backlog \in Nat /\ assigned \in Nat /\ closing \in Nat
    /\ arrivals \in Nat /\ released \in Nat /\ lost \in Nat /\ faults \in Nat

\* Tunnel connections that can still serve a local connection.
Available == dialing + backlog + liveQ

\* Requests between enqueueInbound and the client's reaction.
Requested == Cardinality(Requesting) + reqQ + wire + msgChan

\* Local connections that wait for a tunnel connection.
Waiting == localQ + Cardinality(Busy)

\* Shrinks the client has decided on and not yet carried out.
ToRelease == controlFlow + (IF maintPc = "release" THEN 1 ELSE 0)

\* The pool never drifts from the size the client believes it has: tunnels
\* available or requested, less the ones to be released and the ones that
\* are spoken for by waiting local connections, are newPoolSize, corrected
\* only by locals that left without a tunnel (expired, or bridged onto a
\* dead one) and by lost requests and tunnels.
PoolBalance ==
    Available + Requested - ToRelease - Waiting = newPoolSize + released - lost

\* Unless a request or a tunnel connection was lost, every waiting local
\* connection has a tunnel of its own available or requested, and the
\* configured ConnPoolSize on top of that.
NoLocalStranded ==
    maintPc # "fill" /\ lost = 0 =>
        Available + Requested >= Waiting + ToRelease + ConnPoolSize

\* poolConnections, on which the growing and shrinking is decided, counts
\* exactly the established connections whose client end waits for a target.
PoolCounterExact == poolConnections = backlog + liveQ + assigned + closing

\* handleLoop waits for a tunnel connection without a timeout.  It still gets
\* one: an empty pool grows on the next load tick, whatever was lost before.
LocalIsServed == \A h \in Loops : loopPc[h] = "wait" ~> loopPc[h] = "idle"

\* Once no local connections arrive any more, the pool goes back to its
\* configured size and stays there, as long as fewer tunnels were lost than
\* it takes to reach the bound MaxPool: the target grows by one for each.
\* (Connections lost in a tunnelChannel that nobody empties stay in it; when
\* they fill it, the server closes every new one and the target never stops
\* growing.)
PoolSettles == <>[](ConnPoolSize + lost < MaxPool => newPoolSize = ConnPoolSize)
=============================================================================
