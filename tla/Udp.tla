--------------------------------- MODULE Udp ---------------------------------
(***************************************************************************)
(* The udp transport: server/transport/udp.go and client/transport/udp.go. *)
(*                                                                         *)
(* A flow is what one local address sends to a port of the server; a       *)
(* tunnel is a UDP socket of the client that has shown the server its      *)
(* token.  handleLoop pairs them and tells the client the target, which    *)
(* until then gets pings from keepAlive.  Datagrams may be lost.  What a   *)
(* bridged client sends back passes udpTunnelCopy without changing any of  *)
(* this and is left out; that half of a flow may become idle at any time.  *)
(*                                                                         *)
(* One port mapping, hence one localListener and one handleLoop.  The      *)
(* control channel is the one of TcpLifecycle, whose code udp.go repeats;  *)
(* here it carries requests, and its loss is one step that restarts both   *)
(* sides.  The pool's growing and shrinking is TcpPool's.                  *)
(***************************************************************************)
EXTENDS Integers, Sequences, FiniteSets

CONSTANTS
    Addrs,        \* addresses of local users
    Flows,        \* names for LocalUDPConns
    Socks,        \* ports the client's tunnel sockets get
    ChannelSize,  \* of udpChan, tunnelChannel and reqNewConnChan
    ConnPoolSize, \* connection_pool of the client
    MaxBuffered,  \* bound: packets in a payload channel or on the way
    MaxFaults,    \* bound: lost datagrams and failed writes
    MaxPings,     \* bound: pings sent
    MaxRestarts,  \* bound: restarts
    None

ASSUME UdpAssumption ==
    /\ ChannelSize \in Nat \ {0} /\ ConnPoolSize \in Nat
    /\ MaxBuffered \in Nat \ {0}
    /\ MaxFaults \in Nat /\ MaxPings \in Nat /\ MaxRestarts \in Nat
    /\ None \notin Flows \cup Socks

VARIABLES
    gen,        \* which run between two restarts this is
    lmap,       \* localListener's activeConnections: address -> flow
    flow,       \* the LocalUDPConns: see FlowType
    first,      \* the flow whose first packet the listener is about to buffer
    udpChan,    \* flows waiting for handleLoop
    held,       \* what handleLoop is at: [flow, sock]
    reqs,       \* tokens in reqNewConnChan
    asked,      \* tunnels the client was asked for and has not dialed
    tmap,       \* activeConnections of the transport: ports with an entry
    tunnel,     \* the TunnelUDPConns of this run, by port: see TunnelType
    tunnelChan, \* ports waiting in tunnelChannel
    sock,       \* the client's sockets
    up, down,   \* datagrams on their way from each socket (its token) and to it
    faults,     \* datagrams lost and writes failed
    pings,      \* pings sent
    lost        \* tunnels of this run that were not asked for or never came

vars == <<gen, lmap, flow, first, udpChan, held, reqs, asked, tmap, tunnel,
          tunnelChan, sock, up, down, faults, pings, lost>>
local == <<lmap, first, udpChan>>
control == <<reqs, asked>>
network == <<up, down>>

FlowStates == {"none", "queued", "held", "skipped", "serving", "closed", "dropped"}
FlowType == [st : FlowStates, addr : Addrs \cup {None}, gen : 0..MaxRestarts,
             sock : Socks \cup {None}, halves : SUBSET {"local", "tunnel"},
             buffered : 0..MaxBuffered]

\* The ping channel is closed from "taken" on; mu is locked by the handler or
\* while keepAlive is at "locked"; alive is where keepAlive is.
TunnelType == [st : {"none", "pooled", "taken", "bound", "closed"},
               handler : BOOLEAN, alive : {"none", "wait", "locked"}]

FlowOf(a, st, run) ==
    [st |-> st, addr |-> a, gen |-> run, sock |-> None, halves |-> {}, buffered |-> 0]
NoFlow == FlowOf(None, "none", 0)
NoTunnel == [st |-> "none", handler |-> FALSE, alive |-> "none"]
Locked(s) == tunnel[s].handler \/ tunnel[s].alive = "locked"

TypeOK ==
    /\ gen \in 0..MaxRestarts
    /\ lmap \in [Addrs -> Flows \cup {None}]
    /\ flow \in [Flows -> FlowType]
    /\ first \in Flows \cup {None}
    /\ udpChan \in Seq(Flows) /\ Len(udpChan) <= ChannelSize
    /\ held \in [flow : Flows \cup {None}, sock : Socks \cup {None}]
    /\ reqs \in 0..ChannelSize /\ asked \in Nat
    /\ tmap \subseteq Socks
    /\ tunnel \in [Socks -> TunnelType]
    /\ tunnelChan \in Seq(Socks) /\ Len(tunnelChan) <= ChannelSize
    /\ sock \in [Socks -> {"unused", "waiting", "bridged", "closed"}]
    /\ up \in [Socks -> BOOLEAN]
    /\ down \in [Socks -> Seq({"ping", "target", "data"})]
    /\ faults \in 0..MaxFaults /\ pings \in 0..MaxPings /\ lost \in Nat

\* The pool is dialed first: poolMaintainer's initial filling.
Init ==
    /\ gen = 0
    /\ lmap = [a \in Addrs |-> None] /\ flow = [f \in Flows |-> NoFlow]
    /\ first = None /\ udpChan = <<>>
    /\ held = [flow |-> None, sock |-> None]
    /\ reqs = 0 /\ asked = ConnPoolSize
    /\ tmap = {} /\ tunnel = [s \in Socks |-> NoTunnel] /\ tunnelChan = <<>>
    /\ sock = [s \in Socks |-> "unused"]
    /\ up = [s \in Socks |-> FALSE] /\ down = [s \in Socks |-> <<>>]
    /\ faults = 0 /\ pings = 0 /\ lost = 0

\* A payload channel takes a packet if it has room.
Buffer(n) == IF n < MaxBuffered THEN n + 1 ELSE n

-----------------------------------------------------------------------------
(* localListener.                                                          *)

\* A packet of an active flow.
LocalPacket(a) ==
    /\ first = None /\ lmap[a] # None
    /\ flow' = [flow EXCEPT ![lmap[a]].buffered = Buffer(@)]
    /\ UNCHANGED <<gen, local, held, control, tmap, tunnel, tunnelChan, sock,
                   network, faults, pings, lost>>

\* Mutant: a flow that finds udpChan full keeps its entry, as in accept_udp.go.
NewFlowKept(a) ==
    /\ first = None /\ lmap[a] = None
    /\ \E f \in Flows :
          /\ flow[f].st = "none"
          /\ flow' = [flow EXCEPT ![f] =
                FlowOf(a, IF Len(udpChan) < ChannelSize THEN "queued" ELSE "dropped", gen)]
          /\ lmap' = [lmap EXCEPT ![a] = f]
          /\ IF Len(udpChan) < ChannelSize
             THEN udpChan' = Append(udpChan, f) /\ first' = f
             ELSE UNCHANGED <<udpChan, first>>
    /\ UNCHANGED <<gen, held, control, tmap, tunnel, tunnelChan, sock, network,
                   faults, pings, lost>>

\* A packet of a new address: the flow is stored and queued, or removed again.
NewFlow(a) ==
    /\ first = None /\ lmap[a] = None
    /\ \E f \in Flows :
          /\ flow[f].st = "none"
          /\ \/ /\ Len(udpChan) < ChannelSize
                /\ flow' = [flow EXCEPT ![f] = FlowOf(a, "queued", gen)]
                /\ lmap' = [lmap EXCEPT ![a] = f]
                /\ udpChan' = Append(udpChan, f)
                /\ first' = f
             \/ /\ Len(udpChan) = ChannelSize
                /\ flow' = [flow EXCEPT ![f] = FlowOf(a, "dropped", gen)]
                /\ UNCHANGED local
    /\ UNCHANGED <<gen, held, control, tmap, tunnel, tunnelChan, sock, network,
                   faults, pings, lost>>

\* Mutant: no tunnel is asked for while one is pooled.
FirstPayloadUnasked ==
    /\ first # None
    /\ flow' = [flow EXCEPT ![first].buffered = Buffer(@)]
    /\ first' = None
    /\ reqs' = IF reqs < ChannelSize /\ tunnelChan = <<>> THEN reqs + 1 ELSE reqs
    /\ lost' = IF reqs = ChannelSize THEN lost + 1 ELSE lost
    /\ UNCHANGED <<gen, lmap, udpChan, held, asked, tmap, tunnel, tunnelChan,
                   sock, network, faults, pings>>

\* The first packet goes into the payload channel of a flow that handleLoop may
\* already serve, and then a tunnel is asked for.
FirstPayload ==
    /\ first # None
    /\ flow' = [flow EXCEPT ![first].buffered = Buffer(@)]
    /\ first' = None
    /\ \/ reqs < ChannelSize /\ reqs' = reqs + 1 /\ UNCHANGED lost
       \/ reqs = ChannelSize /\ lost' = lost + 1 /\ UNCHANGED reqs
    /\ UNCHANGED <<gen, lmap, udpChan, held, asked, tmap, tunnel, tunnelChan,
                   sock, network, faults, pings>>

\* channelHandler sends SG_Chan; the client's channelHandler dials for it.
SendRequest ==
    /\ reqs > 0
    /\ reqs' = reqs - 1 /\ asked' = asked + 1
    /\ UNCHANGED <<gen, local, flow, held, tmap, tunnel, tunnelChan, sock,
                   network, faults, pings, lost>>

-----------------------------------------------------------------------------
(* handleLoop.                                                             *)

\* A flow older than 3 s is passed over; its entry stays.
TakeFlow ==
    /\ held.flow = None /\ udpChan # <<>>
    /\ udpChan' = Tail(udpChan)
    /\ \/ /\ flow' = [flow EXCEPT ![Head(udpChan)].st = "skipped"]
          /\ UNCHANGED held
       \/ /\ flow' = [flow EXCEPT ![Head(udpChan)].st = "held"]
          /\ held' = [held EXCEPT !.flow = Head(udpChan)]
    /\ UNCHANGED <<gen, lmap, first, control, tmap, tunnel, tunnelChan, sock,
                   network, faults, pings, lost>>

\* The next tunnel is taken and its ping channel closed.
TakeTunnel ==
    /\ held.flow # None /\ held.sock = None /\ tunnelChan # <<>>
    /\ held' = [held EXCEPT !.sock = Head(tunnelChan)]
    /\ tunnelChan' = Tail(tunnelChan)
    /\ tunnel' = [tunnel EXCEPT ![Head(tunnelChan)].st = "taken"]
    /\ UNCHANGED <<gen, local, flow, control, tmap, sock, network, faults, pings, lost>>

\* With mu, which is never unlocked again, the target is sent and the flow
\* copied; after a failed write the loop takes another tunnel.
SendTarget ==
    /\ held.sock # None /\ ~Locked(held.sock)
    /\ \/ /\ down' = [down EXCEPT ![held.sock] = Append(@, "target")]
          /\ flow' = [flow EXCEPT ![held.flow] =
                [@ EXCEPT !.st = "serving", !.sock = held.sock,
                          !.halves = {"local", "tunnel"}]]
          /\ tunnel' = [tunnel EXCEPT ![held.sock] =
                [@ EXCEPT !.st = "bound", !.handler = TRUE]]
          /\ held' = [flow |-> None, sock |-> None]
          /\ UNCHANGED <<faults, lost>>
       \/ /\ faults < MaxFaults
          /\ faults' = faults + 1 /\ lost' = lost + 1
          /\ tunnel' = [tunnel EXCEPT ![held.sock].handler = TRUE]
          /\ held' = [held EXCEPT !.sock = None]
          /\ UNCHANGED <<down, flow>>
    /\ UNCHANGED <<gen, local, control, tmap, tunnelChan, sock, up, pings>>

-----------------------------------------------------------------------------
(* udpCopy.                                                                *)

\* udpLocalCopy writes a packet to the tunnel, in vain when a restart has closed
\* the listener: then this half ends.
CopyLocal(f) ==
    /\ "local" \in flow[f].halves /\ flow[f].buffered > 0
    /\ \/ /\ flow[f].gen = gen /\ Len(down[flow[f].sock]) < MaxBuffered
          /\ down' = [down EXCEPT ![flow[f].sock] = Append(@, "data")]
          /\ flow' = [flow EXCEPT ![f].buffered = @ - 1]
       \/ /\ flow[f].gen < gen
          /\ flow' = [flow EXCEPT ![f] =
                [@ EXCEPT !.buffered = flow[f].buffered - 1,
                          !.halves = flow[f].halves \ {"local"}]]
          /\ UNCHANGED down
    /\ UNCHANGED <<gen, local, held, control, tmap, tunnel, tunnelChan, sock, up,
                   faults, pings, lost>>

\* A half ends when it had nothing to copy for 60 s, in which the listener has
\* long buffered the first packet.
Idle(f, half) ==
    /\ half \in flow[f].halves /\ first # f
    /\ half = "local" => flow[f].buffered = 0
    /\ flow' = [flow EXCEPT ![f].halves = @ \ {half}]
    /\ UNCHANGED <<gen, local, held, control, tmap, tunnel, tunnelChan, sock,
                   network, faults, pings, lost>>

\* When both halves have ended the payload channels are closed and the entries
\* deleted: the local one from the listener's own map, the tunnel's from the map
\* the transport has by now.
FinishCopy(f) ==
    /\ flow[f].st = "serving" /\ flow[f].halves = {}
    /\ flow' = [flow EXCEPT ![f].st = "closed"]
    /\ tmap' = tmap \ {flow[f].sock}
    /\ IF flow[f].gen = gen
       THEN /\ lmap' = [lmap EXCEPT ![flow[f].addr] = None]
            /\ tunnel' = [tunnel EXCEPT ![flow[f].sock].st = "closed"]
       ELSE UNCHANGED <<lmap, tunnel>>
    /\ UNCHANGED <<gen, first, udpChan, held, control, tunnelChan, sock, network,
                   faults, pings, lost>>

-----------------------------------------------------------------------------
(* acceptTunnelConn and keepAlive.                                         *)

\* The token of a port that is not known yet makes a tunnel, which is queued or
\* removed again; from a known port it is payload.
AcceptTunnel(s) ==
    /\ up[s]
    /\ up' = [up EXCEPT ![s] = FALSE]
    /\ \/ /\ s \notin tmap /\ Len(tunnelChan) < ChannelSize
          /\ tmap' = tmap \cup {s}
          /\ tunnelChan' = Append(tunnelChan, s)
          /\ tunnel' = [tunnel EXCEPT ![s] =
                [st |-> "pooled", handler |-> FALSE, alive |-> "wait"]]
          /\ UNCHANGED lost
       \/ /\ s \in tmap \/ Len(tunnelChan) = ChannelSize
          /\ lost' = lost + 1
          /\ UNCHANGED <<tmap, tunnel, tunnelChan>>
    /\ UNCHANGED <<gen, local, flow, held, control, sock, down, faults, pings>>

\* Mutant: the ping is sent whoever holds mu.
KeepAliveTickUnlocked(s) ==
    /\ tunnel[s].alive = "wait" /\ pings < MaxPings
    /\ tunnel' = [tunnel EXCEPT ![s].alive = "locked"]
    /\ pings' = pings + 1
    /\ UNCHANGED <<gen, local, flow, held, control, tmap, tunnelChan, sock,
                   network, faults, lost>>

\* The ticker: with mu a ping follows, without it keepAlive returns.  A select
\* may choose the ticker although the ping channel is closed.
KeepAliveTick(s) ==
    /\ tunnel[s].alive = "wait" /\ pings < MaxPings
    /\ \/ /\ ~Locked(s)
          /\ tunnel' = [tunnel EXCEPT ![s].alive = "locked"]
          /\ pings' = pings + 1
       \/ /\ Locked(s)
          /\ tunnel' = [tunnel EXCEPT ![s].alive = "none"]
          /\ UNCHANGED pings
    /\ UNCHANGED <<gen, local, flow, held, control, tmap, tunnelChan, sock,
                   network, faults, lost>>

\* The ping is sent and mu unlocked; a failed write ends keepAlive.
SendPing(s) ==
    /\ tunnel[s].alive = "locked"
    /\ \/ /\ down' = [down EXCEPT ![s] = Append(@, "ping")]
          /\ tunnel' = [tunnel EXCEPT ![s].alive = "wait"]
          /\ UNCHANGED faults
       \/ /\ faults < MaxFaults /\ faults' = faults + 1
          /\ tunnel' = [tunnel EXCEPT ![s].alive = "none"]
          /\ UNCHANGED down
    /\ UNCHANGED <<gen, local, flow, held, control, tmap, tunnelChan, sock, up,
                   pings, lost>>

KeepAliveEnds(s) ==
    /\ tunnel[s].alive = "wait" /\ tunnel[s].st # "pooled"
    /\ tunnel' = [tunnel EXCEPT ![s].alive = "none"]
    /\ UNCHANGED <<gen, local, flow, held, control, tmap, tunnelChan, sock,
                   network, faults, pings, lost>>

-----------------------------------------------------------------------------
(* The client.                                                             *)

\* tunnelDialer and the start of handleTunnelConn.
TunnelDialer(s) ==
    /\ asked > 0 /\ sock[s] = "unused"
    /\ asked' = asked - 1
    /\ sock' = [sock EXCEPT ![s] = "waiting"]
    /\ up' = [up EXCEPT ![s] = TRUE]
    /\ UNCHANGED <<gen, local, flow, held, reqs, tmap, tunnel, tunnelChan, down,
                   faults, pings, lost>>

\* handleTunnelConn skips pings and takes the next datagram for the target,
\* which data is not; localDialer then copies what comes.
ClientReceives(s) ==
    /\ down[s] # <<>>
    /\ down' = [down EXCEPT ![s] = Tail(@)]
    /\ \/ /\ sock[s] = "waiting" /\ Head(down[s]) # "ping"
          /\ sock' = [sock EXCEPT ![s] =
                IF Head(down[s]) = "target" THEN "bridged" ELSE "closed"]
       \/ /\ sock[s] # "waiting" \/ Head(down[s]) = "ping"
          /\ UNCHANGED sock
    /\ UNCHANGED <<gen, local, flow, held, control, tmap, tunnel, tunnelChan, up,
                   faults, pings, lost>>

-----------------------------------------------------------------------------
(* The network.                                                            *)

\* A lost token costs a tunnel.
LoseDatagram(s) ==
    /\ faults < MaxFaults /\ faults' = faults + 1
    /\ \/ /\ up[s] /\ up' = [up EXCEPT ![s] = FALSE]
          /\ lost' = lost + 1
          /\ UNCHANGED down
       \/ /\ down[s] # <<>> /\ down' = [down EXCEPT ![s] = Tail(@)]
          /\ UNCHANGED <<up, lost>>
    /\ UNCHANGED <<gen, local, flow, held, control, tmap, tunnel, tunnelChan,
                   sock, pings>>

\* The control channel breaks and both sides restart: listeners, channels and
\* maps are new, the client's sockets are closed and their ports may be given
\* again; the copying of bridged flows goes on.  The 2 s of Restart let the
\* listener finish the packet it is at.
Restart ==
    /\ gen < MaxRestarts /\ first = None
    /\ gen' = gen + 1
    /\ lmap' = [a \in Addrs |-> None] /\ udpChan' = <<>> /\ UNCHANGED first
    /\ flow' = [f \in Flows |->
          IF flow[f].st \in {"queued", "held"} THEN [flow[f] EXCEPT !.st = "dropped"]
          ELSE flow[f]]
    /\ held' = [flow |-> None, sock |-> None]
    /\ reqs' = 0 /\ asked' = ConnPoolSize
    /\ tmap' = {} /\ tunnelChan' = <<>> /\ lost' = 0
    /\ tunnel' = [s \in Socks |-> NoTunnel]
    /\ sock' = [s \in Socks |-> "unused"]
    /\ up' = [s \in Socks |-> FALSE] /\ down' = [s \in Socks |-> <<>>]
    /\ UNCHANGED <<faults, pings>>

Next ==
    \/ \E a \in Addrs : LocalPacket(a) \/ NewFlow(a)
    \/ FirstPayload \/ SendRequest
    \/ TakeFlow \/ TakeTunnel \/ SendTarget
    \/ \E f \in Flows :
          \/ CopyLocal(f) \/ FinishCopy(f)
          \/ \E half \in {"local", "tunnel"} : Idle(f, half)
    \/ \E s \in Socks :
          \/ AcceptTunnel(s) \/ KeepAliveTick(s) \/ SendPing(s) \/ KeepAliveEnds(s)
          \/ TunnelDialer(s) \/ ClientReceives(s)
          \/ LoseDatagram(s)
    \/ Restart

Spec == Init /\ [][Next]_vars

-----------------------------------------------------------------------------
(* Properties.                                                             *)

\* No address is a dead end that the code does not mean to be one: an entry of
\* localListener's map is the flow of that address with an open payload channel,
\* and that flow is queued, at handleLoop, copied, or was passed over for its
\* age (udp.go:573, which leaves the entry).  The listener's first packet never
\* meets a closed channel, and a tunnel that serves has its entry unless the
\* end of a flow of before a restart deleted it (udp.go:627).
EntriesAreLive ==
    /\ TypeOK
    /\ \A a \in Addrs : lmap[a] # None =>
          LET f == lmap[a]
          IN /\ flow[f].addr = a /\ flow[f].gen = gen
             /\ \/ flow[f].st = "queued" /\ \E i \in DOMAIN udpChan : udpChan[i] = f
                \/ flow[f].st = "held" /\ held.flow = f
                \/ flow[f].st \in {"serving", "skipped"}
    /\ first # None => lmap[flow[first].addr] = first
    /\ \A s \in Socks : tunnel[s].st \in {"pooled", "taken", "bound"} /\ s \notin tmap =>
          \E f \in Flows : /\ flow[f].st = "closed" /\ flow[f].sock = s
                           /\ flow[f].gen < gen

\* On a network that keeps the order, a client that has its target gets no ping
\* any more, which it would forward as data (udp.go:719 against udp.go:584), and
\* a client takes data for its target only when the target was lost.
DatagramsUnderstood ==
    \A s \in Socks :
        /\ \A i, j \in DOMAIN down[s] :
              i < j /\ down[s][i] \in {"target", "data"} => down[s][j] # "ping"
        /\ sock[s] = "bridged" => \A i \in DOMAIN down[s] : down[s][i] # "ping"
        /\ sock[s] = "waiting" /\ (\E i \in DOMAIN down[s] : down[s][i] = "data") =>
              down[s][1] # "data" \/ faults > 0

\* For every flow that waits a tunnel is there, on its way or asked for, and for
\* the client's connection pool besides, but for what was lost: a request that
\* found reqNewConnChan full, a tunnel refused because tunnelChannel was full, a
\* token or a write that failed.  Nothing but these makes a flow starve, and a
\* restart makes good for them.
TunnelsSuffice ==
    LET waiting == {f \in Flows : flow[f].st \in {"queued", "held"}}
        coming == {s \in Socks : up[s] \/ tunnel[s].st = "pooled" \/ held.sock = s}
        unasked == {first} \ {None}
    IN reqs + asked + Cardinality(unasked) + Cardinality(coming) + lost
           >= ConnPoolSize + Cardinality(waiting)
=============================================================================
