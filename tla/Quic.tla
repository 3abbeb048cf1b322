-------------------------------- MODULE Quic ---------------------------------
(***************************************************************************)
(* The quic transport: server/transport/quic.go, client/transport/quic.go. *)
(*                                                                         *)
(* Control channel and tunnels are QUIC connections to one listener, which *)
(* tells them apart only by whether it has a control channel at that       *)
(* moment.  Heartbeats are streams of the control connection: the server   *)
(* accepts one every 3 s, and waits for it without looking at its timers.  *)
(* Nothing ever resets the 300 s timers, because no heartbeat is sent on   *)
(* the stream that is read: both sides give the channel up again and again *)
(* and the client dials anew, without closing the old connection.          *)
(*                                                                         *)
(* One client.  Client.Restart is not modelled: its only call is for a     *)
(* tunnelDialer without a control channel, which cannot be (poolChecker    *)
(* and requests begin after the first handshake, and nothing else resets   *)
(* the field).                                                             *)
(***************************************************************************)
EXTENDS Integers, Sequences, FiniteSets

CONSTANTS
    Conns,          \* names for QUIC connections; used again when forgotten
    ChannelSize,    \* of tunnelChan, localChan and getNewConnChan
    MuxCon,         \* streams per session
    ConnectionPool, \* connection_pool of the client
    MaxUnderWay,    \* bound: heartbeat streams, and SG_Chan, that wait to be read
    MaxQuicFaults,  \* bound: broken connections, late answers and 300 s timeouts
    None

ASSUME QuicAssumption ==
    /\ ChannelSize \in Nat \ {0} /\ MuxCon \in Nat \ {0}
    /\ ConnectionPool \in Nat \ {0, 1}
    /\ MaxUnderWay \in Nat \ {0} /\ MaxQuicFaults \in Nat
    /\ IsFiniteSet(Conns) /\ None \notin Conns

VARIABLES
    qConn,      \* kind, whether it is open, and where the server has it
    client,     \* ChannelDialer and channelListener: [pc, conn]
    pooling,    \* poolChecker runs
    ctl,        \* the server's controlChannel
    ready,      \* what IsReady reports
    alive,      \* keepalive: "none", "first", "loop" or "accept"
    streams,    \* heartbeat streams of the control connection not yet accepted
    restarting, \* Restart is between cancel and the new listener
    handling,   \* handleTunConn runs
    tunnelChan, session,  \* connections queued, and what handleSession is at
    locals,     \* connections in localChan
    reqs, asked,          \* tokens in getNewConnChan, SG_Chan on their way
    qFaults

quicVars == <<qConn, client, pooling, ctl, ready, alive, streams, restarting, handling,
              tunnelChan, session, locals, reqs, asked, qFaults>>
controlVars == <<ctl, ready, alive, streams, restarting>>
data == <<tunnelChan, session, locals>>
requests == <<reqs, asked>>

Places == {"none", "incoming", "handshake", "control", "queued", "session",
           "draining", "refused"}
FreeConn == [kind |-> "none", open |-> FALSE, at |-> "none"]
Idle == [conn |-> None, streams |-> 0, held |-> FALSE]

QuicTypeOK ==
    /\ qConn \in [Conns -> [kind : {"none", "control", "tunnel"}, open : BOOLEAN,
                           at : Places]]
    /\ client \in [pc : {"dial", "wait", "up"}, conn : Conns \cup {None}]
    /\ ctl \in Conns \cup {None}
    /\ ready \in BOOLEAN /\ pooling \in BOOLEAN /\ handling \in BOOLEAN
    /\ restarting \in BOOLEAN
    /\ alive \in {"none", "first", "loop", "accept"}
    /\ streams \in 0..MaxUnderWay
    /\ tunnelChan \in Seq(Conns) /\ Len(tunnelChan) <= ChannelSize
    /\ session \in [conn : Conns \cup {None}, streams : 0..MuxCon, held : BOOLEAN]
    /\ locals \in 0..ChannelSize /\ reqs \in 0..ChannelSize
    /\ asked \in 0..MaxUnderWay /\ qFaults \in 0..MaxQuicFaults

QuicInit ==
    /\ qConn = [c \in Conns |-> FreeConn]
    /\ client = [pc |-> "dial", conn |-> None] /\ pooling = FALSE
    /\ ctl = None /\ ready = FALSE /\ alive = "none" /\ streams = 0
    /\ restarting = FALSE /\ handling = FALSE
    /\ tunnelChan = <<>> /\ session = Idle /\ locals = 0
    /\ reqs = 0 /\ asked = 0 /\ qFaults = 0

FreeConns == {c \in Conns : qConn[c] = FreeConn}

\* n names; which ones makes no difference.
Fresh(n) == CHOOSE cs \in SUBSET FreeConns : Cardinality(cs) = n

\* activeConnections: what tunnelDialers and handleTunnelConns count.
Active == {c \in Conns : qConn[c].kind = "tunnel" /\ qConn[c].open}

\* Forgets the connections of f that neither the client, whose control connection
\* is cl, nor the server will look at again.
Settle(f, cl) == [c \in Conns |->
    IF /\ c # cl
       /\ \/ f[c].kind = "control" /\ f[c].at = "refused"
          \/ ~f[c].open /\ f[c].at \in {"incoming", "draining", "refused"}
    THEN FreeConn ELSE f[c]]

Shut(c) == [qConn EXCEPT ![c].open = FALSE]

\* CloseWithError on the server.
Discard(c) ==
    Settle([qConn EXCEPT ![c] = [@ EXCEPT !.open = FALSE, !.at = "refused"]], client.conn)

-----------------------------------------------------------------------------
(* The client.                                                             *)

\* ChannelDialer: a connection with the token on its first stream.
ChannelDial ==
    /\ client.pc = "dial" /\ ~restarting
    /\ FreeConns # {}
    /\ \E c \in Fresh(1) :
          /\ qConn' = [qConn EXCEPT ![c] =
                [kind |-> "control", open |-> TRUE, at |-> "incoming"]]
          /\ client' = [pc |-> "wait", conn |-> c]
    /\ UNCHANGED <<pooling, controlVars, handling, data, requests, qFaults>>

\* The answer is here: channelListener runs, and poolChecker from the first time.
ChannelUp ==
    /\ client.pc = "wait" /\ qConn[client.conn].at = "control"
    /\ qConn[client.conn].open
    /\ client' = [client EXCEPT !.pc = "up"]
    /\ pooling' = TRUE
    /\ UNCHANGED <<qConn, controlVars, handling, data, requests, qFaults>>

\* No answer within 2 s, because the server has queued or refused the connection
\* or it is broken; or it only comes too late, which is a fault.
ChannelGivesUp ==
    /\ client.pc = "wait"
    /\ \/ /\ \/ ~qConn[client.conn].open
             \/ qConn[client.conn].at \in {"queued", "session", "refused", "draining"}
          /\ UNCHANGED qFaults
       \/ qFaults < MaxQuicFaults /\ qFaults' = qFaults + 1
    /\ qConn' = Settle(Shut(client.conn), None)
    /\ client' = [pc |-> "dial", conn |-> None]
    /\ UNCHANGED <<pooling, controlVars, handling, data, requests>>

\* channelListener opens a heartbeat stream every 3 s.
ClientPing ==
    /\ client.pc = "up" /\ qConn[client.conn].open
    /\ client.conn = ctl /\ streams < MaxUnderWay
    /\ streams' = streams + 1
    /\ UNCHANGED <<qConn, client, pooling, ctl, ready, alive, restarting, handling,
                   data, requests, qFaults>>

\* channelListener returns, after 300 s or because the connection is broken, and
\* dials again; it does not close the connection.
ClientTimeout ==
    /\ client.pc = "up"
    /\ \/ UNCHANGED qFaults /\ (client.conn # ctl \/ ~qConn[client.conn].open)
       \/ qFaults < MaxQuicFaults /\ qFaults' = qFaults + 1
    /\ client' = [pc |-> "dial", conn |-> None]
    /\ qConn' = Settle(qConn, None)
    /\ asked' = 0
    /\ UNCHANGED <<pooling, controlVars, handling, data, reqs>>

NewTunnels(n) ==
    qConn' = [c \in Conns |->
        IF c \in Fresh(n) THEN [kind |-> "tunnel", open |-> TRUE, at |-> "incoming"]
        ELSE qConn[c]]

\* poolChecker fills the pool when less than half of it is left, whether or not
\* there is a control channel.
PoolChecker ==
    /\ pooling /\ ~restarting
    /\ Cardinality(Active) < ConnectionPool \div 2
    /\ Cardinality(FreeConns) >= ConnectionPool - Cardinality(Active)
    /\ NewTunnels(ConnectionPool - Cardinality(Active))
    /\ UNCHANGED <<client, pooling, controlVars, handling, data, requests, qFaults>>

\* channelListener dials one tunnel for an SG_Chan.
TunnelDial ==
    /\ asked > 0 /\ client.pc = "up" /\ ~restarting
    /\ asked' = asked - 1
    /\ FreeConns # {} /\ NewTunnels(1)
    /\ UNCHANGED <<client, pooling, controlVars, handling, data, reqs, qFaults>>

-----------------------------------------------------------------------------
(* The server: connections.                                                *)

\* acceptTunCon: without a control channel every connection is taken for a
\* handshake, with one for a tunnel; a full channel leaves it open and unused.
AcceptTunCon(c) ==
    /\ ~restarting /\ qConn[c].at = "incoming"
    /\ \/ /\ ctl = None
          /\ qConn' = [qConn EXCEPT ![c].at = "handshake"]
          /\ UNCHANGED tunnelChan
       \/ /\ ctl # None /\ Len(tunnelChan) < ChannelSize
          /\ qConn' = [qConn EXCEPT ![c].at = "queued"]
          /\ tunnelChan' = Append(tunnelChan, c)
       \/ /\ ctl # None /\ Len(tunnelChan) = ChannelSize
          /\ qConn' = [qConn EXCEPT ![c].at = "refused"]
          /\ UNCHANGED tunnelChan
    /\ UNCHANGED <<client, pooling, controlVars, handling, session, locals, requests,
                   qFaults>>

\* channelHandshake: token, answer, control channel; the first after a start also
\* begins the local listeners and handleTunConn.  A tunnel opens no stream, so
\* its handshake waits for ever.
QuicHandshakeOk ==
    /\ \E c \in Conns :
          /\ qConn[c].at = "handshake" /\ qConn[c].kind = "control" /\ qConn[c].open
          /\ qConn' = [qConn EXCEPT ![c].at = "control"]
          /\ ctl' = c
    /\ ready' = TRUE /\ alive' = "first" /\ streams' = 0 /\ handling' = TRUE
    /\ UNCHANGED <<client, pooling, restarting, data, requests, qFaults>>

HandshakeFails ==
    /\ \E c \in Conns :
          /\ qConn[c].at = "handshake" /\ ~qConn[c].open
          /\ qConn' = Discard(c)
    /\ UNCHANGED <<client, pooling, controlVars, handling, data, requests, qFaults>>

-----------------------------------------------------------------------------
(* The server: keepalive.                                                  *)

\* AcceptStream returns the client's first stream, or the next heartbeat.
AcceptStream ==
    /\ alive \in {"first", "accept"} /\ qConn[ctl].open /\ streams > 0
    /\ alive' = "loop"
    /\ streams' = IF alive = "first" THEN streams ELSE streams - 1
    /\ UNCHANGED <<qConn, client, pooling, ctl, ready, restarting, handling, data,
                   requests, qFaults>>

\* AcceptStream fails on a broken connection: go Restart(), and ready is false.
AcceptStreamFails ==
    /\ alive \in {"first", "accept"} /\ ~qConn[ctl].open
    /\ alive' = "none" /\ ready' = FALSE /\ restarting' = TRUE
    /\ qConn' = Settle([c \in Conns |-> [kind |-> qConn[c].kind, open |-> FALSE, at |->
                       CASE c = ctl -> "control"
                         [] qConn[c] = FreeConn -> "none"
                         [] OTHER -> "refused"]], client.conn)
    /\ tunnelChan' = <<>> /\ session' = Idle /\ handling' = FALSE
    /\ UNCHANGED <<client, pooling, ctl, streams, locals, requests, qFaults>>

PingTick ==
    /\ alive = "loop"
    /\ alive' = "accept"
    /\ UNCHANGED <<qConn, client, pooling, ctl, ready, streams, restarting, handling,
                   data, requests, qFaults>>

\* A request of handleSession goes out, if the connection is not broken.
SendRequest ==
    /\ alive = "loop" /\ reqs > 0 /\ qConn[ctl].open /\ asked < MaxUnderWay
    /\ reqs' = reqs - 1
    /\ asked' = IF client.conn = ctl THEN asked + 1 ELSE asked
    /\ UNCHANGED <<qConn, client, pooling, controlVars, handling, data, qFaults>>

\* Mutant: keepalive leaves ready as it is.
KeepaliveEndsReady ==
    /\ alive = "loop"
    /\ \/ UNCHANGED qFaults /\ ~qConn[ctl].open
       \/ qFaults < MaxQuicFaults /\ qFaults' = qFaults + 1
    /\ alive' = "none" /\ ctl' = None
    /\ qConn' = Settle([qConn EXCEPT ![ctl].at = "refused"], client.conn)
    /\ UNCHANGED <<client, pooling, ready, streams, restarting, handling, data, requests>>

\* 300 s are over, or a send or the read fails: the channel is given up without a
\* restart, and the connection is not closed.
KeepaliveEnds ==
    /\ alive = "loop"
    /\ \/ UNCHANGED qFaults /\ ~qConn[ctl].open
       \/ qFaults < MaxQuicFaults /\ qFaults' = qFaults + 1
    /\ alive' = "none" /\ ctl' = None /\ ready' = FALSE
    /\ qConn' = Settle([qConn EXCEPT ![ctl].at = "refused"], client.conn)
    /\ UNCHANGED <<client, pooling, streams, restarting, handling, data, requests>>

\* Restart after its 2 s: a new listener and new channels.
Restarted ==
    /\ restarting
    /\ restarting' = FALSE /\ ctl' = None /\ ready' = FALSE
    /\ qConn' = Settle([qConn EXCEPT ![ctl].at = "refused"], client.conn)
    /\ locals' = 0 /\ reqs' = 0 /\ asked' = 0
    /\ UNCHANGED <<client, pooling, alive, streams, handling, tunnelChan, session, qFaults>>

-----------------------------------------------------------------------------
(* The server: local connections and sessions.                             *)

\* enqueueInbound; a full channel turns the connection away.
EnqueueInbound ==
    /\ handling /\ locals < ChannelSize
    /\ locals' = locals + 1
    /\ UNCHANGED <<qConn, client, pooling, controlVars, handling, tunnelChan, session,
                   requests, qFaults>>

\* handleTunConn starts the next session and waits for its next.
NextSession ==
    /\ handling /\ session.conn = None /\ tunnelChan # <<>>
    /\ session' = [Idle EXCEPT !.conn = Head(tunnelChan)]
    /\ tunnelChan' = Tail(tunnelChan)
    /\ qConn' = [qConn EXCEPT ![Head(tunnelChan)].at = "session"]
    /\ UNCHANGED <<client, pooling, controlVars, handling, locals, requests, qFaults>>

\* handleSession: a stream for a local connection.  The last one of the session
\* lets handleTunConn go on and asks for another tunnel.
OpenStream ==
    /\ session.conn # None /\ ~session.held /\ locals > 0 /\ qConn[session.conn].open
    /\ locals' = locals - 1
    /\ \/ /\ session.streams + 1 < MuxCon
          /\ session' = [session EXCEPT !.streams = @ + 1]
          /\ UNCHANGED <<qConn, reqs>>
       \/ /\ session.streams + 1 = MuxCon
          /\ session' = Idle
          /\ qConn' = [qConn EXCEPT ![session.conn].at = "draining"]
          /\ reqs' = IF reqs < ChannelSize THEN reqs + 1 ELSE reqs
    /\ UNCHANGED <<client, pooling, controlVars, handling, tunnelChan, asked, qFaults>>

\* OpenStream fails: the local connection has been taken and must go back.
OpenStreamFails ==
    /\ session.conn # None /\ ~session.held /\ locals > 0 /\ ~qConn[session.conn].open
    /\ locals' = locals - 1
    /\ session' = [session EXCEPT !.held = TRUE]
    /\ UNCHANGED <<qConn, client, pooling, controlVars, handling, tunnelChan,
                   requests, qFaults>>

\* Mutant: the failed session does not let handleTunConn go on.
RequeueNoNext ==
    /\ session.held /\ locals < ChannelSize
    /\ locals' = locals + 1
    /\ session' = [session EXCEPT !.held = FALSE]
    /\ UNCHANGED <<qConn, client, pooling, controlVars, handling, tunnelChan,
                   requests, qFaults>>

\* It goes back as soon as there is room, and then handleTunConn goes on.
Requeue ==
    /\ session.held /\ locals < ChannelSize
    /\ locals' = locals + 1
    /\ session' = Idle
    /\ qConn' = Discard(session.conn)
    /\ UNCHANGED <<client, pooling, controlVars, handling, tunnelChan, requests, qFaults>>

\* All streams of a full session have ended: it is closed.
SessionDone ==
    /\ \E c \in Conns :
          /\ qConn[c].at = "draining"
          /\ qConn' = Discard(c)
    /\ UNCHANGED <<client, pooling, controlVars, handling, data, requests, qFaults>>

-----------------------------------------------------------------------------

\* A connection breaks.
QuicBreak ==
    /\ qFaults < MaxQuicFaults /\ qFaults' = qFaults + 1
    /\ \E c \in Conns : qConn[c].open /\ qConn' = Settle(Shut(c), client.conn)
    /\ UNCHANGED <<client, pooling, controlVars, handling, data, requests>>

QuicNext ==
    \/ ChannelDial \/ ChannelUp \/ ChannelGivesUp \/ ClientPing \/ ClientTimeout
    \/ PoolChecker \/ TunnelDial
    \/ (\E c \in Conns : AcceptTunCon(c)) \/ QuicHandshakeOk \/ HandshakeFails
    \/ AcceptStream \/ AcceptStreamFails \/ PingTick \/ SendRequest
    \/ KeepaliveEnds \/ Restarted
    \/ EnqueueInbound \/ NextSession \/ OpenStream \/ OpenStreamFails \/ Requeue
    \/ SessionDone \/ QuicBreak

\* Goroutines go on, tickers tick and packets arrive.  Local connections need
\* not come nor their streams end, and the 300 s need not pass.
QuicFairness ==
    /\ WF_quicVars(ChannelDial) /\ WF_quicVars(ChannelUp) /\ WF_quicVars(ChannelGivesUp)
    /\ WF_quicVars(ClientPing) /\ WF_quicVars(ClientTimeout)
    /\ WF_quicVars(PoolChecker) /\ WF_quicVars(TunnelDial)
    /\ \A c \in Conns : WF_quicVars(AcceptTunCon(c))
    /\ WF_quicVars(QuicHandshakeOk) /\ WF_quicVars(HandshakeFails)
    /\ WF_quicVars(AcceptStream) /\ WF_quicVars(AcceptStreamFails) /\ WF_quicVars(PingTick)
    /\ WF_quicVars(SendRequest) /\ WF_quicVars(Restarted)
    /\ WF_quicVars(NextSession) /\ WF_quicVars(OpenStream) /\ WF_quicVars(OpenStreamFails)
    /\ WF_quicVars(Requeue)

QuicSpec == QuicInit /\ [][QuicNext]_quicVars /\ QuicFairness
-----------------------------------------------------------------------------
(* Properties.                                                             *)

At(p) == {c \in Conns : qConn[c].at = p}

\* Connections, channels and the keepalive goroutine agree: a connection is in
\* tunnelChan, the session or the control channel if and only if the server has it
\* there; ready is only ever reported while there is a control channel with its
\* keepalive, and while a keepalive runs no second handshake can succeed and
\* start another one, which would share controlChannel with it.
OneControlChannel ==
    /\ QuicTypeOK
    /\ \A c \in Conns :
          qConn[c].at = "queued" <=> \E i \in DOMAIN tunnelChan : tunnelChan[i] = c
    /\ At("session") = {session.conn} \ {None}
    /\ At("control") = {ctl} \ {None}
    /\ ready <=> alive # "none"
    /\ ready => ctl # None
    /\ alive # "none" =>
          \A c \in At("handshake") : ~(qConn[c].kind = "control" /\ qConn[c].open)

\* The client's tunnels are all useless to the server (taken for a handshake,
\* refused by a full channel, or full), so many that poolChecker adds none, and
\* no request for another is under way (or the instance is out of names for one).
Starved ==
    /\ Cardinality(Active) >= ConnectionPool \div 2
    /\ \A c \in Active : qConn[c].at \in {"handshake", "refused", "draining"}
    /\ asked = 0 \/ FreeConns = {}

\* keepalive waits for a heartbeat on a connection that the client has left, so
\* every new control connection is taken for a tunnel.
Wedged == alive \in {"first", "accept"} /\ streams = 0 /\ client.conn # ctl

\* The session that failed cannot put its connection back.
RequeueBlocked == session.held /\ locals = ChannelSize

\* Local connections that wait are served for ever, except for the ways in which
\* this code can come to a halt: a starved pool, a keepalive that is wedged in
\* AcceptStream, or a requeue into a channel that is full.
ServedUnlessHalted ==
    \/ []<>((locals = 0 /\ ~session.held) \/ Starved \/ Wedged \/ RequeueBlocked)
    \/ []<><<OpenStream>>_quicVars
=============================================================================
