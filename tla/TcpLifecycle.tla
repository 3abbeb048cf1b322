----------------------------- MODULE TcpLifecycle -----------------------------
(***************************************************************************)
(* How the tcp transport establishes its control channel, notices that it  *)
(* is gone and restarts, on both sides.                                    *)
(*                                                                         *)
(*   server   internal/server/transport/tcp.go: Start, Restart,            *)
(*            channelHandshake, channelHandler, tunnelListener,            *)
(*            acceptTunnelConn, EnqueueInbound, handleLoop                 *)
(*   client   internal/client/transport/tcp.go: Start, Restart,            *)
(*            channelDialer, channelHandler, tunnelDialer                  *)
(*                                                                         *)
(* A TCP connection is a slot with two ends; slot 0 is Go's nil.  A slot   *)
(* is used again when both ends are closed and nobody refers to it.        *)
(*                                                                         *)
(* Timing.  Restart sleeps for 2 s between cancelling the old context and  *)
(* making the new one.  The model takes it that goroutines which can run   *)
(* do so within that time (SleepOutlasts): the readers and handlers of the *)
(* closed control channel are gone, and the other go Restart() calls of    *)
(* the same failure have found the mutex locked, when it ends.             *)
(***************************************************************************)
EXTENDS Tcp, Sequences, FiniteSets

CONSTANT MaxConns \* bound: connections that exist at the same time

ASSUME LifecycleAssumption ==
    /\ MaxConns \in Nat \ {0}
    /\ ChannelSize \in Nat \ {0}
    /\ ConnPoolSize \in Nat
    /\ MaxFaults \in Nat

VARIABLES
    conn,      \* [Slots -> Connection]
    sPhase,    \* server: "handshake", "up", or "sleep" while it restarts
    sControl,  \* server: controlChannel
    sReady,    \* server: ready
    sReading,  \* server: the connection channelHandshake reads from
    tunnelQ,   \* server: tunnelChannel
    sRunning,  \* server: which goroutines of channelHandler run
    sPending,  \* server: go Restart() calls that have not run yet
    cPhase,    \* client: "dial", "await", "up", or "sleep" while it restarts
    cConn,     \* client: the connection channelDialer waits for an answer on
    cControl,  \* client: controlChannel
    cRunning, cPending

serverVars == <<sPhase, sControl, sReady, sReading, sRunning, sPending>>
clientVars == <<cPhase, cConn, cControl, cRunning, cPending>>
vars == <<conn, serverVars, tunnelQ, localQ, clientVars, poolConnections, faults>>

Slots == 1..MaxConns

\* channelHandler itself, and the goroutine in it that reads the channel.
Goroutines == {"reader", "handler"}

Connection ==
    [kind : {"ctl", "pool"},       \* dialed by channelDialer or tunnelDialer
     ends : SUBSET {"client", "server"}, \* the ends that are open
     link : {"works", "broken"},   \* the network dropped it, silently
     up : {"none", "token"},       \* what the client sent
     down : {"none", "token", "target"}] \* what the server sent

NoConn == [kind |-> "ctl", ends |-> {}, link |-> "works", up |-> "none", down |-> "none"]

ClientOpen(i) == "client" \in conn[i].ends
ServerOpen(i) == "server" \in conn[i].ends
Broken(i) == conn[i].link = "broken"

Queued(i) == \E k \in 1..Len(tunnelQ) : tunnelQ[k] = i

Free(i) == /\ conn[i].ends = {}
           /\ ~Queued(i)
           /\ i \notin {sControl, sReading, cConn, cControl}

\* A read or a write on this end of connection i fails.
DeadForServer(i) == ~ClientOpen(i) \/ Broken(i)
DeadForClient(i) == ~ServerOpen(i) \/ Broken(i)

ServerCloses(i) == [conn EXCEPT ![i].ends = @ \ {"server"}]
ClientCloses(i) == [conn EXCEPT ![i].ends = @ \ {"client"}]

Init ==
    /\ conn = [i \in Slots |-> NoConn]
    /\ sPhase = "handshake" /\ sControl = 0 /\ sReady = FALSE /\ sReading = 0
    /\ tunnelQ = <<>> /\ localQ = 0
    /\ sRunning = {} /\ sPending = 0
    /\ cPhase = "dial" /\ cConn = 0 /\ cControl = 0
    /\ cRunning = {} /\ cPending = 0
    /\ poolConnections = 0 /\ faults = 0

-----------------------------------------------------------------------------
(* A dial that reaches the listener: the connection goes through           *)
(* acceptTunnelConn into tunnelChannel, or is closed when that is full.    *)
(* While the server restarts nothing listens and the dial is refused.      *)

\* Mutant: tunnelChannel takes every connection.
AcceptedUnbounded(i, kind, sent) ==
    /\ sPhase # "sleep"
    /\ Free(i)
    /\ \A k \in 1..(i - 1) : ~Free(k)
    /\ conn' = [conn EXCEPT ![i] =
                  [kind |-> kind, ends |-> {"client", "server"}, link |-> "works",
                   up |-> sent, down |-> "none"]]
    /\ tunnelQ' = Append(tunnelQ, i)

Accepted(i, kind, sent) ==
    /\ sPhase # "sleep"
    /\ Free(i)
    /\ \A k \in 1..(i - 1) : ~Free(k)
    /\ LET room == Len(tunnelQ) < ChannelSize IN
         /\ conn' = [conn EXCEPT ![i] =
                       [kind |-> kind, link |-> "works", up |-> sent, down |-> "none",
                        ends |-> IF room THEN {"client", "server"} ELSE {"client"}]]
         /\ tunnelQ' = IF room THEN Append(tunnelQ, i) ELSE tunnelQ

-----------------------------------------------------------------------------
(* Client.                                                                 *)

\* channelDialer: dial and send the token.
ChannelDial(i) ==
    /\ cPhase = "dial"
    /\ Accepted(i, "ctl", "token")
    /\ cPhase' = "await"
    /\ cConn' = i
    /\ UNCHANGED <<serverVars, localQ, cControl, cRunning, cPending,
                   poolConnections, faults>>

\* channelDialer: the token comes back; the control channel is up.
ChannelEstablished ==
    /\ cPhase = "await"
    /\ conn[cConn].down = "token"
    /\ ~Broken(cConn)
    /\ cPhase' = "up"
    /\ cControl' = cConn
    /\ cConn' = 0
    /\ cRunning' = Goroutines
    /\ UNCHANGED <<conn, serverVars, tunnelQ, localQ, cPending, poolConnections, faults>>

\* channelHandshake spends its whole 2 s read deadline only on a connection
\* over which nothing was sent.
Silent(i) == i # 0 /\ conn[i].up = "none" /\ ClientOpen(i)

\* The server has answered on cConn or will do so in far less than 2 s: no
\* silent connection holds channelHandshake up.
AnswerIsDue ==
    /\ ~Broken(cConn)
    /\ \/ conn[cConn].down # "none"
       \/ /\ sPhase = "handshake"
          /\ ~Silent(sReading)
          /\ sReading = cConn \/ Queued(cConn)
          /\ \A k \in 1..Len(tunnelQ) : ~Silent(tunnelQ[k])

\* channelDialer: no answer within 2 s, an error, or something that is not
\* the token (the target address of a local connection): close and retry.
ChannelRetry ==
    /\ cPhase = "await"
    /\ \/ ~AnswerIsDue /\ UNCHANGED faults
       \/ conn[cConn].down = "target" /\ UNCHANGED faults
       \/ faults < MaxFaults /\ faults' = faults + 1
    /\ conn' = ClientCloses(cConn)
    /\ cPhase' = "dial"
    /\ cConn' = 0
    /\ UNCHANGED <<serverVars, tunnelQ, localQ, cControl, cRunning, cPending,
                   poolConnections>>

\* The pooled connections of every generation of the client.
Pooled == {i \in Slots : conn[i].kind = "pool" /\ ClientOpen(i)}

\* poolMaintainer / channelHandler -> tunnelDialer.
PoolDial(i) ==
    /\ cPhase = "up"
    /\ Cardinality(Pooled) < ConnPoolSize
    /\ Accepted(i, "pool", "none")
    /\ poolConnections' = poolConnections + 1
    /\ UNCHANGED <<serverVars, localQ, clientVars, faults>>

\* Mutant: a connection whose read fails is not counted out.
PoolLeaveUncounted(i) ==
    /\ conn[i].kind = "pool" /\ ClientOpen(i)
    /\ conn[i].down = "target" \/ DeadForClient(i)
    /\ conn' = IF conn[i].down = "target" THEN [conn EXCEPT ![i].ends = {}]
                                          ELSE ClientCloses(i)
    /\ poolConnections' = IF DeadForClient(i) THEN poolConnections
                                             ELSE poolConnections - 1
    /\ UNCHANGED <<serverVars, tunnelQ, localQ, clientVars, faults>>

\* tunnelDialer: a target arrives or the read fails; a connection that got
\* its target leaves this model for localDialer.
PoolLeave(i) ==
    /\ conn[i].kind = "pool" /\ ClientOpen(i)
    /\ conn[i].down = "target" \/ DeadForClient(i)
    /\ conn' = IF conn[i].down = "target" THEN [conn EXCEPT ![i].ends = {}]
                                          ELSE ClientCloses(i)
    /\ poolConnections' = poolConnections - 1
    /\ UNCHANGED <<serverVars, tunnelQ, localQ, clientVars, faults>>

\* The reading goroutine's read fails, or channelHandler gets SG_Closed or
\* cannot send an RTT answer: the goroutine spawns a Restart and ends.  In a
\* restart it may also notice the cancelled context first.
ClientGoroutineEnds(g) ==
    /\ g \in cRunning
    /\ \/ DeadForClient(cControl) /\ cPending' = cPending + 1
       \/ cPhase = "sleep" /\ cPending' \in {cPending, cPending + 1}
    /\ cRunning' = cRunning \ {g}
    /\ UNCHANGED <<conn, serverVars, tunnelQ, localQ, cPhase, cConn, cControl,
                   poolConnections, faults>>

\* Restart, up to the sleep.
ClientRestart ==
    /\ cPending > 0
    /\ cPhase = "up"
    /\ cPending' = cPending - 1
    /\ cPhase' = "sleep"
    /\ conn' = ClientCloses(cControl)
    /\ UNCHANGED <<serverVars, tunnelQ, localQ, cConn, cControl, cRunning,
                   poolConnections, faults>>

\* restartMutex.TryLock fails.
ClientRestartSkipped ==
    /\ cPending > 0
    /\ cPhase = "sleep"
    /\ cPending' = cPending - 1
    /\ UNCHANGED <<conn, serverVars, tunnelQ, localQ, cPhase, cConn, cControl, cRunning,
                   poolConnections, faults>>

\* Restart, after the sleep: everything is initialised again.  The pooled
\* connections are not closed: their tunnelDialers go on reading.
ClientRestarted ==
    /\ cPhase = "sleep"
    /\ cRunning = {} /\ cPending = 0   \* SleepOutlasts
    /\ cPhase' = "dial"
    /\ cControl' = 0
    /\ poolConnections' = 0
    /\ UNCHANGED <<conn, serverVars, tunnelQ, localQ, cConn, cRunning, cPending,
                   faults>>

-----------------------------------------------------------------------------
(* Server: channelHandshake.                                               *)

HandshakeTake ==
    /\ sPhase = "handshake"
    /\ sReading = 0
    /\ tunnelQ # <<>>
    /\ sReading' = Head(tunnelQ)
    /\ tunnelQ' = Tail(tunnelQ)
    /\ UNCHANGED <<conn, sPhase, sControl, sReady, sRunning, sPending, localQ,
                   clientVars, poolConnections, faults>>

\* Mutant: any connection is taken for the control channel.
HandshakeOkUnchecked ==
    /\ sPhase = "handshake"
    /\ sReading # 0
    /\ conn' = [conn EXCEPT ![sReading].down = "token"]
    /\ sControl' = sReading
    /\ sReading' = 0
    /\ sReady' = TRUE
    /\ sPhase' = "up"
    /\ sRunning' = Goroutines
    /\ UNCHANGED <<sPending, tunnelQ, localQ, clientVars, poolConnections, faults>>

\* The token is read, the answer is sent, the control channel is set and
\* Start goes on to channelHandler and the handle loops.  The token of a
\* client that has given up meanwhile is still in the receive buffer, and
\* the answer to it can still be written.
HandshakeOk ==
    /\ sPhase = "handshake"
    /\ sReading # 0
    /\ conn[sReading].up = "token"
    /\ conn' = [conn EXCEPT ![sReading].down = "token"]
    /\ sControl' = sReading
    /\ sReading' = 0
    /\ sReady' = TRUE
    /\ sPhase' = "up"
    /\ sRunning' = Goroutines
    /\ UNCHANGED <<sPending, tunnelQ, localQ, clientVars, poolConnections, faults>>

\* Mutant: no read deadline, so a silent connection is waited for.
HandshakeDiscardNoDeadline ==
    /\ sPhase = "handshake"
    /\ sReading # 0
    /\ DeadForServer(sReading)
    /\ conn' = ServerCloses(sReading)
    /\ sReading' = 0
    /\ UNCHANGED <<sPhase, sControl, sReady, sRunning, sPending, tunnelQ, localQ,
                   clientVars, poolConnections, faults>>

\* Nothing arrives within 2 s, or the answer cannot be sent: close, next.
HandshakeDiscard ==
    /\ sPhase = "handshake"
    /\ sReading # 0
    /\ conn[sReading].up = "none" \/ DeadForServer(sReading)
    /\ conn' = ServerCloses(sReading)
    /\ sReading' = 0
    /\ UNCHANGED <<sPhase, sControl, sReady, sRunning, sPending, tunnelQ, localQ,
                   clientVars, poolConnections, faults>>

-----------------------------------------------------------------------------
(* Server: local connections.                                              *)

\* A gateway or a listener: EnqueueInbound refuses connections only while
\* the runtime is not ready.  A full localChannel changes nothing.
EnqueueInbound ==
    /\ sReady
    /\ localQ < ChannelSize
    /\ localQ' = localQ + 1
    /\ UNCHANGED <<conn, serverVars, tunnelQ, clientVars, poolConnections, faults>>

\* handleLoop: a queued connection, whichever dialer made it, gets the
\* target of a local connection, or is closed when that fails.
HandleLocal ==
    /\ sPhase = "up"
    /\ localQ > 0
    /\ tunnelQ # <<>>
    /\ LET i == Head(tunnelQ) IN
         \/ conn' = [conn EXCEPT ![i].down = "target"] /\ localQ' = localQ - 1
         \/ DeadForServer(i) /\ conn' = ServerCloses(i) /\ localQ' = localQ
    /\ tunnelQ' = Tail(tunnelQ)
    /\ UNCHANGED <<serverVars, clientVars, poolConnections, faults>>

-----------------------------------------------------------------------------
(* Server: channelHandler and Restart.                                     *)

\* The reading goroutine's read fails, or channelHandler gets SG_Closed or
\* cannot send a heartbeat, a request or an RTT signal: the goroutine spawns
\* a Restart and ends.  In a restart it may also notice the cancelled
\* context first.
ServerGoroutineEnds(g) ==
    /\ g \in sRunning
    /\ \/ DeadForServer(sControl) /\ sPending' = sPending + 1
       \/ sPhase = "sleep" /\ sPending' \in {sPending, sPending + 1}
    /\ sRunning' = sRunning \ {g}
    /\ UNCHANGED <<conn, sPhase, sControl, sReady, sReading, tunnelQ, localQ,
                   clientVars, poolConnections, faults>>

\* Mutant: Restart does not close the control channel.
ServerRestartKeepsControl ==
    /\ sPending > 0
    /\ sPhase = "up"
    /\ sPending' = sPending - 1
    /\ sPhase' = "sleep"
    /\ UNCHANGED <<conn, sControl, sReady, sReading, sRunning, tunnelQ, localQ,
                   clientVars, poolConnections, faults>>

\* Restart, up to the sleep: the context is cancelled, which closes the
\* listeners, and the control channel is closed.  ready is left as it is.
ServerRestart ==
    /\ sPending > 0
    /\ sPhase = "up"
    /\ sPending' = sPending - 1
    /\ sPhase' = "sleep"
    /\ conn' = ServerCloses(sControl)
    /\ UNCHANGED <<sControl, sReady, sReading, sRunning, tunnelQ, localQ,
                   clientVars, poolConnections, faults>>

\* restartMutex.TryLock fails.
ServerRestartSkipped ==
    /\ sPending > 0
    /\ sPhase = "sleep"
    /\ sPending' = sPending - 1
    /\ UNCHANGED <<conn, sPhase, sControl, sReady, sReading, sRunning, tunnelQ,
                   localQ, clientVars, poolConnections, faults>>

\* Mutant: Restart does not sleep.
ServerRestartedAtOnce ==
    /\ sPhase = "sleep"
    /\ sPhase' = "handshake"
    /\ sControl' = 0
    /\ sReady' = FALSE
    /\ tunnelQ' = <<>>
    /\ localQ' = 0
    /\ sRunning' = {}
    /\ UNCHANGED <<conn, sReading, sPending, clientVars, poolConnections, faults>>

\* Restart, after the sleep: new channels, so whatever the old ones hold is
\* neither served nor closed by the program any more.
ServerRestarted ==
    /\ sPhase = "sleep"
    /\ sRunning = {} /\ sPending = 0   \* SleepOutlasts
    /\ sPhase' = "handshake"
    /\ sControl' = 0
    /\ sReady' = FALSE
    /\ tunnelQ' = <<>>
    /\ localQ' = 0
    /\ UNCHANGED <<conn, sReading, sRunning, sPending, clientVars,
                   poolConnections, faults>>

-----------------------------------------------------------------------------
(* Environment.                                                            *)

\* Go's runtime closes a connection nobody refers to any more; one that was
\* given a target is closed by TCPConnectionHandler when its client leaves.
Collect(i) ==
    /\ ServerOpen(i)
    /\ i \notin {sControl, sReading} /\ ~Queued(i)
    /\ conn[i].down = "target" => ~ClientOpen(i)
    /\ conn' = ServerCloses(i)
    /\ UNCHANGED <<serverVars, tunnelQ, localQ, clientVars, poolConnections, faults>>

\* The network drops a connection: both ends find out later, on their own.
Break(i) ==
    /\ faults < MaxFaults
    /\ ClientOpen(i) /\ ServerOpen(i) /\ ~Broken(i)
    /\ faults' = faults + 1
    /\ conn' = [conn EXCEPT ![i].link = "broken"]
    /\ UNCHANGED <<serverVars, tunnelQ, localQ, clientVars, poolConnections>>

-----------------------------------------------------------------------------
Client ==
    \/ \E i \in Slots : ChannelDial(i) \/ PoolDial(i) \/ PoolLeave(i)
    \/ ChannelEstablished \/ ChannelRetry
    \/ \E g \in Goroutines : ClientGoroutineEnds(g)
    \/ ClientRestart \/ ClientRestartSkipped \/ ClientRestarted

Server ==
    \/ HandshakeTake \/ HandshakeOk \/ HandshakeDiscard
    \/ EnqueueInbound \/ HandleLocal
    \/ \E g \in Goroutines : ServerGoroutineEnds(g)
    \/ ServerRestart \/ ServerRestartSkipped \/ ServerRestarted

Next == Client \/ Server \/ \E i \in Slots : Collect(i) \/ Break(i)

(***************************************************************************)
(* Both programs keep running, and a dead connection is noticed sooner or  *)
(* later (EOF, a failed heartbeat, TCP keep-alive).  Nothing is assumed of *)
(* local connections, of pool traffic or of faults.                        *)
(***************************************************************************)
Fairness ==
    /\ WF_vars(\E i \in Slots : ChannelDial(i))
    /\ WF_vars(ChannelEstablished) /\ WF_vars(ChannelRetry)
    /\ \A g \in Goroutines :
         WF_vars(ClientGoroutineEnds(g)) /\ WF_vars(ServerGoroutineEnds(g))
    /\ WF_vars(ClientRestart) /\ WF_vars(ClientRestartSkipped) /\ WF_vars(ClientRestarted)
    /\ WF_vars(HandshakeTake) /\ WF_vars(HandshakeOk \/ HandshakeDiscard)
    /\ WF_vars(ServerRestart) /\ WF_vars(ServerRestartSkipped) /\ WF_vars(ServerRestarted)
    /\ \A i \in Slots : WF_vars(PoolLeave(i)) /\ WF_vars(Collect(i))

Spec == Init /\ [][Next]_vars /\ Fairness

-----------------------------------------------------------------------------
(* Properties.                                                             *)

\* Every variable keeps the type of what it stands for in the code.
TypeOK ==
    /\ conn \in [Slots -> Connection]
    /\ sPhase \in {"handshake", "up", "sleep"}
    /\ cPhase \in {"dial", "await", "up", "sleep"}
    /\ sControl \in 0..MaxConns /\ sReading \in 0..MaxConns
    /\ cControl \in 0..MaxConns /\ cConn \in 0..MaxConns
    /\ tunnelQ \in Seq(Slots) /\ Len(tunnelQ) <= ChannelSize
    /\ localQ \in 0..ChannelSize
    /\ sReady \in BOOLEAN
    /\ sRunning \subseteq Goroutines /\ cRunning \subseteq Goroutines
    /\ sPending \in Nat /\ cPending \in Nat
    /\ poolConnections \in Int /\ faults \in 0..MaxFaults

\* A client that believes it is connected over a connection that both ends
\* hold open is the server's current client: a server that has given a
\* control channel up, or has taken another one, has closed the old one.
ControlAgreed ==
    cPhase = "up" /\ ClientOpen(cControl) /\ ServerOpen(cControl) =>
        sPhase = "up" /\ sControl = cControl

\* The server's control channel is a connection that channelDialer made,
\* never one of the tunnel connections that arrive through the same
\* tunnelChannel, some of them from before the last restart.
ControlIsControl == sControl # 0 => conn[sControl].kind = "ctl"

\* Neither side restarts over a control channel that works: all the
\* go Restart() calls of one failure make one restart.
RestartsAreCaused ==
    [][/\ sPhase = "up" /\ sPhase' = "sleep" => DeadForServer(sControl)
       /\ cPhase = "up" /\ cPhase' = "sleep" => DeadForClient(cControl)]_vars

\* Once the network works, client and server find each other again and stay
\* connected, whatever pooled connections, half-finished handshakes and
\* pending restarts the faults have left behind.
Reconnects ==
    <>[](sPhase = "up" /\ cPhase = "up" /\ sControl = cControl)

\* IsReady "reports whether the runtime currently has an established control
\* channel and can accept inbound connections" (registry.go).  Not so while
\* Restart sleeps; TLC refutes it, and README.md tells how.
ReadyMeansControl == sReady => sPhase = "up" /\ ServerOpen(sControl)

\* poolConnections, the client's "active connections counter" (tunnelDialer),
\* is reset by Restart while connections of before are still open, and may
\* then even be negative.  But it errs on one side only: it never counts
\* connections that are gone, which would keep poolMaintainer from growing.
CounterErrsLow == poolConnections <= Cardinality(Pooled)
=============================================================================
