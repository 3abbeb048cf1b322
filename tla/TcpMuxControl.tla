---------------------------- MODULE TcpMuxControl ----------------------------
(***************************************************************************)
(* The control channels of a tcpmux server that serves several clients     *)
(* (allow_multi_ip): the first client to finish the handshake owns the     *)
(* main control channel, the others are promoted to extra ones, requests   *)
(* for tunnels go round-robin and heartbeats prune the dead.               *)
(*                                                                         *)
(*   server   internal/server/transport/tcpmux.go: Restart,                *)
(*            channelHandshake, channelHandler, acceptTunnelConn,          *)
(*            tryPromoteExtraControlChannel, shouldProbeForExtraControl,   *)
(*            sendNewConnSignalRoundRobin, broadcastHeartbeat              *)
(*   client   internal/client/transport/tcpmux.go: channelDialer,          *)
(*            channelHandler, Restart                                      *)
(*                                                                         *)
(* Every client has an address of its own.  Only connections that carry a  *)
(* token are modelled; the sessions of tunnel connections are in TcpMux.   *)
(* The several go Restart() calls of one failure are in TcpLifecycle, here *)
(* a failure is one restart, and its 2 s outlast a probe of 1.5 s.         *)
(***************************************************************************)
EXTENDS Integers, Sequences, FiniteSets, Functions

CONSTANTS
    Clients,      \* client processes, each at its own address
    MaxConns,     \* bound: connections that exist at the same time
    MultiIP,      \* the settings of allow_multi_ip that are explored
    MaxFaults     \* bound: broken connections and answers later than 2 s

ASSUME ControlAssumption ==
    /\ IsFiniteSet(Clients) /\ Clients # {}
    /\ MaxConns \in Nat \ {0}
    /\ MultiIP \subseteq BOOLEAN
    /\ MaxFaults \in Nat

VARIABLES
    allowMultiIP, \* allow_multi_ip, which never changes
    conn,     \* [Slots -> Connection]
    backlog,  \* connections Accept has not returned yet
    sPhase,   \* "handshake", "up", or "sleep" while the server restarts
    control,  \* controlChannel, 0 for nil
    reading,  \* the connection channelHandshake reads from, 0 for none
    probing,  \* the connection acceptTunnelConn probes, 0 for none
    extras,   \* extraCtrlConns
    rr,       \* rrControlIdx
    cPhase,   \* [Clients -> "dial", "await", "up" or "sleep"]
    cConn,    \* [Clients -> the control connection, 0 for none]
    passed,   \* history: [Slots -> signals others got since its last one]
    faults    \* history: faults that happened

serverVars == <<allowMultiIP, backlog, sPhase, control, reading, probing, extras, rr>>
clientVars == <<cPhase, cConn>>
vars == <<conn, serverVars, clientVars, passed, faults>>

Slots == 1..MaxConns

Connection ==
    [owner : Clients,
     ends : SUBSET {"client", "server"}, \* the ends that are open
     link : {"works", "broken"},         \* the network dropped it, silently
     acked : {"no", "yes"}]              \* the server has sent the token back

NoConn == [owner |-> CHOOSE c \in Clients : TRUE, ends |-> {}, link |-> "works",
           acked |-> "no"]

ClientOpen(i) == "client" \in conn[i].ends
ServerOpen(i) == "server" \in conn[i].ends
Broken(i) == conn[i].link = "broken"
DeadForServer(i) == ~ServerOpen(i) \/ ~ClientOpen(i) \/ Broken(i)
DeadForClient(i) == ~ServerOpen(i) \/ Broken(i)

\* The connections the server refers to.
Held == backlog \cup {control, reading, probing} \cup Range(extras)

Free(i) == conn[i].ends = {} /\ i \notin Held /\ \A c \in Clients : cConn[c] # i

\* The server closes its end of the connections S, clients theirs of i.
ServerCloses(S) ==
    [i \in Slots |-> IF i \in S THEN [conn[i] EXCEPT !.ends = @ \ {"server"}] ELSE conn[i]]
ClientCloses(i) == [conn EXCEPT ![i].ends = @ \ {"client"}]

Init ==
    /\ allowMultiIP \in MultiIP
    /\ conn = [i \in Slots |-> NoConn]
    /\ backlog = {} /\ sPhase = "handshake" /\ control = 0 /\ reading = 0 /\ probing = 0
    /\ extras = <<>> /\ rr = 0
    /\ cPhase = [c \in Clients |-> "dial"] /\ cConn = [c \in Clients |-> 0]
    /\ passed = [i \in Slots |-> 0]
    /\ faults = 0

-----------------------------------------------------------------------------
(* Clients.                                                                *)

\* channelDialer: dial and send the token.  Nothing listens during a restart.
Dial(c, i) ==
    /\ cPhase[c] = "dial"
    /\ sPhase # "sleep"
    /\ Free(i)
    /\ \A k \in 1..(i - 1) : ~Free(k)
    /\ conn' = [conn EXCEPT ![i] = [owner |-> c, ends |-> {"client", "server"},
                                    link |-> "works", acked |-> "no"]]
    /\ backlog' = backlog \cup {i}
    /\ cPhase' = [cPhase EXCEPT ![c] = "await"]
    /\ cConn' = [cConn EXCEPT ![c] = i]
    /\ UNCHANGED <<allowMultiIP, sPhase, control, reading, probing, extras, rr,
                   passed, faults>>

\* channelDialer: the token comes back.
Established(c) ==
    /\ cPhase[c] = "await"
    /\ conn[cConn[c]].acked = "yes"
    /\ ~Broken(cConn[c])
    /\ cPhase' = [cPhase EXCEPT ![c] = "up"]
    /\ UNCHANGED <<conn, serverVars, cConn, passed, faults>>

\* The server has the connection in hand, or will soon take it.
AnswerIsDue(i) ==
    /\ ~Broken(i) /\ ServerOpen(i)
    /\ \/ conn[i].acked = "yes"
       \/ i \in backlog \cup {reading, probing}

\* channelDialer: an error, or no answer within 2 s: close and retry.
Retry(c) ==
    /\ cPhase[c] = "await"
    /\ \/ ~AnswerIsDue(cConn[c]) /\ UNCHANGED faults
       \/ faults < MaxFaults /\ faults' = faults + 1
    /\ conn' = ClientCloses(cConn[c])
    /\ cPhase' = [cPhase EXCEPT ![c] = "dial"]
    /\ cConn' = [cConn EXCEPT ![c] = 0]
    /\ UNCHANGED <<serverVars, passed>>

\* The read from the control channel fails: Restart.
ClientRestart(c) ==
    /\ cPhase[c] = "up"
    /\ DeadForClient(cConn[c])
    /\ conn' = ClientCloses(cConn[c])
    /\ cPhase' = [cPhase EXCEPT ![c] = "sleep"]
    /\ UNCHANGED <<serverVars, cConn, passed, faults>>

ClientRestarted(c) ==
    /\ cPhase[c] = "sleep"
    /\ cPhase' = [cPhase EXCEPT ![c] = "dial"]
    /\ cConn' = [cConn EXCEPT ![c] = 0]
    /\ UNCHANGED <<conn, serverVars, passed, faults>>

-----------------------------------------------------------------------------
(* Server: acceptTunnelConn.                                               *)

\* The main control channel first, then the extra ones.
Channels == IF control = 0 THEN extras ELSE <<control>> \o extras

\* Mutant: extra control channels are not looked at.
ShouldProbeMainOnly(i) == control = 0 \/ conn[control].owner # conn[i].owner

ShouldProbeForExtraControl(i) ==
    \A k \in 1..Len(Channels) : conn[Channels[k]].owner # conn[i].owner

Accepting(i) == sPhase # "sleep" /\ probing = 0 /\ i \in backlog /\ backlog' = backlog \ {i}

\* No control channel: channelHandshake takes the connection, or it is busy
\* with another one and this one is closed.
AcceptForHandshake(i) ==
    /\ Accepting(i)
    /\ control = 0
    /\ \/ reading = 0 /\ reading' = i /\ UNCHANGED conn
       \/ reading # 0 /\ conn' = ServerCloses({i}) /\ UNCHANGED reading
    /\ UNCHANGED <<allowMultiIP, sPhase, control, probing, extras, rr, clientVars,
                   passed, faults>>

\* A connection from another address than the client's is dropped.
AcceptSuspicious(i) ==
    /\ Accepting(i)
    /\ control # 0 /\ ~allowMultiIP
    /\ conn[control].owner # conn[i].owner
    /\ conn' = ServerCloses({i})
    /\ UNCHANGED <<allowMultiIP, sPhase, control, reading, probing, extras, rr,
                   clientVars, passed, faults>>

AcceptForProbe(i) ==
    /\ Accepting(i)
    /\ control # 0 /\ allowMultiIP
    /\ ShouldProbeForExtraControl(i)
    /\ probing' = i
    /\ UNCHANGED <<allowMultiIP, conn, sPhase, control, reading, extras, rr,
                   clientVars, passed, faults>>

\* Everything else becomes a smux session, which never answers the token.
AcceptAsSession(i) ==
    /\ Accepting(i)
    /\ control # 0
    /\ IF allowMultiIP THEN ~ShouldProbeForExtraControl(i)
                       ELSE conn[control].owner = conn[i].owner
    /\ UNCHANGED <<allowMultiIP, conn, sPhase, control, reading, probing, extras,
                   rr, clientVars, passed, faults>>

\* tryPromoteExtraControlChannel: the token is read and answered.  It need
\* not notice a restart that has already closed the other extra channels.
Promote ==
    /\ probing # 0
    /\ conn' = [conn EXCEPT ![probing].acked = "yes"]
    /\ extras' = Append(extras, probing)
    /\ passed' = [passed EXCEPT ![probing] = 0]
    /\ probing' = 0
    /\ UNCHANGED <<allowMultiIP, backlog, sPhase, control, reading, rr,
                   clientVars, faults>>

\* tryPromoteExtraControlChannel: the read fails and the connection becomes
\* a session, or the answer cannot be sent and it is closed.
PromoteFails ==
    /\ probing # 0
    /\ DeadForServer(probing)
    /\ \/ UNCHANGED conn
       \/ conn' = ServerCloses({probing})
    /\ probing' = 0
    /\ UNCHANGED <<allowMultiIP, backlog, sPhase, control, reading, extras, rr,
                   clientVars, passed, faults>>

-----------------------------------------------------------------------------
(* Server: channelHandshake.                                               *)

HandshakeOk ==
    /\ sPhase = "handshake"
    /\ reading # 0
    /\ conn' = [conn EXCEPT ![reading].acked = "yes"]
    /\ control' = reading
    /\ reading' = 0
    /\ sPhase' = "up"
    /\ passed' = [passed EXCEPT ![reading] = 0]
    /\ UNCHANGED <<allowMultiIP, backlog, probing, extras, rr, clientVars, faults>>

HandshakeDiscard ==
    /\ sPhase = "handshake"
    /\ reading # 0
    /\ DeadForServer(reading)
    /\ conn' = ServerCloses({reading})
    /\ reading' = 0
    /\ UNCHANGED <<allowMultiIP, backlog, sPhase, control, probing, extras, rr,
                   clientVars, passed, faults>>

-----------------------------------------------------------------------------
(* Server: channelHandler.  A write to a channel whose server end is       *)
(* closed fails; one to a channel that is dead in another way may fail.    *)

\* The possible sets of channels to which a write fails.
Failures ==
    {F \in SUBSET Range(Channels) :
        \A i \in Range(Channels) : /\ ~ServerOpen(i) => i \in F
                                   /\ i \in F => DeadForServer(i)}

\* The order in which the channels are tried.
Try(k) == Channels[((rr + k) % Len(Channels)) + 1]

\* Mutant: rrControlIdx is not advanced.
AdvanceStuck(k) == (rr + k) % Len(Channels)

\* Mutant: rrControlIdx is not taken modulo the number of channels.
AdvanceUnwrapped(k) == rr + k + 1

Advance(k) == (rr + k + 1) % Len(Channels)

\* sendNewConnSignalRoundRobin: the first channel that takes the signal gets
\* it, the ones before it are closed.
Signal ==
    /\ sPhase = "up"
    /\ \E F \in Failures, k \in 0..(Len(Channels) - 1) :
         /\ Try(k) \notin F
         /\ \A j \in 0..(k - 1) : Try(j) \in F
         /\ conn' = ServerCloses({Try(j) : j \in 0..(k - 1)})
         /\ rr' = Advance(k)
         /\ passed' = [i \in Slots |->
                         IF i \in Range(Channels) \ {Try(k)} /\ "server" \in conn'[i].ends
                         THEN passed[i] + 1 ELSE 0]
    /\ UNCHANGED <<allowMultiIP, backlog, sPhase, control, reading, probing,
                   extras, clientVars, faults>>

\* sendNewConnSignalRoundRobin fails on every channel, the main one included.
SignalFails ==
    /\ sPhase = "up"
    /\ Range(Channels) \in Failures
    /\ conn' = ServerCloses(Range(Channels))
    /\ UNCHANGED <<serverVars, clientVars, passed, faults>>

\* Mutant: dead extra channels stay in the list.
HeartbeatKeeps ==
    /\ sPhase = "up"
    /\ \E F \in Failures \ {{}} : conn' = ServerCloses(F)
    /\ passed' = [i \in Slots |-> 0]
    /\ UNCHANGED <<serverVars, clientVars, faults>>

\* The extra channels without the failed ones, in their order.
AliveExtras(F) ==
    LET alive[k \in 0..Len(extras)] ==
          IF k = 0 THEN <<>>
          ELSE IF extras[k] \in F THEN alive[k - 1] ELSE Append(alive[k - 1], extras[k])
    IN  alive[Len(extras)]

\* broadcastHeartbeat: every channel that fails is closed, and the extra
\* ones among them leave the list.  Without failures nothing changes.
Heartbeat ==
    /\ sPhase = "up"
    /\ \E F \in Failures \ {{}} :
         /\ conn' = ServerCloses(F)
         /\ extras' = AliveExtras(F)
    /\ passed' = [i \in Slots |-> 0]
    /\ UNCHANGED <<allowMultiIP, backlog, sPhase, control, reading, probing, rr,
                   clientVars, faults>>

\* The read from the main control channel fails, or a signal or heartbeat
\* could not be sent: Restart closes the listener and every channel.
ServerRestart ==
    /\ sPhase = "up"
    /\ DeadForServer(control)
    /\ sPhase' = "sleep"
    /\ conn' = ServerCloses(backlog \cup {control} \cup Range(extras))
    /\ backlog' = {}
    /\ extras' = <<>>
    /\ UNCHANGED <<allowMultiIP, control, reading, probing, rr, clientVars,
                   passed, faults>>

\* Mutant: controlChannel is not reset.
ServerRestartedKeepsControl ==
    /\ sPhase = "sleep"
    /\ probing = 0
    /\ sPhase' = "handshake"
    /\ extras' = <<>>
    /\ rr' = 0
    /\ UNCHANGED <<allowMultiIP, conn, backlog, control, reading, probing,
                   clientVars, passed, faults>>

\* Restart, after the sleep.  A channel promoted during it is forgotten.
ServerRestarted ==
    /\ sPhase = "sleep"
    /\ probing = 0                       \* a probe takes less than the sleep
    /\ sPhase' = "handshake"
    /\ control' = 0
    /\ extras' = <<>>
    /\ rr' = 0
    /\ UNCHANGED <<allowMultiIP, conn, backlog, reading, probing, clientVars,
                   passed, faults>>

-----------------------------------------------------------------------------
(* Environment.                                                            *)

\* A session is closed when its client has left; Go's runtime closes a
\* connection nobody refers to.
Collect(i) ==
    /\ ServerOpen(i)
    /\ i \notin Held
    /\ conn[i].acked = "no" => ~ClientOpen(i) \/ Broken(i)
    /\ conn' = ServerCloses({i})
    /\ UNCHANGED <<serverVars, clientVars, passed, faults>>

\* The network drops a connection: both ends find out later, on their own.
Break(i) ==
    /\ faults < MaxFaults
    /\ ClientOpen(i) /\ ServerOpen(i) /\ ~Broken(i)
    /\ faults' = faults + 1
    /\ conn' = [conn EXCEPT ![i].link = "broken"]
    /\ UNCHANGED <<serverVars, clientVars, passed>>

-----------------------------------------------------------------------------
Client(c) ==
    \/ \E i \in Slots : Dial(c, i)
    \/ Established(c) \/ Retry(c) \/ ClientRestart(c) \/ ClientRestarted(c)

Accept(i) ==
    AcceptForHandshake(i) \/ AcceptSuspicious(i) \/ AcceptForProbe(i) \/ AcceptAsSession(i)

Server ==
    \/ \E i \in Slots : Accept(i)
    \/ Promote \/ PromoteFails \/ HandshakeOk \/ HandshakeDiscard
    \/ Signal \/ SignalFails \/ Heartbeat \/ ServerRestart \/ ServerRestarted

Next ==
    \/ \E c \in Clients : Client(c)
    \/ Server
    \/ \E i \in Slots : Collect(i) \/ Break(i)

(***************************************************************************)
(* All programs keep running, heartbeats are sent for ever and a write to  *)
(* a dead connection does not succeed for ever.  Nothing is assumed of     *)
(* requests and faults.                                                    *)
(***************************************************************************)
Fairness ==
    /\ \A c \in Clients :
         /\ WF_vars(\E i \in Slots : Dial(c, i))
         /\ WF_vars(Established(c)) /\ WF_vars(Retry(c))
         /\ WF_vars(ClientRestart(c)) /\ WF_vars(ClientRestarted(c))
    /\ \A i \in Slots : WF_vars(Accept(i)) /\ WF_vars(Collect(i))
    /\ WF_vars(Promote \/ PromoteFails) /\ WF_vars(HandshakeOk \/ HandshakeDiscard)
    /\ WF_vars(Heartbeat) /\ WF_vars(ServerRestart) /\ WF_vars(ServerRestarted)

Spec == Init /\ [][Next]_vars /\ Fairness

-----------------------------------------------------------------------------
(* Properties.                                                             *)

\* Every variable keeps the type of what it stands for in the code.
TypeOK ==
    /\ allowMultiIP \in MultiIP
    /\ conn \in [Slots -> Connection]
    /\ backlog \subseteq Slots
    /\ sPhase \in {"handshake", "up", "sleep"}
    /\ {control, reading, probing} \subseteq 0..MaxConns
    /\ extras \in Seq(Slots)
    /\ rr \in 0..MaxConns
    /\ cPhase \in [Clients -> {"dial", "await", "up", "sleep"}]
    /\ cConn \in [Clients -> 0..MaxConns]
    /\ passed \in [Slots -> Nat]
    /\ faults \in 0..MaxFaults

\* The server never has two control channels to the same client: requests
\* would be counted twice against it, and its restart would leave one behind.
OneChannelPerClient ==
    \A j, k \in 1..Len(Channels) :
        conn[Channels[j]].owner = conn[Channels[k]].owner => j = k

\* No control channel is passed over: between two prunings of the list, fewer
\* signals than there are channels go to others before each one has its turn,
\* whichever channels die, join or are skipped meanwhile.
RoundRobinFair ==
    sPhase = "up" =>
        \A k \in 1..Len(Channels) :
            ServerOpen(Channels[k]) => passed[Channels[k]] < Len(Channels)

\* With allow_multi_ip, once the network works, every client ends up with a
\* control channel of its own that the server knows, whatever dead channels of its the server
\* still lists and whoever has taken the main one.
AllJoin ==
    allowMultiIP =>
        <>[](sPhase = "up" /\ \A c \in Clients : /\ cPhase[c] = "up"
                                                 /\ cConn[c] \in Range(Channels))

\* The clients compete for the main control channel, and without allow_multi_ip
\* for nothing else: once the network works, one of them has it for good.
OneIsServed ==
    <>[](sPhase = "up" /\ \E c \in Clients : cPhase[c] = "up" /\ cConn[c] = control)

\* A client that has been told "accepted additional control channel"
\* (tryPromoteExtraControlChannel) over a connection both ends hold open is
\* one of the control channels of a server that is up.  Not so when the server
\* restarts during a probe; TLC refutes it, and README.md tells how.
AcceptedIsListed ==
    \A c \in Clients :
        cPhase[c] = "up" /\ ServerOpen(cConn[c]) /\ sPhase = "up" =>
            cConn[c] \in Range(Channels)
=============================================================================
