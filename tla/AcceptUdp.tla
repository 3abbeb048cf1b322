------------------------------ MODULE AcceptUdp ------------------------------
(***************************************************************************)
(* accept_udp: the UDP packets of a local port, carried over TCP tunnel    *)
(* connections, one for each address packets come from.                    *)
(*                                                                         *)
(*   server   internal/server/transport/accept_udp.go: udpListener,        *)
(*            handleUDPLoop, UDPConnectionHandler, udpToTCP, tcpToUDP      *)
(*                                                                         *)
(* Three kinds of goroutines share activeConnections and the flows in it:  *)
(* the reader of udpListener, handleUDPLoop, and the two halves of every   *)
(* UDPConnectionHandler.  A step of the reader is what it does between two *)
(* points at which others can see the difference.                          *)
(*                                                                         *)
(* Timing.  udpToTCP gives up after 60 s without a packet; the reader does *)
(* not stay that long between queueing a flow and sending its first packet.*)
(***************************************************************************)
EXTENDS Integers, Sequences, FiniteSets, UdpAge

CONSTANTS
    Addrs,        \* addresses that packets come from
    Flows,        \* flows that exist at the same time (a bound)
    ChannelSize,  \* capacity of udpChan, tunnelChannel and reqNewConnChan
    PayloadSize,  \* capacity of a flow's payload channel
    MaxFaults     \* bound: tunnel connections that break

ASSUME UdpAssumption ==
    /\ Addrs # {}
    /\ ChannelSize \in Nat \ {0}
    /\ PayloadSize \in Nat \ {0}
    /\ MaxFaults \in Nat

None == "none"

ASSUME NoneAssumption == None \notin Flows

VARIABLES
    active,   \* activeConnections: [Addrs -> Flows \cup {None}]
    flow,     \* [Flows -> Flow]
    rPc,      \* the reader: "read", "store", "offer", "first" or "request"
    rAddr,    \* the reader: where the packet in buf is from
    rFlow,    \* the reader: newUDPConn
    udpChan,
    loopFlow, \* handleUDPLoop: localConn, or None
    tunnelQ,  \* connections in tunnelChannel
    reqQ,     \* tokens in reqNewConnChan
    faults    \* history: faults that happened

readerVars == <<rPc, rAddr, rFlow>>
loopVars == <<udpChan, loopFlow>>
tunnelVars == <<tunnelQ, reqQ>>
vars == <<active, flow, readerVars, loopVars, tunnelVars, faults>>

\* "free" slots are not in use; a flow is "new" until the reader has offered
\* it to udpChan, then "queued" or "dropped"; "served" while it has a
\* handler and "closed" when that has closed the payload channel.
Flow ==
    [addr : Addrs,
     stage : {"free", "new", "queued", "dropped", "served", "closed"},
     congested : {"no", "yes"},            \* IsCongested
     late : {"no", "yes"},                 \* history: a packet was too old
     payload : 0..PayloadSize,             \* packets in the payload channel
     tcp : {"open", "closed"},             \* its tunnel connection
     running : SUBSET {"toTCP", "toUDP"}]  \* the halves of its handler

NewFlow(a) == [addr |-> a, stage |-> "new", congested |-> "no", late |-> "no",
               payload |-> 0, tcp |-> "closed", running |-> {}]

\* What a slot and the reader's buffer hold while they are not in use.
AnyAddr == CHOOSE a \in Addrs : TRUE
NoFlow == [NewFlow(AnyAddr) EXCEPT !.stage = "free"]

Init ==
    /\ active = [a \in Addrs |-> None]
    /\ flow = [f \in Flows |-> NoFlow]
    /\ rPc = "read" /\ rAddr = AnyAddr /\ rFlow = None
    /\ udpChan = <<>> /\ loopFlow = None
    /\ tunnelQ = 0 /\ reqQ = 0 /\ faults = 0

-----------------------------------------------------------------------------
(* udpListener: the reader.                                                *)

Usable(f) == f # None /\ flow[f].congested = "no"

\* A packet of a flow that is active and not congested: it goes into the
\* payload channel, or is dropped when that is full.
ReadForActive(a) ==
    /\ rPc = "read"
    /\ Usable(active[a])
    /\ flow[active[a]].payload < PayloadSize
    /\ flow' = [flow EXCEPT ![active[a]].payload = @ + 1]
    /\ UNCHANGED <<active, readerVars, loopVars, tunnelVars, faults>>

\* Any other packet makes a new flow.
ReadForNew(a) ==
    /\ rPc = "read"
    /\ ~Usable(active[a])
    /\ \E f \in Flows :
         /\ flow[f].stage = "free"
         /\ flow' = [flow EXCEPT ![f] = NewFlow(a)]
         /\ rFlow' = f
    /\ rAddr' = a
    /\ rPc' = "store"
    /\ UNCHANGED <<active, loopVars, tunnelVars, faults>>

Store ==
    /\ rPc = "store"
    /\ active' = [active EXCEPT ![rAddr] = rFlow]
    /\ rPc' = "offer"
    /\ UNCHANGED <<flow, rAddr, rFlow, loopVars, tunnelVars, faults>>

\* Mutant: udpChan takes every flow.
OfferUnbounded ==
    /\ rPc = "offer"
    /\ udpChan' = Append(udpChan, rFlow)
    /\ flow' = [flow EXCEPT ![rFlow].stage = "queued"]
    /\ rPc' = "first"
    /\ UNCHANGED <<active, rAddr, rFlow, loopFlow, tunnelVars, faults>>

Offer ==
    /\ rPc = "offer"
    /\ Len(udpChan) < ChannelSize
    /\ udpChan' = Append(udpChan, rFlow)
    /\ flow' = [flow EXCEPT ![rFlow].stage = "queued"]
    /\ rPc' = "first"
    /\ UNCHANGED <<active, rAddr, rFlow, loopFlow, tunnelVars, faults>>

\* udpChan is full.  The flow stays in activeConnections.
OfferFails ==
    /\ rPc = "offer"
    /\ Len(udpChan) = ChannelSize
    /\ flow' = [flow EXCEPT ![rFlow].stage = "dropped"]
    /\ rPc' = "read"
    /\ rFlow' = None
    /\ UNCHANGED <<active, rAddr, loopVars, tunnelVars, faults>>

\* The first packet, sent after others can see the flow.
SendFirst ==
    /\ rPc = "first"
    /\ flow' = [flow EXCEPT ![rFlow].payload = @ + 1]
    /\ rPc' = "request"
    /\ UNCHANGED <<active, rAddr, rFlow, loopVars, tunnelVars, faults>>

\* A full reqNewConnChan takes no request.
RequestTunnel ==
    /\ rPc = "request"
    /\ reqQ' = IF reqQ < ChannelSize THEN reqQ + 1 ELSE reqQ
    /\ rPc' = "read"
    /\ rFlow' = None
    /\ UNCHANGED <<active, flow, rAddr, loopVars, tunnelQ, faults>>

-----------------------------------------------------------------------------
(* handleUDPLoop.                                                          *)

LoopTake ==
    /\ loopFlow = None
    /\ udpChan # <<>>
    /\ loopFlow' = Head(udpChan)
    /\ udpChan' = Tail(udpChan)
    /\ UNCHANGED <<active, flow, readerVars, tunnelVars, faults>>

\* The target is sent over a tunnel connection and the handler starts.
LoopServe ==
    /\ loopFlow # None
    /\ tunnelQ > 0
    /\ tunnelQ' = tunnelQ - 1
    /\ flow' = [flow EXCEPT ![loopFlow].stage = "served", ![loopFlow].tcp = "open",
                            ![loopFlow].running = {"toTCP", "toUDP"}]
    /\ loopFlow' = None
    /\ UNCHANGED <<active, readerVars, udpChan, reqQ, faults>>

\* The tunnel connection is dead: it is closed, the loop waits for another.
LoopSkipDead ==
    /\ loopFlow # None
    /\ tunnelQ > 0
    /\ faults < MaxFaults
    /\ faults' = faults + 1
    /\ tunnelQ' = tunnelQ - 1
    /\ UNCHANGED <<active, flow, readerVars, loopVars, reqQ>>

\* The client answers a request, or its pool has a connection to spare.
TunnelArrives ==
    /\ tunnelQ < ChannelSize
    /\ tunnelQ' = tunnelQ + 1
    /\ reqQ' \in {reqQ, reqQ - 1} \cap Nat
    /\ UNCHANGED <<active, flow, readerVars, loopVars, faults>>

\* A handleLoop takes a tunnel connection for a TCP connection.
TunnelTaken ==
    /\ tunnelQ > 0
    /\ tunnelQ' = tunnelQ - 1
    /\ UNCHANGED <<active, flow, readerVars, loopVars, reqQ, faults>>

-----------------------------------------------------------------------------
(* UDPConnectionHandler.                                                   *)

\* udpToTCP forwards a packet.  The write fails once tcpToUDP has closed the
\* connection on its way out; before that, the kernel may still take bytes
\* for a connection the other side has closed.
Forward(f) ==
    /\ "toTCP" \in flow[f].running
    /\ flow[f].payload > 0
    /\ \E failed \in BOOLEAN :
         /\ failed => flow[f].tcp = "closed"
         /\ ~failed => flow[f].tcp = "open" \/ "toUDP" \in flow[f].running
         /\ flow' = [flow EXCEPT ![f].payload = @ - 1,
                                 ![f].running = IF failed THEN @ \ {"toTCP"} ELSE @]
    /\ UNCHANGED <<active, readerVars, loopVars, tunnelVars, faults>>

\* Mutant: udpToTCP does not time out.
IdleForEver(f) ==
    /\ "toTCP" \in flow[f].running
    /\ flow[f].payload > 0
    /\ flow[f].tcp = "closed"
    /\ flow' = [flow EXCEPT ![f].running = @ \ {"toTCP"}]
    /\ UNCHANGED <<active, readerVars, loopVars, tunnelVars, faults>>

\* udpToTCP: 60 s without a packet; the connection is closed.
Idle(f) ==
    /\ "toTCP" \in flow[f].running
    /\ flow[f].payload = 0
    /\ ~(rPc = "first" /\ rFlow = f)
    /\ flow' = [flow EXCEPT ![f].running = @ \ {"toTCP"}, ![f].tcp = "closed"]
    /\ UNCHANGED <<active, readerVars, loopVars, tunnelVars, faults>>

\* tcpToUDP reads a packet: one that seems too old marks the flow as congested,
\* for good.  The round-trip time is the one its handler started with.
Receive(f) ==
    /\ "toUDP" \in flow[f].running
    /\ flow[f].tcp = "open"
    /\ \E v \in Verdicts :
         flow' = [flow EXCEPT
                    ![f].congested = IF v.congested = "yes" THEN "yes" ELSE @,
                    ![f].late = IF v.late = "yes" THEN "yes" ELSE @]
    /\ UNCHANGED <<active, readerVars, loopVars, tunnelVars, faults>>

\* The connection is closed by the client or by the network, or by tcpToUDP
\* when an answer is too long or cannot be written to the listener.
TunnelCloses(f) ==
    /\ flow[f].stage = "served"
    /\ flow[f].tcp = "open"
    /\ faults < MaxFaults
    /\ faults' = faults + 1
    /\ flow' = [flow EXCEPT ![f].tcp = "closed"]
    /\ UNCHANGED <<active, readerVars, loopVars, tunnelVars>>

\* tcpToUDP: the read fails.
ToUDPEnds(f) ==
    /\ "toUDP" \in flow[f].running
    /\ flow[f].tcp = "closed"
    /\ flow' = [flow EXCEPT ![f].running = @ \ {"toUDP"}]
    /\ UNCHANGED <<active, readerVars, loopVars, tunnelVars, faults>>

\* Mutant: a congested flow removes the entry of its address too.
FinishAlwaysDeletes(f) ==
    /\ flow[f].stage = "served"
    /\ flow[f].running = {}
    /\ flow' = [flow EXCEPT ![f].stage = "closed"]
    /\ active' = [active EXCEPT ![flow[f].addr] = None]
    /\ UNCHANGED <<readerVars, loopVars, tunnelVars, faults>>

\* Mutant: the entry of the address stays.
FinishNeverDeletes(f) ==
    /\ flow[f].stage = "served"
    /\ flow[f].running = {}
    /\ flow' = [flow EXCEPT ![f].stage = "closed"]
    /\ UNCHANGED <<active, readerVars, loopVars, tunnelVars, faults>>

\* Both halves have ended: the payload channel is closed and, unless the
\* flow is congested, the entry of its address is deleted, whichever flow
\* it is the entry of.
Finish(f) ==
    /\ flow[f].stage = "served"
    /\ flow[f].running = {}
    /\ flow' = [flow EXCEPT ![f].stage = "closed"]
    /\ active' = IF flow[f].congested = "no" THEN [active EXCEPT ![flow[f].addr] = None]
                                             ELSE active
    /\ UNCHANGED <<readerVars, loopVars, tunnelVars, faults>>

\* A closed flow that is in no map is garbage.
Collect(f) ==
    /\ flow[f].stage = "closed"
    /\ \A a \in Addrs : active[a] # f
    /\ flow' = [flow EXCEPT ![f] = NoFlow]
    /\ UNCHANGED <<active, readerVars, loopVars, tunnelVars, faults>>

-----------------------------------------------------------------------------
Reader ==
    \/ \E a \in Addrs : ReadForActive(a) \/ ReadForNew(a)
    \/ Store \/ Offer \/ OfferFails \/ SendFirst \/ RequestTunnel

Loop == LoopTake \/ LoopServe \/ LoopSkipDead

Handler(f) ==
    \/ Forward(f) \/ Idle(f) \/ Receive(f) \/ TunnelCloses(f) \/ ToUDPEnds(f) \/ Finish(f)

Next ==
    \/ Reader \/ Loop
    \/ TunnelArrives \/ TunnelTaken
    \/ \E f \in Flows : Handler(f) \/ Collect(f)

(***************************************************************************)
(* The goroutines run, and tunnel connections keep coming: the client's    *)
(* pool refills itself (TcpPool).  The loop gets its turn on tunnelChannel *)
(* although the handleLoops receive from it too: Go queues receivers.      *)
(* Packets come or do not come, and an open flow need never be idle.       *)
(***************************************************************************)
Fairness ==
    /\ WF_vars(Store \/ Offer \/ OfferFails \/ SendFirst \/ RequestTunnel)
    /\ WF_vars(LoopTake) /\ SF_vars(LoopServe) /\ WF_vars(TunnelArrives)
    /\ \A f \in Flows :
         /\ WF_vars(Forward(f)) /\ WF_vars(flow[f].tcp = "closed" /\ Idle(f))
         /\ WF_vars(ToUDPEnds(f)) /\ WF_vars(Finish(f)) /\ WF_vars(Collect(f))

Spec == Init /\ [][Next]_vars /\ Fairness

-----------------------------------------------------------------------------
(* Properties.                                                             *)

\* Every variable keeps the type of what it stands for in the code.
TypeOK ==
    /\ active \in [Addrs -> Flows \cup {None}]
    /\ flow \in [Flows -> Flow]
    /\ rPc \in {"read", "store", "offer", "first", "request"}
    /\ rAddr \in Addrs /\ rFlow \in Flows \cup {None}
    /\ udpChan \in Seq(Flows) /\ Len(udpChan) <= ChannelSize
    /\ loopFlow \in Flows \cup {None}
    /\ tunnelQ \in 0..ChannelSize /\ reqQ \in 0..ChannelSize
    /\ faults \in 0..MaxFaults

\* The reader never sends to a payload channel that a handler has closed,
\* which would panic: neither through activeConnections nor with the first
\* packet of a flow it has just queued.
NoSendOnClosed ==
    /\ \A a \in Addrs : Usable(active[a]) => flow[active[a]].stage # "closed"
    /\ rPc = "first" => flow[rFlow].stage # "closed"

\* A flow that is not congested is its address's entry from the moment the
\* reader stores it until its own handler is done: a handler that deletes by
\* address never deletes another flow, and no address has two such flows.
FlowOwnsEntry ==
    \A f \in Flows :
        /\ flow[f].stage \in {"queued", "dropped", "served"}
        /\ flow[f].congested = "no"
        => active[flow[f].addr] = f

\* "If the packet age exceeds the threshold (3x RTT), flag the connection as
\* congested", both ways: a flow gives up its address if and only if a packet of
\* it was too old.  The end of a ten-minute window makes no packet old that is
\* not, though it can hide one that is (IsLate).
CongestedByAge == \A f \in Flows : flow[f].congested = "yes" <=> flow[f].late = "yes"

\* A flow that reached udpChan gets a handler, and a flow whose tunnel
\* connection is gone is closed, whatever the state of its other half.
FlowEnds ==
    \A f \in Flows :
        /\ flow[f].stage = "queued" ~> flow[f].stage = "served"
        /\ flow[f].stage = "served" /\ flow[f].tcp = "closed" ~> flow[f].stage = "closed"

\* "UDP channel is full, dropping packet.": one packet is dropped, so that the
\* next one of that address makes a flow again.  Not so, because the entry stays;
\* TLC refutes it, and README.md tells how.
OnlyThePacketIsDropped ==
    rPc = "read" =>
        \A a \in Addrs : Usable(active[a]) => flow[active[a]].stage \in {"queued", "served"}
=============================================================================
