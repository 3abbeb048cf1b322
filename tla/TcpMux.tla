------------------------------- MODULE TcpMux -------------------------------
(***************************************************************************)
(* The data path of the tcpmux server while one control channel is up:     *)
(* local connections are multiplexed as streams over smux sessions, at     *)
(* most MuxCon at a time on a session.                                     *)
(*                                                                         *)
(*   internal/server/transport/tcpmux.go: acceptLocalConn, enqueueInbound, *)
(*   channelHandler (the request branch), acceptTunnelConn, handleLoop,    *)
(*   handleSession, handleSessionError                                     *)
(*                                                                         *)
(* The client is taken from how the server uses it: a request makes it     *)
(* dial one session, and its poolMaintainer dials one when it has none.    *)
(***************************************************************************)
EXTENDS Integers, FiniteSets

CONSTANTS
    Listeners,   \* local listeners (goroutines of acceptLocalConn)
    Sessions,    \* slots for sessions and their handleSession goroutines
    MuxCon,      \* mux_con
    ChannelSize, \* capacity of tunnelChannel, localChannel, reqNewConnChan
    MaxLocals,   \* bound: local connections that arrive
    MaxFaults,   \* bound: sessions that die and dials that fail
    MaxDials     \* bound: sessions being dialed at the same time

ASSUME MuxAssumption ==
    /\ IsFiniteSet(Listeners)
    /\ IsFiniteSet(Sessions)
    /\ MuxCon \in Nat \ {0}
    /\ ChannelSize \in Nat \ {0}
    /\ MaxLocals \in Nat
    /\ MaxFaults \in Nat
    /\ MaxDials \in Nat

VARIABLES
    accPc,          \* [Listeners -> {"accept", "count", "compare"}]
    localQ,         \* connections in localChannel
    reqQ,           \* tokens in reqNewConnChan
    dialing,        \* sessions the client is dialing
    pc,             \* [Sessions -> where the session and its goroutine are]
    alive,          \* [Sessions -> the smux session works]
    sem,            \* [Sessions -> tokens in handleSession's counter]
    streams,        \* [Sessions -> open streams]
    streamCounter,
    sessionCounter,
    arrivals,       \* history: local connections that arrived
    lost,           \* history: 1 once a request or a session was lost
    faults          \* history: injected faults

sessionVars == <<pc, alive, sem, streams>>
counterVars == <<streamCounter, sessionCounter>>
histVars == <<arrivals, lost, faults>>
vars == <<accPc, localQ, reqQ, dialing, sessionVars, counterVars, histVars>>

\* handleSession holds a local connection at these places.
Holding == {"open", "send", "requeue", "requeueAndRequest"}

PcValues == {"none", "queued", "sem", "select", "request", "closed"} \cup Holding

Init ==
    /\ accPc = [l \in Listeners |-> "accept"]
    /\ localQ = 0 /\ reqQ = 0 /\ dialing = 0
    /\ pc = [s \in Sessions |-> "none"]
    /\ alive = [s \in Sessions |-> FALSE]
    /\ sem = [s \in Sessions |-> 0]
    /\ streams = [s \in Sessions |-> 0]
    /\ streamCounter = 0 /\ sessionCounter = 0
    /\ arrivals = 0 /\ lost = 0 /\ faults = 0

Goto(s, l) == pc' = [pc EXCEPT ![s] = l]

-----------------------------------------------------------------------------
(* enqueueInbound, called by acceptLocalConn and by the gateways.          *)

\* The connection goes into localChannel (a full channel refuses it).
AcceptLocal(l) ==
    /\ accPc[l] = "accept"
    /\ arrivals < MaxLocals
    /\ localQ < ChannelSize
    /\ localQ' = localQ + 1
    /\ arrivals' = arrivals + 1
    /\ accPc' = [accPc EXCEPT ![l] = "count"]
    /\ UNCHANGED <<reqQ, dialing, sessionVars, counterVars, lost, faults>>

\* Only then is it counted: a session may have taken it already.
CountStream(l) ==
    /\ accPc[l] = "count"
    /\ streamCounter' = streamCounter + 1
    /\ accPc' = [accPc EXCEPT ![l] = "compare"]
    /\ UNCHANGED <<localQ, reqQ, dialing, sessionVars, sessionCounter, histVars>>

\* Mutant: a session counts for more streams than it carries.
SessionsFullOffByOne == streamCounter > sessionCounter * (MuxCon + 1)

SessionsFull == streamCounter >= sessionCounter * MuxCon

\* Mutant: reqNewConnChan takes every request.
RequestUnbounded == reqQ' = reqQ + 1 /\ UNCHANGED lost

\* A request for a new session, unless reqNewConnChan is full.
Request ==
    \/ reqQ < ChannelSize /\ reqQ' = reqQ + 1 /\ UNCHANGED lost
    \/ reqQ = ChannelSize /\ lost' = 1 /\ UNCHANGED reqQ

MaybeRequest(l) ==
    /\ accPc[l] = "compare"
    /\ IF SessionsFull THEN Request ELSE UNCHANGED <<reqQ, lost>>
    /\ accPc' = [accPc EXCEPT ![l] = "accept"]
    /\ UNCHANGED <<localQ, dialing, sessionVars, counterVars, arrivals, faults>>

-----------------------------------------------------------------------------
(* Sessions arrive.                                                        *)

\* channelHandler sends SG_Chan, the client starts a tunnelDialer.
SendRequest ==
    /\ reqQ > 0
    /\ dialing < MaxDials
    /\ reqQ' = reqQ - 1
    /\ dialing' = dialing + 1
    /\ UNCHANGED <<accPc, localQ, sessionVars, counterVars, histVars>>

\* The client's poolMaintainer finds the pool empty and adds a connection.
PoolGrows ==
    /\ dialing < MaxDials
    /\ \A s \in Sessions : ~alive[s]
    /\ dialing' = dialing + 1
    /\ UNCHANGED <<accPc, localQ, reqQ, sessionVars, counterVars, histVars>>

Queued == {s \in Sessions : pc[s] = "queued"}

\* acceptTunnelConn: the session goes into tunnelChannel.
AcceptSession(s) ==
    /\ dialing > 0
    /\ pc[s] = "none"
    /\ Cardinality(Queued) < ChannelSize
    /\ dialing' = dialing - 1
    /\ alive' = [alive EXCEPT ![s] = TRUE]
    /\ Goto(s, "queued")
    /\ UNCHANGED <<accPc, localQ, reqQ, sem, streams, counterVars, histVars>>

\* acceptTunnelConn: tunnelChannel is full, the session is closed.
DiscardSession ==
    /\ dialing > 0
    /\ Cardinality(Queued) = ChannelSize
    /\ dialing' = dialing - 1
    /\ lost' = 1
    /\ UNCHANGED <<accPc, localQ, reqQ, sessionVars, counterVars, arrivals, faults>>

DialFails ==
    /\ dialing > 0
    /\ faults < MaxFaults
    /\ faults' = faults + 1
    /\ dialing' = dialing - 1
    /\ lost' = 1
    /\ UNCHANGED <<accPc, localQ, reqQ, sessionVars, counterVars, arrivals>>

\* handleLoop: count the session and start handleSession.
HandleLoop(s) ==
    /\ pc[s] = "queued"
    /\ Goto(s, "sem")
    /\ sem' = [sem EXCEPT ![s] = 0]
    /\ streams' = [streams EXCEPT ![s] = 0]
    /\ sessionCounter' = sessionCounter + 1
    /\ UNCHANGED <<accPc, localQ, reqQ, dialing, alive, streamCounter, histVars>>

SessionDies(s) ==
    /\ alive[s]
    /\ faults < MaxFaults
    /\ faults' = faults + 1
    /\ alive' = [alive EXCEPT ![s] = FALSE]
    /\ UNCHANGED <<accPc, localQ, reqQ, dialing, pc, sem, streams, counterVars, arrivals,
                   lost>>

-----------------------------------------------------------------------------
(* handleSession.                                                          *)

\* Mutant: the semaphore is ignored.
AcquireUnbounded(s) ==
    /\ pc[s] = "sem"
    /\ sem' = [sem EXCEPT ![s] = @ + 1]
    /\ Goto(s, "select")
    /\ UNCHANGED <<accPc, localQ, reqQ, dialing, alive, streams, counterVars, histVars>>

\* counter <- struct{}{}: blocks while MuxCon tokens are out.
Acquire(s) ==
    /\ pc[s] = "sem"
    /\ sem[s] < MuxCon
    /\ sem' = [sem EXCEPT ![s] = @ + 1]
    /\ Goto(s, "select")
    /\ UNCHANGED <<accPc, localQ, reqQ, dialing, alive, streams, counterVars, histVars>>

TakeLocal(s) ==
    /\ pc[s] = "select"
    /\ localQ > 0
    /\ localQ' = localQ - 1
    /\ Goto(s, "open")
    /\ UNCHANGED <<accPc, reqQ, dialing, alive, sem, streams, counterVars, histVars>>

\* Mutant: the stream counter is not given back.
ExpireUncounted(s) ==
    /\ pc[s] = "open"
    /\ sem' = [sem EXCEPT ![s] = @ - 1]
    /\ Goto(s, "sem")
    /\ UNCHANGED <<accPc, localQ, reqQ, dialing, alive, streams, counterVars, histVars>>

\* The connection is older than 3000 ms: it is closed.
Expire(s) ==
    /\ pc[s] = "open"
    /\ streamCounter' = streamCounter - 1
    /\ sem' = [sem EXCEPT ![s] = @ - 1]
    /\ Goto(s, "sem")
    /\ UNCHANGED <<accPc, localQ, reqQ, dialing, alive, streams, sessionCounter, histVars>>

OpenStream(s) ==
    /\ pc[s] = "open"
    /\ alive[s]
    /\ Goto(s, "send")
    /\ UNCHANGED <<accPc, localQ, reqQ, dialing, alive, sem, streams, counterVars, histVars>>

\* OpenStream fails: handleSessionError counts the session out.
OpenStreamFails(s) ==
    /\ pc[s] = "open"
    /\ ~alive[s]
    /\ sessionCounter' = sessionCounter - 1
    /\ Goto(s, "requeueAndRequest")
    /\ UNCHANGED <<accPc, localQ, reqQ, dialing, alive, sem, streams, streamCounter,
                   histVars>>

\* handleSessionError: the connection goes back, which blocks while
\* localChannel is full.
RequeueAfterOpen(s) ==
    /\ pc[s] = "requeueAndRequest"
    /\ localQ < ChannelSize
    /\ localQ' = localQ + 1
    /\ Goto(s, "request")
    /\ UNCHANGED <<accPc, reqQ, dialing, alive, sem, streams, counterVars, histVars>>

\* handleSessionError: ask for a new session; handleSession returns, which
\* closes the session and the semaphore.
RequestAfterOpen(s) ==
    /\ pc[s] = "request"
    /\ Request
    /\ Goto(s, "closed")
    /\ UNCHANGED <<accPc, localQ, dialing, alive, sem, streams, counterVars, arrivals,
                   faults>>

\* The target is sent and the pair goes to TCPConnectionHandler.
SendTarget(s) ==
    /\ pc[s] = "send"
    /\ streams' = [streams EXCEPT ![s] = @ + 1]
    /\ Goto(s, "sem")
    /\ UNCHANGED <<accPc, localQ, reqQ, dialing, alive, sem, counterVars, histVars>>

\* The session died between OpenStream and SendBinaryString.
SendTargetFails(s) ==
    /\ pc[s] = "send"
    /\ ~alive[s]
    /\ Goto(s, "requeue")
    /\ UNCHANGED <<accPc, localQ, reqQ, dialing, alive, sem, streams, counterVars, histVars>>

\* The connection goes back; the loop continues without taking its token
\* out of the semaphore.
RequeueAfterSend(s) ==
    /\ pc[s] = "requeue"
    /\ localQ < ChannelSize
    /\ localQ' = localQ + 1
    /\ Goto(s, "sem")
    /\ UNCHANGED <<accPc, reqQ, dialing, alive, sem, streams, counterVars, histVars>>

\* TCPConnectionHandler returns.  A closed semaphore has no tokens to wait for.
StreamEnds(s) ==
    /\ streams[s] > 0
    /\ streams' = [streams EXCEPT ![s] = @ - 1]
    /\ sem' = [sem EXCEPT ![s] = IF pc[s] = "closed" THEN @ ELSE @ - 1]
    /\ streamCounter' = streamCounter - 1
    /\ UNCHANGED <<accPc, localQ, reqQ, dialing, pc, alive, sessionCounter, histVars>>

\* The slot of a session that is gone can be used again.
Recycle(s) ==
    /\ pc[s] = "closed"
    /\ streams[s] = 0
    /\ Goto(s, "none")
    /\ sem' = [sem EXCEPT ![s] = 0]
    /\ UNCHANGED <<accPc, localQ, reqQ, dialing, alive, streams, counterVars, histVars>>

-----------------------------------------------------------------------------
Acceptor(l) == AcceptLocal(l) \/ CountStream(l) \/ MaybeRequest(l)

HandleSession(s) ==
    \/ Acquire(s) \/ TakeLocal(s)
    \/ Expire(s) \/ OpenStream(s) \/ OpenStreamFails(s)
    \/ RequeueAfterOpen(s) \/ RequestAfterOpen(s)
    \/ SendTarget(s) \/ SendTargetFails(s) \/ RequeueAfterSend(s)

Next ==
    \/ \E l \in Listeners : Acceptor(l)
    \/ \E s \in Sessions :
         \/ AcceptSession(s) \/ HandleLoop(s) \/ HandleSession(s)
         \/ StreamEnds(s) \/ SessionDies(s) \/ Recycle(s)
    \/ SendRequest \/ PoolGrows \/ DiscardSession \/ DialFails

(***************************************************************************)
(* Goroutines that can run do run, dials end, the client's pool maintainer *)
(* keeps ticking, and the streams of a dead session end.  The streams of a *)
(* live session may stay open for ever.                                    *)
(***************************************************************************)
Fairness ==
    /\ \A l \in Listeners : WF_vars(CountStream(l) \/ MaybeRequest(l))
    /\ \A s \in Sessions :
         /\ WF_vars(HandleSession(s)) /\ WF_vars(HandleLoop(s)) /\ WF_vars(Recycle(s))
         /\ WF_vars(~alive[s] /\ StreamEnds(s))
    /\ WF_vars(\E s \in Sessions : AcceptSession(s))
    /\ WF_vars(SendRequest) /\ WF_vars(PoolGrows)

Spec == Init /\ [][Next]_vars /\ Fairness

-----------------------------------------------------------------------------
(* Properties.                                                             *)

Handlers == {s \in Sessions : pc[s] \notin {"none", "queued", "closed"}}

\* The session's goroutine has taken a token for the stream it works on.
InHand(s) == IF pc[s] \in {"select", "open", "send"} THEN 1 ELSE 0

\* Every variable keeps the type of what it stands for in the code.
TypeOK ==
    /\ accPc \in [Listeners -> {"accept", "count", "compare"}]
    /\ localQ \in 0..ChannelSize /\ reqQ \in 0..ChannelSize /\ dialing \in Nat
    /\ pc \in [Sessions -> PcValues]
    /\ alive \in [Sessions -> BOOLEAN]
    /\ sem \in [Sessions -> Nat]
    /\ streams \in [Sessions -> Nat]
    /\ streamCounter \in Int /\ sessionCounter \in Int
    /\ arrivals \in Nat /\ lost \in {0, 1} /\ faults \in Nat

\* No session carries more than MuxCon streams at a time, the one its
\* goroutine is about to open included.
MuxConBound == \A s \in Sessions : streams[s] + InHand(s) <= MuxCon

\* The open streams; those of a session are numbered from 1.
OpenStreams == {u \in Sessions \X (1..MuxCon) : u[2] <= streams[u[1]]}

\* streamCounter, on which new sessions are requested, counts every local
\* connection from localChannel to the end of its stream exactly once,
\* through expiry and both ways of being put back; a listener that has
\* queued a connection but not counted it yet makes up the difference.
StreamCounterExact ==
    streamCounter
      + Cardinality({l \in Listeners : accPc[l] = "count"})
    = localQ
      + Cardinality({s \in Sessions : pc[s] \in Holding})
      + Cardinality(OpenStreams)

\* sessionCounter counts the sessions whose handleSession goroutine has not
\* run into an error.
SessionCounterExact ==
    sessionCounter =
      Cardinality({s \in Handlers : pc[s] \notin {"requeueAndRequest", "request"}})

\* The two counters that enqueueInbound compares to decide on a new session are
\* exact through expiry, requeueing and every failure of a session.
CountersExact == StreamCounterExact /\ SessionCounterExact

\* As long as no request and no session was lost, every waiting local
\* connection is eventually taken, even if the streams of the sessions that
\* work stay open for ever: more sessions are asked for in time.
QueueDrains == <>[](lost = 0 => localQ = 0)

\* The semaphore of handleSession is the "mux connection counter" of the
\* session: its tokens are the streams the session carries.  Not so after a
\* failed SendBinaryString; TLC refutes it, and README.md tells how.
SemaphoreExact ==
    \A s \in Handlers :
        pc[s] \notin {"requeueAndRequest", "request", "requeue"} =>
            sem[s] = streams[s] + InHand(s)
=============================================================================
