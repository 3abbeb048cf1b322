----------------------------- MODULE UdpProofs -----------------------------
(***************************************************************************)
(* Proofs about Udp, for every number of addresses, flows, ports, buffers, *)
(* faults and restarts.                                                    *)
(*                                                                         *)
(* None of the three invariants of Udp is inductive.  FlowInv ties the     *)
(* listener's map, udpChan and handleLoop to the states of the flows,      *)
(* TunnelInv does so for tunnelChannel and the tunnels, and DatagramInv    *)
(* says what may be on its way to a socket whose handler has its mutex.    *)
(***************************************************************************)
EXTENDS Udp, FiniteSetTheorems, SequenceTheorems, TLAPS

-----------------------------------------------------------------------------
(* Flows.                                                                  *)

\* udpChan holds the queued flows, each once, and handleLoop the held one.
QueueInv ==
    /\ \A i \in 1..Len(udpChan) : flow[udpChan[i]].st = "queued"
    /\ \A i, j \in 1..Len(udpChan) : udpChan[i] = udpChan[j] => i = j
    /\ \A f \in Flows : flow[f].st = "queued" => \E i \in 1..Len(udpChan) : udpChan[i] = f
    /\ \A f \in Flows : flow[f].st = "held" <=> held.flow = f
    /\ held.sock # None => held.flow # None

\* The flows that are the entries of their addresses, unless they are of before
\* a restart; only copying goes on over a restart.
Current(f) == flow[f].st \in {"queued", "held", "skipped", "serving"} /\ flow[f].gen = gen

OwnInv ==
    /\ \A f \in Flows : flow[f].gen <= gen
    /\ \A f \in Flows : flow[f].st \in {"queued", "held"} => flow[f].gen = gen
    /\ \A f \in Flows : flow[f].st # "none" => flow[f].addr \in Addrs
    /\ \A f \in Flows : Current(f) => lmap[flow[f].addr] = f
    /\ \A a \in Addrs : lmap[a] # None => Current(lmap[a]) /\ flow[lmap[a]].addr = a

\* The copying of a flow does not end before its first packet is buffered.
FirstInv ==
    first # None => /\ Current(first)
                    /\ flow[first].st = "serving" => flow[first].halves # {}

FlowInv == QueueInv /\ OwnInv /\ FirstInv

-----------------------------------------------------------------------------
(* Tunnels.                                                                *)

\* tunnelChannel holds pooled tunnels, each once, and handleLoop a taken one.
PoolInv ==
    /\ \A i \in 1..Len(tunnelChan) : tunnel[tunnelChan[i]].st = "pooled"
    /\ \A i, j \in 1..Len(tunnelChan) : tunnelChan[i] = tunnelChan[j] => i = j
    /\ held.sock # None => tunnel[held.sock].st = "taken"

\* A socket shows its token once: until then there is no tunnel and nothing is
\* sent to it.
FreshInv ==
    \A s \in Socks :
        /\ up[s] => sock[s] # "unused"
        /\ up[s] \/ sock[s] = "unused" => tunnel[s] = NoTunnel /\ down[s] = <<>>

\* A flow that is copied has a tunnel, whose mutex its handler keeps.
CopyInv ==
    \A f \in Flows :
        /\ flow[f].halves # {} => flow[f].st = "serving"
        /\ flow[f].st = "serving" => flow[f].sock \in Socks
        /\ flow[f].st = "serving" /\ flow[f].gen = gen =>
              /\ tunnel[flow[f].sock].st \in {"bound", "closed"}
              /\ tunnel[flow[f].sock].handler

\* The last part of EntriesAreLive.
KnownInv ==
    \A s \in Socks : tunnel[s].st \in {"pooled", "taken", "bound"} /\ s \notin tmap =>
        \E f \in Flows : flow[f].st = "closed" /\ flow[f].sock = s /\ flow[f].gen < gen

TunnelInv == PoolInv /\ FreshInv /\ CopyInv /\ KnownInv

-----------------------------------------------------------------------------
(* Datagrams.                                                              *)

\* keepAlive and the handler exclude each other; what a handler sends, and what
\* a client made of it, shows that the handler has the mutex; and as long as
\* nothing was lost the target is ahead of the data.
Mutex(s) == tunnel[s].handler => tunnel[s].alive # "locked"
Sent(s) ==
    /\ sock[s] \in {"bridged", "closed"} => tunnel[s].handler
    /\ \A i \in 1..Len(down[s]) : down[s][i] # "ping" => tunnel[s].handler
Ordered(s) ==
    /\ \A i, j \in 1..Len(down[s]) : i < j /\ down[s][i] # "ping" => down[s][j] # "ping"
    /\ sock[s] \in {"bridged", "closed"} => \A i \in 1..Len(down[s]) : down[s][i] # "ping"
TargetFirst(s) ==
    sock[s] = "waiting" =>
        /\ tunnel[s].st \in {"bound", "closed"} =>
              \E i \in 1..Len(down[s]) : down[s][i] = "target"
        /\ \A j \in 1..Len(down[s]) : down[s][j] = "data" =>
              \E i \in 1..Len(down[s]) : i < j /\ down[s][i] = "target"

Understood(s) == Mutex(s) /\ Sent(s) /\ Ordered(s) /\ (faults = 0 => TargetFirst(s))
DatagramInv == \A s \in Socks : Understood(s)

-----------------------------------------------------------------------------
(* The count of TunnelsSuffice.                                            *)

Waiting == {f \in Flows : flow[f].st \in {"queued", "held"}}
Coming == {s \in Socks : up[s] \/ tunnel[s].st = "pooled" \/ held.sock = s}
Unasked == {first} \ {None}
Enough ==
    reqs + asked + Cardinality(Unasked) + Cardinality(Coming) + lost
        >= ConnPoolSize + Cardinality(Waiting)

\* The flows and ports themselves may be without bound.
CountInv == IsFiniteSet(Waiting) /\ IsFiniteSet(Coming) /\ Enough

UdpInv == TypeOK /\ FlowInv /\ TunnelInv /\ DatagramInv /\ CountInv

-----------------------------------------------------------------------------
(* What an update of one flow, tunnel or channel does.                     *)

Datagrams == {"ping", "target", "data"}

\* A flow gets another state.
LEMMA StateSet ==
  ASSUME NEW F \in [Flows -> FlowType], NEW x \in Flows, NEW st \in FlowStates, NEW G,
         G = [F EXCEPT ![x].st = st]
  PROVE  /\ G \in [Flows -> FlowType]
         /\ G[x].st = st /\ G[x].addr = F[x].addr /\ G[x].gen = F[x].gen
         /\ G[x].sock = F[x].sock /\ G[x].halves = F[x].halves
         /\ \A g \in Flows \ {x} : G[g] = F[g]
BY DEF FlowType

\* A flow gets its tunnel and is copied.
ServedBy(r, s) == [r EXCEPT !.st = "serving", !.sock = s, !.halves = {"local", "tunnel"}]

\* A flow that is served is a flow with a socket and both halves.
LEMMA Served ==
  ASSUME NEW r \in FlowType, NEW s \in Socks
  PROVE  /\ ServedBy(r, s) \in FlowType
         /\ ServedBy(r, s).st = "serving" /\ ServedBy(r, s).addr = r.addr
         /\ ServedBy(r, s).gen = r.gen /\ ServedBy(r, s).sock = s
         /\ ServedBy(r, s).halves = {"local", "tunnel"}
BY DEF ServedBy, FlowType, FlowStates

\* Its tunnel is bound.
BoundTo(r) == [r EXCEPT !.st = "bound", !.handler = TRUE]

\* A bound tunnel is a tunnel with a handler.
LEMMA Bound ==
  ASSUME NEW r \in TunnelType
  PROVE  /\ BoundTo(r) \in TunnelType
         /\ BoundTo(r).st = "bound" /\ BoundTo(r).handler /\ BoundTo(r).alive = r.alive
BY DEF BoundTo, TunnelType

\* A packet is buffered or copied, or a half of the copying ends.
LEMMA Buffered ==
  ASSUME NEW F \in [Flows -> FlowType], NEW x \in Flows, NEW n \in 0..MaxBuffered, NEW G,
         G = [F EXCEPT ![x].buffered = n]
  PROVE  /\ G \in [Flows -> FlowType]
         /\ G[x].st = F[x].st /\ G[x].addr = F[x].addr /\ G[x].gen = F[x].gen
         /\ G[x].sock = F[x].sock /\ G[x].halves = F[x].halves
         /\ \A g \in Flows \ {x} : G[g] = F[g]
BY DEF FlowType

CutOff(r) == [r EXCEPT !.buffered = r.buffered - 1, !.halves = r.halves \ {"local"}]

\* The half that is cut off is one less of the same flow.
LEMMA HalfEnded ==
  ASSUME NEW r \in FlowType, r.buffered > 0
  PROVE  /\ CutOff(r) \in FlowType
         /\ CutOff(r).st = r.st /\ CutOff(r).addr = r.addr /\ CutOff(r).gen = r.gen
         /\ CutOff(r).sock = r.sock /\ CutOff(r).halves \subseteq r.halves
<1> DEFINE n == r.buffered - 1
           H == r.halves \ {"local"}
<1>1. n \in 0..MaxBuffered /\ H \in SUBSET {"local", "tunnel"} /\ H \subseteq r.halves
  BY UdpAssumption DEF FlowType
<1>2. CutOff(r) = [r EXCEPT !.buffered = n, !.halves = H]
  BY Zenon DEF CutOff
<1> HIDE DEF n, H
<1> QED
  BY <1>1, <1>2 DEF FlowType

\* Halves only end, and of one flow.
LEMMA HalvesSet ==
  ASSUME NEW F \in [Flows -> FlowType], NEW x \in Flows, NEW H \in SUBSET F[x].halves, NEW G,
         G = [F EXCEPT ![x].halves = H]
  PROVE  /\ G \in [Flows -> FlowType]
         /\ G[x].st = F[x].st /\ G[x].addr = F[x].addr /\ G[x].gen = F[x].gen
         /\ G[x].sock = F[x].sock /\ G[x].halves \subseteq F[x].halves
         /\ \A g \in Flows \ {x} : G[g] = F[g]
<1>1. H \in SUBSET {"local", "tunnel"}
  BY DEF FlowType
<1> QED
  BY <1>1 DEF FlowType

\* A channel, or the way to a socket, takes one more.
LEMMA QueuePut ==
  ASSUME NEW D, NEW q \in Seq(D), NEW e \in D, NEW r, r = Append(q, e)
  PROVE  /\ r \in Seq(D) /\ Len(q) \in Nat /\ Len(r) = Len(q) + 1
         /\ \A i \in 1..Len(q) : r[i] = q[i] /\ q[i] \in D
         /\ r[Len(q) + 1] = e
BY AppendProperties, LenProperties, ElementOfSeq

\* Its first is taken.
LEMMA QueueTake ==
  ASSUME NEW D, NEW q \in Seq(D), q # <<>>, NEW r, r = Tail(q)
  PROVE  /\ r \in Seq(D) /\ Len(q) \in Nat \ {0} /\ Len(r) = Len(q) - 1
         /\ Head(q) \in D /\ Head(q) = q[1]
         /\ \A i \in 1..Len(r) : r[i] = q[i + 1]
<1>1. Len(q) \in Nat \ {0} /\ q \in [1..Len(q) -> D]
  BY EmptySeq, LenProperties
<1>2. Head(q) = q[1]
  BY <1>1
<1> QED
  BY <1>1, <1>2, HeadTailProperties

\* A datagram is sent to a socket.
LEMMA Sends ==
  ASSUME NEW d \in [Socks -> Seq(Datagrams)], NEW s, NEW e \in Datagrams, NEW G,
         G = [d EXCEPT ![s] = Append(@, e)]
  PROVE  /\ G \in [Socks -> Seq(Datagrams)]
         /\ \A t \in Socks \ {s} : G[t] = d[t]
         /\ s \in Socks => /\ Len(d[s]) \in Nat /\ Len(G[s]) = Len(d[s]) + 1
                           /\ \A i \in 1..Len(d[s]) : G[s][i] = d[s][i]
                           /\ G[s][Len(d[s]) + 1] = e
<1>1. CASE s \in Socks
  <2>1. G[s] = Append(d[s], e) /\ d[s] \in Seq(Datagrams)
    BY <1>1
  <2>2. /\ G[s] \in Seq(Datagrams) /\ Len(d[s]) \in Nat /\ Len(G[s]) = Len(d[s]) + 1
        /\ \A i \in 1..Len(d[s]) : G[s][i] = d[s][i]
        /\ G[s][Len(d[s]) + 1] = e
    BY <2>1, QueuePut
  <2> QED
    BY <1>1, <2>2
<1>2. CASE s \notin Socks
  BY <1>2
<1> QED
  BY <1>1, <1>2

\* The next one is received or lost.
LEMMA Receives ==
  ASSUME NEW d \in [Socks -> Seq(Datagrams)], NEW s \in Socks, d[s] # <<>>, NEW G,
         G = [d EXCEPT ![s] = Tail(@)]
  PROVE  /\ G \in [Socks -> Seq(Datagrams)]
         /\ \A t \in Socks \ {s} : G[t] = d[t]
         /\ Len(d[s]) \in Nat \ {0} /\ Len(G[s]) = Len(d[s]) - 1
         /\ Head(d[s]) = d[s][1]
         /\ \A i \in 1..Len(G[s]) : G[s][i] = d[s][i + 1]
<1>1. G[s] = Tail(d[s]) /\ d[s] \in Seq(Datagrams)
  OBVIOUS
<1>2. /\ G[s] \in Seq(Datagrams) /\ Len(d[s]) \in Nat \ {0} /\ Len(G[s]) = Len(d[s]) - 1
      /\ Head(d[s]) = d[s][1]
      /\ \A i \in 1..Len(G[s]) : G[s][i] = d[s][i + 1]
  BY <1>1, QueueTake
<1> QED
  BY <1>2

-----------------------------------------------------------------------------
(* What the steps do to the flows.                                         *)

FlowsTyped == flow' \in [Flows -> FlowType]
Kept(g) ==
    /\ flow'[g].st = flow[g].st /\ flow'[g].addr = flow[g].addr
    /\ flow'[g].gen = flow[g].gen /\ flow'[g].sock = flow[g].sock
Untouched == \A g \in Flows : Kept(g) /\ flow'[g].halves = flow[g].halves
OnlyFlow(f) == \A g \in Flows \ {f} : flow'[g] = flow[g]

\* The flow goes from one state to another and keeps its address.
Becomes(f, st) ==
    /\ f \in Flows /\ OnlyFlow(f)
    /\ flow'[f].st = st /\ flow'[f].addr = flow[f].addr /\ flow'[f].gen = flow[f].gen

\* A packet of a known flow, and a first one, only fill its buffer.
LEMMA LocalPacketFlows ==
  ASSUME TypeOK, NEW a \in Addrs, LocalPacket(a) PROVE FlowsTyped /\ Untouched
<1>1. flow \in [Flows -> FlowType] /\ lmap[a] \in Flows
  BY DEF TypeOK, LocalPacket
<1>2. flow[lmap[a]].buffered \in 0..MaxBuffered
  BY <1>1 DEF FlowType
<1>3. Buffer(flow[lmap[a]].buffered) \in 0..MaxBuffered
  BY <1>2, UdpAssumption DEF Buffer
<1>4. flow' = [flow EXCEPT ![lmap[a]].buffered = Buffer(flow[lmap[a]].buffered)]
  BY <1>1 DEF LocalPacket
<1> QED
  BY <1>1, <1>3, <1>4, Buffered DEF FlowsTyped, Untouched, Kept

\* The payload that opened a flow is buffered like the ones after it.
LEMMA FirstPayloadFlows ==
  ASSUME TypeOK, FirstPayload PROVE FlowsTyped /\ Untouched
<1>1. flow \in [Flows -> FlowType] /\ first \in Flows
  BY DEF TypeOK, FirstPayload
<1>2. flow[first].buffered \in 0..MaxBuffered
  BY <1>1 DEF FlowType
<1>3. Buffer(flow[first].buffered) \in 0..MaxBuffered
  BY <1>2, UdpAssumption DEF Buffer
<1>4. flow' = [flow EXCEPT ![first].buffered = Buffer(flow[first].buffered)]
  BY <1>1 DEF FirstPayload
<1> QED
  BY <1>1, <1>3, <1>4, Buffered DEF FlowsTyped, Untouched, Kept

\* A new flow is queued or dropped.
LEMMA NewFlowFlows ==
  ASSUME TypeOK, NEW a \in Addrs, NewFlow(a)
  PROVE  /\ FlowsTyped
         /\ \E f \in Flows :
               /\ flow[f].st = "none" /\ OnlyFlow(f)
               /\ flow'[f].addr = a /\ flow'[f].gen = gen /\ flow'[f].halves = {}
               /\ \/ /\ flow'[f].st = "queued" /\ Len(udpChan) < ChannelSize
                     /\ lmap' = [lmap EXCEPT ![a] = f] /\ udpChan' = Append(udpChan, f)
                     /\ first' = f
                  \/ /\ flow'[f].st = "dropped"
                     /\ UNCHANGED local
<1>1. flow \in [Flows -> FlowType] /\ gen \in 0..MaxRestarts
  BY DEF TypeOK
<1>2. PICK f \in Flows :
          /\ flow[f].st = "none"
          /\ \/ /\ Len(udpChan) < ChannelSize
                /\ flow' = [flow EXCEPT ![f] = FlowOf(a, "queued", gen)]
                /\ lmap' = [lmap EXCEPT ![a] = f]
                /\ udpChan' = Append(udpChan, f)
                /\ first' = f
             \/ /\ Len(udpChan) = ChannelSize
                /\ flow' = [flow EXCEPT ![f] = FlowOf(a, "dropped", gen)]
                /\ UNCHANGED local
  BY DEF NewFlow
<1>3. \A st \in FlowStates :
          /\ FlowOf(a, st, gen) \in FlowType
          /\ FlowOf(a, st, gen).st = st /\ FlowOf(a, st, gen).addr = a
          /\ FlowOf(a, st, gen).gen = gen /\ FlowOf(a, st, gen).halves = {}
  BY <1>1, UdpAssumption DEF FlowOf, FlowType
<1>4. "queued" \in FlowStates /\ "dropped" \in FlowStates
  BY DEF FlowStates
<1>5. CASE Len(udpChan) < ChannelSize /\ flow' = [flow EXCEPT ![f] = FlowOf(a, "queued", gen)]
           /\ lmap' = [lmap EXCEPT ![a] = f] /\ udpChan' = Append(udpChan, f) /\ first' = f
  <2>1. /\ FlowsTyped /\ OnlyFlow(f) /\ flow'[f] = FlowOf(a, "queued", gen)
    BY <1>1, <1>3, <1>4, <1>5 DEF FlowsTyped, OnlyFlow
  <2> QED
    BY <1>2, <1>3, <1>4, <1>5, <2>1
<1>6. CASE flow' = [flow EXCEPT ![f] = FlowOf(a, "dropped", gen)] /\ UNCHANGED local
  <2>1. /\ FlowsTyped /\ OnlyFlow(f) /\ flow'[f] = FlowOf(a, "dropped", gen)
    BY <1>1, <1>3, <1>4, <1>6 DEF FlowsTyped, OnlyFlow
  <2> QED
    BY <1>2, <1>3, <1>4, <1>6, <2>1
<1> QED
  BY <1>2, <1>5, <1>6

\* handleLoop takes or passes over the first of udpChan.
LEMMA TakeFlowFlows ==
  ASSUME TypeOK, TakeFlow
  PROVE  /\ FlowsTyped /\ flow'[Head(udpChan)].halves = flow[Head(udpChan)].halves
         /\ \/ Becomes(Head(udpChan), "skipped") /\ UNCHANGED held
            \/ Becomes(Head(udpChan), "held") /\ held' = [held EXCEPT !.flow = Head(udpChan)]
<1>1. flow \in [Flows -> FlowType] /\ Head(udpChan) \in Flows
  BY QueueTake DEF TypeOK, TakeFlow
<1>2. "skipped" \in FlowStates /\ "held" \in FlowStates
  BY DEF FlowStates
<1>3. CASE flow' = [flow EXCEPT ![Head(udpChan)].st = "skipped"] /\ UNCHANGED held
  BY <1>1, <1>2, <1>3, StateSet DEF FlowsTyped, Becomes, OnlyFlow
<1>4. CASE /\ flow' = [flow EXCEPT ![Head(udpChan)].st = "held"]
           /\ held' = [held EXCEPT !.flow = Head(udpChan)]
  BY <1>1, <1>2, <1>4, StateSet DEF FlowsTyped, Becomes, OnlyFlow
<1> QED
  BY <1>3, <1>4 DEF TakeFlow

\* With the target sent the held flow is copied; after a failed write it is
\* held on.
LEMMA SendTargetFlows ==
  ASSUME TypeOK, held.flow \in Flows, SendTarget
  PROVE  /\ FlowsTyped /\ held.sock \in Socks
         /\ \/ /\ Becomes(held.flow, "serving")
               /\ flow'[held.flow].sock = held.sock
               /\ flow'[held.flow].halves = {"local", "tunnel"}
               /\ held' = [flow |-> None, sock |-> None]
               /\ tunnel' = [tunnel EXCEPT ![held.sock] = BoundTo(@)]
               /\ down' = [down EXCEPT ![held.sock] = Append(@, "target")]
               /\ UNCHANGED <<faults, lost>>
            \/ /\ UNCHANGED <<flow, down>> /\ held' = [held EXCEPT !.sock = None]
               /\ tunnel' = [tunnel EXCEPT ![held.sock].handler = TRUE]
               /\ faults' = faults + 1 /\ lost' = lost + 1 /\ faults < MaxFaults
<1>1. flow \in [Flows -> FlowType] /\ held.sock \in Socks
  BY DEF TypeOK, SendTarget
<1>2. CASE SendTarget!2!1
  <2>1. /\ FlowsTyped /\ Becomes(held.flow, "serving")
        /\ flow'[held.flow].sock = held.sock
        /\ flow'[held.flow].halves = {"local", "tunnel"}
    <3> DEFINE x == held.flow
               t == held.sock
    <3>1. flow' = [flow EXCEPT ![x] = ServedBy(flow[x], t)]
      BY <1>2, Zenon DEF ServedBy
    <3>2. x \in Flows /\ t \in Socks /\ flow[x] \in FlowType
      BY <1>1
    <3> HIDE DEF x, t
    <3>3. /\ flow' \in [Flows -> FlowType]
          /\ flow'[x].st = "serving" /\ flow'[x].addr = flow[x].addr
          /\ flow'[x].gen = flow[x].gen
          /\ flow'[x].sock = t /\ flow'[x].halves = {"local", "tunnel"}
          /\ \A g \in Flows \ {x} : flow'[g] = flow[g]
      BY <1>1, <3>1, <3>2, Served
    <3> QED
      BY <3>2, <3>3 DEF FlowsTyped, Becomes, OnlyFlow, x, t
  <2>2. tunnel' = [tunnel EXCEPT ![held.sock] = BoundTo(@)]
    BY <1>2, Zenon DEF BoundTo
  <2> QED
    BY <1>1, <1>2, <2>1, <2>2
<1>3. CASE SendTarget!2!2
  BY <1>1, <1>3 DEF FlowsTyped
<1> QED
  BY <1>2, <1>3 DEF SendTarget

\* udpLocalCopy keeps its half unless a restart has closed the listener.
LEMMA CopyLocalFlows ==
  ASSUME TypeOK, NEW f \in Flows, CopyLocal(f)
  PROVE  /\ FlowsTyped /\ OnlyFlow(f) /\ Kept(f) /\ flow'[f].halves \subseteq flow[f].halves
         /\ \/ /\ flow[f].gen = gen /\ flow'[f].halves = flow[f].halves
               /\ down' = [down EXCEPT ![flow[f].sock] = Append(@, "data")]
            \/ flow[f].gen < gen /\ UNCHANGED down
<1>1. flow \in [Flows -> FlowType]
  BY DEF TypeOK
<1>2. flow[f].buffered - 1 \in 0..MaxBuffered
  BY <1>1, UdpAssumption DEF FlowType, CopyLocal
<1> DEFINE n == flow[f].buffered - 1
<1>4. CASE CopyLocal(f)!2!1
  <2>1. flow' = [flow EXCEPT ![f].buffered = n]
    BY <1>1, <1>4
  <2>2. /\ flow' \in [Flows -> FlowType]
        /\ flow'[f].st = flow[f].st /\ flow'[f].addr = flow[f].addr
        /\ flow'[f].gen = flow[f].gen /\ flow'[f].sock = flow[f].sock
        /\ flow'[f].halves = flow[f].halves
        /\ \A g \in Flows \ {f} : flow'[g] = flow[g]
    BY <1>1, <1>2, <2>1, Buffered
  <2> QED
    BY <1>4, <2>2 DEF FlowsTyped, OnlyFlow, Kept
<1>5. CASE CopyLocal(f)!2!2
  <2>1. flow' = [flow EXCEPT ![f] = CutOff(flow[f])]
    BY <1>5, Zenon DEF CutOff
  <2>2. /\ flow' \in [Flows -> FlowType]
        /\ flow'[f].st = flow[f].st /\ flow'[f].addr = flow[f].addr
        /\ flow'[f].gen = flow[f].gen /\ flow'[f].sock = flow[f].sock
        /\ flow'[f].halves \subseteq flow[f].halves
        /\ \A g \in Flows \ {f} : flow'[g] = flow[g]
    <3>1. flow[f] \in FlowType /\ flow[f].buffered > 0
      BY <1>1 DEF CopyLocal
    <3> QED
      BY <1>1, <2>1, <3>1, HalfEnded
  <2> QED
    BY <1>5, <2>2 DEF FlowsTyped, OnlyFlow, Kept
<1> QED
  BY <1>4, <1>5 DEF CopyLocal

\* An idle half ends, but not that of the flow the listener is at.
LEMMA IdleFlows ==
  ASSUME TypeOK, NEW f \in Flows, NEW half \in {"local", "tunnel"}, Idle(f, half)
  PROVE  /\ FlowsTyped /\ OnlyFlow(f) /\ Kept(f) /\ flow'[f].halves \subseteq flow[f].halves
         /\ first # f
<1>1. flow \in [Flows -> FlowType]
  BY DEF TypeOK
<1> DEFINE H == flow[f].halves \ {half}
<1>2. H \in SUBSET flow[f].halves
  OBVIOUS
<1>3. flow' = [flow EXCEPT ![f].halves = H] /\ first # f
  BY <1>1 DEF Idle
<1> HIDE DEF H
<1>4. /\ flow' \in [Flows -> FlowType]
      /\ flow'[f].st = flow[f].st /\ flow'[f].addr = flow[f].addr
      /\ flow'[f].gen = flow[f].gen /\ flow'[f].sock = flow[f].sock
      /\ flow'[f].halves \subseteq flow[f].halves
      /\ \A g \in Flows \ {f} : flow'[g] = flow[g]
  BY <1>1, <1>2, <1>3, HalvesSet
<1> QED
  BY <1>3, <1>4 DEF FlowsTyped, OnlyFlow, Kept

\* A flow that is no longer copied is closed.
LEMMA FinishCopyFlows ==
  ASSUME TypeOK, NEW f \in Flows, FinishCopy(f)
  PROVE  /\ FlowsTyped /\ Becomes(f, "closed") /\ flow'[f].sock = flow[f].sock
         /\ flow'[f].halves = {}
<1>1. flow \in [Flows -> FlowType]
  BY DEF TypeOK
<1>2. "closed" \in FlowStates
  BY DEF FlowStates
<1>3. flow' = [flow EXCEPT ![f].st = "closed"] /\ flow[f].halves = {}
  BY DEF FinishCopy
<1>4. /\ flow' \in [Flows -> FlowType]
      /\ flow'[f].st = "closed" /\ flow'[f].addr = flow[f].addr /\ flow'[f].gen = flow[f].gen
      /\ flow'[f].sock = flow[f].sock /\ flow'[f].halves = flow[f].halves
      /\ \A g \in Flows \ {f} : flow'[g] = flow[g]
  BY <1>1, <1>2, <1>3, StateSet
<1> QED
  BY <1>3, <1>4 DEF FlowsTyped, Becomes, OnlyFlow

\* A restart drops the flows that are not copied yet.
LEMMA RestartFlows ==
  ASSUME TypeOK, Restart
  PROVE  /\ FlowsTyped
         /\ \A g \in Flows :
               /\ flow'[g].addr = flow[g].addr /\ flow'[g].gen = flow[g].gen
               /\ flow'[g].sock = flow[g].sock /\ flow'[g].halves = flow[g].halves
               /\ flow'[g].st = IF flow[g].st \in {"queued", "held"} THEN "dropped"
                                ELSE flow[g].st
<1>1. flow \in [Flows -> FlowType]
  BY DEF TypeOK
<1>2. ASSUME NEW g \in Flows
      PROVE  /\ flow'[g] \in FlowType
             /\ flow'[g].addr = flow[g].addr /\ flow'[g].gen = flow[g].gen
             /\ flow'[g].sock = flow[g].sock /\ flow'[g].halves = flow[g].halves
             /\ flow'[g].st = IF flow[g].st \in {"queued", "held"} THEN "dropped"
                              ELSE flow[g].st
  <2>1. flow'[g] = IF flow[g].st \in {"queued", "held"}
                   THEN [flow[g] EXCEPT !.st = "dropped"] ELSE flow[g]
    BY DEF Restart
  <2>2. flow[g] \in FlowType
    BY <1>1
  <2> HIDE DEF Restart
  <2> QED
    BY <2>1, <2>2 DEF FlowType, FlowStates
<1>3. flow' \in [Flows -> FlowType]
  <2>1. flow' = [g \in Flows |-> flow'[g]]
    BY DEF Restart
  <2> QED
    BY <1>2, <2>1
<1> QED
  BY <1>2, <1>3 DEF FlowsTyped

-----------------------------------------------------------------------------
(* Types.                                                                  *)

\* The types of the initial state.
LEMMA TypeInit == Init => TypeOK
BY UdpAssumption, EmptySeq DEF Init, TypeOK, FlowType, FlowStates, TunnelType, NoFlow, FlowOf, NoTunnel

\* What the steps do to flows, tunnels and channels keeps their types.
LEMMA TypeStep == TypeOK /\ QueueInv /\ [Next]_vars => TypeOK'
<1> SUFFICES ASSUME TypeOK, QueueInv, [Next]_vars PROVE TypeOK'
  OBVIOUS
<1> USE UdpAssumption DEF local, control, network
<1>a. /\ gen \in 0..MaxRestarts /\ flow \in [Flows -> FlowType]
      /\ tunnel \in [Socks -> TunnelType]
  BY DEF TypeOK
<1>d. down \in [Socks -> Seq(Datagrams)] /\ {"data", "ping", "target"} \subseteq Datagrams
  BY DEF TypeOK, Datagrams
<1>1. CASE UNCHANGED vars
  BY <1>1 DEF vars, TypeOK
<1>2. ASSUME NEW a \in Addrs, LocalPacket(a) PROVE TypeOK'
  <2>1. flow' \in [Flows -> FlowType]
    BY <1>2, LocalPacketFlows DEF FlowsTyped
  <2> QED
    BY <1>2, <2>1 DEF LocalPacket, TypeOK
<1>3. ASSUME NEW a \in Addrs, NewFlow(a) PROVE TypeOK'
  <2>1. flow' \in [Flows -> FlowType]
    BY <1>3, NewFlowFlows DEF FlowsTyped
  <2>2. PICK f \in Flows : \/ /\ Len(udpChan) < ChannelSize
                              /\ lmap' = [lmap EXCEPT ![a] = f] /\ udpChan' = Append(udpChan, f)
                              /\ first' = f
                           \/ UNCHANGED local
    BY <1>3 DEF NewFlow
  <2>3. udpChan' \in Seq(Flows) /\ Len(udpChan') <= ChannelSize
    <3>1. CASE Len(udpChan) < ChannelSize /\ udpChan' = Append(udpChan, f)
      BY <3>1, QueuePut DEF TypeOK
    <3>2. CASE UNCHANGED local
      BY <3>2 DEF TypeOK
    <3> QED
      BY <2>2, <3>1, <3>2
  <2>4. lmap' \in [Addrs -> Flows \cup {None}] /\ first' \in Flows \cup {None}
    BY <2>2 DEF TypeOK
  <2> QED
    BY <1>3, <2>1, <2>3, <2>4 DEF NewFlow, TypeOK
<1>4. CASE FirstPayload
  <2>1. flow' \in [Flows -> FlowType]
    BY <1>4, FirstPayloadFlows DEF FlowsTyped
  <2>2. reqs' \in 0..ChannelSize /\ lost' \in Nat
    BY <1>4 DEF FirstPayload, TypeOK
  <2> QED
    BY <1>4, <2>1, <2>2 DEF FirstPayload, TypeOK
<1>5. CASE SendRequest
  BY <1>5 DEF SendRequest, TypeOK
<1>6. CASE TakeFlow
  <2>1. flow' \in [Flows -> FlowType]
    BY <1>6, TakeFlowFlows DEF FlowsTyped
  <2>2. Head(udpChan) \in Flows /\ udpChan' \in Seq(Flows) /\ Len(udpChan') <= ChannelSize
    BY <1>6, QueueTake DEF TakeFlow, TypeOK
  <2> QED
    BY <1>6, <2>1, <2>2 DEF TakeFlow, TypeOK
<1>7. CASE TakeTunnel
  <2>1. /\ Head(tunnelChan) \in Socks /\ tunnelChan' \in Seq(Socks)
        /\ Len(tunnelChan') <= ChannelSize
    BY <1>7, QueueTake DEF TakeTunnel, TypeOK
  <2>2. tunnel' \in [Socks -> TunnelType]
    BY <1>7, <1>a, <2>1 DEF TakeTunnel, TunnelType
  <2> QED
    BY <1>7, <2>1, <2>2 DEF TakeTunnel, TypeOK
<1>8. CASE SendTarget
  <2>1. held.flow \in Flows
    BY <1>8 DEF SendTarget, TypeOK, QueueInv
  <2>2. flow' \in [Flows -> FlowType] /\ held.sock \in Socks
    BY <1>8, <2>1, SendTargetFlows DEF FlowsTyped
  <2>3. tunnel' \in [Socks -> TunnelType]
    <3>1. CASE tunnel' = [tunnel EXCEPT ![held.sock] = BoundTo(@)]
      BY <1>a, <2>2, <3>1, Bound
    <3>2. CASE tunnel' = [tunnel EXCEPT ![held.sock].handler = TRUE]
      BY <1>a, <2>2, <3>2 DEF TunnelType
    <3> QED
      BY <1>8, <2>1, <3>1, <3>2, SendTargetFlows
  <2>4. down' \in [Socks -> Seq(Datagrams)]
    <3>1. UNCHANGED down \/ down' = [down EXCEPT ![held.sock] = Append(@, "target")]
      BY <1>8 DEF SendTarget
    <3> QED
      BY <3>1, <1>d, Sends
  <2>5. /\ held' \in [flow : Flows \cup {None}, sock : Socks \cup {None}]
        /\ faults' \in 0..MaxFaults /\ lost' \in Nat
    <3>1. \/ held' = [flow |-> None, sock |-> None] /\ UNCHANGED <<faults, lost>>
          \/ /\ held' = [held EXCEPT !.sock = None]
             /\ faults' = faults + 1 /\ lost' = lost + 1 /\ faults < MaxFaults
      BY <1>8, <2>1, SendTargetFlows
    <3>2. /\ held \in [flow : Flows \cup {None}, sock : Socks \cup {None}]
          /\ faults \in 0..MaxFaults /\ lost \in Nat
      BY DEF TypeOK
    <3>3. held' \in [flow : Flows \cup {None}, sock : Socks \cup {None}]
      BY <3>1, <3>2
    <3>4. faults' \in 0..MaxFaults /\ lost' \in Nat
      BY <3>1, <3>2
    <3> QED
      BY <3>3, <3>4
  <2>6. UNCHANGED <<gen, local, control, tmap, tunnelChan, sock, up, pings>>
    BY <1>8 DEF SendTarget
  <2> QED
    BY <2>2, <2>3, <2>4, <2>5, <2>6 DEF TypeOK, Datagrams
<1>9. ASSUME NEW f \in Flows, CopyLocal(f) PROVE TypeOK'
  <2>1. flow' \in [Flows -> FlowType]
    BY <1>9, CopyLocalFlows DEF FlowsTyped
  <2>2. down' \in [Socks -> Seq(Datagrams)]
    <3> DEFINE t == flow[f].sock
    <3>1. UNCHANGED down \/ down' = [down EXCEPT ![t] = Append(@, "data")]
      BY <1>9, CopyLocalFlows
    <3> HIDE DEF t
    <3>2. CASE UNCHANGED down
      BY <3>2, <1>d
    <3>3. CASE down' = [down EXCEPT ![t] = Append(@, "data")]
      BY <3>3, <1>d, Sends
    <3> QED
      BY <3>1, <3>2, <3>3
  <2> QED
    BY <1>9, <2>1, <2>2 DEF CopyLocal, TypeOK, Datagrams
<1>10. ASSUME NEW f \in Flows, FinishCopy(f) PROVE TypeOK'
  <2>1. flow' \in [Flows -> FlowType]
    BY <1>10, FinishCopyFlows DEF FlowsTyped
  <2>2. tunnel' \in [Socks -> TunnelType]
    BY <1>10, <1>a DEF FinishCopy, TunnelType
  <2>3. lmap' \in [Addrs -> Flows \cup {None}]
    BY <1>10 DEF FinishCopy, TypeOK
  <2> QED
    BY <1>10, <2>1, <2>2, <2>3 DEF FinishCopy, TypeOK
<1>11. ASSUME NEW f \in Flows, NEW half \in {"local", "tunnel"}, Idle(f, half) PROVE TypeOK'
  <2>1. flow' \in [Flows -> FlowType]
    BY <1>11, IdleFlows DEF FlowsTyped
  <2> QED
    BY <1>11, <2>1 DEF Idle, TypeOK
<1>12. ASSUME NEW s \in Socks, AcceptTunnel(s) PROVE TypeOK'
  <2>1. tunnel' \in [Socks -> TunnelType]
    <3>1. [st |-> "pooled", handler |-> FALSE, alive |-> "wait"] \in TunnelType
      BY DEF TunnelType
    <3> QED
      BY <1>12, <1>a, <3>1 DEF AcceptTunnel
  <2>2. tunnelChan' \in Seq(Socks) /\ Len(tunnelChan') <= ChannelSize
    <3>1. CASE Len(tunnelChan) < ChannelSize /\ tunnelChan' = Append(tunnelChan, s)
      BY <3>1, QueuePut DEF TypeOK
    <3>2. CASE UNCHANGED tunnelChan
      BY <3>2 DEF TypeOK
    <3> QED
      BY <1>12, <3>1, <3>2 DEF AcceptTunnel
  <2>3. up' \in [Socks -> BOOLEAN]
    BY <1>12 DEF AcceptTunnel, TypeOK
  <2>4. tmap' \subseteq Socks /\ lost' \in Nat
    BY <1>12 DEF AcceptTunnel, TypeOK
  <2> QED
    BY <1>12, <2>1, <2>2, <2>3, <2>4 DEF AcceptTunnel, TypeOK
<1>13. ASSUME NEW s \in Socks, KeepAliveTick(s) PROVE TypeOK'
  <2>1. tunnel' \in [Socks -> TunnelType]
    BY <1>13, <1>a DEF KeepAliveTick, TunnelType
  <2> QED
    BY <1>13, <2>1 DEF KeepAliveTick, TypeOK
<1>14. ASSUME NEW s \in Socks, SendPing(s) PROVE TypeOK'
  <2>1. tunnel' \in [Socks -> TunnelType]
    BY <1>14, <1>a DEF SendPing, TunnelType
  <2>2. down' \in [Socks -> Seq(Datagrams)]
    <3>1. UNCHANGED down \/ down' = [down EXCEPT ![s] = Append(@, "ping")]
      BY <1>14 DEF SendPing
    <3>2. CASE down' = [down EXCEPT ![s] = Append(@, "ping")]
      BY <3>2, <1>d, Sends
    <3> QED
      BY <3>1, <3>2, <1>d
  <2>3. faults' \in 0..MaxFaults
    BY <1>14 DEF SendPing, TypeOK
  <2> QED
    BY <1>14, <2>1, <2>2, <2>3 DEF SendPing, TypeOK, Datagrams
<1>15. ASSUME NEW s \in Socks, KeepAliveEnds(s) PROVE TypeOK'
  BY <1>15 DEF KeepAliveEnds, TypeOK, TunnelType
<1>16. ASSUME NEW s \in Socks, TunnelDialer(s) PROVE TypeOK'
  BY <1>16 DEF TunnelDialer, TypeOK
<1>17. ASSUME NEW s \in Socks, ClientReceives(s) PROVE TypeOK'
  <2>1. down' \in [Socks -> Seq({"ping", "target", "data"})]
    BY <1>17, HeadTailProperties DEF ClientReceives, TypeOK
  <2>2. sock' \in [Socks -> {"unused", "waiting", "bridged", "closed"}]
    BY <1>17 DEF ClientReceives, TypeOK
  <2> QED
    BY <1>17, <2>1, <2>2 DEF ClientReceives, TypeOK
<1>18. ASSUME NEW s \in Socks, LoseDatagram(s) PROVE TypeOK'
  <2>1. down' \in [Socks -> Seq(Datagrams)]
    <3>1. UNCHANGED down \/ (down[s] # <<>> /\ down' = [down EXCEPT ![s] = Tail(@)])
      BY <1>18 DEF LoseDatagram
    <3> QED
      BY <3>1, <1>d, Receives
  <2>2. up' \in [Socks -> BOOLEAN]
    BY <1>18 DEF LoseDatagram, TypeOK
  <2> QED
    BY <1>18, <2>1, <2>2 DEF LoseDatagram, TypeOK, Datagrams
<1>19. CASE Restart
  <2>1. flow' \in [Flows -> FlowType]
    BY <1>19, RestartFlows DEF FlowsTyped
  <2>2. tunnel' \in [Socks -> TunnelType]
    BY <1>19 DEF Restart, TunnelType, NoTunnel
  <2>3. down' \in [Socks -> Seq({"ping", "target", "data"})] /\ up' \in [Socks -> BOOLEAN]
    BY <1>19, EmptySeq DEF Restart
  <2>4. udpChan' \in Seq(Flows) /\ tunnelChan' \in Seq(Socks) /\ Len(udpChan') = 0 /\ Len(tunnelChan') = 0
    BY <1>19, EmptySeq DEF Restart
  <2> QED
    BY <1>19, <2>1, <2>2, <2>3, <2>4 DEF Restart, TypeOK
<1> QED
  BY <1>1, <1>2, <1>3, <1>4, <1>5, <1>6, <1>7, <1>8, <1>9, <1>10, <1>11, <1>12, <1>13,
     <1>14, <1>15, <1>16, <1>17, <1>18, <1>19 DEF Next

-----------------------------------------------------------------------------
(* Flows: the invariant.                                                   *)

\* At the start there is no flow.
LEMMA FlowInit == Init => FlowInv
<1> SUFFICES ASSUME Init PROVE FlowInv
  OBVIOUS
<1>1. Len(udpChan) = 0 /\ held.flow = None /\ held.sock = None /\ first = None /\ gen = 0
  BY EmptySeq DEF Init
<1>2. \A f \in Flows : flow[f].st = "none" /\ flow[f].gen = 0
  BY DEF Init, NoFlow, FlowOf
<1>3. \A a \in Addrs : lmap[a] = None
  BY DEF Init
<1> QED
  BY <1>1, <1>2, <1>3, UdpAssumption DEF FlowInv, QueueInv, OwnInv, FirstInv, Current

\* Most steps leave the flows, their map and their channel alone.
FlowsQuiet == UNCHANGED <<gen, lmap, flow, first, udpChan, held>>

\* The steps of the tunnel sockets and of the network are such.
LEMMA QuietSteps ==
  /\ SendRequest => FlowsQuiet
  /\ \A s \in Socks : \/ AcceptTunnel(s) \/ KeepAliveTick(s) \/ SendPing(s) \/ KeepAliveEnds(s)
                      \/ TunnelDialer(s) \/ ClientReceives(s) \/ LoseDatagram(s)
                      => FlowsQuiet
BY Zenon DEF SendRequest, AcceptTunnel, KeepAliveTick, SendPing, KeepAliveEnds, TunnelDialer,
       ClientReceives, LoseDatagram, FlowsQuiet, local

\* Every step keeps the listener's map, udpChan and handleLoop in accord with
\* the flows.
LEMMA FlowStep == TypeOK /\ FlowInv /\ [Next]_vars => FlowInv'
<1> SUFFICES ASSUME TypeOK, FlowInv, [Next]_vars PROVE FlowInv'
  OBVIOUS
<1> USE UdpAssumption
<1>a. /\ gen \in Nat /\ flow \in [Flows -> FlowType] /\ lmap \in [Addrs -> Flows \cup {None}]
      /\ first \in Flows \cup {None} /\ udpChan \in Seq(Flows) /\ Len(udpChan) \in Nat
      /\ held.flow \in Flows \cup {None}
  BY LenProperties DEF TypeOK
<1>b. \A f \in Flows : flow[f].gen \in Nat
  BY <1>a DEF FlowType
<1>c. QueueInv /\ OwnInv /\ FirstInv
  BY DEF FlowInv
<1>d. \A i \in 1..Len(udpChan) : udpChan[i] \in Flows
  BY <1>a, ElementOfSeq
<1>q. ASSUME UNCHANGED <<udpChan, held>>,
             \A g \in Flows : /\ flow'[g].st = "queued" <=> flow[g].st = "queued"
                              /\ flow'[g].st = "held" <=> flow[g].st = "held"
      PROVE  QueueInv'
  BY <1>q, <1>c, <1>d DEF QueueInv
<1>o. ASSUME UNCHANGED <<gen, lmap>>,
             \A g \in Flows :
                 /\ flow'[g].addr = flow[g].addr /\ flow'[g].gen = flow[g].gen
                 /\ flow'[g].st \in {"queued", "held"} => flow[g].st \in {"queued", "held"}
                 /\ flow'[g].st # "none" => flow[g].st # "none"
                 /\ Current(g)' <=> Current(g)
      PROVE  OwnInv'
  <2>1. /\ \A f \in Flows : flow'[f].gen <= gen'
        /\ \A f \in Flows : flow'[f].st \in {"queued", "held"} => flow'[f].gen = gen'
        /\ \A f \in Flows : flow'[f].st # "none" => flow'[f].addr \in Addrs
    BY <1>o, <1>c DEF OwnInv
  <2>2. \A f \in Flows : Current(f)' => lmap'[flow'[f].addr] = f
    BY <1>o, <1>c, Zenon DEF OwnInv
  <2>3. ASSUME NEW a \in Addrs, lmap'[a] # None
        PROVE  Current(lmap[a])' /\ flow'[lmap'[a]].addr = a
    <3>1. lmap'[a] = lmap[a] /\ lmap[a] \in Flows
      BY <1>a, <1>o, <2>3
    <3>2. PICK g \in Flows : g = lmap[a]
      BY <3>1
    <3>3. Current(g) /\ flow[g].addr = a
      BY <1>c, <2>3, <3>1, <3>2, Zenon DEF OwnInv
    <3>4. Current(g)' /\ flow'[g].addr = a
      BY <1>o, <3>3
    <3> QED
      BY <3>1, <3>2, <3>4 DEF Current
  <2> QED
    BY <2>1, <2>2, <2>3, Zenon DEF OwnInv
<1>1. CASE FlowsQuiet
  BY <1>1, <1>c DEF FlowsQuiet, FlowInv, QueueInv, OwnInv, FirstInv, Current
<1>2. ASSUME FlowsTyped, Untouched, UNCHANGED <<gen, lmap, udpChan, held>>,
             first' = first \/ first' = None
      PROVE  FlowInv'
  <2>1. QueueInv'
    BY <1>2, <1>c, <1>d DEF Untouched, Kept, QueueInv
  <2>2. OwnInv'
    BY <1>2, <1>o DEF Untouched, Kept, Current
  <2>3. FirstInv'
    BY <1>2, <1>c, <1>a DEF Untouched, Kept, FirstInv, Current
  <2> QED
    BY <2>1, <2>2, <2>3 DEF FlowInv
<1>3. ASSUME NEW a \in Addrs, LocalPacket(a) PROVE FlowInv'
  BY <1>2, <1>3, LocalPacketFlows DEF LocalPacket, local
<1>4. CASE FirstPayload
  BY <1>2, <1>4, FirstPayloadFlows DEF FirstPayload
<1>5. ASSUME NEW a \in Addrs, NewFlow(a) PROVE FlowInv'
  <2>1. PICK f \in Flows :
            /\ flow[f].st = "none" /\ OnlyFlow(f)
            /\ flow'[f].addr = a /\ flow'[f].gen = gen /\ flow'[f].halves = {}
            /\ \/ /\ flow'[f].st = "queued" /\ Len(udpChan) < ChannelSize
                  /\ lmap' = [lmap EXCEPT ![a] = f] /\ udpChan' = Append(udpChan, f)
                  /\ first' = f
               \/ /\ flow'[f].st = "dropped"
                  /\ UNCHANGED local
    BY <1>5, NewFlowFlows
  <2>2. gen' = gen /\ held' = held /\ lmap[a] = None /\ first = None
    BY <1>5 DEF NewFlow
  <2>a. /\ flow[f].st = "none" /\ OnlyFlow(f)
        /\ flow'[f].addr = a /\ flow'[f].gen = gen /\ flow'[f].halves = {}
    BY <2>1
  <2>3. \A i \in 1..Len(udpChan) : udpChan[i] # f
    BY <2>1, <1>c DEF QueueInv
  <2>4. \A b \in Addrs : lmap[b] # f
    BY <2>1, <1>c DEF OwnInv, Current
  <2>5. CASE /\ flow'[f].st = "queued"
             /\ lmap' = [lmap EXCEPT ![a] = f] /\ udpChan' = Append(udpChan, f) /\ first' = f
    <3>1. /\ Len(udpChan') = Len(udpChan) + 1 /\ udpChan'[Len(udpChan) + 1] = f
          /\ \A i \in 1..Len(udpChan) : udpChan'[i] = udpChan[i]
      BY <1>a, <2>5, QueuePut
    <3>2. QueueInv'
      <4>a. \A i \in 1..Len(udpChan') : i \in 1..Len(udpChan) \/ i = Len(udpChan) + 1
        BY <1>a, <3>1
      <4>1. \A i \in 1..Len(udpChan') : flow'[udpChan'[i]].st = "queued"
        BY <4>a, <1>c, <1>d, <2>5, <2>a, <2>3, <3>1 DEF QueueInv, OnlyFlow
      <4>2. \A i, j \in 1..Len(udpChan') : udpChan'[i] = udpChan'[j] => i = j
        BY <4>a, <1>c, <2>3, <3>1 DEF QueueInv
      <4>3. ASSUME NEW g \in Flows, flow'[g].st = "queued"
            PROVE  \E i \in 1..Len(udpChan') : udpChan'[i] = g
        <5>1. CASE g = f
          BY <1>a, <3>1, <5>1
        <5>2. CASE g # f
          <6>1. PICK i \in 1..Len(udpChan) : udpChan[i] = g
            BY <1>c, <2>a, <4>3, <5>2 DEF QueueInv, OnlyFlow
          <6>2. i \in 1..Len(udpChan')
            BY <1>a, <3>1
          <6> QED
            BY <3>1, <6>1, <6>2
        <5> QED
          BY <5>1, <5>2
      <4>4. /\ \A g \in Flows : flow'[g].st = "held" <=> held'.flow = g
            /\ held'.sock # None => held'.flow # None
        BY <1>c, <2>a, <2>2, <2>5 DEF QueueInv, OnlyFlow
      <4> QED
        BY <4>1, <4>2, <4>3, <4>4 DEF QueueInv
    <3>3. OwnInv'
      <4>1. \A g \in Flows : /\ flow'[g].gen <= gen'
                             /\ flow'[g].st \in {"queued", "held"} => flow'[g].gen = gen'
                             /\ flow'[g].st # "none" => flow'[g].addr \in Addrs
        BY <1>a, <1>c, <2>a, <2>2, <2>5 DEF OwnInv, OnlyFlow
      <4>2. ASSUME NEW g \in Flows, Current(g)' PROVE lmap'[flow'[g].addr] = g
        <5>1. CASE g = f
          BY <1>a, <2>a, <2>5, <5>1
        <5>2. CASE g # f
          BY <1>a, <1>c, <2>a, <2>2, <2>5, <4>2, <5>2 DEF OwnInv, OnlyFlow, Current
        <5> QED
          BY <5>1, <5>2
      <4>3. ASSUME NEW b \in Addrs, lmap'[b] # None
            PROVE  Current(lmap[b])' /\ flow'[lmap'[b]].addr = b
        <5>1. CASE b = a
          BY <1>a, <2>a, <2>2, <2>5, <5>1 DEF Current
        <5>2. CASE b # a
          BY <1>a, <1>c, <2>a, <2>2, <2>4, <2>5, <4>3, <5>2 DEF OwnInv, OnlyFlow, Current
        <5> QED
          BY <5>1, <5>2
      <4> QED
        BY <4>1, <4>2, <4>3 DEF OwnInv, Current
    <3>4. FirstInv'
      BY <2>1, <2>2, <2>5 DEF FirstInv, Current
    <3> QED
      BY <3>2, <3>3, <3>4 DEF FlowInv
  <2>6. CASE flow'[f].st = "dropped" /\ UNCHANGED local
    <3>a. lmap' = lmap /\ udpChan' = udpChan
      BY <2>6 DEF local
    <3>1. QueueInv'
      <4>1. \A g \in Flows : /\ flow'[g].st = "queued" <=> flow[g].st = "queued"
                             /\ flow'[g].st = "held" <=> flow[g].st = "held"
        BY <2>6, <2>a DEF OnlyFlow
      <4> QED
        BY <1>q, <2>2, <3>a, <4>1
    <3>2. OwnInv'
      BY <1>a, <1>b, <1>c, <2>a, <2>2, <2>4, <2>6, <3>a DEF OwnInv, OnlyFlow, Current
    <3>3. FirstInv'
      BY <2>2, <2>6 DEF FirstInv, local
    <3> QED
      BY <3>1, <3>2, <3>3 DEF FlowInv
  <2> QED
    BY <2>1, <2>5, <2>6
<1>6. CASE TakeFlow
  <2> DEFINE x == Head(udpChan)
  <2>1. /\ Len(udpChan) \in Nat \ {0} /\ Len(udpChan') = Len(udpChan) - 1
        /\ x \in Flows /\ x = udpChan[1]
        /\ \A i \in 1..Len(udpChan') : udpChan'[i] = udpChan[i + 1]
    BY <1>6, <1>a, QueueTake DEF TakeFlow
  <2>2. UNCHANGED <<gen, lmap, first>> /\ held.flow = None /\ held.sock = None
    BY <1>6, <1>c DEF TakeFlow, QueueInv
  <2>3. /\ flow'[x].halves = flow[x].halves /\ OnlyFlow(x)
        /\ flow'[x].addr = flow[x].addr /\ flow'[x].gen = flow[x].gen
        /\ \/ flow'[x].st = "skipped" /\ held' = held
           \/ flow'[x].st = "held" /\ held'.flow = x /\ held'.sock = held.sock
    <3>1. held \in [flow : Flows \cup {None}, sock : Socks \cup {None}]
      BY DEF TypeOK
    <3>2. \/ Becomes(x, "skipped") /\ UNCHANGED held
          \/ Becomes(x, "held") /\ held' = [held EXCEPT !.flow = x]
      BY <1>6, TakeFlowFlows
    <3>3. flow'[x].halves = flow[x].halves
      BY <1>6, TakeFlowFlows
    <3> QED
      BY <3>1, <3>2, <3>3 DEF Becomes
  <2> HIDE DEF x
  <2>4. flow[x].st = "queued" /\ \A i \in 1..Len(udpChan') : udpChan'[i] # x
    BY <1>c, <2>1 DEF QueueInv
  <2>5. QueueInv'
    <3>1. \A i \in 1..Len(udpChan') : flow'[udpChan'[i]].st = "queued"
      BY <1>c, <1>d, <2>1, <2>3, <2>4 DEF QueueInv, OnlyFlow
    <3>2. \A i, j \in 1..Len(udpChan') : udpChan'[i] = udpChan'[j] => i = j
      BY <1>c, <2>1 DEF QueueInv
    <3>3. ASSUME NEW f \in Flows, flow'[f].st = "queued"
          PROVE  \E i \in 1..Len(udpChan') : udpChan'[i] = f
      <4>1. f # x /\ flow[f].st = "queued"
        BY <2>3, <3>3 DEF OnlyFlow
      <4>2. PICK i \in 1..Len(udpChan) : udpChan[i] = f
        BY <1>c, <4>1 DEF QueueInv
      <4>3. i # 1 /\ i - 1 \in 1..Len(udpChan') /\ (i - 1) + 1 = i
        BY <2>1, <4>1, <4>2
      <4> QED
        BY <2>1, <4>2, <4>3
    <3>4. /\ \A f \in Flows : flow'[f].st = "held" <=> held'.flow = f
          /\ held'.sock # None => held'.flow # None
      BY <1>c, <2>1, <2>2, <2>3 DEF QueueInv, OnlyFlow
    <3> QED
      BY <3>1, <3>2, <3>3, <3>4 DEF QueueInv
  <2>0. \A g \in Flows :
            /\ flow'[g].addr = flow[g].addr /\ flow'[g].gen = flow[g].gen
            /\ flow'[g].st \in {"queued", "held"} => flow[g].st \in {"queued", "held"}
            /\ flow'[g].st # "none" => flow[g].st # "none"
            /\ Current(g)' <=> Current(g)
    BY <2>2, <2>3, <2>4 DEF OnlyFlow, Current
  <2>6. OwnInv'
    BY <1>o, <2>0, <2>2
  <2>7. FirstInv'
    BY <1>a, <1>c, <2>1, <2>2, <2>3, <2>4 DEF FirstInv, OnlyFlow, Current
  <2> QED
    BY <2>5, <2>6, <2>7 DEF FlowInv
<1>7. CASE TakeTunnel
  <2>1. UNCHANGED <<gen, lmap, flow, first, udpChan>> /\ held'.flow = held.flow /\ held.flow # None
    BY <1>7 DEF TakeTunnel, local, TypeOK
  <2> QED
    BY <2>1, <1>c DEF FlowInv, QueueInv, OwnInv, FirstInv, Current
<1>8. CASE SendTarget
  <2> DEFINE x == held.flow
  <2>1. x \in Flows
    BY <1>8, <1>a, <1>c DEF SendTarget, QueueInv
  <2>2. UNCHANGED <<gen, lmap, first, udpChan>>
    BY <1>8, Zenon DEF SendTarget, local
  <2>3. CASE UNCHANGED flow /\ held' = [held EXCEPT !.sock = None]
    <3>1. held'.flow = held.flow /\ held'.sock = None
      BY <2>3 DEF TypeOK
    <3> QED
      BY <3>1, <2>2, <2>3, <1>c DEF FlowInv, QueueInv, OwnInv, FirstInv, Current
  <2>4. CASE /\ Becomes(x, "serving") /\ flow'[x].halves = {"local", "tunnel"}
             /\ held' = [flow |-> None, sock |-> None]
    <3>1. /\ OnlyFlow(x) /\ flow'[x].st = "serving" /\ flow'[x].addr = flow[x].addr
          /\ flow'[x].gen = flow[x].gen /\ flow'[x].halves # {}
          /\ held'.flow = None /\ held'.sock = None
      BY <2>4 DEF Becomes
    <3>2. flow[x].st = "held" /\ \A f \in Flows : flow[f].st = "held" => f = x
      BY <1>c, <2>1 DEF QueueInv
    <3> HIDE DEF x
    <3>3. QueueInv'
      BY <1>a, <1>c, <1>d, <2>1, <2>2, <3>1, <3>2 DEF QueueInv, OnlyFlow
    <3>4. OwnInv'
      BY <1>a, <1>c, <2>1, <2>2, <3>1, <3>2 DEF OwnInv, OnlyFlow, Current
    <3>5. FirstInv'
      BY <1>a, <1>c, <2>1, <2>2, <3>1, <3>2 DEF FirstInv, OnlyFlow, Current
    <3> QED
      BY <3>3, <3>4, <3>5 DEF FlowInv
  <2> QED
    BY <1>8, <2>1, <2>3, <2>4, SendTargetFlows
<1>9. ASSUME NEW f \in Flows, FlowsTyped, OnlyFlow(f), Kept(f),
             UNCHANGED <<gen, lmap, first, udpChan, held>>,
             f # first \/ flow'[f].halves = flow[f].halves
      PROVE  FlowInv'
  <2>1. \A g \in Flows : Kept(g)
    BY <1>9 DEF OnlyFlow, Kept
  <2>2. QueueInv'
    BY <1>9, <1>c, <1>d, <2>1 DEF Kept, QueueInv
  <2>3. OwnInv'
    BY <1>9, <1>c, <1>a, <2>1 DEF Kept, OwnInv, Current
  <2>4. FirstInv'
    BY <1>9, <1>c, <1>a, <2>1 DEF Kept, OnlyFlow, FirstInv, Current
  <2> QED
    BY <2>2, <2>3, <2>4 DEF FlowInv
<1>10. ASSUME NEW f \in Flows, CopyLocal(f) PROVE FlowInv'
  <2>1. /\ FlowsTyped /\ OnlyFlow(f) /\ Kept(f)
        /\ (flow[f].gen = gen /\ flow'[f].halves = flow[f].halves) \/ flow[f].gen < gen
    BY <1>10, CopyLocalFlows
  <2>2. f # first \/ flow'[f].halves = flow[f].halves
    BY <1>a, <1>b, <1>c, <2>1 DEF FirstInv, Current
  <2>3. UNCHANGED <<gen, lmap, first, udpChan, held>>
    BY <1>10, Zenon DEF CopyLocal, local
  <2> QED
    BY <1>9, <2>1, <2>2, <2>3
<1>11. ASSUME NEW f \in Flows, NEW half \in {"local", "tunnel"}, Idle(f, half) PROVE FlowInv'
  <2>1. FlowsTyped /\ OnlyFlow(f) /\ Kept(f) /\ first # f
    BY <1>11, IdleFlows
  <2>2. UNCHANGED <<gen, lmap, first, udpChan, held>>
    BY <1>11, Zenon DEF Idle, local
  <2> QED
    BY <1>9, <2>1, <2>2
<1>12. ASSUME NEW f \in Flows, FinishCopy(f) PROVE FlowInv'
  <2>1. /\ OnlyFlow(f) /\ flow'[f].st = "closed" /\ flow'[f].addr = flow[f].addr
        /\ flow'[f].gen = flow[f].gen
    BY <1>12, FinishCopyFlows DEF Becomes
  <2>2. flow[f].st = "serving" /\ flow[f].halves = {} /\ UNCHANGED <<gen, first, udpChan, held>>
    BY <1>12, Zenon DEF FinishCopy
  <2>3. \/ flow[f].gen = gen /\ lmap' = [lmap EXCEPT ![flow[f].addr] = None]
        \/ flow[f].gen # gen /\ lmap' = lmap
    BY <1>12 DEF FinishCopy
  <2>4. first # f
    BY <1>c, <1>a, <2>2 DEF FirstInv
  <2>5. QueueInv'
    <3>1. \A g \in Flows : /\ flow'[g].st = "queued" <=> flow[g].st = "queued"
                           /\ flow'[g].st = "held" <=> flow[g].st = "held"
      BY <2>1, <2>2 DEF OnlyFlow
    <3> QED
      BY <1>q, <2>2, <3>1
  <2>6. flow[f].addr \in Addrs /\ (flow[f].gen = gen => lmap[flow[f].addr] = f)
    BY <1>c, <2>2 DEF OwnInv, Current
  <2>7. OwnInv'
    <3>1. CASE flow[f].gen = gen /\ lmap' = [lmap EXCEPT ![flow[f].addr] = None]
      BY <1>a, <1>c, <2>1, <2>2, <2>6, <3>1 DEF OwnInv, OnlyFlow, Current
    <3>2. CASE flow[f].gen # gen /\ lmap' = lmap
      BY <1>a, <1>c, <2>1, <2>2, <2>6, <3>2 DEF OwnInv, OnlyFlow, Current
    <3> QED
      BY <2>3, <3>1, <3>2
  <2>8. FirstInv'
    BY <1>a, <1>c, <2>1, <2>2, <2>4 DEF FirstInv, OnlyFlow, Current
  <2> QED
    BY <2>5, <2>7, <2>8 DEF FlowInv
<1>13. CASE Restart
  <2>1. /\ \A g \in Flows :
               /\ flow'[g].addr = flow[g].addr /\ flow'[g].gen = flow[g].gen
               /\ flow'[g].st = IF flow[g].st \in {"queued", "held"} THEN "dropped"
                                ELSE flow[g].st
    BY <1>13, RestartFlows
  <2>2. /\ gen' = gen + 1 /\ first' = None /\ udpChan' = <<>>
        /\ held' = [flow |-> None, sock |-> None]
        /\ \A a \in Addrs : lmap'[a] = None
    BY <1>13 DEF Restart
  <2>3. Len(udpChan') = 0
    BY <2>2, EmptySeq
  <2>4. \A g \in Flows : flow'[g].st \notin {"queued", "held"}
    BY <2>1
  <2>5. \A g \in Flows : flow'[g].gen <= gen' /\ flow'[g].gen # gen'
    BY <1>a, <1>b, <1>c, <2>1, <2>2 DEF OwnInv
  <2>6. \A g \in Flows : flow'[g].st # "none" => flow'[g].addr \in Addrs
    BY <1>c, <2>1 DEF OwnInv
  <2>7. held'.flow = None /\ held'.sock = None
    BY <2>2
  <2>8. QueueInv'
    BY <2>3, <2>4, <2>7 DEF QueueInv
  <2>9. OwnInv' /\ FirstInv'
    BY <2>2, <2>4, <2>5, <2>6 DEF OwnInv, FirstInv, Current
  <2> QED
    BY <2>8, <2>9 DEF FlowInv
<1>14. CASE UNCHANGED vars
  BY <1>1, <1>14 DEF vars, FlowsQuiet
<1> QED
  BY <1>1, <1>3, <1>4, <1>5, <1>6, <1>7, <1>8, <1>10, <1>11, <1>12, <1>13, <1>14, QuietSteps
     DEF Next

-----------------------------------------------------------------------------
(* What the steps do to the tunnels.                                       *)

OnlyTunnel(s) == \A t \in Socks \ {s} : tunnel'[t] = tunnel[t]
SamePlace(t) == tunnel'[t].st = tunnel[t].st /\ tunnel'[t].handler = tunnel[t].handler

\* One field of one tunnel is set.
LEMMA TunnelSet ==
  ASSUME NEW T \in [Socks -> TunnelType], NEW x \in Socks, NEW G
  PROVE  /\ \A st : G = [T EXCEPT ![x].st = st] =>
               /\ G[x].st = st /\ G[x].handler = T[x].handler /\ G[x].alive = T[x].alive
               /\ \A t \in Socks \ {x} : G[t] = T[t]
         /\ \A al : G = [T EXCEPT ![x].alive = al] =>
               /\ G[x].st = T[x].st /\ G[x].handler = T[x].handler /\ G[x].alive = al
               /\ \A t \in Socks \ {x} : G[t] = T[t]
         /\ G = [T EXCEPT ![x].handler = TRUE] =>
               /\ G[x].st = T[x].st /\ G[x].handler = TRUE /\ G[x].alive = T[x].alive
               /\ \A t \in Socks \ {x} : G[t] = T[t]
BY DEF TunnelType

\* keepAlive only changes where it is.
LEMMA KeepAliveTunnels ==
  ASSUME TypeOK, NEW s \in Socks, KeepAliveTick(s) \/ SendPing(s) \/ KeepAliveEnds(s)
  PROVE  /\ OnlyTunnel(s) /\ \A t \in Socks : SamePlace(t)
         /\ tunnel[s].alive # "none"
         /\ \/ tunnel'[s].alive # "locked"
            \/ tunnel'[s].alive = "locked" /\ ~Locked(s)
<1>1. tunnel \in [Socks -> TunnelType]
  BY DEF TypeOK
<1>2. /\ tunnel[s].alive # "none"
      /\ \E al \in {"none", "wait", "locked"} :
            tunnel' = [tunnel EXCEPT ![s].alive = al] /\ (al = "locked" => ~Locked(s))
  BY DEF KeepAliveTick, SendPing, KeepAliveEnds
<1>3. PICK al \in {"none", "wait", "locked"} :
            tunnel' = [tunnel EXCEPT ![s].alive = al] /\ (al = "locked" => ~Locked(s))
  BY <1>2
<1>4. /\ tunnel'[s].st = tunnel[s].st /\ tunnel'[s].handler = tunnel[s].handler
      /\ tunnel'[s].alive = al
      /\ \A t \in Socks \ {s} : tunnel'[t] = tunnel[t]
  BY <1>1, <1>3, TunnelSet
<1> QED
  BY <1>2, <1>3, <1>4 DEF OnlyTunnel, SamePlace

\* handleLoop takes the first of tunnelChannel.
LEMMA TakeTunnelTunnels ==
  ASSUME TypeOK, TakeTunnel
  PROVE  LET x == Head(tunnelChan)
         IN /\ x \in Socks /\ OnlyTunnel(x)
            /\ tunnel'[x].st = "taken" /\ tunnel'[x].handler = tunnel[x].handler
            /\ tunnel'[x].alive = tunnel[x].alive
            /\ held'.sock = x /\ held'.flow = held.flow
<1> DEFINE x == Head(tunnelChan)
<1>1. tunnel \in [Socks -> TunnelType] /\ x \in Socks
  BY QueueTake DEF TypeOK, TakeTunnel
<1>2. tunnel' = [tunnel EXCEPT ![x].st = "taken"] /\ held' = [held EXCEPT !.sock = x]
  BY DEF TakeTunnel
<1>3. held'.sock = x /\ held'.flow = held.flow
  BY <1>2 DEF TypeOK
<1> HIDE DEF x
<1>4. /\ tunnel'[x].st = "taken" /\ tunnel'[x].handler = tunnel[x].handler
      /\ tunnel'[x].alive = tunnel[x].alive
      /\ \A t \in Socks \ {x} : tunnel'[t] = tunnel[t]
  BY <1>1, <1>2, TunnelSet
<1> QED
  BY <1>1, <1>3, <1>4 DEF OnlyTunnel, x

\* The handler locks the mutex whether or not the write succeeds.
LEMMA SendTargetTunnels ==
  ASSUME TypeOK, held.flow \in Flows, SendTarget
  PROVE  LET x == held.sock
         IN /\ x \in Socks /\ OnlyTunnel(x) /\ ~Locked(x)
            /\ tunnel'[x].handler = TRUE /\ tunnel'[x].alive = tunnel[x].alive
            /\ \/ tunnel'[x].st = "bound" /\ held'.sock = None
                  /\ Becomes(held.flow, "serving") /\ flow'[held.flow].sock = x
                  /\ down' = [down EXCEPT ![x] = Append(@, "target")] /\ faults' = faults
                  /\ lost' = lost
               \/ tunnel'[x].st = tunnel[x].st /\ held'.sock = None
                  /\ UNCHANGED <<flow, down>> /\ faults' = faults + 1 /\ lost' = lost + 1
<1> DEFINE x == held.sock
<1>1. tunnel \in [Socks -> TunnelType] /\ x \in Socks /\ tunnel[x] \in TunnelType
  BY SendTargetFlows DEF TypeOK
<1>2. ~Locked(x)
  BY DEF SendTarget
<1>3. held \in [flow : Flows \cup {None}, sock : Socks \cup {None}]
  BY DEF TypeOK
<1>4. CASE /\ tunnel' = [tunnel EXCEPT ![x] = BoundTo(@)]
           /\ held' = [flow |-> None, sock |-> None]
           /\ Becomes(held.flow, "serving") /\ flow'[held.flow].sock = held.sock
           /\ down' = [down EXCEPT ![x] = Append(@, "target")] /\ faults' = faults
           /\ lost' = lost
  <2>1. held'.sock = None
    BY <1>4
  <2>2. /\ tunnel'[x].st = "bound" /\ tunnel'[x].handler = TRUE
        /\ tunnel'[x].alive = tunnel[x].alive
        /\ \A t \in Socks \ {x} : tunnel'[t] = tunnel[t]
    <3>1. tunnel' = [tunnel EXCEPT ![x] = BoundTo(tunnel[x])]
      BY <1>4
    <3>2. BoundTo(tunnel[x]).st = "bound" /\ BoundTo(tunnel[x]).handler = TRUE
          /\ BoundTo(tunnel[x]).alive = tunnel[x].alive
      BY <1>1 DEF BoundTo, TunnelType
    <3> HIDE DEF x
    <3> QED
      BY <1>1, <3>1, <3>2
  <2> QED
    BY <1>1, <1>2, <1>4, <2>1, <2>2, Zenon DEF OnlyTunnel
<1>5. CASE /\ tunnel' = [tunnel EXCEPT ![x].handler = TRUE]
           /\ held' = [held EXCEPT !.sock = None]
           /\ UNCHANGED <<flow, down>> /\ faults' = faults + 1 /\ lost' = lost + 1
  <2>1. held'.sock = None
    BY <1>3, <1>5
  <2>2. /\ tunnel'[x].st = tunnel[x].st /\ tunnel'[x].handler = TRUE
        /\ tunnel'[x].alive = tunnel[x].alive
        /\ \A t \in Socks \ {x} : tunnel'[t] = tunnel[t]
    <3> HIDE DEF x
    <3> QED
      BY <1>1, <1>5, TunnelSet
  <2> QED
    BY <1>1, <1>2, <1>5, <2>1, <2>2, Zenon DEF OnlyTunnel
<1> QED
  BY <1>4, <1>5, SendTargetFlows

\* The end of the copying closes the tunnel, unless it was one of before a
\* restart.
LEMMA FinishCopyTunnels ==
  ASSUME TypeOK, NEW f \in Flows, flow[f].sock \in Socks, FinishCopy(f)
  PROVE  LET x == flow[f].sock
         IN /\ OnlyTunnel(x) /\ tmap' = tmap \ {x}
            /\ tunnel'[x].handler = tunnel[x].handler /\ tunnel'[x].alive = tunnel[x].alive
            /\ \/ tunnel'[x].st = "closed" /\ flow[f].gen = gen
               \/ tunnel'[x].st = tunnel[x].st /\ flow[f].gen # gen
<1> DEFINE x == flow[f].sock
<1>1. tunnel \in [Socks -> TunnelType]
  BY DEF TypeOK
<1>2. /\ tmap' = tmap \ {x}
      /\ \/ tunnel' = [tunnel EXCEPT ![x].st = "closed"] /\ flow[f].gen = gen
         \/ tunnel' = tunnel /\ flow[f].gen # gen
  BY Zenon DEF FinishCopy
<1>3. x \in Socks
  OBVIOUS
<1> HIDE DEF x
<1>4. CASE tunnel' = [tunnel EXCEPT ![x].st = "closed"] /\ flow[f].gen = gen
  <2>1. /\ tunnel'[x].st = "closed" /\ tunnel'[x].handler = tunnel[x].handler
        /\ tunnel'[x].alive = tunnel[x].alive
        /\ \A t \in Socks \ {x} : tunnel'[t] = tunnel[t]
    BY <1>1, <1>3, <1>4, TunnelSet
  <2> QED
    BY <1>2, <1>4, <2>1 DEF OnlyTunnel, x
<1>5. CASE tunnel' = tunnel /\ flow[f].gen # gen
  BY <1>2, <1>5 DEF OnlyTunnel, x
<1> QED
  BY <1>2, <1>4, <1>5

\* A token makes a pooled tunnel, or nothing.
LEMMA AcceptTunnelTunnels ==
  ASSUME TypeOK, NEW s \in Socks, AcceptTunnel(s)
  PROVE  /\ OnlyTunnel(s)
         /\ \/ /\ tunnel'[s].st = "pooled" /\ tunnel'[s].handler = FALSE
               /\ tunnel'[s].alive = "wait"
               /\ tmap' = tmap \cup {s} /\ tunnelChan' = Append(tunnelChan, s)
            \/ UNCHANGED <<tmap, tunnel, tunnelChan>> /\ lost' = lost + 1
<1>1. tunnel \in [Socks -> TunnelType]
  BY DEF TypeOK
<1> QED
  BY <1>1 DEF AcceptTunnel, OnlyTunnel

-----------------------------------------------------------------------------
(* Tunnels: the invariant.                                                 *)

\* At the start there is no tunnel.
LEMMA TunnelInit == Init => TunnelInv
<1> SUFFICES ASSUME Init PROVE TunnelInv
  OBVIOUS
<1>1. Len(tunnelChan) = 0 /\ held.sock = None
  BY EmptySeq DEF Init
<1>2. \A f \in Flows : flow[f].st = "none" /\ flow[f].halves = {}
  BY DEF Init, NoFlow, FlowOf
<1>3. \A s \in Socks : tunnel[s] = NoTunnel /\ tunnel[s].st = "none" /\ down[s] = <<>>
                       /\ up[s] = FALSE
  BY DEF Init, NoTunnel
<1> QED
  BY <1>1, <1>2, <1>3 DEF TunnelInv, PoolInv, FreshInv, CopyInv, KnownInv

\* A flow is copied after the step only if it was before, and a closed flow
\* stays one.
CopiesKept ==
    \A g \in Flows :
        /\ flow'[g].halves # {} => flow[g].halves # {}
        /\ flow'[g].st = "serving" <=> flow[g].st = "serving"
        /\ flow'[g].st = "closed" <=> flow[g].st = "closed"
        /\ flow[g].st \in {"serving", "closed"} => /\ flow'[g].sock = flow[g].sock
                                                  /\ flow'[g].gen = flow[g].gen

\* Every step keeps tunnelChannel, the map and the handlers in accord with the
\* tunnels.
LEMMA TunnelStep == TypeOK /\ FlowInv /\ TunnelInv /\ [Next]_vars => TunnelInv'
<1> SUFFICES ASSUME TypeOK, FlowInv, TunnelInv, [Next]_vars PROVE TunnelInv'
  OBVIOUS
<1> USE UdpAssumption
<1>a. /\ gen \in Nat /\ flow \in [Flows -> FlowType] /\ tunnel \in [Socks -> TunnelType]
      /\ tunnelChan \in Seq(Socks) /\ Len(tunnelChan) \in Nat
      /\ held.sock \in Socks \cup {None} /\ held.flow \in Flows \cup {None}
      /\ \A i \in 1..Len(tunnelChan) : tunnelChan[i] \in Socks
  BY LenProperties, ElementOfSeq DEF TypeOK
<1>b. PoolInv /\ FreshInv /\ CopyInv /\ KnownInv /\ QueueInv /\ OwnInv
  BY DEF TunnelInv, FlowInv
<1>d. down \in [Socks -> Seq(Datagrams)] /\ {"data", "ping", "target"} \subseteq Datagrams
  BY DEF TypeOK, Datagrams
<1>1. ASSUME CopiesKept, UNCHANGED <<gen, tunnel>> PROVE CopyInv'
  BY <1>1, <1>a, <1>b DEF CopiesKept, CopyInv
<1>2. ASSUME CopiesKept, UNCHANGED <<gen, tunnel, tmap>> PROVE KnownInv'
  BY <1>2, <1>b DEF CopiesKept, KnownInv
<1>3. ASSUME UNCHANGED <<tunnel, tunnelChan>>, held'.sock = held.sock PROVE PoolInv'
  BY <1>3, <1>b DEF PoolInv
<1>4. ASSUME UNCHANGED <<tunnel, sock, up, down>> PROVE FreshInv'
  BY <1>4, <1>b DEF FreshInv
<1>5. ASSUME CopiesKept, UNCHANGED <<gen, tunnel, tmap, tunnelChan, sock, up, down>>,
             held'.sock = held.sock
      PROVE  TunnelInv'
  BY <1>1, <1>2, <1>3, <1>4, <1>5 DEF TunnelInv
<1>6. Untouched => CopiesKept
  BY DEF Untouched, Kept, CopiesKept
<1>7. ASSUME NEW a \in Addrs, LocalPacket(a) PROVE TunnelInv'
  <2>1. UNCHANGED <<gen, tunnel, tmap, tunnelChan, sock, up, down, held>>
    BY <1>7, Zenon DEF LocalPacket, network
  <2> QED
    BY <1>5, <1>6, <1>7, <2>1, LocalPacketFlows
<1>8. CASE FirstPayload
  <2>1. UNCHANGED <<gen, tunnel, tmap, tunnelChan, sock, up, down, held>>
    BY <1>8, Zenon DEF FirstPayload, network
  <2> QED
    BY <1>5, <1>6, <1>8, <2>1, FirstPayloadFlows
<1>9. ASSUME NEW a \in Addrs, NewFlow(a) PROVE TunnelInv'
  <2>1. UNCHANGED <<gen, tunnel, tmap, tunnelChan, sock, up, down, held>>
    BY <1>9, Zenon DEF NewFlow, network
  <2>2. PICK f \in Flows : /\ flow[f].st = "none" /\ OnlyFlow(f)
                           /\ flow'[f].halves = {} /\ flow'[f].st \in {"queued", "dropped"}
    BY <1>9, NewFlowFlows
  <2>3. CopiesKept
    BY <2>2 DEF CopiesKept, OnlyFlow
  <2> QED
    BY <1>5, <2>1, <2>3
<1>10. CASE TakeFlow
  <2> DEFINE x == Head(udpChan)
  <2>1. UNCHANGED <<gen, tunnel, tmap, tunnelChan, sock, up, down>>
    BY <1>10, Zenon DEF TakeFlow, network
  <2>2. held'.sock = held.sock
    BY <1>10 DEF TakeFlow, TypeOK
  <2>3. /\ x \in Flows /\ OnlyFlow(x) /\ flow'[x].st \in {"skipped", "held"}
        /\ flow'[x].halves = flow[x].halves
    BY <1>10, TakeFlowFlows DEF Becomes
  <2>4. flow[x].st = "queued"
    <3>1. Len(udpChan) \in Nat \ {0} /\ x = udpChan[1]
      BY <1>10, QueueTake DEF TakeFlow, TypeOK
    <3> QED
      BY <3>1, <1>b DEF QueueInv
  <2> HIDE DEF x
  <2>5. CopiesKept
    BY <2>3, <2>4 DEF CopiesKept, OnlyFlow
  <2> QED
    BY <1>5, <2>1, <2>2, <2>5
<1>11. CASE SendRequest
  <2>1. UNCHANGED <<gen, tunnel, tmap, tunnelChan, sock, up, down, held, flow>>
    BY <1>11, Zenon DEF SendRequest, network
  <2> QED
    BY <1>5, <2>1 DEF CopiesKept
<1>12. ASSUME NEW f \in Flows, NEW half \in {"local", "tunnel"}, Idle(f, half) PROVE TunnelInv'
  <2>1. UNCHANGED <<gen, tunnel, tmap, tunnelChan, sock, up, down, held>>
    BY <1>12, Zenon DEF Idle, network
  <2>2. CopiesKept
    BY <1>12, IdleFlows DEF CopiesKept, OnlyFlow, Kept
  <2> QED
    BY <1>5, <2>1, <2>2
<1>13. ASSUME NEW f \in Flows, CopyLocal(f) PROVE TunnelInv'
  <2> DEFINE t == flow[f].sock
  <2>1. UNCHANGED <<gen, tunnel, tmap, tunnelChan, sock, up, held>>
    BY <1>13, Zenon DEF CopyLocal
  <2>2. CopiesKept
    BY <1>13, CopyLocalFlows DEF CopiesKept, OnlyFlow, Kept
  <2>3. FreshInv'
    <3>1. CASE UNCHANGED down
      BY <1>4, <2>1, <3>1
    <3>2. CASE flow[f].gen = gen /\ down' = [down EXCEPT ![t] = Append(@, "data")]
      <4>1. flow[f].halves # {} /\ flow[f].st = "serving"
        BY <1>13, <1>b DEF CopyLocal, CopyInv
      <4>2. t \in Socks /\ tunnel[t].st # "none"
        BY <1>b, <3>2, <4>1 DEF CopyInv
      <4>3. \A s \in Socks \ {t} : down'[s] = down[s]
        <5> HIDE DEF t
        <5> QED
          BY <1>d, <3>2, Sends
      <4>4. ~up[t] /\ sock[t] # "unused"
        BY <1>b, <4>2 DEF FreshInv, NoTunnel
      <4> HIDE DEF t
      <4> QED
        BY <1>b, <2>1, <4>3, <4>4 DEF FreshInv
    <3> QED
      BY <1>13, <3>1, <3>2, CopyLocalFlows
  <2> QED
    BY <1>1, <1>2, <1>3, <2>1, <2>2, <2>3 DEF TunnelInv
<1>14. CASE UNCHANGED vars
  BY <1>5, <1>14 DEF vars, CopiesKept
<1>15. CASE TakeTunnel
  <2> DEFINE x == Head(tunnelChan)
  <2>1. UNCHANGED <<gen, flow, tmap, sock, up, down>>
    BY <1>15, Zenon DEF TakeTunnel, network
  <2>2. /\ x \in Socks /\ OnlyTunnel(x)
        /\ tunnel'[x].st = "taken" /\ tunnel'[x].handler = tunnel[x].handler
        /\ held'.sock = x
    BY <1>15, TakeTunnelTunnels
  <2>3. /\ Len(tunnelChan) \in Nat \ {0} /\ x = tunnelChan[1]
        /\ Len(tunnelChan') = Len(tunnelChan) - 1
        /\ \A i \in 1..Len(tunnelChan') : tunnelChan'[i] = tunnelChan[i + 1]
    BY <1>15, <1>a, QueueTake DEF TakeTunnel
  <2> HIDE DEF x
  <2>4. \A i \in 1..Len(tunnelChan') : i + 1 \in 1..Len(tunnelChan) /\ i + 1 # 1
    BY <2>3
  <2>5. /\ tunnel[x].st = "pooled"
        /\ \A i \in 1..Len(tunnelChan') : tunnelChan'[i] # x /\ tunnelChan'[i] \in Socks
    BY <1>a, <1>b, <2>3, <2>4 DEF PoolInv
  <2>6. PoolInv'
    BY <1>b, <2>2, <2>3, <2>4, <2>5 DEF PoolInv, OnlyTunnel
  <2>7. FreshInv'
    BY <1>b, <2>1, <2>2, <2>5 DEF FreshInv, OnlyTunnel, NoTunnel
  <2>8. CopyInv'
    BY <1>b, <2>1, <2>2, <2>5 DEF CopyInv, OnlyTunnel
  <2>9. KnownInv'
    BY <1>b, <2>1, <2>2, <2>5 DEF KnownInv, OnlyTunnel
  <2> QED
    BY <2>6, <2>7, <2>8, <2>9 DEF TunnelInv
<1>16. CASE SendTarget
  <2> DEFINE x == held.sock
             h == held.flow
  <2>1. UNCHANGED <<gen, tmap, tunnelChan, sock, up>>
    BY <1>16, Zenon DEF SendTarget
  <2>2. h \in Flows /\ flow[h].st = "held" /\ tunnel[x].st = "taken"
    BY <1>16, <1>a, <1>b DEF SendTarget, QueueInv, PoolInv
  <2>3. /\ x \in Socks /\ OnlyTunnel(x) /\ tunnel'[x].handler = TRUE /\ held'.sock = None
        /\ \/ /\ tunnel'[x].st = "bound" /\ Becomes(h, "serving") /\ flow'[h].sock = x
              /\ down' = [down EXCEPT ![x] = Append(@, "target")]
           \/ tunnel'[x].st = "taken" /\ UNCHANGED <<flow, down>>
    BY <1>16, <2>2, SendTargetTunnels
  <2> HIDE DEF x, h
  <2>4. PoolInv'
    BY <1>a, <1>b, <2>1, <2>2, <2>3 DEF PoolInv, OnlyTunnel
  <2>5. \A t \in Socks \ {x} : down'[t] = down[t]
    BY <1>d, <2>3, Sends
  <2>6. FreshInv'
    BY <1>b, <2>1, <2>2, <2>3, <2>5 DEF FreshInv, OnlyTunnel, NoTunnel
  <2>7. CASE Becomes(h, "serving") /\ flow'[h].sock = x /\ tunnel'[x].st = "bound"
    <3>1. CopyInv'
      BY <1>b, <2>1, <2>2, <2>3, <2>7 DEF CopyInv, OnlyTunnel, OnlyFlow, Becomes
    <3>2. \A g \in Flows : flow[g].st = "closed" => flow'[g] = flow[g]
      BY <2>2, <2>7 DEF Becomes, OnlyFlow
    <3>3. KnownInv'
      BY <1>b, <2>1, <2>2, <2>3, <3>2 DEF KnownInv, OnlyTunnel
    <3> QED
      BY <2>4, <2>6, <3>1, <3>3 DEF TunnelInv
  <2>8. CASE UNCHANGED flow /\ tunnel'[x].st = "taken"
    <3>1. CopyInv'
      BY <1>b, <2>1, <2>2, <2>3, <2>8 DEF CopyInv, OnlyTunnel
    <3>2. KnownInv'
      BY <1>b, <2>1, <2>2, <2>3, <2>8 DEF KnownInv, OnlyTunnel
    <3> QED
      BY <2>4, <2>6, <3>1, <3>2 DEF TunnelInv
  <2> QED
    BY <2>3, <2>7, <2>8
<1>17. ASSUME NEW f \in Flows, FinishCopy(f) PROVE TunnelInv'
  <2> DEFINE x == flow[f].sock
  <2>1. UNCHANGED <<gen, tunnelChan, sock, up, down, held>>
    BY <1>17, Zenon DEF FinishCopy, network
  <2>2. /\ flow[f].st = "serving" /\ x \in Socks
        /\ flow[f].gen = gen => tunnel[x].st \in {"bound", "closed"}
    BY <1>17, <1>b DEF FinishCopy, CopyInv
  <2>3. /\ OnlyFlow(f) /\ flow'[f].st = "closed" /\ flow'[f].sock = x
        /\ flow'[f].gen = flow[f].gen /\ flow'[f].halves = {}
    BY <1>17, FinishCopyFlows DEF Becomes
  <2>4. /\ OnlyTunnel(x) /\ tmap' = tmap \ {x}
        /\ tunnel'[x].handler = tunnel[x].handler /\ tunnel'[x].alive = tunnel[x].alive
        /\ \/ tunnel'[x].st = "closed" /\ flow[f].gen = gen
           \/ tunnel'[x].st = tunnel[x].st /\ flow[f].gen # gen
    BY <1>17, <2>2, FinishCopyTunnels
  <2>5. flow[f].gen # gen => UNCHANGED tunnel
    BY <1>17, Zenon DEF FinishCopy
  <2>6. flow[f].gen \in Nat /\ flow[f].gen <= gen
    BY <1>a, <1>b DEF OwnInv, FlowType
  <2> HIDE DEF x
  <2>7. CASE flow[f].gen = gen
    <3>1. PoolInv'
      BY <1>a, <1>b, <2>1, <2>2, <2>4, <2>7 DEF PoolInv, OnlyTunnel
    <3>2. FreshInv'
      BY <1>b, <2>1, <2>2, <2>4, <2>7 DEF FreshInv, OnlyTunnel, NoTunnel
    <3>3. CopyInv'
      BY <1>b, <2>1, <2>2, <2>3, <2>4, <2>7 DEF CopyInv, OnlyTunnel, OnlyFlow
    <3>4. KnownInv'
      BY <1>b, <2>1, <2>2, <2>3, <2>4, <2>7 DEF KnownInv, OnlyTunnel, OnlyFlow
    <3> QED
      BY <3>1, <3>2, <3>3, <3>4 DEF TunnelInv
  <2>8. CASE flow[f].gen # gen
    <3>1. CopyInv'
      BY <1>b, <2>1, <2>3, <2>5, <2>8 DEF CopyInv, OnlyFlow
    <3>2. KnownInv'
      <4> SUFFICES ASSUME NEW s \in Socks,
                          tunnel'[s].st \in {"pooled", "taken", "bound"} /\ s \notin tmap'
                   PROVE  \E g \in Flows : /\ flow'[g].st = "closed" /\ flow'[g].sock = s
                                           /\ flow'[g].gen < gen'
        BY DEF KnownInv
      <4>1. CASE s = x
        <5>1. flow'[f].gen < gen'
          BY <1>a, <2>1, <2>3, <2>6, <2>8
        <5> QED
          BY <2>3, <4>1, <5>1
      <4>2. CASE s # x
        <5>1. tunnel[s].st \in {"pooled", "taken", "bound"} /\ s \notin tmap
          BY <2>4, <2>5, <2>8, <4>2
        <5>2. PICK g \in Flows : flow[g].st = "closed" /\ flow[g].sock = s /\ flow[g].gen < gen
          BY <1>b, <5>1 DEF KnownInv
        <5>3. flow'[g] = flow[g]
          BY <2>2, <2>3, <5>2 DEF OnlyFlow
        <5> QED
          BY <2>1, <5>2, <5>3
      <4> QED
        BY <4>1, <4>2
    <3> QED
      BY <1>3, <1>4, <2>1, <2>5, <2>8, <3>1, <3>2 DEF TunnelInv
  <2> QED
    BY <2>7, <2>8
<1>18. ASSUME NEW s \in Socks, AcceptTunnel(s) PROVE TunnelInv'
  <2>1. UNCHANGED <<gen, flow, sock, down, held>>
    BY <1>18, Zenon DEF AcceptTunnel
  <2>2. up[s] /\ ~up'[s] /\ \A t \in Socks \ {s} : up'[t] = up[t]
    BY <1>18 DEF AcceptTunnel, TypeOK
  <2>3. tunnel[s] = NoTunnel /\ tunnel[s].st = "none" /\ sock[s] # "unused"
    BY <1>b, <2>2 DEF FreshInv, NoTunnel
  <2>4. CASE UNCHANGED <<tmap, tunnel, tunnelChan>>
    <3>1. FreshInv'
      BY <1>b, <2>1, <2>2, <2>3, <2>4 DEF FreshInv
    <3>2. CopiesKept
      BY <2>1 DEF CopiesKept
    <3> QED
      BY <1>1, <1>2, <1>3, <2>1, <2>4, <3>1, <3>2 DEF TunnelInv
  <2>5. CASE /\ OnlyTunnel(s) /\ tunnel'[s].st = "pooled"
             /\ tmap' = tmap \cup {s} /\ tunnelChan' = Append(tunnelChan, s)
    <3>1. /\ Len(tunnelChan') = Len(tunnelChan) + 1 /\ tunnelChan'[Len(tunnelChan) + 1] = s
          /\ \A i \in 1..Len(tunnelChan) : tunnelChan'[i] = tunnelChan[i]
      BY <1>a, <2>5, QueuePut
    <3>2. \A i \in 1..Len(tunnelChan') : i \in 1..Len(tunnelChan) \/ i = Len(tunnelChan) + 1
      BY <1>a, <3>1
    <3>3. \A i \in 1..Len(tunnelChan) : tunnelChan[i] # s
      BY <1>b, <2>3 DEF PoolInv
    <3>4. PoolInv'
      BY <1>a, <1>b, <2>1, <2>3, <2>5, <3>1, <3>2, <3>3 DEF PoolInv, OnlyTunnel
    <3>5. FreshInv'
      BY <1>b, <2>1, <2>2, <2>3, <2>5 DEF FreshInv, OnlyTunnel
    <3>6. CopyInv'
      BY <1>b, <2>1, <2>3, <2>5 DEF CopyInv, OnlyTunnel
    <3>7. KnownInv'
      BY <1>b, <2>1, <2>5 DEF KnownInv, OnlyTunnel
    <3> QED
      BY <3>4, <3>5, <3>6, <3>7 DEF TunnelInv
  <2> QED
    BY <1>18, <2>4, <2>5, AcceptTunnelTunnels
<1>19. ASSUME NEW s \in Socks, KeepAliveTick(s) \/ SendPing(s) \/ KeepAliveEnds(s)
       PROVE  TunnelInv'
  <2>1. UNCHANGED <<gen, flow, tmap, tunnelChan, sock, up, held>>
    BY <1>19, Zenon DEF KeepAliveTick, SendPing, KeepAliveEnds, network
  <2>2. OnlyTunnel(s) /\ tunnel[s].alive # "none" /\ \A t \in Socks : SamePlace(t)
    BY <1>19, KeepAliveTunnels
  <2>3. \A t \in Socks \ {s} : down'[t] = down[t]
    <3>1. UNCHANGED down \/ down' = [down EXCEPT ![s] = Append(@, "ping")]
      BY <1>19, Zenon DEF KeepAliveTick, SendPing, KeepAliveEnds, network
    <3> QED
      BY <1>d, <3>1, Sends
  <2>4. PoolInv'
    BY <1>a, <1>b, <2>1, <2>2 DEF PoolInv, SamePlace
  <2>5. FreshInv'
    BY <1>b, <2>1, <2>2, <2>3 DEF FreshInv, OnlyTunnel, NoTunnel
  <2>6. CopyInv'
    BY <1>b, <2>1, <2>2 DEF CopyInv, SamePlace
  <2>7. KnownInv'
    BY <1>b, <2>1, <2>2 DEF KnownInv, SamePlace
  <2> QED
    BY <2>4, <2>5, <2>6, <2>7 DEF TunnelInv
<1>20. ASSUME NEW s \in Socks, TunnelDialer(s) PROVE TunnelInv'
  <2>1. UNCHANGED <<gen, flow, tmap, tunnel, tunnelChan, down, held>>
    BY <1>20, Zenon DEF TunnelDialer
  <2>2. /\ sock[s] = "unused" /\ sock'[s] = "waiting"
        /\ \A t \in Socks \ {s} : up'[t] = up[t] /\ sock'[t] = sock[t]
    BY <1>20 DEF TunnelDialer, TypeOK
  <2>3. FreshInv'
    BY <1>b, <2>1, <2>2 DEF FreshInv
  <2>4. CopiesKept
    BY <2>1 DEF CopiesKept
  <2> QED
    BY <1>1, <1>2, <1>3, <2>1, <2>3, <2>4 DEF TunnelInv
<1>21. ASSUME NEW s \in Socks, ClientReceives(s) PROVE TunnelInv'
  <2>1. UNCHANGED <<gen, flow, tmap, tunnel, tunnelChan, up, held>>
    BY <1>21, Zenon DEF ClientReceives
  <2>2. /\ down[s] # <<>>
        /\ \A t \in Socks \ {s} : down'[t] = down[t] /\ sock'[t] = sock[t]
        /\ sock'[s] = "unused" => sock[s] = "unused"
    BY <1>21 DEF ClientReceives, TypeOK
  <2>3. FreshInv'
    BY <1>b, <2>1, <2>2 DEF FreshInv
  <2>4. CopiesKept
    BY <2>1 DEF CopiesKept
  <2> QED
    BY <1>1, <1>2, <1>3, <2>1, <2>3, <2>4 DEF TunnelInv
<1>22. ASSUME NEW s \in Socks, LoseDatagram(s) PROVE TunnelInv'
  <2>1. UNCHANGED <<gen, flow, tmap, tunnel, tunnelChan, sock, held>>
    BY <1>22, Zenon DEF LoseDatagram
  <2>2. /\ \A t \in Socks \ {s} : down'[t] = down[t] /\ up'[t] = up[t]
        /\ up'[s] => up[s]
        /\ down'[s] = down[s] \/ down[s] # <<>>
        /\ up'[s] = up[s] \/ up[s]
    BY <1>22 DEF LoseDatagram, TypeOK
  <2>3. FreshInv'
    BY <1>b, <2>1, <2>2 DEF FreshInv
  <2>4. CopiesKept
    BY <2>1 DEF CopiesKept
  <2> QED
    BY <1>1, <1>2, <1>3, <2>1, <2>3, <2>4 DEF TunnelInv
<1>23. CASE Restart
  <2>1. /\ gen' = gen + 1 /\ tunnelChan' = <<>> /\ held' = [flow |-> None, sock |-> None]
        /\ \A s \in Socks : tunnel'[s] = NoTunnel /\ down'[s] = <<>> /\ up'[s] = FALSE
    BY <1>23 DEF Restart
  <2>2. Len(tunnelChan') = 0 /\ held'.sock = None /\ \A s \in Socks : tunnel'[s].st = "none"
    BY <2>1, EmptySeq DEF NoTunnel
  <2>3. \A g \in Flows : /\ flow'[g].gen = flow[g].gen /\ flow'[g].sock = flow[g].sock
                         /\ flow'[g].halves = flow[g].halves
                         /\ flow'[g].st = IF flow[g].st \in {"queued", "held"} THEN "dropped"
                                          ELSE flow[g].st
    BY <1>23, RestartFlows
  <2>4. \A g \in Flows : flow'[g].gen # gen'
    BY <1>a, <1>b, <2>1, <2>3 DEF OwnInv, FlowType
  <2>5. PoolInv' /\ FreshInv' /\ KnownInv'
    BY <2>1, <2>2 DEF PoolInv, FreshInv, KnownInv
  <2>6. CopyInv'
    BY <1>b, <2>3, <2>4 DEF CopyInv
  <2> QED
    BY <2>5, <2>6 DEF TunnelInv
<1> QED
  BY <1>7, <1>8, <1>9, <1>10, <1>11, <1>12, <1>13, <1>14, <1>15, <1>16, <1>17, <1>18, <1>19,
     <1>20, <1>21, <1>22, <1>23 DEF Next

-----------------------------------------------------------------------------
(* Datagrams: the invariant.                                               *)

\* At the start nothing is under way.
LEMMA DatagramInit == Init => DatagramInv
<1> SUFFICES ASSUME Init, NEW s \in Socks PROVE Understood(s)
  BY DEF DatagramInv
<1>1. Len(down[s]) = 0 /\ sock[s] = "unused" /\ tunnel[s].handler = FALSE
  BY EmptySeq DEF Init, NoTunnel
<1> QED
  BY <1>1 DEF Understood, Mutex, Sent, Ordered, TargetFirst

\* Every step keeps pings out of what follows a target.
LEMMA DatagramStep ==
  TypeOK /\ FlowInv /\ TunnelInv /\ DatagramInv /\ [Next]_vars => DatagramInv'
<1> SUFFICES ASSUME TypeOK, FlowInv, TunnelInv, DatagramInv, [Next]_vars PROVE DatagramInv'
  OBVIOUS
<1> USE UdpAssumption
<1>a. /\ held.sock \in Socks \cup {None} /\ held.flow \in Flows \cup {None}
      /\ faults \in Nat /\ tunnel \in [Socks -> TunnelType]
  BY DEF TypeOK
<1>b. PoolInv /\ FreshInv /\ CopyInv /\ QueueInv
  BY DEF TunnelInv, FlowInv
<1>d. /\ down \in [Socks -> Seq(Datagrams)] /\ {"data", "ping", "target"} \subseteq Datagrams
      /\ \A s \in Socks : Len(down[s]) \in Nat
  BY LenProperties DEF TypeOK, Datagrams
<1>e. \A s \in Socks : Mutex(s) /\ Sent(s) /\ Ordered(s) /\ (faults = 0 => TargetFirst(s))
  BY DEF DatagramInv, Understood
<1>1. ASSUME NEW s \in Socks, Understood(s)', faults' = 0 => faults = 0,
             \A t \in Socks \ {s} : /\ tunnel'[t] = tunnel[t] /\ down'[t] = down[t]
                                    /\ sock'[t] = sock[t]
      PROVE  DatagramInv'
  <2> SUFFICES ASSUME NEW t \in Socks \ {s} PROVE Understood(t)'
    BY <1>1 DEF DatagramInv
  <2> QED
    BY <1>1, <1>e DEF Understood, Mutex, Sent, Ordered, TargetFirst
<1>2. ASSUME UNCHANGED <<tunnel, down, sock, faults>> PROVE DatagramInv'
  BY <1>2, <1>e DEF DatagramInv, Understood, Mutex, Sent, Ordered, TargetFirst
<1>3. ASSUME NEW a \in Addrs, LocalPacket(a) \/ NewFlow(a) PROVE DatagramInv'
  <2>1. UNCHANGED <<tunnel, down, sock, faults>>
    BY <1>3, Zenon DEF LocalPacket, NewFlow, network
  <2> QED
    BY <1>2, <2>1
<1>4. CASE FirstPayload \/ SendRequest \/ TakeFlow
  <2>1. UNCHANGED <<tunnel, down, sock, faults>>
    BY <1>4, Zenon DEF FirstPayload, SendRequest, TakeFlow, network
  <2> QED
    BY <1>2, <2>1
<1>5. ASSUME NEW f \in Flows, NEW half \in {"local", "tunnel"}, Idle(f, half) PROVE DatagramInv'
  <2>1. UNCHANGED <<tunnel, down, sock, faults>>
    BY <1>5, Zenon DEF Idle, network
  <2> QED
    BY <1>2, <2>1
<1>6. CASE UNCHANGED vars
  BY <1>2, <1>6 DEF vars
<1>7. CASE TakeTunnel
  <2>0. Head(tunnelChan) \in Socks
    BY <1>7, TakeTunnelTunnels
  <2> PICK x \in Socks : x = Head(tunnelChan)
    BY <2>0
  <2>1. UNCHANGED <<down, sock, faults>>
    BY <1>7, Zenon DEF TakeTunnel, network
  <2>2. /\ OnlyTunnel(x)
        /\ tunnel'[x].st = "taken" /\ tunnel'[x].handler = tunnel[x].handler
        /\ tunnel'[x].alive = tunnel[x].alive
    BY <1>7, TakeTunnelTunnels
  <2>3. Understood(x)'
    BY <1>e, <2>1, <2>2 DEF Understood, Mutex, Sent, Ordered, TargetFirst
  <2> QED
    BY <1>1, <2>1, <2>2, <2>3 DEF OnlyTunnel
<1>8. CASE SendTarget
  <2>0. PICK x \in Socks : x = held.sock
    BY <1>8, <1>a, Zenon DEF SendTarget
  <2>1. UNCHANGED sock
    BY <1>8, Zenon DEF SendTarget
  <2>2. held.flow \in Flows
    BY <1>8, <1>a, <1>b DEF SendTarget, QueueInv
  <2>3. /\ OnlyTunnel(x) /\ tunnel[x].alive # "locked"
        /\ tunnel'[x].handler = TRUE /\ tunnel'[x].alive = tunnel[x].alive
        /\ \/ /\ tunnel'[x].st = "bound"
              /\ down' = [down EXCEPT ![x] = Append(@, "target")] /\ faults' = faults
           \/ UNCHANGED down /\ faults' = faults + 1
    BY <1>8, <2>0, <2>2, SendTargetTunnels DEF Locked
  <2>4. CASE UNCHANGED down /\ faults' = faults + 1
    <3>1. Understood(x)'
      BY <1>a, <1>e, <2>1, <2>3, <2>4 DEF Understood, Mutex, Sent, Ordered
    <3> QED
      BY <1>1, <1>a, <2>1, <2>3, <2>4, <3>1 DEF OnlyTunnel
  <2>5. CASE /\ tunnel'[x].st = "bound"
             /\ down' = [down EXCEPT ![x] = Append(@, "target")] /\ faults' = faults
    <3>1. /\ \A t \in Socks \ {x} : down'[t] = down[t]
          /\ Len(down[x]) \in Nat /\ Len(down'[x]) = Len(down[x]) + 1
          /\ \A i \in 1..Len(down[x]) : down'[x][i] = down[x][i]
          /\ down'[x][Len(down[x]) + 1] = "target"
      BY <1>d, <2>3, <2>5, Sends
    <3>2. \A i \in 1..Len(down'[x]) : i \in 1..Len(down[x]) \/ i = Len(down[x]) + 1
      BY <3>1
    <3>3. Len(down[x]) + 1 \in 1..Len(down'[x]) /\ 1..Len(down[x]) \subseteq 1..Len(down'[x])
      BY <3>1
    <3>4. Mutex(x)' /\ Sent(x)'
      BY <2>3 DEF Mutex, Sent
    <3>5. Ordered(x)'
      <4>1. Ordered(x)
        BY <1>e
      <4>2. ASSUME NEW i \in 1..Len(down'[x]), NEW j \in 1..Len(down'[x]), i < j,
                   down'[x][i] # "ping"
            PROVE  down'[x][j] # "ping"
        BY <3>1, <3>2, <4>1, <4>2 DEF Ordered
      <4>3. ASSUME sock'[x] \in {"bridged", "closed"}, NEW i \in 1..Len(down'[x])
            PROVE  down'[x][i] # "ping"
        BY <2>1, <3>1, <3>2, <4>1, <4>3 DEF Ordered
      <4> QED
        BY <4>2, <4>3 DEF Ordered
    <3>6. faults' = 0 => TargetFirst(x)'
      <4> SUFFICES ASSUME faults' = 0, sock'[x] = "waiting"
                   PROVE  /\ \E i \in 1..Len(down'[x]) : down'[x][i] = "target"
                          /\ \A j \in 1..Len(down'[x]) : down'[x][j] = "data" =>
                                \E i \in 1..Len(down'[x]) : i < j /\ down'[x][i] = "target"
        BY DEF TargetFirst
      <4>1. TargetFirst(x) /\ sock[x] = "waiting"
        BY <1>e, <2>1, <2>5
      <4>2. ASSUME NEW j \in 1..Len(down'[x]), down'[x][j] = "data"
            PROVE  \E i \in 1..Len(down'[x]) : i < j /\ down'[x][i] = "target"
        <5>1. j \in 1..Len(down[x]) /\ down[x][j] = "data"
          BY <3>1, <3>2, <4>2
        <5> QED
          BY <3>1, <3>3, <4>1, <5>1 DEF TargetFirst
      <4> QED
        BY <3>1, <3>3, <4>2
    <3> QED
      BY <1>1, <2>1, <2>3, <2>5, <3>1, <3>4, <3>5, <3>6 DEF OnlyTunnel, Understood
  <2> QED
    BY <2>3, <2>4, <2>5
<1>9. ASSUME NEW f \in Flows, CopyLocal(f) PROVE DatagramInv'
  <2>1. UNCHANGED <<tunnel, sock, faults>>
    BY <1>9, Zenon DEF CopyLocal
  <2>2. CASE UNCHANGED down
    BY <1>2, <2>1, <2>2
  <2>3. CASE /\ flow[f].gen = gen
             /\ down' = [down EXCEPT ![flow[f].sock] = Append(@, "data")]
    <3>1. flow[f].st = "serving"
      BY <1>9, <1>b DEF CopyLocal, CopyInv
    <3>0. PICK x \in Socks : x = flow[f].sock
      BY <1>b, <2>3, <3>1 DEF CopyInv
    <3>2. /\ tunnel[x].handler /\ tunnel[x].st \in {"bound", "closed"}
          /\ down' = [down EXCEPT ![x] = Append(@, "data")]
      BY <1>b, <2>3, <3>0, <3>1 DEF CopyInv
    <3>3. /\ \A t \in Socks \ {x} : down'[t] = down[t]
          /\ Len(down[x]) \in Nat /\ Len(down'[x]) = Len(down[x]) + 1
          /\ \A i \in 1..Len(down[x]) : down'[x][i] = down[x][i]
          /\ down'[x][Len(down[x]) + 1] = "data"
      BY <1>d, <3>2, Sends
    <3>4. \A i \in 1..Len(down'[x]) : i \in 1..Len(down[x]) \/ i = Len(down[x]) + 1
      BY <3>3
    <3>5. 1..Len(down[x]) \subseteq 1..Len(down'[x])
      BY <3>3
    <3>6. Mutex(x)' /\ Sent(x)'
      BY <1>e, <2>1, <3>2 DEF Mutex, Sent
    <3>7. Ordered(x)'
      BY <1>e, <2>1, <3>2, <3>3, <3>4 DEF Ordered
    <3>8. faults' = 0 => TargetFirst(x)'
      BY <1>e, <2>1, <3>2, <3>3, <3>4, <3>5 DEF TargetFirst
    <3> QED
      BY <1>1, <2>1, <3>2, <3>3, <3>6, <3>7, <3>8 DEF Understood
  <2> QED
    BY <1>9, <2>2, <2>3, CopyLocalFlows
<1>10. ASSUME NEW f \in Flows, FinishCopy(f) PROVE DatagramInv'
  <2>1. UNCHANGED <<down, sock, faults>>
    BY <1>10, Zenon DEF FinishCopy, network
  <2>0. PICK x \in Socks : x = flow[f].sock
    BY <1>10, <1>b DEF FinishCopy, CopyInv
  <2>2. flow[f].gen = gen => tunnel[x].st \in {"bound", "closed"}
    BY <1>10, <1>b, <2>0 DEF FinishCopy, CopyInv
  <2>3. /\ OnlyTunnel(x)
        /\ tunnel'[x].handler = tunnel[x].handler /\ tunnel'[x].alive = tunnel[x].alive
        /\ \/ tunnel'[x].st = "closed" /\ flow[f].gen = gen
           \/ tunnel'[x].st = tunnel[x].st
    BY <1>10, <2>0, FinishCopyTunnels
  <2>4. Understood(x)'
    BY <1>e, <2>1, <2>2, <2>3 DEF Understood, Mutex, Sent, Ordered, TargetFirst
  <2> QED
    BY <1>1, <2>1, <2>2, <2>3, <2>4 DEF OnlyTunnel
<1>11. ASSUME NEW s \in Socks, AcceptTunnel(s) PROVE DatagramInv'
  <2>1. UNCHANGED <<down, sock, faults>>
    BY <1>11, Zenon DEF AcceptTunnel
  <2>2. tunnel[s] = NoTunnel /\ down[s] = <<>>
    BY <1>11, <1>b DEF AcceptTunnel, FreshInv
  <2>3. tunnel[s].handler = FALSE /\ Len(down[s]) = 0
    BY <2>2, EmptySeq DEF NoTunnel
  <2>4. CASE UNCHANGED tunnel
    BY <1>2, <2>1, <2>4
  <2>5. CASE OnlyTunnel(s) /\ tunnel'[s].st = "pooled" /\ tunnel'[s].handler = FALSE
    <3>1. Understood(s)'
      BY <1>e, <2>1, <2>3, <2>5 DEF Understood, Mutex, Sent, Ordered, TargetFirst
    <3> QED
      BY <1>1, <2>1, <2>5, <3>1 DEF OnlyTunnel
  <2> QED
    BY <1>11, <2>4, <2>5, AcceptTunnelTunnels
<1>12. ASSUME NEW s \in Socks, KeepAliveTick(s) \/ KeepAliveEnds(s) PROVE DatagramInv'
  <2>1. UNCHANGED <<down, sock, faults>>
    BY <1>12, Zenon DEF KeepAliveTick, KeepAliveEnds, network
  <2>2. /\ OnlyTunnel(s) /\ tunnel'[s].st = tunnel[s].st
        /\ tunnel'[s].handler = tunnel[s].handler
        /\ tunnel'[s].alive # "locked" \/ ~tunnel[s].handler
    BY <1>12, KeepAliveTunnels DEF SamePlace, Locked
  <2>3. Understood(s)'
    BY <1>e, <2>1, <2>2 DEF Understood, Mutex, Sent, Ordered, TargetFirst
  <2> QED
    BY <1>1, <2>1, <2>2, <2>3 DEF OnlyTunnel
<1>13. ASSUME NEW s \in Socks, SendPing(s) PROVE DatagramInv'
  <2>1. UNCHANGED sock /\ tunnel[s].alive = "locked"
    BY <1>13, Zenon DEF SendPing
  <2>2. /\ OnlyTunnel(s) /\ tunnel'[s].st = tunnel[s].st
        /\ tunnel'[s].handler = tunnel[s].handler
    BY <1>13, KeepAliveTunnels DEF SamePlace
  <2>3. /\ ~tunnel[s].handler /\ sock[s] \notin {"bridged", "closed"}
        /\ \A i \in 1..Len(down[s]) : down[s][i] = "ping"
    BY <1>e, <2>1 DEF Mutex, Sent
  <2>4. CASE faults' = faults + 1 /\ UNCHANGED down
    <3>1. Understood(s)'
      BY <1>a, <1>e, <2>1, <2>2, <2>3, <2>4 DEF Understood, Mutex, Sent, Ordered
    <3> QED
      BY <1>1, <1>a, <2>1, <2>2, <2>4, <3>1 DEF OnlyTunnel
  <2>5. CASE UNCHANGED faults /\ down' = [down EXCEPT ![s] = Append(@, "ping")]
    <3>1. /\ \A t \in Socks \ {s} : down'[t] = down[t]
          /\ Len(down[s]) \in Nat /\ Len(down'[s]) = Len(down[s]) + 1
          /\ \A i \in 1..Len(down[s]) : down'[s][i] = down[s][i]
          /\ down'[s][Len(down[s]) + 1] = "ping"
      BY <1>d, <2>5, Sends
    <3>2. \A i \in 1..Len(down'[s]) : i \in 1..Len(down[s]) \/ i = Len(down[s]) + 1
      BY <3>1
    <3>3. \A i \in 1..Len(down'[s]) : down'[s][i] = "ping"
      BY <2>3, <3>1, <3>2
    <3>4. Mutex(s)' /\ Sent(s)' /\ Ordered(s)'
      BY <2>1, <2>2, <2>3, <3>3 DEF Mutex, Sent, Ordered
    <3>5. faults' = 0 => TargetFirst(s)'
      BY <1>e, <2>1, <2>2, <2>3, <2>5, <3>3 DEF TargetFirst
    <3> QED
      BY <1>1, <2>1, <2>2, <2>5, <3>1, <3>4, <3>5 DEF OnlyTunnel, Understood
  <2> QED
    BY <1>13, <2>4, <2>5 DEF SendPing
<1>14. ASSUME NEW s \in Socks, TunnelDialer(s) PROVE DatagramInv'
  <2>1. UNCHANGED <<tunnel, down, faults>>
    BY <1>14, Zenon DEF TunnelDialer
  <2>2. /\ sock[s] = "unused" /\ sock'[s] = "waiting"
        /\ \A t \in Socks \ {s} : sock'[t] = sock[t]
    BY <1>14 DEF TunnelDialer, TypeOK
  <2>3. tunnel[s] = NoTunnel /\ down[s] = <<>>
    BY <1>b, <2>2 DEF FreshInv
  <2>4. tunnel[s].handler = FALSE /\ tunnel[s].st = "none" /\ Len(down[s]) = 0
    BY <2>3, EmptySeq DEF NoTunnel
  <2>5. Understood(s)'
    BY <2>1, <2>2, <2>4 DEF Understood, Mutex, Sent, Ordered, TargetFirst
  <2> QED
    BY <1>1, <2>1, <2>2, <2>5
<1>15. ASSUME NEW s \in Socks, ClientReceives(s) \/ LoseDatagram(s),
              down[s] # <<>>, down' = [down EXCEPT ![s] = Tail(@)]
       PROVE  /\ \A t \in Socks \ {s} : down'[t] = down[t]
              /\ Len(down[s]) \in Nat \ {0} /\ Len(down'[s]) = Len(down[s]) - 1
              /\ Head(down[s]) = down[s][1] /\ 1 \in 1..Len(down[s])
              /\ \A i \in 1..Len(down'[s]) : /\ down'[s][i] = down[s][i + 1]
                                             /\ i + 1 \in 1..Len(down[s])
  <2>1. /\ \A t \in Socks \ {s} : down'[t] = down[t]
        /\ Len(down[s]) \in Nat \ {0} /\ Len(down'[s]) = Len(down[s]) - 1
        /\ Head(down[s]) = down[s][1]
        /\ \A i \in 1..Len(down'[s]) : down'[s][i] = down[s][i + 1]
    BY <1>15, <1>d, Receives
  <2> QED
    BY <2>1
<1>16. ASSUME NEW s \in Socks, ClientReceives(s) PROVE DatagramInv'
  <2>1. UNCHANGED <<tunnel, faults>> /\ down[s] # <<>> /\ down' = [down EXCEPT ![s] = Tail(@)]
    BY <1>16, Zenon DEF ClientReceives
  <2>2. /\ \A t \in Socks \ {s} : down'[t] = down[t]
        /\ Len(down[s]) \in Nat \ {0} /\ Len(down'[s]) = Len(down[s]) - 1
        /\ Head(down[s]) = down[s][1] /\ 1 \in 1..Len(down[s])
        /\ \A i \in 1..Len(down'[s]) : /\ down'[s][i] = down[s][i + 1]
                                       /\ i + 1 \in 1..Len(down[s])
    BY <1>15, <1>16, <2>1
  <2>3. /\ \A t \in Socks \ {s} : sock'[t] = sock[t]
        /\ \/ /\ sock[s] = "waiting" /\ down[s][1] # "ping"
              /\ sock'[s] \in {"bridged", "closed"}
           \/ /\ sock'[s] = sock[s]
              /\ sock[s] # "waiting" \/ down[s][1] = "ping"
    BY <1>16, <2>2 DEF ClientReceives, TypeOK
  <2>4. Mutex(s)' /\ Sent(s)'
    BY <1>e, <2>1, <2>2, <2>3 DEF Mutex, Sent
  <2>5. Ordered(s)'
    <3>1. Ordered(s)
      BY <1>e
    <3>2. ASSUME NEW i \in 1..Len(down'[s]), NEW j \in 1..Len(down'[s]), i < j,
                 down'[s][i] # "ping"
          PROVE  down'[s][j] # "ping"
      BY <2>2, <3>1, <3>2, i + 1 < j + 1 DEF Ordered
    <3>3. ASSUME sock'[s] \in {"bridged", "closed"}, NEW i \in 1..Len(down'[s])
          PROVE  down'[s][i] # "ping"
      <4>1. CASE sock[s] \in {"bridged", "closed"}
        BY <2>2, <3>1, <4>1 DEF Ordered
      <4>2. CASE down[s][1] # "ping"
        BY <2>2, <3>1, <4>2, 1 < i + 1 DEF Ordered
      <4> QED
        BY <2>3, <3>3, <4>1, <4>2
    <3> QED
      BY <3>2, <3>3 DEF Ordered
  <2>6. ASSUME faults' = 0 PROVE TargetFirst(s)'
    <3> SUFFICES ASSUME sock'[s] = "waiting"
                 PROVE  /\ tunnel'[s].st \in {"bound", "closed"} =>
                              \E i \in 1..Len(down'[s]) : down'[s][i] = "target"
                        /\ \A j \in 1..Len(down'[s]) : down'[s][j] = "data" =>
                              \E i \in 1..Len(down'[s]) : i < j /\ down'[s][i] = "target"
      BY DEF TargetFirst
    <3>1. sock[s] = "waiting" /\ down[s][1] = "ping" /\ TargetFirst(s)
      BY <1>e, <2>1, <2>3, <2>6
    <3>2. \A i \in 1..Len(down[s]) : down[s][i] = "target" =>
              /\ i - 1 \in 1..Len(down'[s]) /\ down'[s][i - 1] = "target"
              /\ i \in Nat
      <4> SUFFICES ASSUME NEW i \in 1..Len(down[s]), down[s][i] = "target"
                   PROVE  i - 1 \in 1..Len(down'[s]) /\ down'[s][i - 1] = "target" /\ i \in Nat
        OBVIOUS
      <4>1. i # 1 /\ i \in Nat /\ i - 1 \in 1..Len(down'[s]) /\ (i - 1) + 1 = i
        BY <2>2, <3>1
      <4> QED
        BY <2>2, <4>1
    <3>3. ASSUME tunnel'[s].st \in {"bound", "closed"}
          PROVE  \E i \in 1..Len(down'[s]) : down'[s][i] = "target"
      BY <2>1, <3>1, <3>2, <3>3 DEF TargetFirst
    <3>4. ASSUME NEW j \in 1..Len(down'[s]), down'[s][j] = "data"
          PROVE  \E i \in 1..Len(down'[s]) : i < j /\ down'[s][i] = "target"
      <4>1. PICK i \in 1..Len(down[s]) : i < j + 1 /\ down[s][i] = "target"
        BY <2>2, <3>1, <3>4 DEF TargetFirst
      <4>2. i - 1 \in 1..Len(down'[s]) /\ down'[s][i - 1] = "target" /\ i - 1 < j
        BY <2>2, <3>2, <4>1
      <4> QED
        BY <4>2
    <3> QED
      BY <3>3, <3>4
  <2> QED
    BY <1>1, <2>1, <2>2, <2>3, <2>4, <2>5, <2>6 DEF Understood
<1>17. ASSUME NEW s \in Socks, LoseDatagram(s) PROVE DatagramInv'
  <2>1. UNCHANGED <<tunnel, sock>> /\ faults' = faults + 1
    BY <1>17, Zenon DEF LoseDatagram
  <2>2. CASE UNCHANGED down
    <3>1. Understood(s)'
      BY <1>a, <1>e, <2>1, <2>2 DEF Understood, Mutex, Sent, Ordered
    <3> QED
      BY <1>1, <1>a, <2>1, <2>2, <3>1
  <2>3. CASE down[s] # <<>> /\ down' = [down EXCEPT ![s] = Tail(@)]
    <3>1. /\ \A t \in Socks \ {s} : down'[t] = down[t]
          /\ Len(down[s]) \in Nat \ {0} /\ Len(down'[s]) = Len(down[s]) - 1
          /\ \A i \in 1..Len(down'[s]) : /\ down'[s][i] = down[s][i + 1]
                                         /\ i + 1 \in 1..Len(down[s])
      BY <1>15, <1>17, <2>3
    <3>2. Mutex(s)' /\ Sent(s)'
      BY <1>e, <2>1, <3>1 DEF Mutex, Sent
    <3>3. Ordered(s)'
      <4>1. Ordered(s)
        BY <1>e
      <4>2. ASSUME NEW i \in 1..Len(down'[s]), NEW j \in 1..Len(down'[s]), i < j,
                   down'[s][i] # "ping"
            PROVE  down'[s][j] # "ping"
        BY <3>1, <4>1, <4>2, i + 1 < j + 1 DEF Ordered
      <4>3. ASSUME sock'[s] \in {"bridged", "closed"}, NEW i \in 1..Len(down'[s])
            PROVE  down'[s][i] # "ping"
        BY <2>1, <3>1, <4>1, <4>3 DEF Ordered
      <4> QED
        BY <4>2, <4>3 DEF Ordered
    <3> QED
      BY <1>1, <1>a, <2>1, <3>1, <3>2, <3>3 DEF Understood
  <2> QED
    BY <1>17, <2>2, <2>3 DEF LoseDatagram
<1>18. CASE Restart
  <2>1. \A s \in Socks : tunnel'[s] = NoTunnel /\ down'[s] = <<>> /\ sock'[s] = "unused"
    BY <1>18 DEF Restart
  <2>2. \A s \in Socks : tunnel'[s].handler = FALSE /\ Len(down'[s]) = 0
    BY <2>1, EmptySeq DEF NoTunnel
  <2> QED
    BY <2>1, <2>2 DEF DatagramInv, Understood, Mutex, Sent, Ordered, TargetFirst
<1> QED
  BY <1>3, <1>4, <1>5, <1>6, <1>7, <1>8, <1>9, <1>10, <1>11, <1>12, <1>13, <1>14, <1>16,
     <1>17, <1>18 DEF Next

-----------------------------------------------------------------------------
(* The count: the invariant.                                               *)

\* A flow whose request is still to be made counts for one.
LEMMA UnaskedCount ==
  ASSUME NEW x PROVE Cardinality({x} \ {None}) = IF x = None THEN 0 ELSE 1
<1>1. CASE x = None
  <2>1. {x} \ {None} = {}
    BY <1>1
  <2> QED
    BY <1>1, <2>1, FS_EmptySet
<1>2. CASE x # None
  <2>1. {x} \ {None} = {x}
    BY <1>2
  <2> QED
    BY <1>2, <2>1, FS_Singleton
<1> QED
  BY <1>1, <1>2

\* At the start nothing is counted.
LEMMA CountInit == Init => CountInv
<1> SUFFICES ASSUME Init PROVE CountInv
  OBVIOUS
<1> USE UdpAssumption
<1>1. Waiting = {}
  <2>1. \A f \in Flows : flow[f].st = "none"
    BY DEF Init, NoFlow, FlowOf
  <2> QED
    BY <2>1 DEF Waiting
<1>2. Coming = {}
  <2>1. /\ \A s \in Socks : ~up[s] /\ tunnel[s].st = "none"
        /\ held.sock = None
    BY DEF Init, NoTunnel
  <2> QED
    BY <2>1 DEF Coming
<1>3. reqs = 0 /\ asked = ConnPoolSize /\ lost = 0 /\ Cardinality(Unasked) = 0
  BY UnaskedCount DEF Init, Unasked
<1> QED
  BY <1>1, <1>2, <1>3, FS_EmptySet DEF CountInv, Enough

\* Two sets that differ in one element at most have cardinalities to match.
LEMMA CountChange ==
    ASSUME NEW S, IsFiniteSet(S), NEW A \in SUBSET S, NEW B \in SUBSET S,
           NEW x, A \ {x} = B \ {x}
    PROVE  /\ Cardinality(A) \in Nat /\ Cardinality(B) \in Nat
           /\ Cardinality(A) + (IF x \in B THEN 1 ELSE 0)
                = Cardinality(B) + (IF x \in A THEN 1 ELSE 0)
<1>1. IsFiniteSet(A) /\ IsFiniteSet(B)
  BY FS_Subset
<1>2. Cardinality(A) \in Nat /\ Cardinality(B) \in Nat
  BY <1>1, FS_CardinalityType
<1>3. Cardinality(A \ {x}) = IF x \in A THEN Cardinality(A) - 1 ELSE Cardinality(A)
  BY <1>1, FS_RemoveElement
<1>4. Cardinality(B \ {x}) = IF x \in B THEN Cardinality(B) - 1 ELSE Cardinality(B)
  BY <1>1, FS_RemoveElement
<1> QED
  BY <1>2, <1>3, <1>4

\* The same where only one of the two is known to be finite.
LEMMA CountStep ==
    ASSUME NEW A, NEW B, NEW x, IsFiniteSet(A), A \ {x} = B \ {x}
    PROVE  /\ IsFiniteSet(B)
           /\ Cardinality(A) \in Nat /\ Cardinality(B) \in Nat
           /\ Cardinality(A) + (IF x \in B THEN 1 ELSE 0)
                = Cardinality(B) + (IF x \in A THEN 1 ELSE 0)
<1> DEFINE S == A \cup {x}
<1>1. IsFiniteSet(S)
  BY FS_AddElement
<1>2. A \in SUBSET S /\ B \in SUBSET S
  OBVIOUS
<1> HIDE DEF S
<1>3. IsFiniteSet(B)
  BY <1>1, <1>2, FS_Subset
<1> QED
  BY <1>1, <1>2, <1>3, CountChange

\* Every step that takes a tunnel from a waiting flow is counted as a loss.
LEMMA CountPreserved ==
  TypeOK /\ FlowInv /\ TunnelInv /\ CountInv /\ [Next]_vars => CountInv'
<1> SUFFICES ASSUME TypeOK, FlowInv, TunnelInv, CountInv, [Next]_vars PROVE CountInv'
  OBVIOUS
<1> USE UdpAssumption
<1>a. /\ reqs \in Nat /\ asked \in Nat /\ lost \in Nat
      /\ held.sock \in Socks \cup {None} /\ held.flow \in Flows \cup {None}
      /\ first \in Flows \cup {None}
  BY DEF TypeOK
<1>b. PoolInv /\ FreshInv /\ CopyInv /\ QueueInv
  BY DEF TunnelInv, FlowInv
<1>c. /\ Cardinality(Unasked) = IF first = None THEN 0 ELSE 1
      /\ Cardinality(Unasked') = IF first' = None THEN 0 ELSE 1
  BY UnaskedCount DEF Unasked
<1>d. /\ IsFiniteSet(Waiting) /\ IsFiniteSet(Coming) /\ Enough
      /\ Cardinality(Waiting) \in Nat /\ Cardinality(Coming) \in Nat
  BY FS_CardinalityType DEF CountInv
<1>w. ASSUME NEW f \in Flows, OnlyFlow(f)
      PROVE  /\ IsFiniteSet(Waiting') /\ Cardinality(Waiting') \in Nat
             /\ Cardinality(Waiting) + (IF f \in Waiting' THEN 1 ELSE 0)
                  = Cardinality(Waiting') + (IF f \in Waiting THEN 1 ELSE 0)
  <2>1. Waiting \ {f} = Waiting' \ {f}
    BY <1>w DEF OnlyFlow, Waiting
  <2> QED
    BY <1>d, <2>1, CountStep
<1>t. ASSUME NEW s \in Socks,
             \A t \in Socks \ {s} : t \in Coming <=> t \in Coming'
      PROVE  /\ IsFiniteSet(Coming') /\ Cardinality(Coming') \in Nat
             /\ Cardinality(Coming) + (IF s \in Coming' THEN 1 ELSE 0)
                  = Cardinality(Coming') + (IF s \in Coming THEN 1 ELSE 0)
  <2>1. Coming \subseteq Socks /\ Coming' \subseteq Socks
    BY DEF Coming
  <2>2. Coming \ {s} = Coming' \ {s}
    BY <1>t, <2>1
  <2> QED
    BY <1>d, <2>2, CountStep
<1>1. ASSUME Waiting' = Waiting, Coming' = Coming, UNCHANGED <<first, reqs, asked, lost>>
      PROVE  CountInv'
  BY <1>1, <1>c, <1>d DEF CountInv, Enough
<1>2. ASSUME \A g \in Flows : flow'[g].st = flow[g].st PROVE Waiting' = Waiting
  BY <1>2 DEF Waiting
<1>3. ASSUME UNCHANGED <<tunnel, up, held>> PROVE Coming' = Coming
  BY <1>3 DEF Coming
<1>4. ASSUME NEW a \in Addrs, LocalPacket(a) PROVE CountInv'
  <2>1. UNCHANGED <<tunnel, up, held, first, reqs, asked, lost>>
    BY <1>4, Zenon DEF LocalPacket, local, network, control
  <2>2. Waiting' = Waiting
    BY <1>2, <1>4, LocalPacketFlows DEF Untouched, Kept
  <2> QED
    BY <1>1, <1>3, <2>1, <2>2
<1>5. ASSUME NEW a \in Addrs, NewFlow(a) PROVE CountInv'
  <2>1. UNCHANGED <<tunnel, up, held, reqs, asked, lost>> /\ first = None
    BY <1>5, Zenon DEF NewFlow, network, control
  <2>2. PICK f \in Flows :
            /\ flow[f].st = "none" /\ OnlyFlow(f)
            /\ \/ flow'[f].st = "queued" /\ first' = f
               \/ flow'[f].st = "dropped" /\ UNCHANGED first
    BY <1>5, NewFlowFlows DEF local
  <2>3. Coming' = Coming
    BY <1>3, <2>1
  <2>4. f \notin Waiting
    BY <2>2 DEF Waiting
  <2>5. /\ IsFiniteSet(Waiting') /\ Cardinality(Waiting') \in Nat
        /\ Cardinality(Waiting) + (IF f \in Waiting' THEN 1 ELSE 0) = Cardinality(Waiting')
    BY <1>d, <1>w, <2>2, <2>4
  <2>6. CASE flow'[f].st = "queued" /\ first' = f
    BY <1>a, <1>c, <1>d, <2>1, <2>3, <2>5, <2>6 DEF CountInv, Enough
  <2>7. CASE flow'[f].st = "dropped" /\ UNCHANGED first
    <3>1. f \notin Waiting'
      BY <2>7 DEF Waiting
    <3> QED
      BY <1>a, <1>c, <1>d, <2>1, <2>3, <2>5, <2>7, <3>1 DEF CountInv, Enough
  <2> QED
    BY <2>2, <2>6, <2>7
<1>6. CASE FirstPayload
  <2>1. /\ UNCHANGED <<tunnel, up, held, asked>> /\ first # None /\ first' = None
        /\ \/ reqs' = reqs + 1 /\ UNCHANGED lost
           \/ lost' = lost + 1 /\ UNCHANGED reqs
    BY <1>6, Zenon DEF FirstPayload, network
  <2>2. Waiting' = Waiting
    BY <1>2, <1>6, FirstPayloadFlows DEF Untouched, Kept
  <2>3. Coming' = Coming
    BY <1>3, <2>1
  <2> QED
    BY <1>a, <1>c, <1>d, <2>1, <2>2, <2>3 DEF CountInv, Enough
<1>7. CASE SendRequest
  <2>1. /\ UNCHANGED <<tunnel, up, held, flow, first, lost>>
        /\ reqs' = reqs - 1 /\ asked' = asked + 1
    BY <1>7, Zenon DEF SendRequest, network, local
  <2>2. Waiting' = Waiting /\ Coming' = Coming
    BY <1>2, <1>3, <2>1
  <2> QED
    BY <1>a, <1>c, <1>d, <2>1, <2>2 DEF CountInv, Enough
<1>8. CASE TakeFlow
  <2>1. /\ UNCHANGED <<tunnel, up, first, reqs, asked, lost>>
        /\ udpChan # <<>>
    BY <1>8, Zenon DEF TakeFlow, network, control
  <2>2. /\ Head(udpChan) \in Flows /\ Head(udpChan) = udpChan[1] /\ 1 \in 1..Len(udpChan)
    BY <2>1, QueueTake DEF TypeOK
  <2>3. flow[Head(udpChan)].st = "queued"
    BY <1>b, <2>2 DEF QueueInv
  <2>4. PICK f \in Flows : f = Head(udpChan)
    BY <2>2
  <2>5. f \in Waiting /\ OnlyFlow(f) /\ flow'[f].st \in {"skipped", "held"}
    BY <1>8, <2>3, <2>4, TakeFlowFlows DEF Becomes, Waiting
  <2>6. held'.sock = held.sock
    BY <1>8, TakeFlowFlows DEF TypeOK
  <2>7. Coming' = Coming
    BY <2>1, <2>6 DEF Coming
  <2>8. /\ IsFiniteSet(Waiting') /\ Cardinality(Waiting') \in Nat
        /\ Cardinality(Waiting') <= Cardinality(Waiting)
    BY <1>d, <1>w, <2>5
  <2> QED
    BY <1>a, <1>c, <1>d, <2>1, <2>7, <2>8 DEF CountInv, Enough
<1>9. CASE TakeTunnel
  <2>1. UNCHANGED <<up, flow, first, reqs, asked, lost>> /\ held.sock = None
    BY <1>9, Zenon DEF TakeTunnel, network, control, local
  <2>2. PICK x \in Socks : x = Head(tunnelChan)
    BY <1>9, TakeTunnelTunnels
  <2>3. tunnelChan # <<>> /\ tunnelChan \in Seq(Socks)
    BY <1>9, Zenon DEF TakeTunnel, TypeOK
  <2>4. Head(tunnelChan) = tunnelChan[1] /\ 1 \in 1..Len(tunnelChan)
    BY <2>3, QueueTake
  <2>5. tunnel[x].st = "pooled"
    BY <1>b, <2>2, <2>4 DEF PoolInv
  <2>6. OnlyTunnel(x) /\ held'.sock = x
    BY <1>9, <2>2, TakeTunnelTunnels
  <2>7. Coming' = Coming
    BY <2>1, <2>5, <2>6 DEF Coming, OnlyTunnel
  <2> QED
    BY <1>1, <1>2, <2>1, <2>7
<1>10. CASE SendTarget
  <2>1. UNCHANGED <<up, first, reqs, asked>> /\ held.sock # None
    BY <1>10, Zenon DEF SendTarget, local, control
  <2>2. PICK x \in Socks : x = held.sock
    BY <1>a, <2>1
  <2>0. held.flow \in Flows
    BY <1>a, <1>b, <2>1, Zenon DEF QueueInv
  <2>3. PICK f \in Flows : f = held.flow
    BY <2>0
  <2>4. /\ OnlyTunnel(x) /\ tunnel'[x].st \in {"bound", tunnel[x].st} /\ held'.sock = None
        /\ \/ Becomes(f, "serving") /\ lost' = lost
           \/ UNCHANGED flow /\ lost' = lost + 1
    BY <1>10, <2>0, <2>2, <2>3, SendTargetTunnels
  <2>5. tunnel[x].st = "taken" /\ ~up[x]
    BY <1>b, <2>1, <2>2 DEF PoolInv, FreshInv, NoTunnel
  <2>6. x \in Coming /\ x \notin Coming'
    BY <2>1, <2>2, <2>4, <2>5 DEF Coming
  <2>7. \A t \in Socks \ {x} : t \in Coming <=> t \in Coming'
    BY <2>1, <2>2, <2>4 DEF Coming, OnlyTunnel
  <2>8. /\ IsFiniteSet(Coming') /\ Cardinality(Coming') \in Nat
        /\ Cardinality(Coming) = Cardinality(Coming') + 1
    BY <1>d, <1>t, <2>6, <2>7
  <2>9. CASE Becomes(f, "serving") /\ lost' = lost
    <3>1. f \in Waiting /\ f \notin Waiting'
      BY <1>b, <2>3, <2>9 DEF QueueInv, Waiting, Becomes
    <3>2. /\ IsFiniteSet(Waiting') /\ Cardinality(Waiting') \in Nat
          /\ Cardinality(Waiting) = Cardinality(Waiting') + 1
      BY <1>d, <1>w, <2>9, <3>1 DEF Becomes
    <3> QED
      BY <1>a, <1>c, <1>d, <2>1, <2>8, <2>9, <3>2 DEF CountInv, Enough
  <2>10. CASE UNCHANGED flow /\ lost' = lost + 1
    <3>1. Waiting' = Waiting
      BY <1>2, <2>10
    <3> QED
      BY <1>a, <1>c, <1>d, <2>1, <2>8, <2>10, <3>1 DEF CountInv, Enough
  <2> QED
    BY <2>4, <2>9, <2>10
<1>11. ASSUME NEW f \in Flows, CopyLocal(f) PROVE CountInv'
  <2>1. UNCHANGED <<tunnel, up, held, first, reqs, asked, lost>>
    BY <1>11, Zenon DEF CopyLocal, local, control
  <2>2. Waiting' = Waiting
    BY <1>2, <1>11, CopyLocalFlows DEF OnlyFlow, Kept
  <2> QED
    BY <1>1, <1>3, <2>1, <2>2
<1>12. ASSUME NEW f \in Flows, NEW half \in {"local", "tunnel"}, Idle(f, half) PROVE CountInv'
  <2>1. UNCHANGED <<tunnel, up, held, first, reqs, asked, lost>>
    BY <1>12, Zenon DEF Idle, local, control, network
  <2>2. Waiting' = Waiting
    BY <1>2, <1>12, IdleFlows DEF OnlyFlow, Kept
  <2> QED
    BY <1>1, <1>3, <2>1, <2>2
<1>13. ASSUME NEW f \in Flows, FinishCopy(f) PROVE CountInv'
  <2>1. UNCHANGED <<up, held, first, reqs, asked, lost>> /\ flow[f].st = "serving"
    BY <1>13, Zenon DEF FinishCopy, control, network
  <2>2. OnlyFlow(f) /\ flow'[f].st = "closed"
    BY <1>13, FinishCopyFlows DEF Becomes
  <2>3. Waiting' = Waiting
    BY <2>1, <2>2 DEF Waiting, OnlyFlow
  <2>4. PICK x \in Socks : x = flow[f].sock
    BY <1>b, <2>1 DEF CopyInv
  <2>5. /\ OnlyTunnel(x)
        /\ \/ tunnel'[x].st = "closed" /\ flow[f].gen = gen
           \/ tunnel'[x].st = tunnel[x].st
    BY <1>13, <2>4, FinishCopyTunnels
  <2>6. flow[f].gen = gen => tunnel[x].st # "pooled"
    BY <1>b, <2>1, <2>4 DEF CopyInv
  <2>7. Coming' = Coming
    BY <2>1, <2>5, <2>6 DEF Coming, OnlyTunnel
  <2> QED
    BY <1>1, <2>1, <2>3, <2>7
<1>14. ASSUME NEW s \in Socks, AcceptTunnel(s) PROVE CountInv'
  <2>1. UNCHANGED <<flow, held, first, reqs, asked>>
    BY <1>14, Zenon DEF AcceptTunnel, control, local
  <2>2. up[s] /\ ~up'[s] /\ \A t \in Socks \ {s} : up'[t] = up[t]
    BY <1>14 DEF AcceptTunnel, TypeOK
  <2>3. /\ OnlyTunnel(s)
        /\ \/ tunnel'[s].st = "pooled" /\ lost' = lost
           \/ UNCHANGED tunnel /\ lost' = lost + 1
    BY <1>14, AcceptTunnelTunnels DEF AcceptTunnel
  <2>4. Waiting' = Waiting
    BY <1>2, <2>1
  <2>5. s \in Coming /\ (tunnel'[s].st = "pooled" => s \in Coming')
    BY <2>2 DEF Coming
  <2>6. \A t \in Socks \ {s} : t \in Coming <=> t \in Coming'
    BY <2>1, <2>2, <2>3 DEF Coming, OnlyTunnel
  <2>7. /\ IsFiniteSet(Coming') /\ Cardinality(Coming') \in Nat
        /\ Cardinality(Coming) + (IF s \in Coming' THEN 1 ELSE 0) = Cardinality(Coming') + 1
    BY <1>d, <1>t, <2>5, <2>6
  <2> QED
    BY <1>a, <1>c, <1>d, <2>1, <2>3, <2>4, <2>5, <2>7 DEF CountInv, Enough
<1>15. ASSUME NEW s \in Socks, KeepAliveTick(s) \/ SendPing(s) \/ KeepAliveEnds(s)
       PROVE  CountInv'
  <2>1. UNCHANGED <<flow, up, held, first, reqs, asked, lost>>
    BY <1>15, Zenon DEF KeepAliveTick, SendPing, KeepAliveEnds, local, control, network
  <2>2. \A t \in Socks : tunnel'[t].st = tunnel[t].st
    BY <1>15, KeepAliveTunnels DEF SamePlace
  <2>3. Coming' = Coming
    BY <2>1, <2>2 DEF Coming
  <2> QED
    BY <1>1, <1>2, <2>1, <2>3
<1>16. ASSUME NEW s \in Socks, TunnelDialer(s) PROVE CountInv'
  <2>1. /\ UNCHANGED <<flow, tunnel, held, first, reqs, lost>> /\ asked' = asked - 1
        /\ sock[s] = "unused"
    BY <1>16, Zenon DEF TunnelDialer, local
  <2>2. up'[s] /\ \A t \in Socks \ {s} : up'[t] = up[t]
    BY <1>16 DEF TunnelDialer, TypeOK
  <2>3. ~up[s] /\ tunnel[s].st = "none"
    BY <1>b, <2>1 DEF FreshInv, NoTunnel
  <2>4. held.sock # s
    BY <1>b, <2>3 DEF PoolInv
  <2>5. s \notin Coming /\ s \in Coming'
    BY <2>1, <2>2, <2>3, <2>4 DEF Coming
  <2>6. \A t \in Socks \ {s} : t \in Coming <=> t \in Coming'
    BY <2>1, <2>2 DEF Coming
  <2>7. /\ IsFiniteSet(Coming') /\ Cardinality(Coming') \in Nat
        /\ Cardinality(Coming) + 1 = Cardinality(Coming')
    BY <1>d, <1>t, <2>5, <2>6
  <2>8. Waiting' = Waiting
    BY <1>2, <2>1
  <2> QED
    BY <1>a, <1>c, <1>d, <2>1, <2>7, <2>8 DEF CountInv, Enough
<1>17. ASSUME NEW s \in Socks, ClientReceives(s) PROVE CountInv'
  <2>1. UNCHANGED <<flow, tunnel, up, held, first, reqs, asked, lost>>
    BY <1>17, Zenon DEF ClientReceives, local, control
  <2> QED
    BY <1>1, <1>2, <1>3, <2>1
<1>18. ASSUME NEW s \in Socks, LoseDatagram(s) PROVE CountInv'
  <2>1. UNCHANGED <<flow, tunnel, held, first, reqs, asked>>
    BY <1>18, Zenon DEF LoseDatagram, local, control
  <2>2. CASE UNCHANGED <<up, lost>>
    BY <1>1, <1>2, <1>3, <2>1, <2>2
  <2>3. CASE up' = [up EXCEPT ![s] = FALSE] /\ lost' = lost + 1
    <3>1. \A t \in Socks \ {s} : up'[t] = up[t]
      BY <2>3 DEF TypeOK
    <3>2. \A t \in Socks \ {s} : t \in Coming <=> t \in Coming'
      BY <2>1, <3>1 DEF Coming
    <3>3. /\ IsFiniteSet(Coming') /\ Cardinality(Coming') \in Nat
          /\ Cardinality(Coming) <= Cardinality(Coming') + 1
      BY <1>d, <1>t, <3>2
    <3>4. Waiting' = Waiting
      BY <1>2, <2>1
    <3> QED
      BY <1>a, <1>c, <1>d, <2>1, <2>3, <3>3, <3>4 DEF CountInv, Enough
  <2> QED
    BY <1>18, <2>2, <2>3, Zenon DEF LoseDatagram
<1>19. CASE Restart
  <2>1. /\ first' = None /\ reqs' = 0 /\ asked' = ConnPoolSize /\ lost' = 0
        /\ held'.sock = None
        /\ \A s \in Socks : tunnel'[s] = NoTunnel /\ ~up'[s]
    BY <1>19 DEF Restart
  <2>2. \A s \in Socks : tunnel'[s].st = "none"
    BY <2>1 DEF NoTunnel
  <2>3. \A f \in Flows : flow'[f].st \notin {"queued", "held"}
    BY <1>19, RestartFlows
  <2>4. Coming' = {}
    BY <2>1, <2>2 DEF Coming
  <2>5. Waiting' = {}
    BY <2>3 DEF Waiting
  <2> QED
    BY <1>c, <2>1, <2>4, <2>5, FS_EmptySet DEF CountInv, Enough
<1>20. CASE UNCHANGED vars
  <2>1. UNCHANGED <<flow, tunnel, up, held, first, reqs, asked, lost>>
    BY <1>20, Zenon DEF vars
  <2> QED
    BY <1>1, <1>2, <1>3, <2>1
<1> QED
  BY <1>4, <1>5, <1>6, <1>7, <1>8, <1>9, <1>10, <1>11, <1>12, <1>13, <1>14, <1>15, <1>16,
     <1>17, <1>18, <1>19, <1>20 DEF Next

-----------------------------------------------------------------------------
(* The theorems.                                                           *)

\* The invariant holds in every behaviour.
LEMMA UdpInvAlways == Spec => []UdpInv
<1>1. Init => UdpInv
  BY TypeInit, FlowInit, TunnelInit, DatagramInit, CountInit DEF UdpInv
<1>2. UdpInv /\ [Next]_vars => UdpInv'
  <2>1. ASSUME UdpInv, [Next]_vars PROVE TypeOK'
    BY <2>1, TypeStep DEF UdpInv, FlowInv
  <2> QED
    BY <2>1, FlowStep, TunnelStep, DatagramStep, CountPreserved DEF UdpInv
<1> QED
  BY <1>1, <1>2, PTL DEF Spec

\* Every entry of localListener's map leads to a flow that is queued, at
\* handleLoop, copied or passed over, the first packet of a flow finds the
\* payload channel open, and a tunnel in service is known to acceptTunnelConn
\* unless a flow of before a restart deleted its entry.
THEOREM EntriesCorrect == Spec => []EntriesAreLive
<1>1. UdpInv => EntriesAreLive
  <2> SUFFICES ASSUME UdpInv PROVE EntriesAreLive
    OBVIOUS
  <2>1. TypeOK /\ QueueInv /\ OwnInv /\ FirstInv /\ KnownInv
    BY DEF UdpInv, FlowInv, TunnelInv
  <2>2. DOMAIN udpChan = 1..Len(udpChan)
    BY <2>1, LenProperties DEF TypeOK
  <2>3. ASSUME NEW a \in Addrs, lmap[a] # None
        PROVE  LET f == lmap[a]
               IN /\ flow[f].addr = a /\ flow[f].gen = gen
                  /\ \/ flow[f].st = "queued" /\ \E i \in DOMAIN udpChan : udpChan[i] = f
                     \/ flow[f].st = "held" /\ held.flow = f
                     \/ flow[f].st \in {"serving", "skipped"}
    <3>1. lmap[a] \in Flows /\ Current(lmap[a]) /\ flow[lmap[a]].addr = a
      BY <2>1, <2>3 DEF TypeOK, OwnInv
    <3> QED
      BY <2>1, <2>2, <3>1 DEF QueueInv, Current
  <2>4. first # None => lmap[flow[first].addr] = first
    BY <2>1 DEF FirstInv, OwnInv, TypeOK
  <2> QED
    BY <2>1, <2>3, <2>4 DEF EntriesAreLive, KnownInv
<1> QED
  BY <1>1, UdpInvAlways, PTL

\* keepAlive's pings never follow a target or data, a bridged client gets none,
\* and data comes first to a client only when its target was lost.
THEOREM DatagramsCorrect == Spec => []DatagramsUnderstood
<1>1. UdpInv => DatagramsUnderstood
  <2> SUFFICES ASSUME UdpInv, NEW s \in Socks
               PROVE  /\ \A i, j \in DOMAIN down[s] :
                            i < j /\ down[s][i] \in {"target", "data"} => down[s][j] # "ping"
                      /\ sock[s] = "bridged" => \A i \in DOMAIN down[s] : down[s][i] # "ping"
                      /\ sock[s] = "waiting" /\ (\E i \in DOMAIN down[s] : down[s][i] = "data") =>
                            down[s][1] # "data" \/ faults > 0
    BY DEF DatagramsUnderstood
  <2>1. DOMAIN down[s] = 1..Len(down[s]) /\ Len(down[s]) \in Nat /\ faults \in Nat
    BY LenProperties DEF UdpInv, TypeOK
  <2>2. Ordered(s) /\ (faults = 0 => TargetFirst(s))
    BY DEF UdpInv, DatagramInv, Understood
  <2>3. /\ \A i, j \in DOMAIN down[s] :
              i < j /\ down[s][i] \in {"target", "data"} => down[s][j] # "ping"
        /\ sock[s] = "bridged" => \A i \in DOMAIN down[s] : down[s][i] # "ping"
    BY <2>1, <2>2 DEF Ordered
  <2>4. ASSUME sock[s] = "waiting", NEW j \in DOMAIN down[s], down[s][1] = "data", faults = 0
        PROVE  FALSE
    <3>1. 1 \in 1..Len(down[s])
      BY <2>1
    <3>2. PICK i \in 1..Len(down[s]) : i < 1
      BY <2>2, <2>4, <3>1 DEF TargetFirst
    <3> QED
      BY <3>2
  <2> QED
    BY <2>1, <2>3, <2>4
<1> QED
  BY <1>1, UdpInvAlways, PTL

\* There is, or comes, a tunnel for every flow that waits and for the pool, but
\* for those lost to a full channel, a lost token or a failed write.
THEOREM TunnelsCorrect == Spec => []TunnelsSuffice
<1>1. UdpInv => TunnelsSuffice
  BY DEF UdpInv, CountInv, Enough, Waiting, Coming, Unasked, TunnelsSuffice
<1> QED
  BY <1>1, UdpInvAlways, PTL
=============================================================================
