--------------------------- MODULE AcceptUdpProofs ---------------------------
(***************************************************************************)
(* Proofs about AcceptUdp, for every number of addresses and flows and     *)
(* every channel size.                                                     *)
(***************************************************************************)
EXTENDS AcceptUdp, TLAPS

\* Every entry is for its flow's address, and only a congested flow is still
\* an entry when it is closed.
EntryInv ==
    \A a \in Addrs : active[a] # None =>
        /\ flow[active[a]].addr = a
        /\ flow[active[a]].stage # "free"
        /\ flow[active[a]].stage = "closed" => flow[active[a]].congested = "yes"

\* The flows that are, or should be, the entry of their address.
Owns(f) == flow[f].stage \in {"queued", "dropped", "served"} /\ flow[f].congested = "no"

\* What the reader knows of the flow it is making.
ReaderInv ==
    /\ rPc # "read" => rFlow \in Flows
    /\ rPc \in {"store", "offer"} => /\ flow[rFlow].stage = "new"
                                    /\ flow[rFlow].addr = rAddr
                                    /\ flow[rFlow].payload = 0
    /\ rPc = "store" => \A f \in Flows : Owns(f) => flow[f].addr # rAddr
    /\ rPc = "offer" => active[rAddr] = rFlow
    /\ rPc = "first" => /\ flow[rFlow].stage \in {"queued", "served"}
                        /\ flow[rFlow].payload = 0
                        /\ flow[rFlow].stage = "served" => "toTCP" \in flow[rFlow].running

\* udpChan and the loop hold different flows, none of them served yet.
ChanInv ==
    /\ \A k \in 1..Len(udpChan) : flow[udpChan[k]].stage = "queued" /\ udpChan[k] # loopFlow
    /\ \A j, k \in 1..Len(udpChan) : udpChan[j] = udpChan[k] => j = k
    /\ loopFlow # None => flow[loopFlow].stage = "queued"

\* FlowOwnsEntry, by flow.
OwnInv == \A f \in Flows : Owns(f) => active[flow[f].addr] = f

Inv == TypeOK /\ EntryInv /\ ReaderInv /\ ChanInv /\ OwnInv

\* Every step of the reader, the loop and the handlers keeps the invariant.
LEMMA InvStep == Inv /\ [Next]_vars => Inv'
<1> SUFFICES ASSUME Inv, [Next]_vars PROVE Inv'
  OBVIOUS
<1> USE UdpAssumption, NoneAssumption DEF readerVars, loopVars, tunnelVars
<1>0. flow \in [Flows -> Flow]
  BY DEF Inv, TypeOK
<1>1. CASE UNCHANGED vars
  BY <1>1 DEF vars, Inv, TypeOK, EntryInv, ReaderInv, ChanInv, OwnInv, Owns
<1>2. ASSUME NEW a \in Addrs, ReadForActive(a) PROVE Inv'
  <2>a. active[a] \in Flows
    BY <1>2 DEF ReadForActive, Usable, Inv, TypeOK, ReaderInv
  <2>1. TypeOK'
    <3>1. flow' \in [Flows -> Flow]
      BY <1>0, <1>2, <2>a DEF ReadForActive, Usable, Flow
    <3> QED
      BY <1>2, <3>1, <2>a DEF ReadForActive, Inv, TypeOK
  <2>2. EntryInv'
    BY <1>2 DEF ReadForActive, Usable, Inv, TypeOK, EntryInv, ReaderInv, Flow
  <2>3. ReaderInv'
    BY <1>2 DEF ReadForActive, Usable, Inv, TypeOK, ReaderInv, OwnInv, Owns, Flow
  <2>4. ChanInv'
    BY <1>2 DEF ReadForActive, Usable, Inv, TypeOK, ReaderInv, ChanInv, Flow
  <2>5. OwnInv'
    BY <1>2 DEF ReadForActive, Usable, Inv, TypeOK, ReaderInv, ChanInv, OwnInv, Owns, Flow
  <2> QED
    BY <2>1, <2>2, <2>3, <2>4, <2>5 DEF Inv
<1>3. ASSUME NEW a \in Addrs, ReadForNew(a) PROVE Inv'
  <2>1. TypeOK'
    BY <1>3 DEF ReadForNew, Usable, NewFlow, Inv, TypeOK, Flow
  <2>2. EntryInv'
    BY <1>3 DEF ReadForNew, Usable, NewFlow, Inv, TypeOK, EntryInv, ReaderInv, Flow
  <2>3. ReaderInv'
    BY <1>3 DEF ReadForNew, Usable, NewFlow, Inv, TypeOK, ReaderInv, OwnInv, Owns, Flow
  <2>4. ChanInv'
    BY <1>3 DEF ReadForNew, Usable, NewFlow, Inv, TypeOK, ReaderInv, ChanInv, Flow
  <2>5. OwnInv'
    BY <1>3 DEF ReadForNew, Usable, NewFlow, Inv, TypeOK, ReaderInv, ChanInv, OwnInv,
       Owns, Flow
  <2> QED
    BY <2>1, <2>2, <2>3, <2>4, <2>5 DEF Inv
<1>4. CASE Store
  <2>1. TypeOK'
    BY <1>4 DEF Store, Inv, TypeOK, Flow
  <2>2. EntryInv'
    BY <1>4 DEF Store, Inv, TypeOK, EntryInv, ReaderInv, Flow
  <2>3. ReaderInv'
    BY <1>4 DEF Store, Inv, TypeOK, ReaderInv, OwnInv, Owns, Flow
  <2>4. ChanInv'
    BY <1>4 DEF Store, Inv, TypeOK, ReaderInv, ChanInv, Flow
  <2>5. OwnInv'
    BY <1>4 DEF Store, Inv, TypeOK, ReaderInv, ChanInv, OwnInv, Owns, Flow
  <2> QED
    BY <2>1, <2>2, <2>3, <2>4, <2>5 DEF Inv
<1>5. CASE Offer
  <2>a. rFlow \in Flows
    BY <1>5 DEF Offer, Inv, TypeOK, ReaderInv
  <2>1. TypeOK'
    <3>1. flow' \in [Flows -> Flow]
      <4>1. flow' = [flow EXCEPT ![rFlow].stage = "queued"]
        BY <1>5 DEF Offer
      <4> QED
        BY <1>0, <2>a, <4>1 DEF Flow
    <3> QED
      BY <1>5, <3>1, <2>a DEF Offer, Inv, TypeOK
  <2>2. EntryInv'
    BY <1>5 DEF Offer, Inv, TypeOK, EntryInv, ReaderInv, Flow
  <2>3. ReaderInv'
    BY <1>5 DEF Offer, Inv, TypeOK, ReaderInv, OwnInv, Owns, Flow
  <2>4. ChanInv'
    BY <1>5 DEF Offer, Inv, TypeOK, ReaderInv, ChanInv, Flow
  <2>5. OwnInv'
    BY <1>5 DEF Offer, Inv, TypeOK, ReaderInv, ChanInv, OwnInv, Owns, Flow
  <2> QED
    BY <2>1, <2>2, <2>3, <2>4, <2>5 DEF Inv
<1>6. CASE OfferFails
  <2>a. rFlow \in Flows
    BY <1>6 DEF OfferFails, Inv, TypeOK, ReaderInv
  <2>1. TypeOK'
    <3>1. flow' \in [Flows -> Flow]
      <4>1. flow' = [flow EXCEPT ![rFlow].stage = "dropped"]
        BY <1>6 DEF OfferFails
      <4> QED
        BY <1>0, <2>a, <4>1 DEF Flow
    <3> QED
      BY <1>6, <3>1, <2>a DEF OfferFails, Inv, TypeOK
  <2>2. EntryInv'
    BY <1>6 DEF OfferFails, Inv, TypeOK, EntryInv, ReaderInv, Flow
  <2>3. ReaderInv'
    BY <1>6 DEF OfferFails, Inv, TypeOK, ReaderInv, OwnInv, Owns, Flow
  <2>4. ChanInv'
    BY <1>6 DEF OfferFails, Inv, TypeOK, ReaderInv, ChanInv, Flow
  <2>5. OwnInv'
    BY <1>6 DEF OfferFails, Inv, TypeOK, ReaderInv, ChanInv, OwnInv, Owns, Flow
  <2> QED
    BY <2>1, <2>2, <2>3, <2>4, <2>5 DEF Inv
<1>7. CASE SendFirst
  <2>a. rFlow \in Flows
    BY <1>7 DEF SendFirst, Inv, TypeOK, ReaderInv
  <2>1. TypeOK'
    <3>1. flow' \in [Flows -> Flow]
      BY <1>0, <1>7, <2>a DEF SendFirst, Inv, ReaderInv, Flow
    <3> QED
      BY <1>7, <3>1, <2>a DEF SendFirst, Inv, TypeOK
  <2>2. EntryInv'
    BY <1>7 DEF SendFirst, Inv, TypeOK, EntryInv, ReaderInv, Flow
  <2>3. ReaderInv'
    BY <1>7 DEF SendFirst, Inv, TypeOK, ReaderInv, OwnInv, Owns, Flow
  <2>4. ChanInv'
    BY <1>7 DEF SendFirst, Inv, TypeOK, ReaderInv, ChanInv, Flow
  <2>5. OwnInv'
    BY <1>7 DEF SendFirst, Inv, TypeOK, ReaderInv, ChanInv, OwnInv, Owns, Flow
  <2> QED
    BY <2>1, <2>2, <2>3, <2>4, <2>5 DEF Inv
<1>8. CASE RequestTunnel
  <2>1. TypeOK'
    BY <1>8 DEF RequestTunnel, Inv, TypeOK, Flow
  <2>2. EntryInv'
    BY <1>8 DEF RequestTunnel, Inv, TypeOK, EntryInv, ReaderInv, Flow
  <2>3. ReaderInv'
    BY <1>8 DEF RequestTunnel, Inv, TypeOK, ReaderInv, OwnInv, Owns, Flow
  <2>4. ChanInv'
    BY <1>8 DEF RequestTunnel, Inv, TypeOK, ReaderInv, ChanInv, Flow
  <2>5. OwnInv'
    BY <1>8 DEF RequestTunnel, Inv, TypeOK, ReaderInv, ChanInv, OwnInv, Owns, Flow
  <2> QED
    BY <2>1, <2>2, <2>3, <2>4, <2>5 DEF Inv
<1>9. CASE LoopTake
  <2>1. TypeOK'
    BY <1>9 DEF LoopTake, Inv, TypeOK, Flow
  <2>2. EntryInv'
    BY <1>9 DEF LoopTake, Inv, TypeOK, EntryInv, ReaderInv, Flow
  <2>3. ReaderInv'
    BY <1>9 DEF LoopTake, Inv, TypeOK, ReaderInv, OwnInv, Owns, Flow
  <2>4. ChanInv'
    BY <1>9 DEF LoopTake, Inv, TypeOK, ReaderInv, ChanInv, Flow
  <2>5. OwnInv'
    BY <1>9 DEF LoopTake, Inv, TypeOK, ReaderInv, ChanInv, OwnInv, Owns, Flow
  <2> QED
    BY <2>1, <2>2, <2>3, <2>4, <2>5 DEF Inv
<1>10. CASE LoopServe
  <2>a. loopFlow \in Flows
    BY <1>10 DEF LoopServe, Inv, TypeOK, ReaderInv
  <2>1. TypeOK'
    <3>1. flow' \in [Flows -> Flow]
      <4> DEFINE r == [flow[loopFlow] EXCEPT !.stage = "served", !.tcp = "open",
                                            !.running = {"toTCP", "toUDP"}]
      <4>1. flow[loopFlow] \in Flow
        BY <1>0, <2>a
      <4>2. r \in Flow
        BY <1>10, <4>1 DEF LoopServe, Flow
      <4>3. flow' = [flow EXCEPT ![loopFlow] = r]
        BY <1>0, <1>10, <2>a DEF LoopServe
      <4> QED
        BY <1>0, <4>2, <4>3, <2>a
    <3> QED
      BY <1>10, <3>1, <2>a DEF LoopServe, Inv, TypeOK
  <2>2. EntryInv'
    BY <1>10 DEF LoopServe, Inv, TypeOK, EntryInv, ReaderInv, Flow
  <2>b. /\ \A g \in Flows : g # loopFlow => flow'[g] = flow[g]
        /\ flow'[loopFlow].stage = "served" /\ flow'[loopFlow].running = {"toTCP", "toUDP"}
        /\ flow'[loopFlow].payload = flow[loopFlow].payload
        /\ flow'[loopFlow].addr = flow[loopFlow].addr
        /\ flow'[loopFlow].congested = flow[loopFlow].congested
    BY <1>0, <1>10, <2>a DEF LoopServe, Flow
  <2>c. flow[loopFlow].stage = "queued" /\ UNCHANGED <<active, rPc, rAddr, rFlow>>
    BY <1>10 DEF LoopServe, Inv, ChanInv
  <2>3. ReaderInv'
    BY <2>a, <2>b, <2>c DEF Inv, ReaderInv, Owns
  <2>4. ChanInv'
    BY <1>10 DEF LoopServe, Inv, TypeOK, ReaderInv, ChanInv, Flow
  <2>5. OwnInv'
    BY <1>10 DEF LoopServe, Inv, TypeOK, ReaderInv, ChanInv, OwnInv, Owns, Flow
  <2> QED
    BY <2>1, <2>2, <2>3, <2>4, <2>5 DEF Inv
<1>11. CASE LoopSkipDead
  <2>1. TypeOK'
    BY <1>11 DEF LoopSkipDead, Inv, TypeOK, Flow
  <2>2. EntryInv'
    BY <1>11 DEF LoopSkipDead, Inv, TypeOK, EntryInv, ReaderInv, Flow
  <2>3. ReaderInv'
    BY <1>11 DEF LoopSkipDead, Inv, TypeOK, ReaderInv, OwnInv, Owns, Flow
  <2>4. ChanInv'
    BY <1>11 DEF LoopSkipDead, Inv, TypeOK, ReaderInv, ChanInv, Flow
  <2>5. OwnInv'
    BY <1>11 DEF LoopSkipDead, Inv, TypeOK, ReaderInv, ChanInv, OwnInv, Owns, Flow
  <2> QED
    BY <2>1, <2>2, <2>3, <2>4, <2>5 DEF Inv
<1>12. CASE TunnelArrives
  <2>1. TypeOK'
    BY <1>12 DEF TunnelArrives, Inv, TypeOK, Flow
  <2>2. EntryInv'
    BY <1>12 DEF TunnelArrives, Inv, TypeOK, EntryInv, ReaderInv, Flow
  <2>3. ReaderInv'
    BY <1>12 DEF TunnelArrives, Inv, TypeOK, ReaderInv, OwnInv, Owns, Flow
  <2>4. ChanInv'
    BY <1>12 DEF TunnelArrives, Inv, TypeOK, ReaderInv, ChanInv, Flow
  <2>5. OwnInv'
    BY <1>12 DEF TunnelArrives, Inv, TypeOK, ReaderInv, ChanInv, OwnInv, Owns, Flow
  <2> QED
    BY <2>1, <2>2, <2>3, <2>4, <2>5 DEF Inv
<1>13. CASE TunnelTaken
  <2>1. TypeOK'
    BY <1>13 DEF TunnelTaken, Inv, TypeOK, Flow
  <2>2. EntryInv'
    BY <1>13 DEF TunnelTaken, Inv, TypeOK, EntryInv, ReaderInv, Flow
  <2>3. ReaderInv'
    BY <1>13 DEF TunnelTaken, Inv, TypeOK, ReaderInv, OwnInv, Owns, Flow
  <2>4. ChanInv'
    BY <1>13 DEF TunnelTaken, Inv, TypeOK, ReaderInv, ChanInv, Flow
  <2>5. OwnInv'
    BY <1>13 DEF TunnelTaken, Inv, TypeOK, ReaderInv, ChanInv, OwnInv, Owns, Flow
  <2> QED
    BY <2>1, <2>2, <2>3, <2>4, <2>5 DEF Inv
<1>14. ASSUME NEW f \in Flows, Forward(f) PROVE Inv'
  <2>0. PICK failed \in BOOLEAN :
            flow' = [flow EXCEPT ![f].payload = @ - 1,
                                 ![f].running = IF failed THEN @ \ {"toTCP"} ELSE @]
    BY <1>14 DEF Forward
  <2> DEFINE r == [flow[f] EXCEPT !.payload = @ - 1,
                                  !.running = IF failed THEN @ \ {"toTCP"} ELSE @]
  <2>1. TypeOK'
    <3>1. flow' \in [Flows -> Flow]
      <4>1. flow[f] \in Flow
        BY <1>0
      <4>a. flow[f].payload - 1 \in 0..PayloadSize
        BY <1>14, <4>1 DEF Forward, Flow
      <4>b. flow[f].running \ {"toTCP"} \in SUBSET {"toTCP", "toUDP"}
        BY <4>1 DEF Flow
      <4>2. r \in Flow
        BY <4>1, <4>a, <4>b DEF Flow
      <4>3. flow' = [flow EXCEPT ![f] = r]
        BY <1>0, <2>0
      <4> QED
        BY <1>0, <4>2, <4>3
    <3> QED
      BY <1>14, <3>1 DEF Forward, Inv, TypeOK
  <2>2. EntryInv'
    BY <1>14, <2>0 DEF Forward, Inv, TypeOK, EntryInv, ReaderInv, Flow
  <2>3. ReaderInv'
    BY <1>14, <2>0 DEF Forward, Inv, TypeOK, ReaderInv, OwnInv, Owns, Flow
  <2>4. ChanInv'
    BY <1>14, <2>0 DEF Forward, Inv, TypeOK, ReaderInv, ChanInv, Flow
  <2>5. OwnInv'
    BY <1>14, <2>0 DEF Forward, Inv, TypeOK, ReaderInv, ChanInv, OwnInv, Owns, Flow
  <2> QED
    BY <2>1, <2>2, <2>3, <2>4, <2>5 DEF Inv
<1>15. ASSUME NEW f \in Flows, Idle(f) PROVE Inv'
  <2>1. TypeOK'
    <3>1. flow' \in [Flows -> Flow]
      <4> DEFINE r == [flow[f] EXCEPT !.running = @ \ {"toTCP"}, !.tcp = "closed"]
      <4>1. flow[f] \in Flow
        BY <1>0
      <4>2. r \in Flow
        BY <1>15, <4>1 DEF Idle, Flow
      <4>3. flow' = [flow EXCEPT ![f] = r]
        BY <1>0, <1>15 DEF Idle
      <4> QED
        BY <1>0, <4>2, <4>3
    <3> QED
      BY <1>15, <3>1 DEF Idle, Inv, TypeOK
  <2>2. EntryInv'
    BY <1>15 DEF Idle, Inv, TypeOK, EntryInv, ReaderInv, Flow
  <2>3. ReaderInv'
    BY <1>15 DEF Idle, Inv, TypeOK, ReaderInv, OwnInv, Owns, Flow
  <2>4. ChanInv'
    BY <1>15 DEF Idle, Inv, TypeOK, ReaderInv, ChanInv, Flow
  <2>5. OwnInv'
    BY <1>15 DEF Idle, Inv, TypeOK, ReaderInv, ChanInv, OwnInv, Owns, Flow
  <2> QED
    BY <2>1, <2>2, <2>3, <2>4, <2>5 DEF Inv
<1>16. ASSUME NEW f \in Flows, Receive(f) PROVE Inv'
  <2>0. PICK v \in Verdicts :
           flow' = [flow EXCEPT
                      ![f].congested = IF v.congested = "yes" THEN "yes" ELSE @,
                      ![f].late = IF v.late = "yes" THEN "yes" ELSE @]
    BY <1>16 DEF Receive
  <2> DEFINE r == [flow[f] EXCEPT !.congested = IF v.congested = "yes" THEN "yes" ELSE @,
                                  !.late = IF v.late = "yes" THEN "yes" ELSE @]
  <2>a. flow[f] \in Flow
    BY <1>0
  <2>b. /\ r \in Flow
        /\ r.addr = flow[f].addr /\ r.stage = flow[f].stage /\ r.payload = flow[f].payload
        /\ r.running = flow[f].running /\ (r.congested = "no" => flow[f].congested = "no")
        /\ (flow[f].congested = "yes" => r.congested = "yes")
    BY <2>a DEF Flow
  <2>c. flow' = [flow EXCEPT ![f] = r]
    BY <1>0, <2>0
  <2> HIDE DEF r
  <2>d. /\ flow' \in [Flows -> Flow] /\ flow'[f] = r
        /\ \A g \in Flows : g # f => flow'[g] = flow[g]
    BY <1>0, <2>b, <2>c
  <2>e. UNCHANGED <<active, rPc, rAddr, rFlow, udpChan, loopFlow, tunnelQ, reqQ, faults>>
    BY <1>16 DEF Receive
  <2>f. \A g \in Flows :
          /\ flow'[g].addr = flow[g].addr /\ flow'[g].stage = flow[g].stage
          /\ flow'[g].payload = flow[g].payload /\ flow'[g].running = flow[g].running
          /\ flow'[g].congested = "no" => flow[g].congested = "no"
          /\ flow[g].congested = "yes" => flow'[g].congested = "yes"
    BY <2>b, <2>d
  <2>1. TypeOK'
    BY <2>d, <2>e DEF Inv, TypeOK
  <2>2. EntryInv'
    BY <2>e, <2>f DEF Inv, TypeOK, EntryInv
  <2>3. ReaderInv'
    BY <2>e, <2>f DEF Inv, TypeOK, ReaderInv, Owns
  <2>4. ChanInv'
    BY <2>e, <2>f DEF Inv, TypeOK, ChanInv
  <2>5. OwnInv'
    BY <2>e, <2>f DEF Inv, TypeOK, OwnInv, Owns
  <2> QED
    BY <2>1, <2>2, <2>3, <2>4, <2>5 DEF Inv
<1>17. ASSUME NEW f \in Flows, TunnelCloses(f) PROVE Inv'
  <2>1. TypeOK'
    <3>1. flow' \in [Flows -> Flow]
      BY <1>0, <1>17 DEF TunnelCloses, Flow
    <3> QED
      BY <1>17, <3>1 DEF TunnelCloses, Inv, TypeOK
  <2>2. EntryInv'
    BY <1>17 DEF TunnelCloses, Inv, TypeOK, EntryInv, ReaderInv, Flow
  <2>3. ReaderInv'
    BY <1>17 DEF TunnelCloses, Inv, TypeOK, ReaderInv, OwnInv, Owns, Flow
  <2>4. ChanInv'
    BY <1>17 DEF TunnelCloses, Inv, TypeOK, ReaderInv, ChanInv, Flow
  <2>5. OwnInv'
    BY <1>17 DEF TunnelCloses, Inv, TypeOK, ReaderInv, ChanInv, OwnInv, Owns, Flow
  <2> QED
    BY <2>1, <2>2, <2>3, <2>4, <2>5 DEF Inv
<1>18. ASSUME NEW f \in Flows, ToUDPEnds(f) PROVE Inv'
  <2>1. TypeOK'
    <3>1. flow' \in [Flows -> Flow]
      BY <1>0, <1>18 DEF ToUDPEnds, Flow
    <3> QED
      BY <1>18, <3>1 DEF ToUDPEnds, Inv, TypeOK
  <2>2. EntryInv'
    BY <1>18 DEF ToUDPEnds, Inv, TypeOK, EntryInv, ReaderInv, Flow
  <2>3. ReaderInv'
    BY <1>18 DEF ToUDPEnds, Inv, TypeOK, ReaderInv, OwnInv, Owns, Flow
  <2>4. ChanInv'
    BY <1>18 DEF ToUDPEnds, Inv, TypeOK, ReaderInv, ChanInv, Flow
  <2>5. OwnInv'
    BY <1>18 DEF ToUDPEnds, Inv, TypeOK, ReaderInv, ChanInv, OwnInv, Owns, Flow
  <2> QED
    BY <2>1, <2>2, <2>3, <2>4, <2>5 DEF Inv
<1>19. ASSUME NEW f \in Flows, Finish(f) PROVE Inv'
  <2>1. TypeOK'
    <3>1. flow' \in [Flows -> Flow]
      BY <1>0, <1>19 DEF Finish, Flow
    <3> QED
      BY <1>19, <3>1 DEF Finish, Inv, TypeOK
  <2>2. EntryInv'
    BY <1>19 DEF Finish, Inv, TypeOK, EntryInv, ReaderInv, Flow
  <2>3. ReaderInv'
    BY <1>19 DEF Finish, Inv, TypeOK, ReaderInv, OwnInv, Owns, Flow
  <2>4. ChanInv'
    BY <1>19 DEF Finish, Inv, TypeOK, ReaderInv, ChanInv, Flow
  <2>5. OwnInv'
    BY <1>19 DEF Finish, Inv, TypeOK, ReaderInv, ChanInv, OwnInv, Owns, Flow
  <2> QED
    BY <2>1, <2>2, <2>3, <2>4, <2>5 DEF Inv
<1>20. ASSUME NEW f \in Flows, Collect(f) PROVE Inv'
  <2>a. NoFlow \in Flow /\ NoFlow.stage = "free"
    <3>1. AnyAddr \in Addrs
      BY DEF AnyAddr
    <3> QED
      BY <3>1 DEF NoFlow, NewFlow, Flow
  <2>1. TypeOK'
    <3>1. flow' \in [Flows -> Flow]
      BY <1>0, <1>20, <2>a DEF Collect
    <3> QED
      BY <1>20, <3>1, <2>a DEF Collect, Inv, TypeOK
  <2>2. EntryInv'
    BY <1>20 DEF Collect, Inv, TypeOK, EntryInv, ReaderInv, Flow
  <2>b. /\ \A g \in Flows : g # f => flow'[g] = flow[g]
        /\ flow'[f].stage = "free"
    BY <1>0, <1>20, <2>a DEF Collect
  <2>c. flow[f].stage = "closed" /\ UNCHANGED <<active, rPc, rAddr, rFlow>>
    BY <1>20 DEF Collect
  <2>3. ReaderInv'
    BY <2>b, <2>c DEF Inv, ReaderInv, Owns
  <2>4. ChanInv'
    BY <1>20 DEF Collect, Inv, TypeOK, ReaderInv, ChanInv, Flow
  <2>5. OwnInv'
    BY <2>b, <2>c DEF Inv, OwnInv, Owns
  <2> QED
    BY <2>1, <2>2, <2>3, <2>4, <2>5 DEF Inv
<1> QED
  BY <1>1, <1>2, <1>3, <1>4, <1>5, <1>6, <1>7, <1>8, <1>9, <1>10, <1>11,
     <1>12, <1>13, <1>14, <1>15, <1>16, <1>17, <1>18, <1>19, <1>20
     DEF Next, Reader, Loop, Handler

\* The invariant holds to begin with.
LEMMA InvInit == Init => Inv
<1> SUFFICES ASSUME Init PROVE Inv
  OBVIOUS
<1>1. AnyAddr \in Addrs
  BY UdpAssumption DEF AnyAddr
<1>2. NoFlow \in Flow /\ NoFlow.stage = "free"
  BY <1>1, UdpAssumption DEF NoFlow, NewFlow, Flow
<1>3. TypeOK
  BY <1>1, <1>2, UdpAssumption DEF Init, TypeOK
<1> QED
  BY <1>2, <1>3 DEF Init, Inv, EntryInv, ReaderInv, ChanInv, OwnInv, Owns

\* So it always holds.
LEMMA InvAlways == Spec => []Inv
BY InvInit, InvStep, PTL DEF Spec

\* No queue or payload channel outgrows its capacity, and activeConnections
\* holds flows only.
THEOREM UdpTypeCorrect == Spec => []TypeOK
<1>1. Inv => TypeOK
  BY DEF Inv
<1> QED
  BY <1>1, InvAlways, PTL

\* The reader of udpListener never panics on a closed payload channel, for
\* any number of addresses and of handlers that end at any time.
THEOREM NoSendOnClosedCorrect == Spec => []NoSendOnClosed
<1>1. Inv => NoSendOnClosed
  BY DEF Inv, TypeOK, EntryInv, ReaderInv, NoSendOnClosed, Usable
<1> QED
  BY <1>1, InvAlways, PTL

\* Deleting by address never deletes the entry of another flow.
THEOREM FlowOwnsEntryCorrect == Spec => []FlowOwnsEntry
<1>1. Inv => FlowOwnsEntry
  BY DEF Inv, OwnInv, Owns, FlowOwnsEntry
<1> QED
  BY <1>1, InvAlways, PTL

-----------------------------------------------------------------------------
(* The age of a packet.                                                    *)

\* A time is its window and what it is into it.
LEMMA Windows ==
  ASSUME NEW n \in Nat, NEW w \in Nat \ {0}
  PROVE  /\ n \div w \in Nat /\ n % w \in Nat /\ n % w < w
         /\ n % w = n - w * (n \div w)
<1>1. n \div w \in Nat /\ n % w \in Nat /\ n % w < w
  BY SMT
<1>2. n % w = n - w * (n \div w)
  BY SMT
<1> QED
  BY <1>1, <1>2

\* More windows take longer.
LEMMA Longer ==
  ASSUME NEW w \in Nat, NEW i \in Nat, NEW j \in Nat, i <= j
  PROVE  w * i \in Nat /\ w * j \in Nat /\ w * i <= w * j
<1>1. j - i \in Nat /\ w * (j - i) \in Nat /\ w * i \in Nat
  OBVIOUS
<1>2. w * j = w * i + w * (j - i)
  OBVIOUS
<1> QED
  BY <1>1, <1>2

\* With equal clocks the server judges every packet by its true age, whatever
\* the window, the round-trip time and the times: it seems too old only if it was
\* older than three round-trip times, and then it does, unless a window ended
\* while it was on the way.
THEOREM JudgementCorrect ==
  ASSUME Skew = 0, NEW sent \in Nat, NEW now \in Nat, NEW rtt \in Nat, sent <= now
  PROVE  IsCongested(sent, now, rtt) <=> IsLate(sent, now, rtt)
<1> DEFINE qs == sent \div Window
           qn == now \div Window
           ms == sent % Window
           mn == now % Window
           limit == Threshold(rtt)
<1>1. Window \in Nat \ {0} /\ limit \in Nat
  BY AgeAssumption DEF Threshold
<1>2. /\ qs \in Nat /\ ms \in Nat /\ ms < Window /\ ms = sent - Window * qs
      /\ qn \in Nat /\ mn \in Nat /\ mn < Window /\ mn = now - Window * qn
  BY <1>1, Windows
<1>3. IsCongested(sent, now, rtt) <=> mn - ms > limit
  <2>1. sent + Skew = sent
    OBVIOUS
  <2> QED
    BY <2>1, Zenon DEF IsCongested, PacketAge, Stamp
<1> HIDE DEF qs, qn, ms, mn, limit
<1>4. qs <= qn
  <2> SUFFICES ASSUME qn < qs PROVE FALSE
    BY <1>2
  <2>1. Window * (qn + 1) <= Window * qs /\ Window * (qn + 1) = Window * qn + Window
    BY <1>1, <1>2, Longer
  <2> QED
    BY <1>1, <1>2, <2>1
<1>5. Window * qs <= Window * qn /\ Window * qs \in Nat /\ Window * qn \in Nat
  BY <1>1, <1>2, <1>4, Longer
<1>6. mn - ms > limit => now - sent > limit
  BY <1>1, <1>2, <1>5
<1>7. now - sent > limit /\ qn = qs => mn - ms > limit
  BY <1>1, <1>2, <1>5
<1> QED
  BY <1>3, <1>6, <1>7 DEF IsLate, qs, qn, limit

\* What the server makes of a packet is what it is.
LEMMA VerdictsCorrect ==
  ASSUME Skew = 0, NEW v \in Verdicts
  PROVE  v.congested = v.late
<1>1. PICK p \in [sent : Times, now : Times, rtt : Rtts] :
         /\ p.sent <= p.now
         /\ v = [congested |-> IF IsCongested(p.sent, p.now, p.rtt) THEN "yes" ELSE "no",
                 late      |-> IF IsLate(p.sent, p.now, p.rtt) THEN "yes" ELSE "no"]
  BY DEF Verdicts
<1>2. p.sent \in Nat /\ p.now \in Nat /\ p.rtt \in Nat
  BY AgeAssumption
<1>3. IsCongested(p.sent, p.now, p.rtt) <=> IsLate(p.sent, p.now, p.rtt)
  BY <1>1, <1>2, JudgementCorrect
<1> QED
  BY <1>1, <1>3

\* Every step marks a flow if and only if it has read a packet that is too old.
LEMMA AgeStep ==
  ASSUME Skew = 0, Inv, CongestedByAge, [Next]_vars
  PROVE  CongestedByAge'
<1> SUFFICES ASSUME NEW f \in Flows
             PROVE  flow'[f].congested = "yes" <=> flow'[f].late = "yes"
  BY DEF CongestedByAge
<1>1. /\ flow \in [Flows -> Flow] /\ flow[f] \in Flow
      /\ flow[f].congested = "yes" <=> flow[f].late = "yes"
  BY DEF Inv, TypeOK, CongestedByAge
<1>2. CASE flow'[f].congested = flow[f].congested /\ flow'[f].late = flow[f].late
  BY <1>1, <1>2
<1>3. CASE \E a : flow'[f] = NewFlow(a) \/ flow'[f] = NoFlow
  BY <1>3 DEF NewFlow, NoFlow
<1>4. CASE Receive(f)
  <2>1. PICK v \in Verdicts :
           flow' = [flow EXCEPT
                      ![f].congested = IF v.congested = "yes" THEN "yes" ELSE @,
                      ![f].late = IF v.late = "yes" THEN "yes" ELSE @]
    BY <1>4 DEF Receive
  <2>2. v.congested = v.late
    BY VerdictsCorrect
  <2>3. flow[f] = [addr |-> flow[f].addr, stage |-> flow[f].stage,
                   congested |-> flow[f].congested, late |-> flow[f].late,
                   payload |-> flow[f].payload, tcp |-> flow[f].tcp,
                   running |-> flow[f].running]
    BY <1>1 DEF Flow
  <2>4. /\ flow'[f].congested = IF v.congested = "yes" THEN "yes" ELSE flow[f].congested
        /\ flow'[f].late = IF v.late = "yes" THEN "yes" ELSE flow[f].late
    BY <1>1, <2>1, <2>3
  <2> QED
    BY <1>1, <2>2, <2>4
<1>5. \/ flow'[f].congested = flow[f].congested /\ flow'[f].late = flow[f].late
      \/ \E a : flow'[f] = NewFlow(a) \/ flow'[f] = NoFlow
      \/ Receive(f)
  <2>1. CASE UNCHANGED flow
    BY <2>1
  <2> DEFINE Same == flow'[f].congested = flow[f].congested /\ flow'[f].late = flow[f].late
  <2>2. ASSUME NEW a \in Addrs, ReadForActive(a) PROVE Same
    BY <1>1, <2>2 DEF ReadForActive, Flow
  <2>3. ASSUME NEW a \in Addrs, ReadForNew(a)
        PROVE  Same \/ flow'[f] = NewFlow(a)
    BY <1>1, <2>3 DEF ReadForNew
  <2>4. CASE Offer \/ OfferFails \/ SendFirst
    BY <1>1, <2>4 DEF Offer, OfferFails, SendFirst, Flow
  <2>5. CASE LoopServe
    BY <1>1, <2>5 DEF LoopServe, Flow
  <2>6. ASSUME NEW g \in Flows, Forward(g) PROVE Same
    BY <1>1, <2>6 DEF Forward, Flow
  <2>7. ASSUME NEW g \in Flows, Idle(g) \/ TunnelCloses(g) \/ ToUDPEnds(g) \/ Finish(g)
        PROVE  Same
    BY <1>1, <2>7 DEF Idle, TunnelCloses, ToUDPEnds, Finish, Flow
  <2>8. ASSUME NEW g \in Flows, Receive(g) PROVE Same \/ Receive(f)
    BY <1>1, <2>8 DEF Receive
  <2>9. ASSUME NEW g \in Flows, Collect(g) PROVE Same \/ flow'[f] = NoFlow
    BY <1>1, <2>9 DEF Collect
  <2>10. CASE Store \/ RequestTunnel \/ LoopTake \/ LoopSkipDead \/ TunnelArrives \/ TunnelTaken
    BY <2>10 DEF Store, RequestTunnel, LoopTake, LoopSkipDead, TunnelArrives, TunnelTaken
  <2>11. CASE UNCHANGED vars
    BY <2>11 DEF vars
  <2> HIDE DEF Same
  <2> QED
    BY <2>2, <2>3, <2>4, <2>5, <2>6, <2>7, <2>8, <2>9, <2>10, <2>11
       DEF Next, Reader, Loop, Handler, Same
<1> QED
  BY <1>2, <1>3, <1>4, <1>5

\* With equal clocks a flow is given up as congested if and only if a packet of it
\* was too old, for any number of flows, any packets and any order of the steps.
THEOREM CongestedByAgeCorrect ==
  ASSUME Skew = 0
  PROVE  Spec => []CongestedByAge
<1>1. Init => CongestedByAge
  BY DEF Init, CongestedByAge, NoFlow, NewFlow
<1>2. Inv /\ CongestedByAge /\ [Next]_vars => CongestedByAge'
  BY AgeStep
<1> QED
  BY <1>1, <1>2, InvInit, InvStep, PTL DEF Spec
==============================================================================
