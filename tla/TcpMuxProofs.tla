---------------------------- MODULE TcpMuxProofs ----------------------------
(***************************************************************************)
(* Proofs about TcpMux, for every value of its constants.  MuxConBound is  *)
(* not inductive: the streams of a session are bounded by the tokens in    *)
(* its semaphore, and those by MuxCon.  The tokens may exceed the streams, *)
(* since handleSession keeps one when a connection is put back after a     *)
(* failed SendBinaryString.                                                *)
(***************************************************************************)
EXTENDS TcpMux, FiniteSetTheorems, TLAPS

\* The goroutine holds a token of its own.
HasToken(s) ==
    pc[s] \in {"select", "open", "send", "requeue", "requeueAndRequest", "request"}

SemInv ==
    \A s \in Sessions :
        /\ streams[s] <= sem[s]
        /\ HasToken(s) => streams[s] < sem[s]
        /\ sem[s] <= MuxCon

MuxInv == TypeOK /\ SemInv

\* Initially there are no sessions.
LEMMA MuxInvInit == Init => MuxInv
BY MuxAssumption DEF Init, MuxInv, TypeOK, PcValues, Holding, SemInv, HasToken

\* Every step keeps the streams below the tokens and the tokens below MuxCon.
LEMMA MuxInvStep == MuxInv /\ [Next]_vars => MuxInv'
<1> SUFFICES ASSUME MuxInv, [Next]_vars PROVE MuxInv'
  OBVIOUS
<1> USE MuxAssumption DEF MuxInv, TypeOK, PcValues, Holding, SemInv, HasToken
<1>1. CASE UNCHANGED vars
  BY <1>1 DEF vars, sessionVars, counterVars, histVars
<1>2. ASSUME NEW l \in Listeners, AcceptLocal(l) PROVE MuxInv'
  BY <1>2 DEF AcceptLocal, sessionVars, counterVars, histVars
<1>3. ASSUME NEW l \in Listeners, CountStream(l) PROVE MuxInv'
  BY <1>3 DEF CountStream, sessionVars, counterVars, histVars
<1>4. ASSUME NEW l \in Listeners, MaybeRequest(l) PROVE MuxInv'
  BY <1>4 DEF MaybeRequest, Request, sessionVars, counterVars, histVars
<1>5. ASSUME NEW s \in Sessions, AcceptSession(s) PROVE MuxInv'
  BY <1>5 DEF AcceptSession, Goto, sessionVars, counterVars, histVars
<1>6. ASSUME NEW s \in Sessions, HandleLoop(s) PROVE MuxInv'
  BY <1>6 DEF HandleLoop, Goto, sessionVars, counterVars, histVars
<1>7. ASSUME NEW s \in Sessions, SessionDies(s) PROVE MuxInv'
  BY <1>7 DEF SessionDies, Goto, sessionVars, counterVars, histVars
<1>8. ASSUME NEW s \in Sessions, Acquire(s) PROVE MuxInv'
  BY <1>8 DEF Acquire, Goto, sessionVars, counterVars, histVars
<1>9. ASSUME NEW s \in Sessions, TakeLocal(s) PROVE MuxInv'
  BY <1>9 DEF TakeLocal, Goto, sessionVars, counterVars, histVars
<1>10. ASSUME NEW s \in Sessions, Expire(s) PROVE MuxInv'
  BY <1>10 DEF Expire, Goto, sessionVars, counterVars, histVars
<1>11. ASSUME NEW s \in Sessions, OpenStream(s) PROVE MuxInv'
  BY <1>11 DEF OpenStream, Goto, sessionVars, counterVars, histVars
<1>12. ASSUME NEW s \in Sessions, OpenStreamFails(s) PROVE MuxInv'
  BY <1>12 DEF OpenStreamFails, Goto, sessionVars, counterVars, histVars
<1>13. ASSUME NEW s \in Sessions, RequeueAfterOpen(s) PROVE MuxInv'
  BY <1>13 DEF RequeueAfterOpen, Goto, sessionVars, counterVars, histVars
<1>14. ASSUME NEW s \in Sessions, RequestAfterOpen(s) PROVE MuxInv'
  BY <1>14 DEF RequestAfterOpen, Request, Goto, sessionVars, counterVars, histVars
<1>15. ASSUME NEW s \in Sessions, SendTarget(s) PROVE MuxInv'
  BY <1>15 DEF SendTarget, Goto, sessionVars, counterVars, histVars
<1>16. ASSUME NEW s \in Sessions, SendTargetFails(s) PROVE MuxInv'
  BY <1>16 DEF SendTargetFails, Goto, sessionVars, counterVars, histVars
<1>17. ASSUME NEW s \in Sessions, RequeueAfterSend(s) PROVE MuxInv'
  BY <1>17 DEF RequeueAfterSend, Goto, sessionVars, counterVars, histVars
<1>18. ASSUME NEW s \in Sessions, StreamEnds(s) PROVE MuxInv'
  BY <1>18 DEF StreamEnds, Goto, sessionVars, counterVars, histVars
<1>19. ASSUME NEW s \in Sessions, Recycle(s) PROVE MuxInv'
  BY <1>19 DEF Recycle, Goto, sessionVars, counterVars, histVars
<1>20. CASE SendRequest
  BY <1>20 DEF SendRequest, sessionVars, counterVars, histVars
<1>21. CASE PoolGrows
  BY <1>21 DEF PoolGrows, sessionVars, counterVars, histVars
<1>22. CASE DiscardSession
  BY <1>22 DEF DiscardSession, sessionVars, counterVars, histVars
<1>23. CASE DialFails
  BY <1>23 DEF DialFails, sessionVars, counterVars, histVars
<1> QED
  BY <1>1, <1>2, <1>3, <1>4, <1>5, <1>6, <1>7, <1>8, <1>9, <1>10, <1>11, <1>12, <1>13,
     <1>14, <1>15, <1>16, <1>17, <1>18, <1>19, <1>20, <1>21, <1>22, <1>23 DEF Next,
     Acceptor, HandleSession

\* The channels, counters and semaphores of the multiplexer always have
\* their types.
THEOREM MuxTypeCorrect == Spec => []TypeOK
<1>1. MuxInv => TypeOK
  BY DEF MuxInv
<1> QED
  BY <1>1, MuxInvInit, MuxInvStep, PTL DEF Spec

\* No session ever carries more than MuxCon streams, for any number of
\* sessions and listeners and whatever dies or is put back.
THEOREM MuxBoundCorrect == Spec => []MuxConBound
<1>1. MuxInv => MuxConBound
  BY MuxAssumption DEF MuxInv, TypeOK, SemInv, HasToken, MuxConBound, InHand
<1> QED
  BY <1>1, MuxInvInit, MuxInvStep, PTL DEF Spec

-----------------------------------------------------------------------------
(***************************************************************************)
(* The counters.  CountersExact is inductive together with the fact that   *)
(* no stream is open in a slot without a handleSession, which handleLoop   *)
(* sets to zero.                                                           *)
(***************************************************************************)
NoStreams == \A s \in Sessions : pc[s] \in {"none", "queued"} => streams[s] = 0

CountersInv == MuxInv /\ NoStreams /\ CountersExact

Uncounted == {l \in Listeners : accPc[l] = "count"}
Busy == {s \in Sessions : pc[s] \in Holding}
Places == {"sem", "select", "open", "send", "requeue"}
Working == {s \in Sessions : pc[s] \in Places}

One(b) == IF b THEN 1 ELSE 0

Counted ==
    /\ streamCounter + Cardinality(Uncounted)
         = localQ + Cardinality(Busy) + Cardinality(OpenStreams)
    /\ sessionCounter = Cardinality(Working)

\* CountersExact in terms of these sets.
LEMMA CountersAre == TypeOK => (CountersExact <=> Counted)
<1> SUFFICES ASSUME TypeOK PROVE CountersExact <=> Counted
  OBVIOUS
<1>1. {s \in Handlers : pc[s] \notin {"requeueAndRequest", "request"}} = Working
  BY DEF TypeOK, PcValues, Holding, Handlers, Working, Places
<1> QED
  BY <1>1 DEF CountersExact, StreamCounterExact, SessionCounterExact, Counted, Uncounted, Busy

\* There are finitely many streams, open or not.
LEMMA AllStreamsFinite == IsFiniteSet(Sessions \X (1..MuxCon))
<1>1. IsFiniteSet(1..MuxCon)
  BY MuxAssumption, FS_Interval
<1> QED
  BY <1>1, MuxAssumption, FS_Product

\* The four numbers that the counters are compared with are numbers.
LEMMA CountersType ==
    ASSUME TypeOK
    PROVE  /\ Cardinality(Uncounted) \in Nat /\ Cardinality(Busy) \in Nat
           /\ Cardinality(Working) \in Nat /\ Cardinality(OpenStreams) \in Nat
<1>1. Uncounted \in SUBSET Listeners /\ Busy \in SUBSET Sessions /\ Working \in SUBSET Sessions
  BY DEF Uncounted, Busy, Working
<1>2. Cardinality(OpenStreams) \in Nat
  <2>1. OpenStreams \subseteq Sessions \X (1..MuxCon)
    BY DEF OpenStreams
  <2> QED
    BY <2>1, AllStreamsFinite, FS_Subset, FS_CardinalityType
<1> QED
  BY <1>1, <1>2, MuxAssumption, FS_Subset, FS_CardinalityType

\* Two sets that differ in one element at most have cardinalities to match.
LEMMA CountChange ==
    ASSUME NEW S, IsFiniteSet(S), NEW A \in SUBSET S, NEW B \in SUBSET S,
           NEW x, A \ {x} = B \ {x}
    PROVE  /\ Cardinality(A) \in Nat /\ Cardinality(B) \in Nat
           /\ Cardinality(A) + (IF x \in B THEN 1 ELSE 0)
                = Cardinality(B) + (IF x \in A THEN 1 ELSE 0)
<1>1. IsFiniteSet(A) /\ IsFiniteSet(B)
  BY FS_Subset
<1>2. Cardinality(A) \in Nat /\ Cardinality(B) \in Nat
  BY <1>1, FS_CardinalityType
<1>3. Cardinality(A \ {x}) = IF x \in A THEN Cardinality(A) - 1 ELSE Cardinality(A)
  BY <1>1, FS_RemoveElement
<1>4. Cardinality(B \ {x}) = IF x \in B THEN Cardinality(B) - 1 ELSE Cardinality(B)
  BY <1>1, FS_RemoveElement
<1> QED
  BY <1>2, <1>3, <1>4

\* One goroutine of a session moves on.
LEMMA SessionMoves ==
    ASSUME TypeOK, NEW s \in Sessions, NEW l, Goto(s, l)
    PROVE  /\ Cardinality(Busy') + One(pc[s] \in Holding)
                = Cardinality(Busy) + One(l \in Holding)
           /\ Cardinality(Working') + One(s \in Working)
                = Cardinality(Working) + One(l \in Places)
           /\ Cardinality(Busy') \in Nat /\ Cardinality(Working') \in Nat
<1>1. pc'[s] = l /\ \A t \in Sessions \ {s} : pc'[t] = pc[t]
  BY DEF TypeOK, Goto
<1>2. Busy \ {s} = Busy' \ {s} /\ Working \ {s} = Working' \ {s}
  BY <1>1 DEF Busy, Working
<1>3. /\ s \in Busy <=> pc[s] \in Holding
      /\ s \in Busy' <=> l \in Holding
      /\ s \in Working' <=> l \in Places
  BY <1>1 DEF Busy, Working
<1>4. /\ Busy \in SUBSET Sessions /\ Busy' \in SUBSET Sessions
      /\ Working \in SUBSET Sessions /\ Working' \in SUBSET Sessions
  BY DEF Busy, Working
<1>5. /\ Cardinality(Busy') \in Nat
      /\ Cardinality(Busy) + One(s \in Busy') = Cardinality(Busy') + One(s \in Busy)
  BY <1>2, <1>4, MuxAssumption, CountChange DEF One
<1>6. /\ Cardinality(Working') \in Nat
      /\ Cardinality(Working) + One(s \in Working') = Cardinality(Working') + One(s \in Working)
  BY <1>2, <1>4, MuxAssumption, CountChange DEF One
<1> QED
  BY <1>3, <1>5, <1>6 DEF One

\* One listener moves on.
LEMMA ListenerMoves ==
    ASSUME TypeOK, NEW l \in Listeners, NEW k, accPc' = [accPc EXCEPT ![l] = k]
    PROVE  /\ Cardinality(Uncounted') + One(accPc[l] = "count")
                = Cardinality(Uncounted) + One(k = "count")
           /\ Cardinality(Uncounted') \in Nat
<1>1. accPc'[l] = k /\ \A j \in Listeners \ {l} : accPc'[j] = accPc[j]
  BY DEF TypeOK
<1>2. Uncounted \ {l} = Uncounted' \ {l}
  BY <1>1 DEF Uncounted
<1>3. (l \in Uncounted <=> accPc[l] = "count") /\ (l \in Uncounted' <=> k = "count")
  BY <1>1 DEF Uncounted
<1>4. Uncounted \in SUBSET Listeners /\ Uncounted' \in SUBSET Listeners
  BY DEF Uncounted
<1>5. /\ Cardinality(Uncounted') \in Nat
      /\ Cardinality(Uncounted) + One(l \in Uncounted')
           = Cardinality(Uncounted') + One(l \in Uncounted)
  BY <1>2, <1>4, MuxAssumption, CountChange DEF One
<1> QED
  BY <1>3, <1>5 DEF One

\* The streams of one session change, by one at most.
LEMMA StreamsChange ==
    ASSUME MuxInv, NEW s \in Sessions, NEW n \in 0..MuxCon,
           n \in {streams[s] - 1, streams[s], streams[s] + 1},
           streams' = [streams EXCEPT ![s] = n]
    PROVE  /\ Cardinality(OpenStreams') + streams[s] = Cardinality(OpenStreams) + n
           /\ Cardinality(OpenStreams') \in Nat
<1> DEFINE A == OpenStreams
           B == OpenStreams'
           All == Sessions \X (1..MuxCon)
           m == streams[s]
<1>1. /\ m \in 0..MuxCon /\ streams'[s] = n
      /\ \A t \in Sessions \ {s} : streams'[t] = streams[t]
  BY MuxAssumption DEF MuxInv, TypeOK, SemInv
<1>2. IsFiniteSet(All)
  BY AllStreamsFinite
<1>3. A \in SUBSET All /\ B \in SUBSET All
  BY DEF OpenStreams
<1>4. \A u \in All : u \in A <=> u[2] <= streams[u[1]]
  BY DEF OpenStreams
<1>5. \A u \in All : u \in B <=> u[2] <= streams'[u[1]]
  BY DEF OpenStreams
<1>6. PICK k \in 1..MuxCon : k = IF n < m THEN m ELSE IF m < n THEN n ELSE 1
  BY <1>1, MuxAssumption
<1>7. <<s, k>> \in All
  OBVIOUS
<1> HIDE DEF A, B
<1>8. A \ {<<s, k>>} = B \ {<<s, k>>}
  BY <1>1, <1>3, <1>4, <1>5, <1>6, MuxAssumption
<1>9. (<<s, k>> \in A <=> k <= m) /\ (<<s, k>> \in B <=> k <= n)
  BY <1>1, <1>4, <1>5, <1>7
<1>10. /\ Cardinality(A) \in Nat /\ Cardinality(B) \in Nat
       /\ Cardinality(A) + (IF <<s, k>> \in B THEN 1 ELSE 0)
            = Cardinality(B) + (IF <<s, k>> \in A THEN 1 ELSE 0)
  BY <1>2, <1>3, <1>8, CountChange
<1>11. Cardinality(B) + m = Cardinality(A) + n
  BY <1>1, <1>6, <1>9, <1>10, MuxAssumption
<1> QED
  BY <1>10, <1>11 DEF A, B

\* A step of session s that moves its goroutine to l, leaves it with n streams
\* and changes the counters by as much.
Moves(s, l, n) ==
    /\ Goto(s, l) /\ UNCHANGED accPc
    /\ n \in 0..MuxCon /\ n \in {streams[s] - 1, streams[s], streams[s] + 1}
    /\ streams' = [streams EXCEPT ![s] = n]
    /\ localQ' \in Int /\ streamCounter' \in Int
    /\ localQ' + One(l \in Holding) + n - streamCounter'
         = localQ + One(pc[s] \in Holding) + streams[s] - streamCounter
    /\ sessionCounter' = sessionCounter + One(l \in Places) - One(pc[s] \in Places)

\* Every step changes the counters by as much as what they count.
LEMMA CountedStep ==
    ASSUME MuxInv, NoStreams, Counted, [Next]_vars
    PROVE  Counted'
<1> USE DEF sessionVars, counterVars, histVars
<1>t. TypeOK
  BY DEF MuxInv
<1>a. /\ Cardinality(Uncounted) \in Nat /\ Cardinality(Busy) \in Nat
      /\ Cardinality(Working) \in Nat /\ Cardinality(OpenStreams) \in Nat
      /\ streamCounter \in Int /\ sessionCounter \in Int /\ localQ \in Int
  BY <1>t, CountersType DEF TypeOK
<1>b. UNCHANGED pc => Busy' = Busy /\ Working' = Working
  BY DEF Busy, Working
<1>c. UNCHANGED accPc => Uncounted' = Uncounted
  BY DEF Uncounted
<1>d. UNCHANGED streams => OpenStreams' = OpenStreams
  BY DEF OpenStreams
<1>1. CASE UNCHANGED <<accPc, localQ, pc, streams, streamCounter, sessionCounter>>
  BY <1>1, <1>b, <1>c, <1>d DEF Counted
<1>2. ASSUME NEW l \in Listeners, Acceptor(l) PROVE Counted'
  <2>1. UNCHANGED <<pc, streams, sessionCounter>>
    BY <1>2 DEF Acceptor, AcceptLocal, CountStream, MaybeRequest
  <2>2. PICK k \in {"accept", "count", "compare"} :
           /\ accPc' = [accPc EXCEPT ![l] = k]
           /\ localQ' = localQ + One(k = "count")
           /\ streamCounter' = streamCounter + One(k = "compare")
           /\ accPc[l] = "count" <=> k = "compare"
    BY <1>2, <1>a DEF Acceptor, AcceptLocal, CountStream, MaybeRequest, One
  <2>3. /\ Cardinality(Uncounted') + One(accPc[l] = "count")
             = Cardinality(Uncounted) + One(k = "count")
        /\ Cardinality(Uncounted') \in Nat
    BY <1>t, <2>2, ListenerMoves
  <2> QED
    BY <1>a, <1>b, <1>d, <2>1, <2>2, <2>3 DEF Counted, One
<1>3. ASSUME NEW s \in Sessions, NEW l, NEW n, Moves(s, l, n) PROVE Counted'
  <2> DEFINE hold == One(pc[s] \in Holding)
             hold1 == One(l \in Holding)
             place == One(pc[s] \in Places)
             place1 == One(l \in Places)
  <2>1. /\ Cardinality(Busy') + hold = Cardinality(Busy) + hold1
        /\ Cardinality(Working') + One(s \in Working) = Cardinality(Working) + place1
        /\ Cardinality(Busy') \in Nat /\ Cardinality(Working') \in Nat
    BY <1>t, <1>3, SessionMoves DEF Moves
  <2>2. place = One(s \in Working)
    BY DEF Working, One
  <2>3. hold \in Nat /\ hold1 \in Nat /\ place \in Nat /\ place1 \in Nat
    BY DEF One
  <2>4. /\ Cardinality(OpenStreams') + streams[s] = Cardinality(OpenStreams) + n
        /\ Cardinality(OpenStreams') \in Nat /\ streams[s] \in Nat
    BY <1>t, <1>3, StreamsChange DEF TypeOK, Moves
  <2>5. Uncounted' = Uncounted
    BY <1>3, <1>c DEF Moves
  <2>6. /\ localQ' + hold1 + n - streamCounter' = localQ + hold + streams[s] - streamCounter
        /\ sessionCounter' = sessionCounter + place1 - place
        /\ localQ' \in Int /\ streamCounter' \in Int /\ n \in Nat
    BY <1>3 DEF Moves
  <2>7. /\ streamCounter + Cardinality(Uncounted)
             = localQ + Cardinality(Busy) + Cardinality(OpenStreams)
        /\ sessionCounter = Cardinality(Working)
    BY DEF Counted
  <2> HIDE DEF hold, hold1, place, place1
  <2>8. streamCounter' + Cardinality(Uncounted)
          = localQ' + Cardinality(Busy') + Cardinality(OpenStreams')
    BY <1>a, <2>1, <2>3, <2>4, <2>6, <2>7
  <2>9. sessionCounter' = Cardinality(Working')
    BY <1>a, <2>1, <2>2, <2>3, <2>6, <2>7
  <2> QED
    BY <2>5, <2>8, <2>9 DEF Counted
<1>4. ASSUME NEW s \in Sessions,
             AcceptSession(s) \/ HandleLoop(s) \/ HandleSession(s) \/ StreamEnds(s) \/ Recycle(s)
      PROVE  Counted'
  <2>1. /\ streams[s] \in 0..MuxCon
        /\ pc[s] = "send" => streams[s] + 1 \in 0..MuxCon
        /\ streams[s] > 0 => streams[s] - 1 \in 0..MuxCon
        /\ streams = [streams EXCEPT ![s] = streams[s]]
        /\ pc = [pc EXCEPT ![s] = pc[s]]
    BY <1>t, MuxAssumption DEF TypeOK, MuxInv, SemInv, HasToken
  <2>2. AcceptSession(s) => Moves(s, "queued", streams[s])
    BY <1>a, <2>1 DEF AcceptSession, Moves, One, Goto, Holding, Places
  <2>3. HandleLoop(s) => Moves(s, "sem", 0)
    BY <1>a, <2>1 DEF HandleLoop, Moves, One, Goto, Holding, Places, NoStreams
  <2>4. Acquire(s) => Moves(s, "select", streams[s])
    BY <1>a, <2>1 DEF Acquire, Moves, One, Goto, Holding, Places
  <2>5. TakeLocal(s) => Moves(s, "open", streams[s])
    BY <1>a, <2>1 DEF TakeLocal, Moves, One, Goto, Holding, Places
  <2>6. Expire(s) => Moves(s, "sem", streams[s])
    BY <1>a, <2>1 DEF Expire, Moves, One, Goto, Holding, Places
  <2>7. OpenStream(s) => Moves(s, "send", streams[s])
    BY <1>a, <2>1 DEF OpenStream, Moves, One, Goto, Holding, Places
  <2>8. OpenStreamFails(s) => Moves(s, "requeueAndRequest", streams[s])
    BY <1>a, <2>1 DEF OpenStreamFails, Moves, One, Goto, Holding, Places
  <2>9. RequeueAfterOpen(s) => Moves(s, "request", streams[s])
    BY <1>a, <2>1 DEF RequeueAfterOpen, Moves, One, Goto, Holding, Places
  <2>10. RequestAfterOpen(s) => Moves(s, "closed", streams[s])
    BY <1>a, <2>1 DEF RequestAfterOpen, Moves, One, Goto, Holding, Places
  <2>11. SendTarget(s) => Moves(s, "sem", streams[s] + 1)
    BY <1>a, <2>1 DEF SendTarget, Moves, One, Goto, Holding, Places
  <2>12. SendTargetFails(s) => Moves(s, "requeue", streams[s])
    BY <1>a, <2>1 DEF SendTargetFails, Moves, One, Goto, Holding, Places
  <2>13. RequeueAfterSend(s) => Moves(s, "sem", streams[s])
    BY <1>a, <2>1 DEF RequeueAfterSend, Moves, One, Goto, Holding, Places
  <2>14. StreamEnds(s) => Moves(s, pc[s], streams[s] - 1)
    BY <1>a, <2>1 DEF StreamEnds, Moves, One, Goto, Holding, Places
  <2>15. Recycle(s) => Moves(s, "none", streams[s])
    BY <1>a, <2>1 DEF Recycle, Moves, One, Goto, Holding, Places
  <2> QED
    BY <1>3, <1>4, <2>2, <2>3, <2>4, <2>5, <2>6, <2>7, <2>8, <2>9, <2>10, <2>11, <2>12, <2>13,
       <2>14, <2>15 DEF HandleSession
<1>5. ASSUME NEW s \in Sessions, SessionDies(s) PROVE Counted'
  BY <1>1, <1>5 DEF SessionDies
<1>6. CASE SendRequest \/ PoolGrows \/ DiscardSession \/ DialFails
  BY <1>1, <1>6 DEF SendRequest, PoolGrows, DiscardSession, DialFails
<1>7. CASE UNCHANGED vars
  BY <1>1, <1>7 DEF vars
<1> QED
  BY <1>2, <1>4, <1>5, <1>6, <1>7 DEF Next

\* A slot has no streams until handleLoop starts its goroutine.
LEMMA NoStreamsStep ==
    ASSUME MuxInv, NoStreams, [Next]_vars
    PROVE  NoStreams'
<1> USE DEF MuxInv, TypeOK, NoStreams, Goto, sessionVars
<1>1. CASE UNCHANGED <<pc, streams>>
  BY <1>1
<1>2. ASSUME NEW s \in Sessions,
             AcceptSession(s) \/ HandleLoop(s) \/ StreamEnds(s) \/ Recycle(s)
      PROVE  NoStreams'
  BY <1>2 DEF AcceptSession, HandleLoop, StreamEnds, Recycle
<1>3. ASSUME NEW s \in Sessions, HandleSession(s) PROVE NoStreams'
  BY <1>3 DEF HandleSession, Acquire, TakeLocal, Expire, OpenStream, OpenStreamFails,
     RequeueAfterOpen, RequestAfterOpen, SendTarget, SendTargetFails, RequeueAfterSend
<1> QED
  BY <1>1, <1>2, <1>3 DEF Next, vars, Acceptor, AcceptLocal, CountStream, MaybeRequest,
     SessionDies, SendRequest, PoolGrows, DiscardSession, DialFails

\* Initially there is nothing to count.
LEMMA CountersInvInit == Init => CountersInv
<1> SUFFICES ASSUME Init PROVE CountersInv
  OBVIOUS
<1>1. MuxInv /\ NoStreams
  BY MuxInvInit DEF Init, NoStreams
<1>2. Uncounted = {} /\ Busy = {} /\ Working = {}
  BY DEF Init, Uncounted, Busy, Working, Holding, Places
<1>3. OpenStreams = {}
  BY MuxAssumption DEF Init, OpenStreams
<1>4. Counted
  BY <1>2, <1>3, FS_EmptySet DEF Init, Counted
<1> QED
  BY <1>1, <1>4, CountersAre DEF CountersInv, MuxInv

\* Every step keeps the counters exact.
LEMMA CountersInvStep == CountersInv /\ [Next]_vars => CountersInv'
<1> SUFFICES ASSUME CountersInv, [Next]_vars PROVE CountersInv'
  OBVIOUS
<1>1. MuxInv' /\ NoStreams'
  BY MuxInvStep, NoStreamsStep DEF CountersInv
<1>2. Counted'
  BY CountersAre, CountedStep DEF CountersInv, MuxInv
<1>3. (TypeOK => (CountersExact <=> Counted))'
  BY CountersAre, PTL
<1> QED
  BY <1>1, <1>2, <1>3 DEF CountersInv, MuxInv

\* streamCounter and sessionCounter, which enqueueInbound compares to decide on
\* a new session, are exact for any number of listeners and sessions, through
\* expiry, requeueing and every failure of a session.
THEOREM CountersCorrect == Spec => []CountersExact
<1>1. CountersInv => CountersExact
  BY DEF CountersInv
<1> QED
  BY <1>1, CountersInvInit, CountersInvStep, PTL DEF Spec
=============================================================================
