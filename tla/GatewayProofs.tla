---------------------------- MODULE GatewayProofs ----------------------------
(***************************************************************************)
(* Proofs about Gateway, for every set of inputs, chunk and buffer size.   *)
(*                                                                         *)
(* ReplayedExactly says where out and prefix end in the stream, which is   *)
(* not enough to go on with: GatewayInv also says that the prefix is the   *)
(* piece of the stream between what the runtime has read and what the      *)
(* gateway has, and that nothing but an inspected connection has a prefix. *)
(***************************************************************************)
EXTENDS Gateway, SequenceTheorems, TLAPS

\* The bytes of the two gateways' streams.
Tokens == Nat \cup STRING

Given ==
    \/ kind = "sni" /\ input \in SniInputs
    \/ kind = "http" /\ input \in HttpInputs

\* The gateway has read no more than has arrived.
Counted ==
    /\ arrived \in 0..Len(stream)
    /\ got \in 0..arrived

PcValues == {"read", "route", "enqueue", "handed", "done", "cut", "closed"}

\* What the runtime has read, and what is to be replayed to it.
Before == pc \in {"read", "route"} => out = <<>> /\ prefix = <<>>
Inspecting == pc = "enqueue" => out = <<>> /\ prefix = Buf
Handed ==
    pc = "handed" =>
        /\ Len(out) \in 0..got
        /\ out = SubSeq(stream, 1, Len(out))
        /\ prefix = SubSeq(stream, Len(out) + 1, got)
Ended ==
    pc \in {"done", "cut"} => Len(out) \in 0..got /\ out = SubSeq(stream, 1, Len(out))
Refusing == pc = "closed" => out = <<>>

\* A runtime is only given a connection with a route.
ByRoute == pc \in {"enqueue", "handed", "done", "cut"} => host \in Routed[kind]

\* The deadline of the inspection ends with it and cuts no copying.
Disarmed == (pc # "read" => deadline = FALSE) /\ pc # "cut"

GatewayInv ==
    /\ Given /\ Counted /\ pc \in PcValues
    /\ Before /\ Inspecting /\ Handed /\ Ended /\ Refusing /\ ByRoute
    /\ Disarmed

-----------------------------------------------------------------------------
(* Pieces of sequences.                                                    *)

\* The length of a piece, and what it is made of.
LEMMA PieceType ==
  ASSUME NEW S, NEW s \in Seq(S), NEW a \in 0..Len(s), NEW b \in a..Len(s)
  PROVE  /\ SubSeq(s, a + 1, b) \in Seq(S)
         /\ Len(SubSeq(s, a + 1, b)) = b - a
         /\ \A i \in 1..b - a : SubSeq(s, a + 1, b)[i] = s[a + i]
<1>1. \A i \in a + 1..b : s[i] \in S
  BY LenProperties, ElementOfSeq
<1>2. a + 1 \in Int /\ b \in Int
  BY LenProperties
<1>3. /\ SubSeq(s, a + 1, b) \in Seq(S)
      /\ Len(SubSeq(s, a + 1, b)) = IF a + 1 <= b THEN b - (a + 1) + 1 ELSE 0
      /\ \A i \in 1..b - (a + 1) + 1 : SubSeq(s, a + 1, b)[i] = s[(a + 1) + i - 1]
  BY <1>1, <1>2, SubSeqProperties
<1>4. \A i \in 1..b - a : (a + 1) + i - 1 = a + i /\ b - (a + 1) + 1 = b - a
  BY <1>2
<1> QED
  BY <1>2, <1>3, <1>4

\* The length of a start.
LEMMA StartLength ==
  ASSUME NEW S, NEW s \in Seq(S), NEW a \in 0..Len(s)
  PROVE  Len(SubSeq(s, 1, a)) = a
<1>1. Len(s) \in Nat
  BY LenProperties
<1>2. 0 \in 0..Len(s) /\ a \in 0..Len(s) /\ 0 + 1 = 1 /\ a - 0 = a
  BY <1>1
<1> QED
  BY <1>2, PieceType

\* A piece put behind a start of the sequence is a longer start.
LEMMA StartGrows ==
  ASSUME NEW S, NEW s \in Seq(S), NEW a \in 0..Len(s), NEW b \in a..Len(s)
  PROVE  SubSeq(s, 1, a) \o SubSeq(s, a + 1, b) = SubSeq(s, 1, b)
<1>1. Len(s) \in Nat
  BY LenProperties
<1>2. 1 \in 1..Len(s) + 1 /\ a \in 1 - 1..Len(s) /\ b \in a..Len(s)
  BY <1>1
<1> QED
  BY <1>2, ConcatAdjacentSubSeq

\* A piece of a piece: its first n tokens and the others.
LEMMA PieceOfPiece ==
  ASSUME NEW S, NEW s \in Seq(S), NEW a \in 0..Len(s), NEW b \in a..Len(s),
         NEW n \in 0..b - a
  PROVE  /\ SubSeq(SubSeq(s, a + 1, b), 1, n) = SubSeq(s, a + 1, a + n)
         /\ SubSeq(SubSeq(s, a + 1, b), n + 1, b - a) = SubSeq(s, a + n + 1, b)
<1> DEFINE p == SubSeq(s, a + 1, b)
<1>1. Len(s) \in Nat /\ a + n \in a..Len(s) /\ a + n \in 0..Len(s) /\ b \in a + n..Len(s)
  BY LenProperties
<1>2. p \in Seq(S) /\ Len(p) = b - a /\ \A i \in 1..b - a : p[i] = s[a + i]
  BY PieceType
<1> HIDE DEF p
<1>3. 0 \in 0..Len(p) /\ n \in 0..Len(p) /\ n \in n..Len(p) /\ b - a \in n..Len(p)
  BY <1>1, <1>2
<1>4. SubSeq(p, 1, n) = SubSeq(s, a + 1, a + n)
  <2>1. /\ SubSeq(p, 0 + 1, n) \in Seq(S) /\ Len(SubSeq(p, 0 + 1, n)) = n - 0
        /\ \A i \in 1..n - 0 : SubSeq(p, 0 + 1, n)[i] = p[0 + i]
    BY <1>2, <1>3, PieceType
  <2>2. /\ SubSeq(s, a + 1, a + n) \in Seq(S)
        /\ Len(SubSeq(s, a + 1, a + n)) = (a + n) - a
        /\ \A i \in 1..(a + n) - a : SubSeq(s, a + 1, a + n)[i] = s[a + i]
    BY <1>1, PieceType
  <2>3. \A i \in 1..n : p[0 + i] = s[a + i]
    BY <1>1, <1>2
  <2>4. /\ Len(SubSeq(p, 1, n)) = Len(SubSeq(s, a + 1, a + n))
        /\ SubSeq(p, 1, n) \in Seq(S)
        /\ \A i \in 1..Len(SubSeq(p, 1, n)) :
              SubSeq(p, 1, n)[i] = SubSeq(s, a + 1, a + n)[i]
    BY <2>1, <2>2, <2>3, <1>1
  <2> QED
    BY <2>2, <2>4, SeqEqual
<1>5. SubSeq(p, n + 1, b - a) = SubSeq(s, a + n + 1, b)
  <2>1. /\ SubSeq(p, n + 1, b - a) \in Seq(S) /\ Len(SubSeq(p, n + 1, b - a)) = (b - a) - n
        /\ \A i \in 1..(b - a) - n : SubSeq(p, n + 1, b - a)[i] = p[n + i]
    BY <1>2, <1>3, PieceType
  <2>2. /\ SubSeq(s, (a + n) + 1, b) \in Seq(S)
        /\ Len(SubSeq(s, (a + n) + 1, b)) = b - (a + n)
        /\ \A i \in 1..b - (a + n) : SubSeq(s, (a + n) + 1, b)[i] = s[(a + n) + i]
    BY <1>1, PieceType
  <2>3. \A i \in 1..(b - a) - n : p[n + i] = s[(a + n) + i]
    <3> TAKE i \in 1..(b - a) - n
    <3>1. n + i \in 1..b - a /\ a + (n + i) = (a + n) + i
      BY <1>1
    <3> QED
      BY <1>2, <3>1
  <2>4. b - (a + n) = (b - a) - n
    BY <1>1
  <2> DEFINE q == SubSeq(p, n + 1, b - a)
             r == SubSeq(s, (a + n) + 1, b)
  <2>5. q \in Seq(S) /\ r \in Seq(S) /\ Len(q) = (b - a) - n /\ Len(r) = (b - a) - n
    BY <2>1, <2>2, <2>4
  <2>6. \A i \in 1..(b - a) - n : q[i] = r[i]
    BY <2>1, <2>2, <2>3, <2>4, Zenon
  <2> HIDE DEF q, r
  <2>7. q = r
    BY <2>5, <2>6, SeqEqual
  <2> QED
    BY <2>7 DEF q, r
<1> QED
  BY <1>4, <1>5 DEF p

-----------------------------------------------------------------------------
(* The invariant.                                                          *)

\* What clients send is a sequence of tokens.
LEMMA StreamType ==
  Given => /\ stream \in Seq(Tokens) /\ Len(stream) \in Nat
           /\ kind = "sni" => \A i \in 1..Len(stream) : stream[i] \in Nat
<1> SUFFICES ASSUME Given PROVE /\ stream \in Seq(Tokens) /\ Len(stream) \in Nat
                                /\ kind = "sni" => \A i \in 1..Len(stream) : stream[i] \in Nat
  OBVIOUS
<1>1. CASE kind = "sni" /\ input \in SniInputs
  <2>1. stream \in Seq(Nat)
    BY <1>1, GatewayAssumption DEF stream
  <2>2. stream \in Seq(Tokens)
    BY <2>1, SeqMonotonic DEF Tokens
  <2> QED
    BY <2>1, <2>2, LenProperties, ElementOfSeq
<1>2. CASE kind = "http" /\ input \in HttpInputs
  <2>1. stream \in Seq(STRING)
    BY <1>2, GatewayAssumption DEF stream
  <2>2. stream \in Seq(Tokens)
    BY <2>1, SeqMonotonic DEF Tokens
  <2> QED
    BY <1>2, <2>2, LenProperties
<1> QED
  BY <1>1, <1>2 DEF Given

\* A connection starts with nothing read.
LEMMA GatewayInvInit == Init => GatewayInv
<1> SUFFICES ASSUME Init PROVE GatewayInv
  OBVIOUS
<1>1. Given
  BY DEF Init, Given
<1>2. Len(stream) \in Nat
  BY <1>1, StreamType
<1>3. Counted
  BY <1>2 DEF Init, Counted
<1> QED
  BY <1>1, <1>3 DEF Init, GatewayInv, PcValues, Before, Inspecting, Handed, Ended,
                    Refusing, ByRoute, Disarmed

\* The inspection ends with a refusal or with a host, and without the deadline.
LEMMA InspectedEnds ==
  ASSUME NEW results, Inspected(results), pc = "read"
  PROVE  /\ pc' \in {"read", "route", "closed"}
         /\ pc' # "read" => deadline' = FALSE
BY DEF Inspected

\* The runtime reads a longer start of the stream, and the prefix is what the
\* gateway has read beyond it.
Delivers ==
    /\ got' \in got..arrived
    /\ Len(out') \in Len(out) + 1..got'
    /\ out' = SubSeq(stream, 1, Len(out'))
    /\ prefix' = SubSeq(stream, Len(out') + 1, got')

\* PrefixedConn.Read cuts its prefix where it stops.
LEMMA ReplayDelivers == Given /\ Counted /\ Handed /\ ReadReplayed => Delivers
<1> SUFFICES ASSUME Given, Counted, Handed, ReadReplayed PROVE Delivers
  OBVIOUS
<1> DEFINE a == Len(out)
           n == IF Len(prefix) > CopyBuffer THEN CopyBuffer ELSE Len(prefix)
<1>1. stream \in Seq(Tokens) /\ Len(stream) \in Nat
  BY StreamType
<1>2. /\ got \in Nat /\ a \in Nat /\ a <= got /\ got <= Len(stream) /\ got \in got..arrived
      /\ a \in 0..Len(stream) /\ got \in a..Len(stream)
  BY <1>1 DEF Counted, Handed, ReadReplayed
<1>3. prefix = SubSeq(stream, a + 1, got) /\ out = SubSeq(stream, 1, a)
  BY DEF Handed, ReadReplayed
<1>4. prefix \in Seq(Tokens) /\ Len(prefix) = got - a
  BY <1>1, <1>2, <1>3, PieceType
<1>5. n \in 1..got - a
  <2>1. Len(prefix) \in Nat \ {0}
    BY <1>4, EmptySeq DEF ReadReplayed
  <2> QED
    BY <2>1, <1>2, <1>4, GatewayAssumption
<1>6. out' = out \o SubSeq(prefix, 1, n) /\ prefix' = SubSeq(prefix, n + 1, got - a) /\ got' = got
  BY <1>4 DEF ReadReplayed
<1> HIDE DEF a, n
<1>7. n \in 0..got - a /\ a + n \in a..Len(stream) /\ a + n \in 0..Len(stream)
  BY <1>1, <1>2, <1>5
<1>8. /\ SubSeq(prefix, 1, n) = SubSeq(stream, a + 1, a + n)
      /\ SubSeq(prefix, n + 1, got - a) = SubSeq(stream, a + n + 1, got)
  BY <1>1, <1>2, <1>3, <1>7, PieceOfPiece
<1>9. out' = SubSeq(stream, 1, a + n)
  BY <1>1, <1>2, <1>3, <1>6, <1>7, <1>8, StartGrows
<1>10. Len(out') = a + n
  BY <1>1, <1>7, <1>9, StartLength
<1>11. a + n \in a + 1..got
  BY <1>2, <1>5
<1> QED
  BY <1>2, <1>6, <1>8, <1>9, <1>10, <1>11 DEF Delivers, a

\* Without a prefix it reads on where the gateway stopped.
LEMMA ReadDelivers == Given /\ Counted /\ Handed /\ ReadThrough => Delivers
<1> SUFFICES ASSUME Given, Counted, Handed, ReadThrough PROVE Delivers
  OBVIOUS
<1> DEFINE n == IF arrived - got > CopyBuffer THEN CopyBuffer ELSE arrived - got
<1>1. stream \in Seq(Tokens) /\ Len(stream) \in Nat
  BY StreamType
<1>2. /\ got \in Nat /\ arrived \in Nat /\ got < arrived /\ arrived <= Len(stream)
      /\ Len(out) \in 0..got
  BY <1>1 DEF Counted, Handed, ReadThrough
<1>3. Len(out) = got
  <2>1. /\ Len(out) \in 0..Len(stream) /\ got \in Len(out)..Len(stream)
    BY <1>1, <1>2
  <2>2. Len(SubSeq(stream, Len(out) + 1, got)) = got - Len(out)
    BY <1>1, <2>1, PieceType
  <2>3. Len(SubSeq(stream, Len(out) + 1, got)) = 0
    BY EmptySeq DEF Handed, ReadThrough
  <2>4. got - Len(out) = 0
    BY <2>2, <2>3
  <2> QED
    BY <1>2, <2>4
<1>4. n \in 1..arrived - got
  BY <1>2, GatewayAssumption
<1>5. out' = out \o SubSeq(stream, got + 1, got + n) /\ got' = got + n /\ prefix' = <<>>
  BY DEF ReadThrough
<1> HIDE DEF n
<1>6. got \in 0..Len(stream) /\ got + n \in got..Len(stream) /\ got + n \in 0..Len(stream)
  BY <1>2, <1>4
<1>7. out' = SubSeq(stream, 1, got + n)
  <2>1. out = SubSeq(stream, 1, got)
    BY <1>3 DEF Handed, ReadThrough
  <2> QED
    BY <1>1, <1>5, <1>6, <2>1, StartGrows
<1>8. Len(out') = got + n
  BY <1>1, <1>6, <1>7, StartLength
<1>9. SubSeq(stream, got + n + 1, got + n) = <<>>
  BY <1>2, <1>4, SubSeqEmpty
<1> QED
  BY <1>2, <1>3, <1>4, <1>5, <1>7, <1>8, <1>9 DEF Delivers

\* Every step of the client, the runtime and the connection's goroutine keeps
\* the invariant.
LEMMA GatewayInvStep == GatewayInv /\ [Next]_vars => GatewayInv'
<1> SUFFICES ASSUME GatewayInv, [Next]_vars PROVE GatewayInv'
  OBVIOUS
<1> USE DEF client, runtime
<1>a. /\ Given /\ Counted /\ pc \in PcValues
      /\ Before /\ Inspecting /\ Handed /\ Ended /\ Refusing /\ ByRoute /\ Disarmed
  BY DEF GatewayInv
<1>b. /\ stream \in Seq(Tokens) /\ Len(stream) \in Nat
      /\ kind = "sni" => \A i \in 1..Len(stream) : stream[i] \in Nat
  BY <1>a, StreamType
<1>c. /\ arrived \in Nat /\ got \in Nat /\ got <= arrived /\ arrived <= Len(stream)
  BY <1>a, <1>b DEF Counted
<1>1. CASE UNCHANGED vars
  BY <1>1, <1>a DEF vars, GatewayInv, Given, Counted, PcValues, Before, Inspecting, Handed,
                    Ended, Refusing, ByRoute, Disarmed, Buf, stream
<1>2. CASE Arrive
  <2>1. Counted'
    BY <1>2, <1>b, <1>c DEF Arrive, Counted, stream
  <2> QED
    BY <1>2, <1>a, <2>1 DEF Arrive, GatewayInv, Given, PcValues, Before, Inspecting, Handed,
                    Ended, Refusing, ByRoute, Disarmed, Buf, stream
<1>3. CASE ClientCloses
  BY <1>3, <1>a DEF ClientCloses, GatewayInv, Given, Counted, PcValues, Before, Inspecting, Handed,
                    Ended, Refusing, ByRoute, Disarmed, Buf, stream
<1>4. CASE Flap
  BY <1>4, <1>a DEF Flap, GatewayInv, Given, Counted, PcValues, Before, Inspecting, Handed,
                    Ended, Refusing, ByRoute, Disarmed, Buf, stream
<1>5. ASSUME pc = "read", Given', Counted', pc' \in {"read", "route", "closed"},
             pc' # "read" => deadline' = FALSE, UNCHANGED <<prefix, out>>
      PROVE  GatewayInv'
  BY <1>5, <1>a DEF GatewayInv, PcValues, Before, Inspecting, Handed, Ended, Refusing,
                    ByRoute, Disarmed
<1>6. CASE ReadRecord
  <2> DEFINE len == stream[got + 2]
  <2>1. len \in Nat
    BY <1>6, <1>b, <1>c DEF ReadRecord
  <2>2. Counted'
    <3>1. got' = got \/ (got' = got + 2 + len /\ arrived - got >= 2 + len)
      BY <1>6 DEF ReadRecord
    <3>2. arrived' = arrived /\ stream' = stream
      BY <1>6 DEF ReadRecord, stream
    <3> HIDE DEF len
    <3>3. got' \in 0..arrived
      BY <3>1, <2>1, <1>c
    <3> QED
      BY <3>2, <3>3, <1>a DEF Counted
  <2>3. \E results : Inspected(results)
    BY <1>6 DEF ReadRecord
  <2>4. pc' \in {"read", "route", "closed"} /\ (pc' # "read" => deadline' = FALSE)
    BY <1>6, <2>3, InspectedEnds DEF ReadRecord
  <2> QED
    BY <1>5, <1>6, <1>a, <2>2, <2>4 DEF ReadRecord, Given
<1>7. CASE ReadChunk
  <2>1. Counted'
    BY <1>7, <1>b, <1>c, GatewayAssumption DEF ReadChunk, Counted, stream
  <2>2. \E results : Inspected(results)
    BY <1>7 DEF ReadChunk
  <2>3. pc' \in {"read", "route", "closed"} /\ (pc' # "read" => deadline' = FALSE)
    BY <1>7, <2>2, InspectedEnds DEF ReadChunk
  <2> QED
    BY <1>5, <1>7, <1>a, <2>1, <2>3 DEF ReadChunk, Given
<1>8. CASE ReadFails
  BY <1>5, <1>8, <1>a DEF ReadFails, Given, Counted, stream
<1>9. CASE HandleConn
  BY <1>9, <1>a DEF HandleConn, GatewayInv, Given, Counted, PcValues, Before, Inspecting, Handed,
                    Ended, Refusing, ByRoute, Disarmed, Buf, stream
<1>10. CASE EnqueueInbound
  <2>1. ASSUME pc' = "handed" PROVE Handed'
    <3>1. out' = <<>> /\ prefix' = SubSeq(stream', 1, got') /\ got' \in Nat
      BY <1>10, <1>a, <1>c DEF EnqueueInbound, Inspecting, Buf, stream
    <3>2. Len(out') = 0 /\ SubSeq(stream', 1, 0) = <<>>
      <4>1. Len(out') = 0
        BY <3>1, EmptySeq
      <4>2. 1 \in Int /\ 0 \in Int /\ 0 < 1
        OBVIOUS
      <4> QED
        BY <4>1, <4>2, SubSeqEmpty
    <3>3. /\ Len(out') \in 0..got' /\ out' = SubSeq(stream', 1, Len(out'))
          /\ prefix' = SubSeq(stream', Len(out') + 1, got')
      <4>1. 0 + 1 = 1 /\ 0 \in 0..got'
        BY <3>1
      <4> QED
        BY <3>1, <3>2, <4>1, Zenon
    <3> QED
      BY <3>3 DEF Handed
  <2> QED
    BY <1>10, <1>a, <2>1 DEF EnqueueInbound, GatewayInv, Given, Counted, PcValues, Before, Inspecting,
                    Handed, Ended, Refusing, ByRoute, Disarmed, Buf, stream
<1>11. CASE ReadReplayed \/ ReadThrough
  <2>1. Delivers
    BY <1>11, <1>a, ReplayDelivers, ReadDelivers
  <2>2. UNCHANGED <<kind, input, arrived, pc, host, deadline>> /\ pc = "handed"
    BY <1>11 DEF ReadReplayed, ReadThrough
  <2>3. Counted' /\ Handed'
    BY <1>b, <1>c, <1>a, <2>1, <2>2 DEF Delivers, Counted, Handed, stream
  <2> QED
    BY <1>a, <2>2, <2>3 DEF GatewayInv, Given, PcValues, Before, Inspecting, Ended, Refusing,
                    ByRoute, Disarmed
<1>13. CASE CopyEnds
  BY <1>13, <1>a, <1>c DEF CopyEnds, GatewayInv, Given, Counted, PcValues, Before, Inspecting,
                    Handed, Ended, Refusing, ByRoute, Disarmed, Buf, stream
<1> QED
  BY <1>1, <1>2, <1>3, <1>4, <1>6, <1>7, <1>8, <1>9, <1>10, <1>11, <1>13 DEF Next, Handling

\* The invariant holds throughout.
LEMMA GatewayInvAlways == Spec => []GatewayInv
BY GatewayInvInit, GatewayInvStep, PTL DEF Spec

-----------------------------------------------------------------------------
(* What the runtime reads.                                                 *)

\* PrefixedConn gives the runtime exactly what the client sent, in order and
\* without a gap or a repetition, whatever the sizes of the chunks that the
\* inspection and the copying read.
THEOREM ReplayedCorrect == Spec => []ReplayedExactly
<1>1. GatewayInv => ReplayedExactly
  <2> SUFFICES ASSUME GatewayInv PROVE ReplayedExactly
    OBVIOUS
  <2>1. stream \in Seq(Tokens) /\ Len(stream) \in Nat
    BY StreamType DEF GatewayInv
  <2>2. CASE pc \in {"handed", "done", "cut"}
    <3>1. out = SubSeq(stream, 1, Len(out))
      BY <2>2 DEF GatewayInv, Handed, Ended
    <3>2. ASSUME pc = "handed" PROVE Len(out) + Len(prefix) = got
      <4>1. /\ Len(out) \in 0..Len(stream) /\ got \in Len(out)..Len(stream)
            /\ prefix = SubSeq(stream, Len(out) + 1, got)
        BY <2>1, <3>2 DEF GatewayInv, Handed, Counted
      <4>2. Len(prefix) = got - Len(out)
        BY <2>1, <4>1, PieceType
      <4> QED
        BY <2>1, <4>1, <4>2
    <3> QED
      BY <3>1, <3>2 DEF ReplayedExactly
  <2>3. CASE pc \in {"read", "route", "enqueue", "closed"}
    <3>1. out = <<>> /\ Len(out) = 0
      BY <2>3, EmptySeq DEF GatewayInv, Before, Inspecting, Refusing
    <3>2. 1 \in Int /\ 0 \in Int /\ 0 < 1
      OBVIOUS
    <3>3. SubSeq(stream, 1, 0) = <<>>
      BY <3>2, SubSeqEmpty
    <3> QED
      BY <2>3, <3>1, <3>3 DEF ReplayedExactly
  <2> QED
    BY <2>2, <2>3 DEF GatewayInv, PcValues
<1> QED
  BY <1>1, GatewayInvAlways, PTL

\* No copying is cut off by the read deadline that the inspection set: the
\* deferred SetReadDeadline of both inspections runs before handleConn goes on.
THEOREM NeverCut == Spec => [](pc # "cut")
<1>1. GatewayInv => pc # "cut"
  BY DEF GatewayInv, Disarmed
<1> QED
  BY <1>1, GatewayInvAlways, PTL

-----------------------------------------------------------------------------
(* The gateway implements Relay.                                           *)

\* A connection starts undecided.
LEMMA RelayInit == Init => Relayed!Init
<1> SUFFICES ASSUME Init PROVE Relayed!Init
  OBVIOUS
<1>1. 1 \in Int /\ 0 \in Int /\ 0 < 1
  OBVIOUS
<1>2. Arrived = <<>>
  BY <1>1, SubSeqEmpty DEF Init, Arrived
<1> QED
  BY <1>2 DEF Init, Relayed!Init, Destination

\* A start of the stream is a prefix of a longer one.
LEMMA StartIsPrefix ==
  ASSUME NEW S, NEW s \in Seq(S), NEW a \in 0..Len(s), NEW b \in a..Len(s)
  PROVE  Relayed!IsPrefixOf(SubSeq(s, 1, a), SubSeq(s, 1, b))
<1>1. Len(s) \in Nat
  BY LenProperties
<1>2. b \in 0..Len(s) /\ 0 \in 0..Len(s) /\ a \in 0..b - 0
  BY <1>1
<1>3. Len(SubSeq(s, 1, a)) = a /\ Len(SubSeq(s, 1, b)) = b
  BY <1>2, StartLength
<1>4. SubSeq(SubSeq(s, 0 + 1, b), 1, a) = SubSeq(s, 0 + 1, 0 + a)
  BY <1>2, PieceOfPiece
<1>5. 0 + 1 = 1 /\ 0 + a = a /\ a <= b
  BY <1>1
<1>6. SubSeq(SubSeq(s, 1, b), 1, a) = SubSeq(s, 1, a)
  BY <1>4, <1>5
<1> QED
  BY <1>3, <1>5, <1>6 DEF Relayed!IsPrefixOf

\* Every step of the gateway is one of Relay's or changes nothing that client
\* and runtime see.
LEMMA RelayStep == GatewayInv /\ GatewayInv' /\ [Next]_vars => [Relayed!Next]_Relayed!vars
<1> SUFFICES ASSUME GatewayInv, GatewayInv', [Next]_vars
             PROVE  Relayed!Next \/ UNCHANGED <<Arrived, out, Destination>>
  BY DEF Relayed!vars
<1> USE DEF client, runtime
<1>a. stream \in Seq(Tokens) /\ Len(stream) \in Nat
  BY StreamType DEF GatewayInv
<1>b. /\ arrived \in 0..Len(stream) /\ got \in 0..arrived /\ pc \in PcValues
      /\ arrived \in Nat /\ got \in Nat
  BY <1>a DEF GatewayInv, Counted
<1>1. CASE UNCHANGED vars
  BY <1>1 DEF vars, Arrived, Destination, stream
<1>2. CASE Arrive
  <2>1. arrived + 1 \in arrived..Len(stream) /\ arrived + 1 \in 0..Len(stream)
    BY <1>2, <1>a, <1>b DEF Arrive
  <2>2. Arrived' = SubSeq(stream, 1, arrived + 1) /\ out' = out /\ Destination' = Destination
    BY <1>2 DEF Arrive, Arrived, Destination, stream
  <2>3. Relayed!IsPrefixOf(Arrived, Arrived')
    BY <1>a, <1>b, <2>1, <2>2, StartIsPrefix DEF Arrived
  <2>4. Len(Arrived') = Len(Arrived) + 1
    BY <1>a, <1>b, <2>1, <2>2, StartLength DEF Arrived
  <2> QED
    BY <2>2, <2>3, <2>4 DEF Relayed!Next, Relayed!Send
<1>3. CASE ClientCloses \/ Flap
  BY <1>3 DEF ClientCloses, Flap, Arrived, Destination, stream
<1>4. ASSUME UNCHANGED <<input, arrived, out>>, Destination = Undecided
      PROVE  Relayed!Next \/ UNCHANGED <<Arrived, out, Destination>>
  <2>1. UNCHANGED <<Arrived, out>>
    BY <1>4 DEF Arrived, stream
  <2>2. CASE Destination' = Undecided
    BY <1>4, <2>1, <2>2
  <2>3. CASE Destination' # Undecided
    BY <1>4, <2>1, <2>3 DEF Relayed!Next, Relayed!Decide
  <2> QED
    BY <2>2, <2>3
<1>5. CASE ReadRecord \/ ReadChunk \/ ReadFails \/ HandleConn \/ EnqueueInbound
  <2>1. UNCHANGED <<input, arrived, out>> /\ pc \in {"read", "route", "enqueue"}
    BY <1>5 DEF ReadRecord, ReadChunk, ReadFails, HandleConn, EnqueueInbound
  <2>2. Destination = Undecided
    BY <2>1 DEF Destination
  <2> QED
    BY <1>4, <2>1, <2>2
<1>6. CASE ReadReplayed \/ ReadThrough
  <2>1. Delivers
    BY <1>6, ReplayDelivers, ReadDelivers DEF GatewayInv
  <2>2. UNCHANGED <<kind, input, arrived, pc, host>> /\ pc = "handed"
    BY <1>6 DEF ReadReplayed, ReadThrough
  <2>3. UNCHANGED <<Arrived, Destination>> /\ Destination = host
    BY <2>2 DEF Arrived, Destination, stream
  <2>4. host \notin {Undecided, Refused}
    BY <2>2, GatewayAssumption DEF GatewayInv, Given, ByRoute, Undecided, Refused
  <2>5. /\ Len(out) \in 0..Len(stream) /\ out = SubSeq(stream, 1, Len(out)) /\ Len(out) \in Nat
    BY <1>a, <1>b, <2>2 DEF GatewayInv, Handed
  <2>6. /\ Len(out') \in Len(out)..Len(stream) /\ out' = SubSeq(stream, 1, Len(out'))
        /\ Len(out') \in 0..Len(stream) /\ arrived \in Len(out')..Len(stream)
        /\ Len(out') # Len(out)
    <3>1. Len(out') \in Len(out) + 1..got' /\ got' \in got..arrived
      BY <2>1 DEF Delivers
    <3>2. /\ Len(out') \in Len(out)..Len(stream) /\ Len(out') \in 0..Len(stream)
          /\ arrived \in Len(out')..Len(stream) /\ Len(out') # Len(out)
      BY <1>a, <1>b, <2>5, <3>1
    <3>3. out' = SubSeq(stream, 1, Len(out'))
      BY <2>1 DEF Delivers
    <3> QED
      BY <3>2, <3>3, Zenon
  <2>7. Relayed!IsPrefixOf(out, out')
    BY <1>a, <2>5, <2>6, StartIsPrefix
  <2>8. Relayed!IsPrefixOf(out', Arrived)
    BY <1>a, <2>6, StartIsPrefix DEF Arrived
  <2> QED
    BY <2>3, <2>4, <2>6, <2>7, <2>8 DEF Relayed!Next, Relayed!Deliver
<1>7. CASE CopyEnds
  BY <1>7 DEF CopyEnds, Arrived, Destination, stream
<1> QED
  BY <1>1, <1>2, <1>3, <1>5, <1>6, <1>7 DEF Next, Handling

\* The gateway implements what Relay promises of every behaviour: it decides on
\* one destination once, refuses before anything is delivered, and delivers
\* nothing but what has arrived, in order.
THEOREM ImplementsRelay == Spec => Relayed!Safety
BY RelayInit, RelayStep, GatewayInvAlways, PTL DEF Spec, Relayed!Safety
=============================================================================
