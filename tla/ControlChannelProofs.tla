------------------------ MODULE ControlChannelProofs ------------------------
(***************************************************************************)
(* Proofs about the control channels of two transports:                    *)
(*                                                                         *)
(*   TcpMuxControl, for any number of clients and connections;             *)
(*                                                                         *)
(*   Quic, for any number of connections and any size of channels,         *)
(*   sessions and pool.                                                    *)
(***************************************************************************)
EXTENDS TcpMuxControl, Quic, FiniteSetTheorems, SequenceTheorems,
        WellFoundedInduction, TLAPS

-----------------------------------------------------------------------------
(* TcpMuxControl: what is invariant.                                       *)

\* What the server keeps in each phase of its life.
Phases ==
    /\ control = 0 <=> sPhase = "handshake"
    /\ sPhase = "handshake" => extras = <<>> /\ probing = 0 /\ rr = 0
    /\ reading # 0 => sPhase = "handshake"

\* The connection that is probed comes from a client without a channel.
ProbeIsNew ==
    probing # 0 => \A k \in 1..Len(Channels) : conn[Channels[k]].owner # conn[probing].owner

\* The number of channels that are tried before the one at index k - 1.
Before(k, r, n) == IF r <= k - 1 THEN k - 1 - r ELSE k - 1 - r + n

\* The signals that have passed a channel and the channels that are tried before
\* it are together fewer than the channels; rrControlIdx is out of range only
\* after a pruning, when everyone starts anew.
Turns ==
    sPhase = "up" =>
        \A k \in 1..Len(Channels) :
            /\ rr < Len(Channels) /\ ServerOpen(Channels[k]) =>
                 passed[Channels[k]] + Before(k, rr, Len(Channels)) < Len(Channels)
            /\ rr >= Len(Channels) => passed[Channels[k]] = 0

ControlInv == TypeOK /\ Phases /\ OneChannelPerClient /\ ProbeIsNew /\ Turns

-----------------------------------------------------------------------------
(* The channels and the connections they are.                              *)

\* The channels are connections the server holds.
LEMMA ChannelsType ==
    ASSUME TypeOK
    PROVE  /\ Channels \in Seq(Slots) /\ Len(Channels) \in Nat
           /\ Len(Channels) = Len(extras) + (IF control = 0 THEN 0 ELSE 1)
           /\ \A k \in 1..Len(Channels) : Channels[k] \in Slots /\ Channels[k] \in Held \ {0}
<1>1. extras \in Seq(Slots) /\ control \in 0..MaxConns /\ MaxConns \in Nat
  BY ControlAssumption DEF TypeOK
<1>2. \A k \in 1..Len(extras) : extras[k] \in Slots /\ extras[k] \in Held \ {0}
  BY <1>1 DEF Held, Range, Slots
<1>3. control # 0 => control \in Slots /\ control \in Held \ {0}
  BY <1>1 DEF Held, Slots
<1>4. CASE control = 0
  BY <1>1, <1>2, <1>4 DEF Channels
<1>5. CASE control # 0
  <2>1. Channels = <<control>> \o extras /\ <<control>> \in Seq(Slots)
    BY <1>3, <1>5 DEF Channels
  <2>2. Channels \in Seq(Slots) /\ Len(Channels) = 1 + Len(extras) /\ Len(extras) \in Nat
    BY <1>1, <2>1
  <2>3. \A k \in 1..Len(Channels) : Channels[k] = IF k = 1 THEN control ELSE extras[k - 1]
    BY <1>1, <2>1, <2>2
  <2>4. \A k \in 1..Len(Channels) : k # 1 => k - 1 \in 1..Len(extras)
    BY <2>2
  <2> QED
    BY <1>2, <1>3, <1>5, <2>2, <2>3, <2>4
<1> QED
  BY <1>4, <1>5

\* What a channel is, by its index.
LEMMA ChannelAt ==
    ASSUME TypeOK, NEW k \in 1..Len(Channels)
    PROVE  Channels[k] = IF control = 0 THEN extras[k]
                         ELSE IF k = 1 THEN control ELSE extras[k - 1]
<1>1. extras \in Seq(Slots)
  BY DEF TypeOK
<1>2. CASE control = 0
  BY <1>1, <1>2 DEF Channels
<1>3. CASE control # 0
  <2>1. Channels = <<control>> \o extras /\ Len(Channels) = 1 + Len(extras) /\ Len(extras) \in Nat
    BY <1>1, <1>3, ChannelsType DEF Channels
  <2> QED
    BY <1>1, <1>3, <2>1
<1> QED
  BY <1>2, <1>3

\* The channels are distinct connections, so they are not more than these.
LEMMA ChannelsDistinct ==
    ASSUME TypeOK, OneChannelPerClient
    PROVE  /\ \A j, k \in 1..Len(Channels) : Channels[j] = Channels[k] => j = k
           /\ Len(Channels) <= MaxConns
<1>1. \A j, k \in 1..Len(Channels) : Channels[j] = Channels[k] => j = k
  BY DEF OneChannelPerClient
<1> DEFINE n == Len(Channels)
           f == [k \in 1..n |-> Channels[k]]
<1>2. n \in Nat /\ MaxConns \in Nat /\ \A k \in 1..n : Channels[k] \in 1..MaxConns
  BY ChannelsType, ControlAssumption DEF Slots
<1> HIDE DEF n
<1>3. f \in [1..n -> 1..MaxConns] /\ \A j, k \in 1..n : j # k => f[j] # f[k]
  BY <1>1, <1>2 DEF n
<1> HIDE DEF f
<1>4. /\ IsFiniteSet(1..n) /\ Cardinality(1..n) = n
      /\ IsFiniteSet(1..MaxConns) /\ Cardinality(1..MaxConns) = MaxConns
  BY <1>2, FS_Interval
<1>5. ~(MaxConns < n)
  BY <1>3, <1>4, FS_PigeonHole
<1> QED
  BY <1>1, <1>2, <1>5 DEF n

\* A step after which the connections S still belong to the same clients, and
\* the server has opened none of them again.
SameOwners(S) ==
    \A i \in S : /\ conn'[i].owner = conn[i].owner
                 /\ "server" \in conn'[i].ends => ServerOpen(i)

\* Closing ends keeps the connections what they are.
LEMMA CloseKeeps ==
    ASSUME TypeOK, NEW S, conn' = ServerCloses(S)
    PROVE  /\ conn' \in [Slots -> Connection] /\ SameOwners(Slots)
           /\ \A i \in Slots \cap S : "server" \notin conn'[i].ends
<1>1. conn \in [Slots -> Connection]
  BY DEF TypeOK
<1>2. ASSUME NEW i \in Slots
      PROVE  /\ conn'[i] \in Connection /\ conn'[i].owner = conn[i].owner
             /\ "server" \in conn'[i].ends => "server" \in conn[i].ends
             /\ i \in S => "server" \notin conn'[i].ends
  BY <1>1 DEF ServerCloses, Connection
<1>3. conn' = [i \in Slots |-> conn'[i]]
  BY DEF ServerCloses
<1> QED
  BY <1>2, <1>3 DEF SameOwners, ServerOpen

\* The same for the client's end.
LEMMA ClientCloseKeeps ==
    ASSUME TypeOK, NEW i, conn' = ClientCloses(i)
    PROVE  conn' \in [Slots -> Connection] /\ SameOwners(Slots)
<1>1. conn \in [Slots -> Connection]
  BY DEF TypeOK
<1>2. conn' = [j \in Slots |-> IF j = i THEN [conn[j] EXCEPT !.ends = @ \ {"client"}] ELSE conn[j]]
  BY <1>1 DEF ClientCloses
<1>3. ASSUME NEW j \in Slots
      PROVE  /\ conn'[j] \in Connection /\ conn'[j].owner = conn[j].owner
             /\ "server" \in conn'[j].ends => "server" \in conn[j].ends
  BY <1>1, <1>2 DEF Connection
<1> QED
  BY <1>2, <1>3 DEF SameOwners, ServerOpen

\* The channels and the turns of a step that leaves the list of channels alone.
LEMMA ChannelsStay ==
    ASSUME TypeOK, UNCHANGED <<control, extras>>, SameOwners(Held \ {0}),
           OneChannelPerClient, ProbeIsNew, probing' \in {0, probing},
           Turns, UNCHANGED <<sPhase, rr, passed>>
    PROVE  OneChannelPerClient' /\ ProbeIsNew' /\ Turns'
<1>1. Channels' = Channels
  BY DEF Channels
<1>2. ASSUME NEW k \in 1..Len(Channels)
      PROVE  /\ conn'[Channels[k]].owner = conn[Channels[k]].owner
             /\ "server" \in conn'[Channels[k]].ends => ServerOpen(Channels[k])
  BY ChannelsType DEF SameOwners
<1>3. OneChannelPerClient'
  BY <1>1, <1>2 DEF OneChannelPerClient
<1>4. probing # 0 => conn'[probing].owner = conn[probing].owner
  BY DEF SameOwners, Held
<1>5. ProbeIsNew'
  BY <1>1, <1>2, <1>4 DEF ProbeIsNew
<1>6. Turns'
  BY <1>1, <1>2 DEF Turns, Before, ServerOpen
<1> QED
  BY <1>3, <1>5, <1>6

-----------------------------------------------------------------------------
(* The list after a heartbeat.                                             *)

\* A set of natural numbers has a least element.
LEMMA Least ==
    ASSUME NEW S \in SUBSET Nat, NEW x \in S
    PROVE  \E n \in S : \A m \in S : n <= m
<1> DEFINE R == OpToRel(<, Nat)
<1>1. IsWellFoundedOn(R, Nat)
  BY NatLessThanWellFounded, Zenon
<1>2. \A m, n \in Nat : <<m, n>> \in R <=> m < n
  BY DEF OpToRel
<1> HIDE DEF R
<1>3. PICK n \in S : \A m \in S : <<m, n>> \notin R
  BY <1>1, WFMin
<1>4. ASSUME NEW m \in S PROVE n <= m
  <2>1. m \in Nat /\ n \in Nat
    OBVIOUS
  <2>2. ~(m < n)
    BY <1>2, <1>3, <2>1
  <2> QED
    BY <2>1, <2>2
<1> QED
  BY <1>4

\* One turn of the loop of broadcastHeartbeat over extra channels e.
Kept(e, F, q, k) == IF e[k] \in F THEN q ELSE Append(q, e[k])

\* g is what the loop has collected after each of its first n turns.
Collects(e, F, g, n) ==
    /\ g \in [0..n -> Seq(Slots)] /\ g[0] = <<>>
    /\ \A k \in 1..n : g[k] = Kept(e, F, g[k - 1], k)

\* The loop collects something: otherwise there is a first turn after which it
\* does not.
LEMMA CollectsExists ==
    ASSUME NEW e \in Seq(Slots), NEW F
    PROVE  \E g : Collects(e, F, g, Len(e))
<1> DEFINE Stuck == {n \in 0..Len(e) : ~\E g : Collects(e, F, g, n)}
<1> SUFFICES ASSUME Len(e) \in Stuck PROVE FALSE
  OBVIOUS
<1>0. Stuck \in SUBSET Nat
  OBVIOUS
<1>1. PICK n \in Stuck : \A m \in Stuck : n <= m
  <2> HIDE DEF Stuck
  <2> QED
    BY <1>0, Least
<1>2. n \in 0..Len(e) /\ Len(e) \in Nat
  OBVIOUS
<1>3. CASE n = 0
  <2>1. Collects(e, F, [k \in {0} |-> <<>>], 0)
    BY DEF Collects
  <2> QED
    BY <1>3, <2>1
<1>4. CASE n # 0
  <2>1. n - 1 \in 0..Len(e) /\ n - 1 \notin Stuck /\ n \in 1..Len(e)
    BY <1>1, <1>2, <1>4
  <2>2. PICK g : Collects(e, F, g, n - 1)
    BY <2>1
  <2> DEFINE h == [k \in 0..n |-> IF k = n THEN Kept(e, F, g[n - 1], n) ELSE g[k]]
  <2>3. g \in [0..(n - 1) -> Seq(Slots)] /\ g[0] = <<>>
    BY <2>2 DEF Collects
  <2>4. Kept(e, F, g[n - 1], n) \in Seq(Slots)
    BY <2>1, <2>3 DEF Kept
  <2>5. h \in [0..n -> Seq(Slots)] /\ h[0] = <<>>
    BY <1>4, <2>1, <2>3, <2>4
  <2>6. ASSUME NEW k \in 1..n PROVE h[k] = Kept(e, F, h[k - 1], k)
    <3>1. CASE k = n
      BY <2>1, <3>1
    <3>2. CASE k # n
      <4>1. k \in 1..(n - 1) /\ h[k] = g[k] /\ h[k - 1] = g[k - 1]
        BY <2>1, <3>2
      <4> QED
        BY <2>2, <4>1 DEF Collects
    <3> QED
      BY <3>1, <3>2
  <2> HIDE DEF h
  <2>7. Collects(e, F, h, n)
    BY <2>5, <2>6 DEF Collects
  <2> QED
    BY <2>7
<1> QED
  BY <1>3, <1>4

\* After n turns the list q holds elements of e that come before n, in the order
\* of e: those at the places that at tells.
Picks(e, q, at, n) ==
    /\ at \in [1..Len(q) -> 1..n]
    /\ \A k \in 1..Len(q) : q[k] = e[at[k]]
    /\ \A j, k \in 1..Len(q) : j < k => at[j] < at[k]

\* What the loop collects is picked from e.
LEMMA CollectsPicks ==
    ASSUME NEW e \in Seq(Slots), NEW F, NEW g, Collects(e, F, g, Len(e)),
           NEW m \in 0..Len(e)
    PROVE  \E at : Picks(e, g[m], at, m)
<1> DEFINE Wrong == {n \in 0..Len(e) : ~\E at : Picks(e, g[n], at, n)}
<1> SUFFICES ASSUME m \in Wrong PROVE FALSE
  OBVIOUS
<1>0. Wrong \in SUBSET Nat
  OBVIOUS
<1>1. PICK n \in Wrong : \A l \in Wrong : n <= l
  <2> HIDE DEF Wrong
  <2> QED
    BY <1>0, Least
<1>2. n \in 0..Len(e) /\ Len(e) \in Nat
  OBVIOUS
<1>3. CASE n = 0
  <2>1. g[0] = <<>>
    BY DEF Collects
  <2>2. Picks(e, <<>>, [k \in 1..0 |-> 1], 0)
    BY DEF Picks
  <2> QED
    BY <1>3, <2>1, <2>2
<1>4. CASE n # 0
  <2>1. n - 1 \in 0..Len(e) /\ n - 1 \notin Wrong /\ n \in 1..Len(e)
    BY <1>1, <1>2, <1>4
  <2>2. PICK at : Picks(e, g[n - 1], at, n - 1)
    BY <2>1
  <2> DEFINE q == g[n - 1]
  <2>3. q \in Seq(Slots) /\ g[n] = Kept(e, F, q, n)
    BY <2>1 DEF Collects
  <2> HIDE DEF q
  <2>4. /\ at \in [1..Len(q) -> 1..(n - 1)] /\ Len(q) \in Nat
        /\ \A k \in 1..Len(q) : q[k] = e[at[k]]
        /\ \A j, k \in 1..Len(q) : j < k => at[j] < at[k]
    BY <2>2, <2>3 DEF Picks, q
  <2>5. CASE e[n] \in F
    <3>1. g[n] = q
      BY <2>3, <2>5 DEF Kept
    <3>2. at \in [1..Len(q) -> 1..n]
      BY <2>1, <2>4
    <3>3. Picks(e, q, at, n)
      BY <2>4, <3>2 DEF Picks
    <3> QED
      BY <3>1, <3>3
  <2>6. CASE e[n] \notin F
    <3> DEFINE r == Append(q, e[n])
               to == [k \in 1..(Len(q) + 1) |-> IF k = Len(q) + 1 THEN n ELSE at[k]]
    <3>1. g[n] = r
      BY <2>3, <2>6 DEF Kept
    <3>2. /\ Len(r) = Len(q) + 1 /\ r[Len(q) + 1] = e[n]
          /\ \A k \in 1..Len(q) : r[k] = q[k]
      BY <2>1, <2>3
    <3>3. \A k \in 1..Len(q) : at[k] \in 1..n /\ at[k] < n
      BY <2>1, <2>4
    <3>4. to \in [1..(Len(q) + 1) -> 1..n]
      BY <2>1, <2>4, <3>3
    <3>5. /\ to[Len(q) + 1] = n
          /\ \A k \in 1..Len(q) : to[k] = at[k]
      BY <2>4
    <3>6. \A k \in 1..(Len(q) + 1) : k \in 1..Len(q) \/ k = Len(q) + 1
      BY <2>4
    <3> HIDE DEF r, to
    <3>7. \A k \in 1..(Len(q) + 1) : r[k] = e[to[k]]
      BY <2>4, <3>2, <3>5, <3>6
    <3>8. ASSUME NEW j \in 1..(Len(q) + 1), NEW k \in 1..(Len(q) + 1), j < k
          PROVE  to[j] < to[k]
      <4>1. j \in 1..Len(q)
        BY <2>4, <3>8
      <4>2. CASE k = Len(q) + 1
        BY <3>3, <3>5, <4>1, <4>2
      <4>3. CASE k \in 1..Len(q)
        BY <2>4, <3>5, <3>8, <4>1, <4>3
      <4> QED
        BY <3>6, <4>2, <4>3
    <3>9. Picks(e, r, to, n)
      BY <3>2, <3>4, <3>7, <3>8 DEF Picks
    <3> QED
      BY <3>1, <3>9
  <2> QED
    BY <2>5, <2>6
<1> QED
  BY <1>3, <1>4

\* The extra channels after a heartbeat are some of those before, in their order.
LEMMA AliveExtrasPicks ==
    ASSUME TypeOK, NEW F
    PROVE  /\ AliveExtras(F) \in Seq(Slots)
           /\ \E at : Picks(extras, AliveExtras(F), at, Len(extras))
<1> DEFINE Loop(g) == g = [k \in 0..Len(extras) |->
                             IF k = 0 THEN <<>>
                             ELSE IF extras[k] \in F THEN g[k - 1]
                                  ELSE Append(g[k - 1], extras[k])]
           loop == CHOOSE g : Loop(g)
<1>1. AliveExtras(F) = loop[Len(extras)]
  BY DEF AliveExtras
<1>2. extras \in Seq(Slots)
  BY DEF TypeOK
<1>3. PICK g : Collects(extras, F, g, Len(extras))
  BY <1>2, CollectsExists
<1>4. Loop(g)
  <2>1. g = [k \in 0..Len(extras) |-> g[k]] /\ g[0] = <<>>
    BY <1>3 DEF Collects
  <2>2. ASSUME NEW k \in 0..Len(extras), k # 0
        PROVE  g[k] = IF extras[k] \in F THEN g[k - 1] ELSE Append(g[k - 1], extras[k])
    <3>1. k \in 1..Len(extras)
      BY <1>2, <2>2
    <3> QED
      BY <1>3, <3>1 DEF Collects, Kept
  <2> QED
    BY <2>1, <2>2
<1>5. Loop(loop)
  BY <1>4
<1> HIDE DEF loop
<1>6. g = loop
  <2> SUFFICES ASSUME g # loop PROVE FALSE
    OBVIOUS
  <2> DEFINE Wrong == {n \in 0..Len(extras) : g[n] # loop[n]}
  <2>0. \A h : Loop(h) => h = [k \in 0..Len(extras) |-> h[k]]
    OBVIOUS
  <2>1. Wrong \in SUBSET Nat /\ Wrong # {} /\ Len(extras) \in Nat
    <3> HIDE DEF Loop
    <3>1. /\ g = [k \in 0..Len(extras) |-> g[k]]
          /\ loop = [k \in 0..Len(extras) |-> loop[k]]
      BY <1>4, <1>5, <2>0
    <3>2. \E n \in 0..Len(extras) : g[n] # loop[n]
      BY <3>1
    <3> QED
      BY <1>2, <3>2
  <2>2. PICK n \in Wrong : \A m \in Wrong : n <= m
    BY <2>1, Least
  <2>3. n \in 0..Len(extras) /\ n # 0
    BY <1>4, <1>5, <2>1
  <2>4. n - 1 \in 0..Len(extras) /\ n - 1 \notin Wrong
    BY <2>1, <2>2, <2>3
  <2>5. g[n - 1] = loop[n - 1]
    BY <2>4
  <2> QED
    BY <1>4, <1>5, <2>3, <2>5
<1>7. Len(extras) \in 0..Len(extras)
  BY <1>2
<1>8. loop[Len(extras)] \in Seq(Slots)
  BY <1>3, <1>6, <1>7 DEF Collects
<1>9. \E at : Picks(extras, loop[Len(extras)], at, Len(extras))
  BY <1>2, <1>3, <1>6, <1>7, CollectsPicks
<1> QED
  BY <1>1, <1>8, <1>9

-----------------------------------------------------------------------------
(* Whose turn it is.                                                       *)

\* A number between 0 and n - 1 that differs from x by a multiple of n is x % n.
LEMMA ModIs ==
    ASSUME NEW n \in Nat \ {0}, NEW q \in Int, NEW r \in 0..(n - 1), NEW x \in Nat, x = n * q + r
    PROVE  x % n = r
OBVIOUS

\* Adding less than two rounds to an index.
LEMMA ModAdd ==
    ASSUME NEW n \in Nat \ {0}, NEW a \in Nat, NEW d \in 0..n
    PROVE  /\ a % n \in 0..(n - 1)
           /\ (a + d) % n = IF (a % n) + d < n THEN (a % n) + d ELSE (a % n) + d - n
<1>1. PICK q \in Int : q = a \div n
  OBVIOUS
<1>2. PICK b \in 0..(n - 1) : b = a % n
  OBVIOUS
<1>3. a % n = a - n * (a \div n)
  OBVIOUS
<1>4. a = n * q + b
  <2>1. b = a - n * q
    BY <1>1, <1>2, <1>3
  <2>2. n * q \in Int
    OBVIOUS
  <2> QED
    BY <2>1, <2>2
<1>5. CASE b + d < n
  <2>1. PICK r \in 0..(n - 1), x \in Nat : r = b + d /\ x = a + d
    BY <1>5
  <2>2. x = n * q + r
    BY <1>4, <2>1
  <2>3. x % n = r
    BY <2>2, ModIs
  <2> QED
    BY <1>2, <1>5, <2>1, <2>3
<1>6. CASE b + d >= n
  <2>1. PICK r \in 0..(n - 1), x \in Nat, t \in Int : r = b + d - n /\ x = a + d /\ t = q + 1
    BY <1>6
  <2>2. n * t = n * q + n
    BY <2>1
  <2>3. x = n * t + r
    BY <1>4, <2>1, <2>2
  <2>4. x % n = r
    BY <2>3, ModIs
  <2> QED
    BY <1>2, <1>6, <2>1, <2>4
<1> QED
  BY <1>2, <1>5, <1>6

\* The channel at place p is the one that is tried after Before(p, ...) others.
LEMMA BeforeIs ==
    ASSUME NEW n \in Nat \ {0}, NEW r \in Nat, NEW p \in 1..n, NEW k \in 0..(n - 1)
    PROVE  /\ Before(p, r % n, n) \in 0..(n - 1)
           /\ ((r + Before(p, r % n, n)) % n) + 1 = p
           /\ (r + k + 1) % n \in 0..(n - 1)
           /\ Before(p, (r + k + 1) % n, n) \in 0..(n - 1)
<1>1. PICK b \in 0..(n - 1) : b = r % n
  BY ModAdd
<1>0. \A c \in 0..(n - 1) : Before(p, c, n) \in 0..(n - 1)
  BY DEF Before
<1>2. PICK d \in 0..(n - 1) : d = Before(p, b, n)
  BY <1>0
<1>3. (r + d) % n = p - 1
  <2>1. d \in 0..n
    OBVIOUS
  <2>2. (r + d) % n = IF b + d < n THEN b + d ELSE b + d - n
    BY <1>1, <2>1, ModAdd
  <2> QED
    BY <1>2, <2>2 DEF Before
<1>4. (r + k + 1) % n = IF b + (k + 1) < n THEN b + (k + 1) ELSE b + (k + 1) - n
  <2>1. PICK l \in 0..n : l = k + 1
    OBVIOUS
  <2>2. (r + l) % n = IF b + l < n THEN b + l ELSE b + l - n
    BY <1>1, ModAdd
  <2>3. r + k + 1 = r + l
    BY <2>1
  <2> QED
    BY <2>1, <2>2, <2>3
<1>5. PICK c \in 0..(n - 1) : c = (r + k + 1) % n
  BY <1>4
<1>6. Before(p, c, n) \in 0..(n - 1)
  BY <1>0
<1> QED
  BY <1>1, <1>2, <1>3, <1>5, <1>6

\* A signal to the k-th channel tried brings the later ones k + 1 places nearer.
LEMMA BeforeAfter ==
    ASSUME NEW n \in Nat \ {0}, NEW r \in Nat, NEW p \in 1..n, NEW k \in 0..(n - 1),
           NEW d \in 0..(n - 1), d = Before(p, r % n, n), k < d
    PROVE  Before(p, (r + k + 1) % n, n) = d - (k + 1)
<1>1. PICK b \in 0..(n - 1) : b = r % n
  BY ModAdd
<1>2. PICK l \in 0..n : l = k + 1
  OBVIOUS
<1>3. (r + l) % n = IF b + l < n THEN b + l ELSE b + l - n
  BY <1>1, ModAdd
<1>4. (r + k + 1) % n = IF b + l < n THEN b + l ELSE b + l - n
  BY <1>2, <1>3
<1> QED
  BY <1>1, <1>2, <1>4 DEF Before

\* A signal gives the channel that takes it the last turn, and brings the others
\* that are still open nearer to theirs by more than it makes them wait.
LEMMA TurnsAfterSignal ==
    ASSUME ControlInv, Signal
    PROVE  Turns' /\ rr' \in 0..MaxConns /\ passed' \in [Slots -> Nat]
<1>1. TypeOK /\ OneChannelPerClient /\ sPhase = "up" /\ control # 0
  BY DEF ControlInv, Phases, Signal
<1>2. /\ Len(Channels) \in Nat \ {0} /\ Len(Channels) <= MaxConns /\ MaxConns \in Nat
      /\ rr \in Nat /\ passed \in [Slots -> Nat]
  BY <1>1, ChannelsType, ChannelsDistinct, ControlAssumption DEF TypeOK
<1>n. PICK n \in Nat \ {0}, r \in Nat : n = Len(Channels) /\ r = rr
  BY <1>2
<1>3. PICK F \in Failures, k \in 0..(n - 1) :
         /\ Try(k) \notin F
         /\ \A j \in 0..(k - 1) : Try(j) \in F
         /\ conn' = ServerCloses({Try(j) : j \in 0..(k - 1)})
         /\ rr' = Advance(k)
         /\ passed' = [i \in Slots |->
                         IF i \in Range(Channels) \ {Try(k)} /\ "server" \in conn'[i].ends
                         THEN passed[i] + 1 ELSE 0]
  BY <1>n DEF Signal
<1>4. Channels' = Channels /\ sPhase' = sPhase
  BY DEF Signal, Channels
<1>5. rr' = (r + k + 1) % n /\ \A j : Try(j) = Channels[((r + j) % n) + 1]
  BY <1>3, <1>n DEF Advance, Try
<1>6. rr' \in 0..(n - 1)
  <2>1. 1 \in 1..n
    OBVIOUS
  <2>2. (r + k + 1) % n \in 0..(n - 1)
    BY <2>1, BeforeIs
  <2> QED
    BY <1>5, <2>2
<1>7. passed' \in [Slots -> Nat]
  BY <1>2, <1>3
<1>8. SameOwners(Slots) /\ \A j \in 0..(k - 1) : Try(j) \in Slots => "server" \notin conn'[Try(j)].ends
  BY <1>1, <1>3, CloseKeeps
<1>9. ASSUME NEW p \in 1..n, "server" \in conn'[Channels[p]].ends
      PROVE  passed'[Channels[p]] + Before(p, rr', n) < n
  <2>1. PICK i \in Slots : i = Channels[p] /\ i \in Range(Channels)
    BY <1>1, <1>n, ChannelsType DEF Range
  <2>2. PICK d \in 0..(n - 1) : d = Before(p, r % n, n)
    BY BeforeIs
  <2>3. Try(d) = i
    <3>1. ((r + d) % n) + 1 = p
      BY <2>2, BeforeIs
    <3> QED
      BY <1>5, <2>1, <3>1
  <2>4. Before(p, rr', n) \in 0..(n - 1) /\ (k < d => Before(p, rr', n) = d - (k + 1))
    <3>1. Before(p, (r + k + 1) % n, n) \in 0..(n - 1)
      BY BeforeIs
    <3>2. ASSUME k < d PROVE Before(p, (r + k + 1) % n, n) = d - (k + 1)
      BY <2>2, <3>2, BeforeAfter
    <3> QED
      BY <1>5, <2>2, <3>1, <3>2
  <2>5. CASE i = Try(k)
    <3>1. passed'[i] = 0
      BY <1>3, <2>5
    <3> QED
      BY <1>2, <2>1, <2>4, <3>1
  <2>6. CASE i # Try(k)
    <3>1. k < d
      <4>1. d # k
        BY <2>3, <2>6
      <4>2. d \notin 0..(k - 1)
        BY <1>8, <1>9, <2>1, <2>3
      <4> QED
        BY <4>1, <4>2
    <3>2. passed'[i] = passed[i] + 1
      BY <1>3, <1>9, <2>1, <2>6
    <3>3. ServerOpen(i)
      BY <1>8, <1>9, <2>1 DEF SameOwners
    <3>4. passed[i] + d < n
      <4>1. CASE r < n
        <5>1. r % n = r
          BY <4>1
        <5> QED
          BY <1>1, <1>n, <2>1, <2>2, <3>3, <4>1, <5>1 DEF ControlInv, Turns
      <4>2. CASE r >= n
        <5>1. passed[i] = 0
          BY <1>1, <1>n, <2>1, <4>2 DEF ControlInv, Turns
        <5> QED
          BY <5>1
      <4> QED
        BY <4>1, <4>2
    <3>5. passed[i] \in Nat
      BY <1>2
    <3> QED
      BY <1>2, <2>1, <2>4, <3>1, <3>2, <3>4, <3>5
  <2> QED
    BY <2>5, <2>6
<1>10. Turns'
  <2>1. rr' < n /\ ~(rr' >= n)
    BY <1>2, <1>6
  <2>2. Len(Channels') = n
    BY <1>4, <1>n
  <2> QED
    BY <1>4, <1>9, <2>1, <2>2 DEF Turns, ServerOpen
<1>11. rr' \in 0..MaxConns
  BY <1>2, <1>6, <1>n
<1> QED
  BY <1>7, <1>10, <1>11

-----------------------------------------------------------------------------
(* The steps.                                                              *)

\* Initially there is no channel.
LEMMA ControlInvInit == Init => ControlInv
<1> SUFFICES ASSUME Init PROVE ControlInv
  OBVIOUS
<1>1. NoConn \in Connection
  BY ControlAssumption DEF NoConn, Connection
<1>2. TypeOK
  BY <1>1, ControlAssumption DEF Init, TypeOK, Slots
<1>3. Channels = <<>>
  BY DEF Init, Channels
<1> QED
  BY <1>2, <1>3 DEF ControlInv, Init, Phases, OneChannelPerClient, ProbeIsNew, Turns

\* A step that leaves the list of channels alone, whoever takes it.
Stays ==
    /\ UNCHANGED <<allowMultiIP, sPhase, control, extras, rr, passed>>
    /\ conn' \in [Slots -> Connection] /\ SameOwners(Held \ {0})
    /\ backlog' \subseteq Slots
    /\ reading' \in 0..MaxConns /\ (reading' # 0 => sPhase = "handshake")
    /\ probing' \in 0..MaxConns /\ probing' \in {0, probing}
    /\ cPhase' \in [Clients -> {"dial", "await", "up", "sleep"}]
    /\ cConn' \in [Clients -> 0..MaxConns]
    /\ faults' \in 0..MaxFaults

\* A step that leaves the channels and their connections alone keeps the invariant.
LEMMA StaysStep ==
    ASSUME ControlInv, Stays
    PROVE  ControlInv'
<1>1. TypeOK'
  BY DEF ControlInv, Stays, TypeOK
<1>2. Phases'
  BY DEF ControlInv, Stays, Phases
<1>3. OneChannelPerClient' /\ ProbeIsNew' /\ Turns'
  BY ChannelsStay DEF ControlInv, Stays
<1> QED
  BY <1>1, <1>2, <1>3 DEF ControlInv

\* What the server holds are connections.
LEMMA HeldSlots ==
    ASSUME TypeOK
    PROVE  /\ Held \ {0} \subseteq Slots
           /\ SameOwners(Slots) => SameOwners(Held \ {0})
<1>1. /\ backlog \subseteq Slots /\ extras \in Seq(Slots) /\ MaxConns \in Nat
      /\ control \in 0..MaxConns /\ reading \in 0..MaxConns /\ probing \in 0..MaxConns
  BY ControlAssumption DEF TypeOK
<1>2. Range(extras) \subseteq Slots
  BY <1>1 DEF Range
<1>3. \A i \in {control, reading, probing} : i # 0 => i \in Slots
  BY <1>1 DEF Slots
<1>4. Held \ {0} \subseteq Slots
  BY <1>1, <1>2, <1>3 DEF Held
<1> QED
  BY <1>4 DEF SameOwners

\* A client's steps: it dials only connections that nobody holds.
LEMMA ClientStep ==
    ASSUME ControlInv, NEW c \in Clients, Client(c)
    PROVE  ControlInv'
<1> USE DEF serverVars
<1>t. TypeOK /\ Phases
  BY DEF ControlInv
<1>u. /\ conn \in [Slots -> Connection] /\ backlog \subseteq Slots /\ MaxConns \in Nat
      /\ reading \in 0..MaxConns /\ probing \in 0..MaxConns
      /\ cPhase \in [Clients -> {"dial", "await", "up", "sleep"}]
      /\ cConn \in [Clients -> 0..MaxConns] /\ faults \in 0..MaxFaults /\ MaxFaults \in Nat
      /\ (reading # 0 => sPhase = "handshake")
  BY <1>t, ControlAssumption DEF TypeOK, Phases
<1>1. ASSUME NEW i \in Slots, Dial(c, i) PROVE ControlInv'
  <2>1. Free(i) /\ UNCHANGED <<allowMultiIP, sPhase, control, reading, probing, extras, rr,
                               passed, faults>>
    BY <1>1 DEF Dial
  <2> DEFINE new == [owner |-> c, ends |-> {"client", "server"}, link |-> "works", acked |-> "no"]
  <2>2. conn' = [conn EXCEPT ![i] = new]
    BY <1>1 DEF Dial
  <2>3. new \in Connection
    BY DEF Connection
  <2> HIDE DEF new
  <2>4. conn' \in [Slots -> Connection] /\ \A j \in Slots \ {i} : conn'[j] = conn[j]
    BY <1>u, <2>2, <2>3
  <2>5. SameOwners(Held \ {0})
    BY <1>t, <2>1, <2>4, HeldSlots DEF SameOwners, Free, ServerOpen
  <2>6. backlog' \subseteq Slots
    BY <1>1, <1>u DEF Dial
  <2>7. /\ cPhase' \in [Clients -> {"dial", "await", "up", "sleep"}]
        /\ cConn' \in [Clients -> 0..MaxConns]
    BY <1>1, <1>u DEF Dial, Slots
  <2>8. Stays
    BY <1>u, <2>1, <2>4, <2>5, <2>6, <2>7 DEF Stays
  <2> QED
    BY <2>8, StaysStep
<1>2. CASE Established(c)
  <2>1. Stays
    BY <1>2, <1>u DEF Stays, Established, SameOwners, ServerOpen
  <2> QED
    BY <2>1, StaysStep
<1>3. CASE Retry(c)
  <2>1. conn' \in [Slots -> Connection] /\ SameOwners(Held \ {0})
    BY <1>3, <1>t, ClientCloseKeeps, HeldSlots DEF Retry
  <2>2. Stays
    BY <1>3, <1>u, <2>1 DEF Stays, Retry
  <2> QED
    BY <2>2, StaysStep
<1>4. CASE ClientRestart(c)
  <2>1. conn' \in [Slots -> Connection] /\ SameOwners(Held \ {0})
    BY <1>4, <1>t, ClientCloseKeeps, HeldSlots DEF ClientRestart
  <2>2. Stays
    BY <1>4, <1>u, <2>1 DEF Stays, ClientRestart
  <2> QED
    BY <2>2, StaysStep
<1>5. CASE ClientRestarted(c)
  <2>1. Stays
    BY <1>5, <1>u DEF Stays, ClientRestarted, SameOwners, ServerOpen
  <2> QED
    BY <2>1, StaysStep
<1> QED
  BY <1>1, <1>2, <1>3, <1>4, <1>5 DEF Client

\* Accepting, probing and handshakes that do not change the list of channels, and
\* the failures of connections.
LEMMA QuietStep ==
    ASSUME ControlInv, NEW i \in Slots,
           \/ Accept(i) \/ PromoteFails \/ HandshakeDiscard \/ SignalFails
           \/ Collect(i) \/ Break(i)
    PROVE  ControlInv'
<1> USE DEF serverVars, clientVars
<1>t. TypeOK /\ Phases
  BY DEF ControlInv
<1>u. /\ conn \in [Slots -> Connection] /\ backlog \subseteq Slots /\ MaxConns \in Nat
      /\ reading \in 0..MaxConns /\ probing \in 0..MaxConns /\ i \in 0..MaxConns
      /\ cPhase \in [Clients -> {"dial", "await", "up", "sleep"}]
      /\ cConn \in [Clients -> 0..MaxConns] /\ faults \in 0..MaxFaults /\ MaxFaults \in Nat
  BY <1>t, ControlAssumption DEF TypeOK, Slots
<1>v. /\ reading # 0 => sPhase = "handshake"
      /\ control = 0 => sPhase = "handshake"
  BY <1>t DEF Phases
<1>s. ASSUME UNCHANGED conn \/ \E S : conn' = ServerCloses(S)
      PROVE  conn' \in [Slots -> Connection] /\ SameOwners(Held \ {0})
  <2>1. CASE UNCHANGED conn
    BY <1>u, <2>1 DEF SameOwners, ServerOpen
  <2>2. ASSUME NEW S, conn' = ServerCloses(S)
        PROVE  conn' \in [Slots -> Connection] /\ SameOwners(Held \ {0})
    BY <1>t, <2>2, CloseKeeps, HeldSlots
  <2> QED
    BY <1>s, <2>1, <2>2
<1>1. CASE AcceptForHandshake(i)
  <2>1. conn' \in [Slots -> Connection] /\ SameOwners(Held \ {0})
    BY <1>1, <1>s DEF AcceptForHandshake
  <2>2. Stays
    BY <1>1, <1>u, <1>v, <2>1 DEF Stays, AcceptForHandshake, Accepting
  <2> QED
    BY <2>2, StaysStep
<1>2. CASE AcceptSuspicious(i)
  <2>1. conn' \in [Slots -> Connection] /\ SameOwners(Held \ {0})
    BY <1>2, <1>s DEF AcceptSuspicious
  <2>2. Stays
    BY <1>2, <1>u, <1>v, <2>1 DEF Stays, AcceptSuspicious, Accepting
  <2> QED
    BY <2>2, StaysStep
<1>3. CASE AcceptForProbe(i)
  <2>1. /\ UNCHANGED <<allowMultiIP, conn, sPhase, control, reading, extras, rr,
                       cPhase, cConn, passed, faults>>
        /\ probing' = i /\ control # 0 /\ backlog' \subseteq Slots
        /\ \A k \in 1..Len(Channels) : conn[Channels[k]].owner # conn[i].owner
    BY <1>3, <1>u DEF AcceptForProbe, Accepting, ShouldProbeForExtraControl
  <2>2. TypeOK'
    BY <1>t, <1>u, <2>1 DEF TypeOK
  <2>3. Phases'
    BY <1>t, <2>1 DEF Phases
  <2>4. Channels' = Channels
    BY <2>1 DEF Channels
  <2>5. OneChannelPerClient' /\ Turns'
    BY <2>1, <2>4 DEF ControlInv, OneChannelPerClient, Turns, ServerOpen
  <2>6. ProbeIsNew'
    BY <2>1, <2>4 DEF ProbeIsNew
  <2> QED
    BY <2>2, <2>3, <2>5, <2>6 DEF ControlInv
<1>4. CASE AcceptAsSession(i)
  <2>1. conn' \in [Slots -> Connection] /\ SameOwners(Held \ {0})
    BY <1>4, <1>s DEF AcceptAsSession
  <2>2. Stays
    BY <1>4, <1>u, <1>v, <2>1 DEF Stays, AcceptAsSession, Accepting
  <2> QED
    BY <2>2, StaysStep
<1>5. CASE PromoteFails
  <2>1. conn' \in [Slots -> Connection] /\ SameOwners(Held \ {0})
    BY <1>5, <1>s DEF PromoteFails
  <2>2. Stays
    BY <1>5, <1>u, <1>v, <2>1 DEF Stays, PromoteFails
  <2> QED
    BY <2>2, StaysStep
<1>6. CASE HandshakeDiscard
  <2>1. conn' \in [Slots -> Connection] /\ SameOwners(Held \ {0})
    BY <1>6, <1>s DEF HandshakeDiscard
  <2>2. /\ UNCHANGED <<allowMultiIP, backlog, sPhase, control, probing, extras, rr,
                       cPhase, cConn, passed, faults>>
        /\ reading' = 0 /\ 0 \in 0..MaxConns
    BY <1>6, <1>u DEF HandshakeDiscard
  <2>3. Stays
    BY <1>u, <2>1, <2>2 DEF Stays
  <2> QED
    BY <2>3, StaysStep
<1>7. CASE SignalFails
  <2>1. conn' \in [Slots -> Connection] /\ SameOwners(Held \ {0})
    BY <1>7, <1>s DEF SignalFails
  <2>2. Stays
    BY <1>7, <1>u, <1>v, <2>1 DEF Stays, SignalFails
  <2> QED
    BY <2>2, StaysStep
<1>8. CASE Collect(i)
  <2>1. conn' \in [Slots -> Connection] /\ SameOwners(Held \ {0})
    BY <1>8, <1>s DEF Collect
  <2>2. Stays
    BY <1>8, <1>u, <1>v, <2>1 DEF Stays, Collect
  <2> QED
    BY <2>2, StaysStep
<1>9. CASE Break(i)
  <2>1. conn' = [conn EXCEPT ![i] = [conn[i] EXCEPT !.link = "broken"]]
    BY <1>9, <1>u DEF Break
  <2>2. conn' \in [Slots -> Connection] /\ SameOwners(Slots)
    BY <1>u, <2>1 DEF SameOwners, ServerOpen, Connection
  <2>3. Stays
    BY <1>9, <1>t, <1>u, <1>v, <2>2, HeldSlots DEF Stays, Break
  <2> QED
    BY <2>3, StaysStep
<1> QED
  BY <1>1, <1>2, <1>3, <1>4, <1>5, <1>6, <1>7, <1>8, <1>9 DEF Accept

\* An answered connection is what it was otherwise.
LEMMA AckKeeps ==
    ASSUME TypeOK, NEW i \in Slots, conn' = [conn EXCEPT ![i].acked = "yes"]
    PROVE  conn' \in [Slots -> Connection] /\ SameOwners(Slots)
<1>1. conn \in [Slots -> Connection]
  BY DEF TypeOK
<1>2. conn' = [conn EXCEPT ![i] = [conn[i] EXCEPT !.acked = "yes"]]
  BY <1>1
<1> QED
  BY <1>1, <1>2 DEF SameOwners, ServerOpen, Connection

\* tryPromoteExtraControlChannel adds a channel of a client that had none, at the
\* end: it waits for the others, and they wait for it.
LEMMA PromoteStep ==
    ASSUME ControlInv, Promote
    PROVE  ControlInv'
<1>t. TypeOK /\ Phases /\ OneChannelPerClient /\ ProbeIsNew /\ Turns
  BY DEF ControlInv
<1>1. /\ UNCHANGED <<allowMultiIP, backlog, sPhase, control, reading, rr, cPhase, cConn, faults>>
      /\ probing # 0 /\ probing' = 0 /\ extras' = Append(extras, probing)
      /\ conn' = [conn EXCEPT ![probing].acked = "yes"]
      /\ passed' = [passed EXCEPT ![probing] = 0]
  BY DEF Promote, clientVars
<1>2. PICK i \in Slots : i = probing
  BY <1>1, <1>t, ControlAssumption DEF TypeOK, Slots
<1>3. conn' \in [Slots -> Connection] /\ SameOwners(Slots)
  BY <1>1, <1>2, <1>t, AckKeeps
<1>4. TypeOK'
  <2>1. extras' \in Seq(Slots) /\ passed' \in [Slots -> Nat]
    BY <1>1, <1>2, <1>t DEF TypeOK
  <2>2. 0 \in 0..MaxConns
    BY ControlAssumption
  <2> QED
    BY <1>1, <1>3, <1>t, <2>1, <2>2 DEF TypeOK
<1>5. Phases'
  BY <1>1, <1>t DEF Phases
<1>6. PICK n \in Nat : n = Len(Channels)
  BY <1>t, ChannelsType
<1>7. Channels' = Append(Channels, i)
  <2>1. extras \in Seq(Slots)
    BY <1>t DEF TypeOK
  <2>2. CASE control = 0
    BY <1>1, <1>2, <2>2 DEF Channels
  <2>3. CASE control # 0
    <3>1. control \in Slots
      BY <1>t, <2>3, ControlAssumption DEF TypeOK, Slots
    <3>2. <<control>> \o Append(extras, i) = Append(<<control>> \o extras, i)
      BY <2>1, <3>1
    <3> QED
      BY <1>1, <1>2, <2>3, <3>2 DEF Channels
  <2> QED
    BY <2>2, <2>3
<1>8. /\ Len(Channels') = n + 1 /\ Channels'[n + 1] = i
      /\ \A k \in 1..n : Channels'[k] = Channels[k] /\ Channels[k] \in Slots
      /\ \A k \in 1..(n + 1) : k \in 1..n \/ k = n + 1
  BY <1>6, <1>7, <1>t, ChannelsType
<1>9. \A k \in 1..n : /\ conn'[Channels'[k]].owner = conn[Channels[k]].owner
                      /\ conn'[Channels'[k]].owner # conn'[i].owner
  BY <1>1, <1>2, <1>3, <1>6, <1>8, <1>t DEF ProbeIsNew, SameOwners
<1>10. OneChannelPerClient'
  <2>1. ASSUME NEW j \in 1..(n + 1), NEW k \in 1..(n + 1),
               conn'[Channels'[j]].owner = conn'[Channels'[k]].owner
        PROVE  j = k
    BY <1>6, <1>8, <1>9, <1>t, <2>1 DEF OneChannelPerClient
  <2> QED
    BY <1>8, <2>1 DEF OneChannelPerClient
<1>11. ProbeIsNew'
  BY <1>1 DEF ProbeIsNew
<1>12. ASSUME sPhase = "up", NEW k \in 1..(n + 1)
       PROVE  /\ rr < n + 1 /\ "server" \in conn'[Channels'[k]].ends =>
                   passed'[Channels'[k]] + Before(k, rr, n + 1) < n + 1
              /\ rr >= n + 1 => passed'[Channels'[k]] = 0
  <2>1. passed \in [Slots -> Nat] /\ rr \in Nat
    BY <1>t DEF TypeOK
  <2>2. CASE k = n + 1
    <3>1. passed'[Channels'[k]] = 0
      BY <1>1, <1>2, <1>8, <2>1, <2>2
    <3> QED
      BY <2>1, <2>2, <3>1 DEF Before
  <2>3. CASE k \in 1..n
    <3>1. PICK j \in Slots : j = Channels[k] /\ j = Channels'[k]
      BY <1>8, <2>3
    <3>2. j # i
      BY <1>9, <2>3, <3>1
    <3>3. passed'[j] = passed[j] /\ passed[j] \in Nat
      BY <1>1, <1>2, <2>1, <3>2
    <3>4. "server" \in conn'[j].ends => ServerOpen(j)
      BY <1>3 DEF SameOwners
    <3>5. /\ rr < n /\ ServerOpen(j) => passed[j] + Before(k, rr, n) < n
          /\ rr >= n => passed[j] = 0
      BY <1>6, <1>12, <1>t, <2>3, <3>1 DEF Turns
    <3>6. CASE rr < n
      <4>1. Before(k, rr, n + 1) <= Before(k, rr, n) + 1 /\ Before(k, rr, n) \in Nat
             /\ Before(k, rr, n + 1) \in Nat
        BY <2>1, <2>3, <3>6 DEF Before
      <4> QED
        BY <2>1, <3>1, <3>3, <3>4, <3>5, <3>6, <4>1
    <3>7. CASE rr >= n
      <4>1. rr < n + 1 => Before(k, rr, n + 1) \in 0..n
        BY <2>1, <2>3 DEF Before
      <4>2. passed'[Channels'[k]] = 0
        BY <3>1, <3>3, <3>5, <3>7
      <4> QED
        BY <4>1, <4>2
    <3> QED
      BY <2>1, <3>6, <3>7
  <2> QED
    BY <1>8, <2>2, <2>3
<1>13. Turns'
  BY <1>1, <1>8, <1>12 DEF Turns, ServerOpen
<1> QED
  BY <1>4, <1>5, <1>10, <1>11, <1>13 DEF ControlInv

\* channelHandshake makes the first channel.
LEMMA HandshakeStep ==
    ASSUME ControlInv, HandshakeOk
    PROVE  ControlInv'
<1>t. TypeOK /\ Phases
  BY DEF ControlInv
<1>1. /\ UNCHANGED <<allowMultiIP, backlog, probing, extras, rr, cPhase, cConn, faults>>
      /\ sPhase = "handshake" /\ sPhase' = "up" /\ reading # 0 /\ reading' = 0
      /\ control' = reading
      /\ conn' = [conn EXCEPT ![reading].acked = "yes"]
      /\ passed' = [passed EXCEPT ![reading] = 0]
  BY DEF HandshakeOk, clientVars
<1>2. PICK i \in Slots : i = reading
  BY <1>1, <1>t, ControlAssumption DEF TypeOK, Slots
<1>3. conn' \in [Slots -> Connection]
  BY <1>1, <1>2, <1>t, AckKeeps
<1>4. TypeOK'
  <2>1. 0 \in 0..MaxConns /\ i \in 0..MaxConns
    BY ControlAssumption DEF Slots
  <2>2. passed' \in [Slots -> Nat]
    BY <1>1, <1>2, <1>t DEF TypeOK
  <2> QED
    BY <1>1, <1>2, <1>3, <1>t, <2>1, <2>2 DEF TypeOK
<1>5. extras = <<>> /\ probing = 0 /\ rr = 0
  BY <1>1, <1>t DEF Phases
<1>6. Phases'
  BY <1>1, <1>5 DEF Phases
<1>7. Channels' = <<i>> /\ Len(<<i>>) = 1
  BY <1>1, <1>2, <1>5 DEF Channels
<1>8. passed'[i] = 0
  BY <1>1, <1>2, <1>t DEF TypeOK
<1>9. OneChannelPerClient' /\ ProbeIsNew'
  BY <1>1, <1>5, <1>7 DEF OneChannelPerClient, ProbeIsNew
<1>10. Turns'
  BY <1>1, <1>5, <1>7, <1>8 DEF Turns, Before
<1> QED
  BY <1>4, <1>6, <1>9, <1>10 DEF ControlInv

\* sendNewConnSignalRoundRobin moves the turn on.
LEMMA SignalStep ==
    ASSUME ControlInv, Signal
    PROVE  ControlInv'
<1>t. TypeOK /\ Phases /\ OneChannelPerClient /\ ProbeIsNew
  BY DEF ControlInv
<1>1. /\ UNCHANGED <<allowMultiIP, backlog, sPhase, control, reading, probing, extras,
                     cPhase, cConn, faults>>
      /\ sPhase = "up" /\ \E S : conn' = ServerCloses(S)
  BY DEF Signal, clientVars
<1>2. conn' \in [Slots -> Connection] /\ SameOwners(Held \ {0})
  BY <1>1, <1>t, CloseKeeps, HeldSlots
<1>3. Turns' /\ rr' \in 0..MaxConns /\ passed' \in [Slots -> Nat]
  BY TurnsAfterSignal
<1>4. TypeOK'
  BY <1>1, <1>2, <1>3, <1>t DEF TypeOK
<1>5. Phases'
  BY <1>1, <1>t DEF Phases
<1>6. Channels' = Channels
  BY <1>1 DEF Channels
<1>7. \A k \in 1..Len(Channels) : conn'[Channels[k]].owner = conn[Channels[k]].owner
  BY <1>2, <1>t, ChannelsType DEF SameOwners
<1>8. probing # 0 => conn'[probing].owner = conn[probing].owner
  BY <1>2 DEF SameOwners, Held
<1>9. OneChannelPerClient' /\ ProbeIsNew'
  BY <1>1, <1>6, <1>7, <1>8, <1>t DEF OneChannelPerClient, ProbeIsNew
<1> QED
  BY <1>3, <1>4, <1>5, <1>9 DEF ControlInv

\* broadcastHeartbeat leaves a part of the channels, in their order, and starts
\* the turns anew.
LEMMA HeartbeatStep ==
    ASSUME ControlInv, Heartbeat
    PROVE  ControlInv'
<1>t. TypeOK /\ Phases /\ OneChannelPerClient /\ ProbeIsNew
  BY DEF ControlInv
<1>1. PICK F : conn' = ServerCloses(F) /\ extras' = AliveExtras(F)
  BY DEF Heartbeat
<1>2. /\ UNCHANGED <<allowMultiIP, backlog, sPhase, control, reading, probing, rr,
                     cPhase, cConn, faults>>
      /\ sPhase = "up" /\ passed' = [i \in Slots |-> 0]
  BY DEF Heartbeat, clientVars
<1>3. conn' \in [Slots -> Connection] /\ SameOwners(Held \ {0})
  BY <1>1, <1>t, CloseKeeps, HeldSlots
<1>4. extras \in Seq(Slots) /\ extras' \in Seq(Slots) /\ control # 0 /\ rr \in Nat
  BY <1>1, <1>2, <1>t, AliveExtrasPicks DEF TypeOK, Phases
<1>5. PICK at : Picks(extras, extras', at, Len(extras))
  BY <1>1, <1>t, AliveExtrasPicks
<1>6. TypeOK'
  <2>1. passed' \in [Slots -> Nat]
    BY <1>2
  <2> QED
    BY <1>2, <1>3, <1>4, <1>t, <2>1 DEF TypeOK
<1>7. Phases'
  BY <1>2, <1>t DEF Phases
<1>8. PICK n \in Nat, m \in Nat : n = Len(extras) /\ m = Len(extras')
  BY <1>4
<1> DEFINE to == [k \in 1..(m + 1) |-> IF k = 1 THEN 1 ELSE at[k - 1] + 1]
<1>9. /\ at \in [1..m -> 1..n]
      /\ \A k \in 1..m : extras'[k] = extras[at[k]]
      /\ \A j, k \in 1..m : j < k => at[j] < at[k]
  BY <1>5, <1>8 DEF Picks
<1>10. Len(Channels) = n + 1 /\ Len(Channels') = m + 1
  <2>1. (TypeOK => Len(Channels) = Len(extras) + (IF control = 0 THEN 0 ELSE 1))'
    BY ChannelsType, PTL
  <2> QED
    BY <1>2, <1>4, <1>6, <1>8, <1>t, <2>1, ChannelsType
<1>11. ASSUME NEW k \in 1..(m + 1)
       PROVE  /\ to[k] \in 1..(n + 1)
              /\ Channels'[k] = Channels[to[k]]
  <2>1. Channels = <<control>> \o extras /\ Channels' = <<control>> \o extras'
    BY <1>2, <1>4 DEF Channels
  <2>2. CASE k = 1
    BY <1>4, <1>8, <2>1, <2>2
  <2>3. CASE k # 1
    <3>1. PICK j \in 1..m : j = k - 1
      BY <2>3
    <3>2. at[j] \in 1..n /\ extras'[j] = extras[at[j]] /\ to[k] = at[j] + 1
      BY <1>9, <2>3, <3>1
    <3>3. Channels'[k] = extras'[j]
      BY <1>4, <1>8, <2>1, <2>3, <3>1
    <3>4. PICK l \in 1..n : l = at[j]
      BY <3>2
    <3>5. Channels[l + 1] = extras[l]
      BY <1>4, <1>8, <2>1
    <3> QED
      BY <3>2, <3>3, <3>4, <3>5
  <2> QED
    BY <2>2, <2>3
<1>12. ASSUME NEW j \in 1..(m + 1), NEW k \in 1..(m + 1), j < k
       PROVE  to[j] < to[k]
  <2>1. k - 1 \in 1..m /\ to[k] = at[k - 1] + 1 /\ at[k - 1] \in 1..n
    BY <1>9, <1>12
  <2>2. CASE j = 1
    BY <2>1, <2>2
  <2>3. CASE j # 1
    <3>1. j - 1 \in 1..m /\ to[j] = at[j - 1] + 1 /\ at[j - 1] \in 1..n /\ j - 1 < k - 1
      BY <1>9, <1>12, <2>3
    <3>2. at[j - 1] < at[k - 1]
      BY <1>9, <2>1, <3>1
    <3> QED
      BY <2>1, <3>1, <3>2
  <2> QED
    BY <2>2, <2>3
<1> HIDE DEF to
<1>13. \A k \in 1..(n + 1) :
          Channels[k] \in Slots /\ conn'[Channels[k]].owner = conn[Channels[k]].owner
  BY <1>3, <1>10, <1>t, ChannelsType DEF SameOwners
<1>14. OneChannelPerClient'
  <2>1. ASSUME NEW j \in 1..(m + 1), NEW k \in 1..(m + 1),
               conn'[Channels'[j]].owner = conn'[Channels'[k]].owner
        PROVE  j = k
    <3>1. conn[Channels[to[j]]].owner = conn[Channels[to[k]]].owner
      BY <1>11, <1>13, <2>1
    <3>2. to[j] = to[k] /\ to[j] \in 1..(n + 1)
      BY <1>10, <1>11, <1>t, <3>1 DEF OneChannelPerClient
    <3>3. ~(j < k)
      BY <1>12, <3>2
    <3>4. ~(k < j)
      BY <1>12, <3>2
    <3> QED
      BY <3>3, <3>4
  <2> QED
    BY <1>10, <2>1 DEF OneChannelPerClient
<1>15. ProbeIsNew'
  <2>1. probing # 0 => conn'[probing].owner = conn[probing].owner
    BY <1>3 DEF SameOwners, Held
  <2>2. ASSUME probing # 0, NEW k \in 1..(m + 1)
        PROVE  conn'[Channels'[k]].owner # conn'[probing].owner
    <3>1. conn[Channels[to[k]]].owner # conn[probing].owner
      BY <1>10, <1>11, <1>t, <2>2 DEF ProbeIsNew
    <3> QED
      BY <1>11, <1>13, <2>1, <2>2, <3>1
  <2> QED
    BY <1>2, <1>10, <2>2 DEF ProbeIsNew
<1>16. Turns'
  <2>1. ASSUME NEW k \in 1..(m + 1) PROVE passed'[Channels'[k]] = 0
    BY <1>2, <1>11, <1>13
  <2>2. ASSUME NEW k \in 1..(m + 1), rr < m + 1 PROVE 0 + Before(k, rr, m + 1) < m + 1
    BY <1>4, <2>2 DEF Before
  <2> QED
    BY <1>2, <1>10, <2>1, <2>2 DEF Turns
<1> QED
  BY <1>6, <1>7, <1>14, <1>15, <1>16 DEF ControlInv

\* A restart leaves the main channel only, and then none.
LEMMA RestartStep ==
    ASSUME ControlInv, ServerRestart \/ ServerRestarted
    PROVE  ControlInv'
<1>t. TypeOK /\ Phases /\ OneChannelPerClient /\ ProbeIsNew
  BY DEF ControlInv
<1>1. CASE ServerRestart
  <2>1. /\ UNCHANGED <<allowMultiIP, control, reading, probing, rr, cPhase, cConn, passed, faults>>
        /\ sPhase = "up" /\ sPhase' = "sleep" /\ backlog' = {} /\ extras' = <<>>
        /\ \E S : conn' = ServerCloses(S)
    BY <1>1 DEF ServerRestart, clientVars
  <2>2. conn' \in [Slots -> Connection] /\ SameOwners(Held \ {0})
    BY <2>1, <1>t, CloseKeeps, HeldSlots
  <2>3. TypeOK'
    BY <1>t, <2>1, <2>2 DEF TypeOK
  <2>4. Phases' /\ control # 0
    BY <1>t, <2>1 DEF Phases
  <2>5. Channels' = <<control>> /\ Len(<<control>>) = 1
    BY <2>1, <2>4 DEF Channels
  <2>6. 1 \in 1..Len(Channels) /\ Channels[1] = control
    BY <1>t, <2>4, ChannelsType, ChannelAt
  <2>7. OneChannelPerClient' /\ Turns'
    BY <2>1, <2>5 DEF OneChannelPerClient, Turns
  <2>8. probing # 0 => conn'[control].owner # conn'[probing].owner
    BY <1>t, <2>2, <2>4, <2>6 DEF ProbeIsNew, SameOwners, Held
  <2>9. ProbeIsNew'
    BY <2>1, <2>5, <2>8 DEF ProbeIsNew
  <2> QED
    BY <2>3, <2>4, <2>7, <2>9 DEF ControlInv
<1>2. CASE ServerRestarted
  <2>1. /\ UNCHANGED <<allowMultiIP, conn, backlog, reading, probing, cPhase, cConn, passed, faults>>
        /\ sPhase = "sleep" /\ sPhase' = "handshake" /\ probing = 0
        /\ control' = 0 /\ extras' = <<>> /\ rr' = 0
    BY <1>2 DEF ServerRestarted, clientVars
  <2>2. 0 \in 0..MaxConns
    BY ControlAssumption
  <2>3. TypeOK'
    BY <1>t, <2>1, <2>2 DEF TypeOK
  <2>4. Phases'
    BY <1>t, <2>1 DEF Phases
  <2>5. Channels' = <<>>
    BY <2>1 DEF Channels
  <2>6. OneChannelPerClient' /\ ProbeIsNew' /\ Turns'
    BY <2>1, <2>5 DEF OneChannelPerClient, ProbeIsNew, Turns
  <2> QED
    BY <2>3, <2>4, <2>6 DEF ControlInv
<1> QED
  BY <1>1, <1>2

\* Every step keeps the invariant.
LEMMA ControlInvStep == ControlInv /\ [Next]_vars => ControlInv'
<1> SUFFICES ASSUME ControlInv, [Next]_vars PROVE ControlInv'
  OBVIOUS
<1>1. ASSUME NEW c \in Clients, Client(c) PROVE ControlInv'
  BY <1>1, ClientStep
<1>2. ASSUME NEW i \in Slots, Accept(i) \/ Collect(i) \/ Break(i) PROVE ControlInv'
  BY <1>2, QuietStep
<1>3. CASE PromoteFails \/ HandshakeDiscard \/ SignalFails
  <2>1. 1 \in Slots
    BY ControlAssumption DEF Slots
  <2> QED
    BY <1>3, <2>1, QuietStep
<1>4. CASE Promote \/ HandshakeOk \/ Signal \/ Heartbeat \/ ServerRestart \/ ServerRestarted
  BY <1>4, PromoteStep, HandshakeStep, SignalStep, HeartbeatStep, RestartStep
<1>5. CASE UNCHANGED vars
  <2>1. UNCHANGED <<allowMultiIP, conn, backlog, sPhase, control, reading, probing, extras, rr,
                    cPhase, cConn, passed, faults>>
    BY <1>5 DEF vars, serverVars, clientVars
  <2>2. Stays
    BY <2>1 DEF Stays, ControlInv, TypeOK, Phases, SameOwners, ServerOpen
  <2> QED
    BY <2>2, StaysStep
<1> QED
  BY <1>1, <1>2, <1>3, <1>4, <1>5 DEF Next, Server

\* The server's control channels, its backlog and its round-robin index, and the
\* clients' connections, always have their types.
THEOREM ControlTypeCorrect == Spec => []TypeOK
<1>1. ControlInv => TypeOK
  BY DEF ControlInv
<1> QED
  BY <1>1, ControlInvInit, ControlInvStep, PTL DEF Spec

\* However many clients there are and however their connections, the probes and the
\* restarts interleave, acceptTunnelConn and tryPromoteExtraControlChannel never
\* give one client two control channels.
THEOREM OneChannelCorrect == Spec => []OneChannelPerClient
<1>1. ControlInv => OneChannelPerClient
  BY DEF ControlInv
<1> QED
  BY <1>1, ControlInvInit, ControlInvStep, PTL DEF Spec

\* sendNewConnSignalRoundRobin passes no live control channel over as often as
\* there are channels, for any number of them.
THEOREM RoundRobinCorrect == Spec => []RoundRobinFair
<1>1. ControlInv => RoundRobinFair
  <2> SUFFICES ASSUME ControlInv, sPhase = "up", NEW k \in 1..Len(Channels),
                      ServerOpen(Channels[k])
               PROVE  passed[Channels[k]] < Len(Channels)
    BY DEF RoundRobinFair
  <2>1. PICK n \in Nat : n = Len(Channels) /\ n # 0
    BY ChannelsType DEF ControlInv
  <2>2. passed[Channels[k]] \in Nat /\ rr \in Nat
    BY ChannelsType DEF ControlInv, TypeOK
  <2>3. /\ rr < n => passed[Channels[k]] + Before(k, rr, n) < n
        /\ rr >= n => passed[Channels[k]] = 0
    BY <2>1 DEF ControlInv, Turns
  <2>4. rr < n => Before(k, rr, n) \in Nat
    BY <2>1, <2>2 DEF Before
  <2> QED
    BY <2>1, <2>2, <2>3, <2>4
<1> QED
  BY <1>1, ControlInvInit, ControlInvStep, PTL DEF Spec

-----------------------------------------------------------------------------
(* Quic: what is invariant.                                                *)

\* The client waits for an answer to the token on r, and the server may still give it.
Calls(r) == r.kind = "control" /\ r.open /\ r.at \in {"incoming", "handshake"}

\* tunnelChan holds the queued connections, each once.
Queue ==
    /\ \A c \in Conns : qConn[c].at = "queued" <=> \E i \in DOMAIN tunnelChan : tunnelChan[i] = c
    /\ \A i, j \in 1..Len(tunnelChan) : tunnelChan[i] = tunnelChan[j] => i = j

\* The session and the control channel are where the connections say.
Roles ==
    /\ \A c \in Conns : qConn[c].at = "session" <=> session.conn = c
    /\ \A c \in Conns : qConn[c].at = "control" <=> ctl = c

\* A keepalive has a control channel, and so has a restart, but no keepalive.
Keepalive ==
    /\ ready <=> alive # "none"
    /\ alive # "none" => ctl # None
    /\ restarting => alive = "none" /\ ctl # None

\* Only the connection the client waits on can become the control channel, and the
\* server has it in a handshake only while it has none.
OneCall ==
    \A c \in Conns : Calls(qConn[c]) =>
        /\ client.pc = "wait" /\ client.conn = c
        /\ qConn[c].at = "handshake" => ctl = None

QuicInv == QuicTypeOK /\ Queue /\ Roles /\ Keepalive /\ OneCall

\* What a connection is to the two sides.
ConnType == [kind : {"none", "control", "tunnel"}, open : BOOLEAN, at : Places]

\* The places that the connections nobody will look at again do not have.
Used == {"queued", "session", "control", "handshake"}

\* The n names that Fresh finds are free.
LEMMA FreshFree ==
    ASSUME NEW n \in Nat, n <= Cardinality(FreeConns)
    PROVE  Fresh(n) \subseteq FreeConns
<1> DEFINE S == FreeConns
<1>1. IsFiniteSet(S)
  BY FS_Subset, QuicAssumption DEF FreeConns
<1> HIDE DEF S
<1>2. PICK m \in Nat : ExistsBijection(1..m, S)
  BY <1>1, FS_NatBijection
<1>3. m = Cardinality(S)
  BY <1>2, FS_CountingElements
<1>4. PICK b \in Bijection(1..m, S) : TRUE
  BY <1>2 DEF ExistsBijection
<1>5. /\ b \in [1..m -> S]
      /\ \A i, j \in 1..m : b[i] = b[j] => i = j
  BY <1>4 DEF Bijection, Injection, IsInjective
<1>6. n <= m
  BY <1>3 DEF S
<1> DEFINE T == {b[i] : i \in 1..n}
           f == [i \in 1..n |-> b[i]]
<1>7. T \in SUBSET S
  BY <1>5, <1>6
<1>8. f \in Bijection(1..n, T)
  <2>1. f \in [1..n -> T] /\ \A i, j \in 1..n : f[i] = f[j] => i = j
    BY <1>5, <1>6
  <2>2. \A t \in T : \E i \in 1..n : f[i] = t
    OBVIOUS
  <2> QED
    BY <2>1, <2>2 DEF Bijection, Injection, Surjection, IsInjective
<1>9. Cardinality(T) = n
  BY <1>8, FS_CountingElements DEF ExistsBijection
<1> HIDE DEF T
<1>10. \E cs \in SUBSET FreeConns : Cardinality(cs) = n
  BY <1>7, <1>9 DEF S
<1> QED
  BY <1>10 DEF Fresh

\* There is a free name when there are any.
LEMMA FreshOne ==
    ASSUME FreeConns # {}
    PROVE  Fresh(1) \subseteq FreeConns
<1>1. IsFiniteSet(FreeConns)
  BY FS_Subset, QuicAssumption DEF FreeConns
<1>2. Cardinality(FreeConns) \in Nat /\ Cardinality(FreeConns) # 0
  BY <1>1, FS_CardinalityType, FS_EmptySet
<1> QED
  BY <1>2, FreshFree

\* Settle frees connections of no use and keeps the others.
LEMMA SettleIs ==
    ASSUME NEW f \in [Conns -> ConnType], NEW cl
    PROVE  /\ Settle(f, cl) \in [Conns -> ConnType]
           /\ \A c \in Conns : \/ Settle(f, cl)[c] = f[c]
                               \/ Settle(f, cl)[c] = FreeConn /\ f[c].at \notin Used
<1>1. FreeConn \in ConnType
  BY DEF FreeConn, ConnType, Places
<1>2. ASSUME NEW c \in Conns
      PROVE  /\ Settle(f, cl)[c] \in ConnType
             /\ \/ Settle(f, cl)[c] = f[c]
                \/ Settle(f, cl)[c] = FreeConn /\ f[c].at \notin Used
  BY <1>1 DEF Settle, Used
<1>3. Settle(f, cl) = [c \in Conns |-> Settle(f, cl)[c]]
  BY DEF Settle
<1> QED
  BY <1>2, <1>3

\* A step after which every connection but those of C is where it was, or is not
\* of use before and after, and no new call has been made.
Leaves(C) ==
    \A c \in Conns \ C :
        /\ \A p \in Used : qConn'[c].at = p <=> qConn[c].at = p
        /\ Calls(qConn'[c]) => Calls(qConn[c]) /\ qConn'[c].at = qConn[c].at

\* A step that settles f leaves alone what f leaves alone.
LEMMA SettleLeaves ==
    ASSUME NEW f \in [Conns -> ConnType], NEW cl, NEW C, qConn' = Settle(f, cl),
           \A c \in Conns \ C : f[c] = qConn[c]
    PROVE  /\ qConn' \in [Conns -> ConnType] /\ Leaves(C)
           /\ \A c \in Conns : /\ f[c].at \in Used => qConn'[c] = f[c]
                               /\ qConn'[c].at \in Used => qConn'[c] = f[c]
                               /\ Calls(qConn'[c]) => Calls(f[c]) /\ qConn'[c].at = f[c].at
<1>1. /\ qConn' \in [Conns -> ConnType]
      /\ \A c \in Conns : qConn'[c] = f[c] \/ (qConn'[c] = FreeConn /\ f[c].at \notin Used)
  BY SettleIs
<1>2. FreeConn.at \notin Used /\ ~Calls(FreeConn)
  BY DEF FreeConn, Used, Calls
<1>3. ASSUME NEW c \in Conns
      PROVE  /\ f[c].at \in Used => qConn'[c] = f[c]
             /\ qConn'[c].at \in Used => qConn'[c] = f[c]
             /\ Calls(qConn'[c]) => Calls(f[c]) /\ qConn'[c].at = f[c].at
  BY <1>1, <1>2
<1>4. Leaves(C)
  BY <1>1, <1>2 DEF Leaves
<1> QED
  BY <1>1, <1>3, <1>4

\* The same of a step that gives one connection another value.
LEMMA OneLeaves ==
    ASSUME NEW x \in Conns, NEW r \in ConnType, qConn \in [Conns -> ConnType],
           qConn' = [qConn EXCEPT ![x] = r]
    PROVE  qConn' \in [Conns -> ConnType] /\ Leaves({x}) /\ qConn'[x] = r
BY DEF Leaves

\* No connection changes.
LEMMA NoneLeaves ==
    ASSUME qConn \in [Conns -> ConnType], UNCHANGED qConn
    PROVE  qConn' \in [Conns -> ConnType] /\ Leaves({})
BY DEF Leaves

\* The queue, the roles and the call of a step that leaves them alone.
LEMMA QueueStays ==
    ASSUME Queue, UNCHANGED tunnelChan,
           \A c \in Conns : qConn'[c].at = "queued" <=> qConn[c].at = "queued"
    PROVE  Queue'
BY DEF Queue

\* The session and the control channel stay where they are.
LEMMA RolesStay ==
    ASSUME Roles, ctl' = ctl, session'.conn = session.conn,
           \A c \in Conns : /\ qConn'[c].at = "session" <=> qConn[c].at = "session"
                            /\ qConn'[c].at = "control" <=> qConn[c].at = "control"
    PROVE  Roles'
BY DEF Roles

\* The call the client waits on stays as it is.
LEMMA CallStays ==
    ASSUME OneCall, client' = client, ctl' = ctl,
           \A c \in Conns : Calls(qConn'[c]) => Calls(qConn[c]) /\ qConn'[c].at = qConn[c].at
    PROVE  OneCall'
BY DEF OneCall

\* All three: nothing but connections of no use changes.
LEMMA AllStay ==
    ASSUME Queue, Roles, OneCall, Leaves({}),
           UNCHANGED <<tunnelChan, client, ctl>>, session'.conn = session.conn
    PROVE  Queue' /\ Roles' /\ OneCall'
<1>1. \A c \in Conns : /\ qConn'[c].at = "queued" <=> qConn[c].at = "queued"
                       /\ qConn'[c].at = "session" <=> qConn[c].at = "session"
                       /\ qConn'[c].at = "control" <=> qConn[c].at = "control"
                       /\ Calls(qConn'[c]) => Calls(qConn[c]) /\ qConn'[c].at = qConn[c].at
  BY DEF Leaves, Used
<1> QED
  BY <1>1, QueueStays, RolesStay, CallStays

-----------------------------------------------------------------------------
\* Initially there is no connection.
LEMMA QuicInvInit ==
    QuicInit => QuicInv
<1> SUFFICES ASSUME QuicInit PROVE QuicInv
  OBVIOUS
<1>1. FreeConn \in ConnType /\ FreeConn.at = "none" /\ ~Calls(FreeConn)
  BY DEF FreeConn, ConnType, Places, Calls
<1>2. \A c \in Conns : qConn[c] = FreeConn
  BY DEF QuicInit
<1>3. QuicTypeOK
  <2>1. session \in [conn : Conns \cup {None}, streams : 0..MuxCon, held : BOOLEAN]
    BY QuicAssumption DEF QuicInit, Idle
  <2>2. client \in [pc : {"dial", "wait", "up"}, conn : Conns \cup {None}]
    BY DEF QuicInit
  <2>3. qConn \in [Conns -> ConnType]
    BY <1>1 DEF QuicInit
  <2>4. tunnelChan \in Seq(Conns) /\ Len(tunnelChan) <= ChannelSize
    BY QuicAssumption DEF QuicInit
  <2>5. /\ ready \in BOOLEAN /\ pooling \in BOOLEAN /\ handling \in BOOLEAN
        /\ restarting \in BOOLEAN /\ ctl \in Conns \cup {None}
        /\ alive \in {"none", "first", "loop", "accept"}
    BY Zenon DEF QuicInit
  <2>6. /\ streams \in 0..MaxUnderWay /\ locals \in 0..ChannelSize /\ reqs \in 0..ChannelSize
        /\ asked \in 0..MaxUnderWay /\ qFaults \in 0..MaxQuicFaults
    BY QuicAssumption DEF QuicInit
  <2> QED
    BY <2>1, <2>2, <2>3, <2>4, <2>5, <2>6 DEF QuicTypeOK, ConnType
<1>4. Queue
  BY <1>1, <1>2 DEF QuicInit, Queue
<1>5. Roles
  BY <1>1, <1>2, QuicAssumption DEF QuicInit, Roles, Idle
<1>6. Keepalive
  BY DEF QuicInit, Keepalive
<1>7. OneCall
  BY <1>1, <1>2 DEF OneCall
<1> QED
  BY <1>3, <1>4, <1>5, <1>6, <1>7 DEF QuicInv

\* What the steps need of the types.
LEMMA QuicTypes ==
    ASSUME QuicTypeOK
    PROVE  /\ qConn \in [Conns -> ConnType]
           /\ client.conn \in Conns \cup {None} /\ client.pc \in {"dial", "wait", "up"}
           /\ ctl \in Conns \cup {None} /\ session.conn \in Conns \cup {None}
           /\ tunnelChan \in Seq(Conns) /\ Len(tunnelChan) \in Nat
<1>1. client \in [pc : {"dial", "wait", "up"}, conn : Conns \cup {None}]
  BY DEF QuicTypeOK
<1>2. session \in [conn : Conns \cup {None}, streams : 0..MuxCon, held : BOOLEAN]
  BY DEF QuicTypeOK
<1>3. tunnelChan \in Seq(Conns) /\ ctl \in Conns \cup {None} /\ qConn \in [Conns -> ConnType]
  BY DEF QuicTypeOK, ConnType
<1> QED
  BY <1>1, <1>2, <1>3

\* The client's steps.
LEMMA QuicClientStep ==
    ASSUME QuicInv,
           \/ ChannelDial \/ ChannelUp \/ ChannelGivesUp
           \/ ClientPing \/ ClientTimeout
    PROVE  QuicInv'
<1> USE DEF controlVars, data, requests
<1>t. QuicTypeOK /\ Queue /\ Roles /\ Keepalive /\ OneCall
  BY DEF QuicInv
<1>u. /\ qConn \in [Conns -> ConnType]
      /\ client.conn \in Conns \cup {None} /\ client.pc \in {"dial", "wait", "up"}
  BY <1>t, QuicTypes
<1>k. UNCHANGED <<ready, alive, ctl, restarting>> => Keepalive'
  BY <1>t DEF Keepalive
<1>1. CASE ChannelDial
  <2> DEFINE call == [kind |-> "control", open |-> TRUE, at |-> "incoming"]
  <2>1. PICK x \in Fresh(1) : /\ qConn' = [qConn EXCEPT ![x] = call]
                              /\ client' = [pc |-> "wait", conn |-> x]
    BY <1>1 DEF ChannelDial
  <2>2. x \in Conns /\ qConn[x] = FreeConn
    BY <1>1, FreshOne DEF ChannelDial, FreeConns
  <2>3. call \in ConnType /\ call.at = "incoming" /\ FreeConn.at = "none"
    BY DEF ConnType, Places, FreeConn
  <2> HIDE DEF call
  <2>4. qConn' \in [Conns -> ConnType] /\ Leaves({x}) /\ qConn'[x] = call
    BY <1>u, <2>1, <2>2, <2>3, OneLeaves
  <2>5. /\ UNCHANGED <<tunnelChan, session, ctl, ready, alive, restarting, pooling, streams,
                       handling, locals, reqs, asked, qFaults>>
        /\ client.pc = "dial" /\ client'.pc = "wait" /\ client'.conn = x
        /\ client' \in [pc : {"dial", "wait", "up"}, conn : Conns \cup {None}]
    BY <1>1, <2>1, <2>2 DEF ChannelDial
  <2>6. \A c \in Conns, p \in Used : qConn'[c].at = p <=> qConn[c].at = p
    BY <2>2, <2>3, <2>4 DEF Leaves, Used
  <2>7. QuicTypeOK'
    BY <1>t, <2>4, <2>5 DEF QuicTypeOK, ConnType
  <2>8. Queue' /\ Roles'
    BY <1>t, <2>5, <2>6, QueueStays, RolesStay DEF Used
  <2>9. OneCall'
    <3>1. ASSUME NEW c \in Conns, Calls(qConn'[c]) PROVE c = x
      BY <1>t, <2>4, <2>5, <3>1 DEF Leaves, OneCall
    <3> QED
      BY <2>3, <2>4, <2>5, <3>1 DEF OneCall
  <2> QED
    BY <1>k, <2>5, <2>7, <2>8, <2>9 DEF QuicInv
<1>2. CASE ChannelUp
  <2>1. /\ UNCHANGED <<qConn, tunnelChan, session, ctl, ready, alive, restarting>>
        /\ client.pc = "wait" /\ qConn[client.conn].at = "control"
        /\ client' = [client EXCEPT !.pc = "up"]
    BY <1>2 DEF ChannelUp
  <2>2. QuicTypeOK'
    BY <1>2, <1>t DEF ChannelUp, QuicTypeOK
  <2>3. Queue' /\ Roles'
    BY <1>t, <2>1 DEF Queue, Roles
  <2>4. OneCall'
    BY <1>t, <2>1 DEF OneCall, Calls
  <2> QED
    BY <1>k, <2>1, <2>2, <2>3, <2>4 DEF QuicInv
<1>3. CASE ChannelGivesUp
  <2> DEFINE f == Shut(client.conn)
  <2>1. /\ UNCHANGED <<tunnelChan, session, ctl, ready, alive, restarting>>
        /\ qConn' = Settle(f, None) /\ client' = [pc |-> "dial", conn |-> None]
    BY <1>3 DEF ChannelGivesUp
  <2>2. /\ f \in [Conns -> ConnType]
        /\ \A c \in Conns : f[c].at = qConn[c].at
        /\ \A c \in Conns \ {client.conn} : f[c] = qConn[c]
    BY <1>u DEF Shut, ConnType
  <2>3. client.conn \in Conns => ~Calls(f[client.conn])
    BY <1>u DEF Shut, ConnType, Calls
  <2> HIDE DEF f
  <2>4. /\ qConn' \in [Conns -> ConnType]
        /\ \A c \in Conns : /\ f[c].at \in Used => qConn'[c] = f[c]
                            /\ qConn'[c].at \in Used => qConn'[c] = f[c]
                            /\ Calls(qConn'[c]) => Calls(f[c]) /\ qConn'[c].at = f[c].at
    BY <2>1, <2>2, SettleLeaves
  <2>5. \A c \in Conns, p \in Used : qConn'[c].at = p <=> qConn[c].at = p
    BY <2>2, <2>4
  <2>6. QuicTypeOK'
    <3>1. client' \in [pc : {"dial", "wait", "up"}, conn : Conns \cup {None}]
      BY <2>1
    <3>2. qFaults' \in 0..MaxQuicFaults
      BY <1>3, <1>t, QuicAssumption DEF ChannelGivesUp, QuicTypeOK
    <3>3. UNCHANGED <<pooling, ctl, ready, alive, streams, restarting, handling, tunnelChan,
                      session, locals, reqs, asked>>
      BY <1>3 DEF ChannelGivesUp
    <3> QED
      BY <1>t, <2>4, <3>1, <3>2, <3>3 DEF QuicTypeOK, ConnType
  <2>7. Queue' /\ Roles'
    BY <1>t, <2>1, <2>5, QueueStays, RolesStay DEF Used
  <2>8. ASSUME NEW c \in Conns, Calls(qConn'[c]) PROVE FALSE
    <3>1. Calls(f[c]) /\ c # client.conn
      BY <2>3, <2>4, <2>8
    <3> QED
      BY <1>t, <2>2, <3>1 DEF OneCall
  <2>9. OneCall'
    BY <2>8 DEF OneCall
  <2> QED
    BY <1>k, <2>1, <2>6, <2>7, <2>9 DEF QuicInv
<1>4. CASE ClientPing
  <2>1. UNCHANGED <<qConn, client, tunnelChan, session, ctl, ready, alive, restarting>>
    BY <1>4 DEF ClientPing
  <2>2. QuicTypeOK'
    BY <1>4, <1>t, QuicAssumption DEF ClientPing, QuicTypeOK
  <2>3. Queue' /\ Roles' /\ OneCall'
    BY <1>t, <2>1 DEF Queue, Roles, OneCall
  <2> QED
    BY <1>k, <2>1, <2>2, <2>3 DEF QuicInv
<1>5. CASE ClientTimeout
  <2>1. /\ UNCHANGED <<tunnelChan, session, ctl, ready, alive, restarting>>
        /\ client.pc = "up" /\ qConn' = Settle(qConn, None)
        /\ client' = [pc |-> "dial", conn |-> None]
    BY <1>5 DEF ClientTimeout
  <2>2. qConn' \in [Conns -> ConnType] /\ Leaves({})
    BY <1>u, <2>1, SettleLeaves
  <2>3. QuicTypeOK'
    <3>1. client' \in [pc : {"dial", "wait", "up"}, conn : Conns \cup {None}]
      BY <2>1
    <3>2. qFaults' \in 0..MaxQuicFaults /\ asked' \in 0..MaxUnderWay
      BY <1>5, <1>t, QuicAssumption DEF ClientTimeout, QuicTypeOK
    <3>3. UNCHANGED <<pooling, ctl, ready, alive, streams, restarting, handling, tunnelChan,
                      session, locals, reqs>>
      BY <1>5 DEF ClientTimeout
    <3> QED
      BY <1>t, <2>2, <3>1, <3>2, <3>3 DEF QuicTypeOK, ConnType
  <2>4. \A c \in Conns, p \in Used : qConn'[c].at = p <=> qConn[c].at = p
    BY <2>2 DEF Leaves
  <2>5. Queue' /\ Roles'
    BY <1>t, <2>1, <2>4, QueueStays, RolesStay DEF Used
  <2>6. OneCall'
    BY <1>t, <2>1, <2>2 DEF OneCall, Leaves
  <2> QED
    BY <1>k, <2>1, <2>3, <2>5, <2>6 DEF QuicInv
<1> QED
  BY <1>1, <1>2, <1>3, <1>4, <1>5

\* New tunnels are not calls.
LEMMA TunnelStep ==
    ASSUME QuicInv, PoolChecker \/ TunnelDial
    PROVE  QuicInv'
<1> USE DEF controlVars, data, requests
<1>t. QuicTypeOK /\ Queue /\ Roles /\ Keepalive /\ OneCall
  BY DEF QuicInv
<1>u. qConn \in [Conns -> ConnType]
  BY <1>t, QuicTypes
<1>1. /\ UNCHANGED <<client, pooling, ctl, ready, alive, streams, restarting, handling, tunnelChan,
                     session, locals, reqs, qFaults>>
      /\ asked' \in 0..MaxUnderWay
  BY <1>t, QuicAssumption DEF PoolChecker, TunnelDial, QuicTypeOK
<1>2. PICK n : NewTunnels(n) /\ Fresh(n) \subseteq FreeConns
  <2>1. CASE PoolChecker
    <3>1. IsFiniteSet(Active)
      BY FS_Subset, QuicAssumption DEF Active
    <3>2. Cardinality(Active) \in Nat
      BY <3>1, FS_CardinalityType
    <3>3. PICK a \in Nat : a = Cardinality(Active)
      BY <3>2
    <3>4. PICK m \in Nat : m = ConnectionPool - a
      <4>1. a < ConnectionPool \div 2
        BY <2>1, <3>3 DEF PoolChecker
      <4>2. ConnectionPool \div 2 <= ConnectionPool /\ ConnectionPool \div 2 \in Nat
        BY QuicAssumption
      <4>3. a <= ConnectionPool
        BY <4>1, <4>2, QuicAssumption
      <4> QED
        BY <4>3, QuicAssumption
    <3>5. NewTunnels(m) /\ Cardinality(FreeConns) >= m
      BY <2>1, <3>3, <3>4 DEF PoolChecker
    <3>6. IsFiniteSet(FreeConns)
      BY FS_Subset, QuicAssumption DEF FreeConns
    <3>7. m <= Cardinality(FreeConns)
      BY <3>5, <3>6, FS_CardinalityType
    <3> QED
      BY <3>5, <3>7, FreshFree
  <2>2. CASE TunnelDial
    BY <2>2, FreshOne DEF TunnelDial
  <2> QED
    BY <2>1, <2>2
<1> DEFINE tunnel == [kind |-> "tunnel", open |-> TRUE, at |-> "incoming"]
<1>3. tunnel \in ConnType /\ tunnel.at \notin Used /\ ~Calls(tunnel) /\ FreeConn.at \notin Used
  BY DEF ConnType, Places, Used, Calls, FreeConn
<1>4. qConn' = [c \in Conns |-> IF c \in Fresh(n) THEN tunnel ELSE qConn[c]]
  BY <1>2 DEF NewTunnels
<1> HIDE DEF tunnel
<1>5. qConn' \in [Conns -> ConnType]
  BY <1>3, <1>4, <1>u
<1>6. \A c \in Conns : c \in Fresh(n) => qConn[c] = FreeConn
  BY <1>2 DEF FreeConns
<1>7. Leaves({})
  BY <1>3, <1>4, <1>6 DEF Leaves
<1>8. QuicTypeOK'
  BY <1>1, <1>5, <1>t DEF QuicTypeOK, ConnType
<1>9. Queue' /\ Roles' /\ OneCall'
  BY <1>1, <1>7, <1>t, AllStay
<1>10. Keepalive'
  BY <1>1, <1>t DEF Keepalive
<1> QED
  BY <1>8, <1>9, <1>10 DEF QuicInv

\* acceptTunCon.
LEMMA AcceptStep ==
    ASSUME QuicInv, NEW x \in Conns, AcceptTunCon(x)
    PROVE  QuicInv'
<1> USE DEF controlVars, data, requests
<1>t. QuicTypeOK /\ Queue /\ Roles /\ Keepalive /\ OneCall
  BY DEF QuicInv
<1>u. /\ qConn \in [Conns -> ConnType]
      /\ tunnelChan \in Seq(Conns) /\ Len(tunnelChan) \in Nat
  BY <1>t, QuicTypes
<1>1. /\ UNCHANGED <<client, pooling, ctl, ready, alive, streams, restarting, handling, session,
                     locals, reqs, asked, qFaults>>
      /\ qConn[x].at = "incoming" /\ ~restarting
  BY DEF AcceptTunCon
<1>2. PICK p \in {"handshake", "queued", "refused"} :
         /\ qConn' = [qConn EXCEPT ![x] = [qConn[x] EXCEPT !.at = p]]
         /\ p = "handshake" => ctl = None
         /\ p = "queued" => /\ tunnelChan' = Append(tunnelChan, x)
                            /\ Len(tunnelChan) < ChannelSize
         /\ p # "queued" => tunnelChan' = tunnelChan
  <2>1. \A q : [qConn EXCEPT ![x].at = q] = [qConn EXCEPT ![x] = [qConn[x] EXCEPT !.at = q]]
    BY <1>u
  <2>2. \/ /\ ctl = None /\ qConn' = [qConn EXCEPT ![x].at = "handshake"]
           /\ tunnelChan' = tunnelChan
        \/ /\ Len(tunnelChan) < ChannelSize /\ qConn' = [qConn EXCEPT ![x].at = "queued"]
           /\ tunnelChan' = Append(tunnelChan, x)
        \/ qConn' = [qConn EXCEPT ![x].at = "refused"] /\ tunnelChan' = tunnelChan
    BY Zenon DEF AcceptTunCon
  <2> QED
    BY <2>1, <2>2
<1> DEFINE r == [qConn[x] EXCEPT !.at = p]
<1>3. r \in ConnType /\ r.at = p /\ (Calls(r) => Calls(qConn[x]) /\ p = "handshake")
  BY <1>1, <1>u DEF ConnType, Places, Calls
<1> HIDE DEF r
<1>4. qConn' \in [Conns -> ConnType] /\ Leaves({x}) /\ qConn'[x] = r
  BY <1>2, <1>3, <1>u, OneLeaves DEF r
<1>5. QuicTypeOK'
  <2>1. tunnelChan' \in Seq(Conns) /\ Len(tunnelChan') <= ChannelSize
    <3>1. Len(tunnelChan) <= ChannelSize /\ ChannelSize \in Nat
      BY <1>t, QuicAssumption DEF QuicTypeOK
    <3>2. CASE p = "queued"
      BY <1>2, <1>u, <3>1, <3>2
    <3>3. CASE p # "queued"
      BY <1>2, <1>u, <3>1, <3>3
    <3> QED
      BY <3>2, <3>3
  <2> QED
    BY <1>1, <1>4, <1>t, <2>1 DEF QuicTypeOK, ConnType
<1>6. Queue'
  <2>1. CASE p = "queued"
    <3>1. PICK n \in Nat : n = Len(tunnelChan)
      BY <1>u
    <3>2. /\ Len(tunnelChan') = n + 1 /\ tunnelChan'[n + 1] = x
          /\ \A i \in 1..n : tunnelChan'[i] = tunnelChan[i]
          /\ DOMAIN tunnelChan = 1..n /\ DOMAIN tunnelChan' = 1..(n + 1)
          /\ \A i \in 1..(n + 1) : i \in 1..n \/ i = n + 1
      BY <1>2, <1>u, <2>1, <3>1
    <3>3. \A i \in 1..n : tunnelChan[i] # x
      BY <1>1, <1>t, <3>2 DEF Queue
    <3>4. ASSUME NEW c \in Conns
          PROVE  qConn'[c].at = "queued" <=> \E i \in 1..(n + 1) : tunnelChan'[i] = c
      <4>1. CASE c = x
        <5>1. n + 1 \in 1..(n + 1)
          OBVIOUS
        <5> QED
          BY <1>3, <1>4, <2>1, <3>2, <4>1, <5>1
      <4>2. CASE c # x
        <5>1. qConn'[c].at = "queued" <=> qConn[c].at = "queued"
          BY <1>4, <4>2 DEF Leaves, Used
        <5>2. qConn[c].at = "queued" <=> \E i \in 1..n : tunnelChan[i] = c
          BY <1>t, <3>2 DEF Queue
        <5>3. \A i \in 1..n : i \in 1..(n + 1)
          OBVIOUS
        <5> QED
          BY <3>2, <4>2, <5>1, <5>2, <5>3
      <4> QED
        BY <4>1, <4>2
    <3>5. \A i, j \in 1..(n + 1) : tunnelChan'[i] = tunnelChan'[j] => i = j
      BY <1>t, <3>1, <3>2, <3>3 DEF Queue
    <3> QED
      BY <3>2, <3>4, <3>5 DEF Queue
  <2>2. CASE p # "queued"
    <3>1. \A c \in Conns : qConn'[c].at = "queued" <=> qConn[c].at = "queued"
      BY <1>1, <1>3, <1>4, <2>2 DEF Leaves, Used
    <3> QED
      BY <1>2, <1>t, <2>2, <3>1, QueueStays
  <2> QED
    BY <2>1, <2>2
<1>7. Roles'
  <2>1. \A c \in Conns : /\ qConn'[c].at = "session" <=> qConn[c].at = "session"
                         /\ qConn'[c].at = "control" <=> qConn[c].at = "control"
    BY <1>1, <1>3, <1>4 DEF Leaves, Used
  <2> QED
    BY <1>1, <1>t, <2>1, RolesStay
<1>8. OneCall'
  <2>1. ASSUME NEW c \in Conns, Calls(qConn'[c])
        PROVE  /\ client'.pc = "wait" /\ client'.conn = c
               /\ qConn'[c].at = "handshake" => ctl' = None
    <3>1. CASE c = x
      BY <1>1, <1>2, <1>3, <1>4, <1>t, <2>1, <3>1 DEF OneCall
    <3>2. CASE c # x
      BY <1>1, <1>4, <1>t, <2>1, <3>2 DEF OneCall, Leaves
    <3> QED
      BY <3>1, <3>2
  <2> QED
    BY <2>1 DEF OneCall
<1>9. Keepalive'
  BY <1>1, <1>t DEF Keepalive
<1> QED
  BY <1>5, <1>6, <1>7, <1>8, <1>9 DEF QuicInv

\* A connection that is in use by nobody else any more is closed and settled.
LEMMA DiscardLeaves ==
    ASSUME QuicTypeOK, NEW x \in Conns, qConn' = Discard(x)
    PROVE  /\ qConn' \in [Conns -> ConnType] /\ Leaves({x})
           /\ qConn'[x].at \notin Used /\ ~Calls(qConn'[x])
<1> DEFINE r == [qConn[x] EXCEPT !.open = FALSE, !.at = "refused"]
           f == [qConn EXCEPT ![x] = r]
<1>1. qConn \in [Conns -> ConnType] /\ qConn' = Settle(f, client.conn)
  BY QuicTypes DEF Discard
<1>2. r \in ConnType /\ r.at \notin Used /\ ~Calls(r)
  BY <1>1 DEF ConnType, Places, Used, Calls
<1> HIDE DEF r
<1>3. /\ f \in [Conns -> ConnType] /\ f[x] = r
      /\ \A c \in Conns \ {x} : f[c] = qConn[c]
  BY <1>1, <1>2
<1> HIDE DEF f
<1>4. /\ qConn' \in [Conns -> ConnType] /\ Leaves({x})
      /\ qConn'[x].at \in Used => qConn'[x] = f[x]
      /\ Calls(qConn'[x]) => Calls(f[x])
  BY <1>1, <1>3, SettleLeaves
<1> QED
  BY <1>2, <1>3, <1>4

\* channelHandshake: there is no control channel yet, and no other call.
LEMMA QuicHandshakeStep ==
    ASSUME QuicInv, QuicHandshakeOk \/ HandshakeFails
    PROVE  QuicInv'
<1> USE DEF controlVars, data, requests
<1>t. QuicTypeOK /\ Queue /\ Roles /\ Keepalive /\ OneCall
  BY DEF QuicInv
<1>u. qConn \in [Conns -> ConnType]
  BY <1>t, QuicTypes
<1>1. CASE QuicHandshakeOk
  <2>1. PICK x \in Conns :
           /\ qConn[x].at = "handshake" /\ qConn[x].kind = "control" /\ qConn[x].open
           /\ qConn' = [qConn EXCEPT ![x].at = "control"] /\ ctl' = x
    BY <1>1 DEF QuicHandshakeOk
  <2>2. Calls(qConn[x])
    BY <2>1 DEF Calls
  <2>3. client.conn = x /\ ctl = None /\ x # None
    BY <1>t, <2>1, <2>2, QuicAssumption DEF OneCall
  <2>4. ~restarting
    BY <1>t, <2>3 DEF Keepalive
  <2>5. /\ UNCHANGED <<client, pooling, restarting, tunnelChan, session, locals, reqs, asked,
                       qFaults>>
        /\ alive' = "first" /\ streams' = 0
    BY <1>1 DEF QuicHandshakeOk
  <2>6. ready' = TRUE /\ handling' = TRUE
    BY <1>1 DEF QuicHandshakeOk
  <2> DEFINE r == [qConn[x] EXCEPT !.at = "control"]
  <2>7. r \in ConnType /\ r.at = "control" /\ ~Calls(r) /\ qConn' = [qConn EXCEPT ![x] = r]
    BY <1>u, <2>1 DEF ConnType, Places, Calls
  <2> HIDE DEF r
  <2>8. qConn' \in [Conns -> ConnType] /\ Leaves({x}) /\ qConn'[x] = r
    BY <1>u, <2>7, OneLeaves
  <2>9. QuicTypeOK'
    <3>1. ready' \in BOOLEAN /\ handling' \in BOOLEAN
      BY <2>6, Zenon
    <3>2. streams' \in 0..MaxUnderWay /\ ctl' \in Conns \cup {None}
      BY <2>1, <2>5, QuicAssumption
    <3> QED
      BY <1>t, <2>5, <2>8, <3>1, <3>2 DEF QuicTypeOK, ConnType
  <2>10. \A c \in Conns : qConn'[c].at = "queued" <=> qConn[c].at = "queued"
    BY <2>1, <2>7, <2>8 DEF Leaves, Used
  <2>11. Queue'
    BY <1>t, <2>5, <2>10, QueueStays
  <2>12. Roles'
    <3>1. ASSUME NEW c \in Conns
          PROVE  /\ qConn'[c].at = "session" <=> session.conn = c
                 /\ qConn'[c].at = "control" <=> x = c
      <4>1. /\ qConn[c].at = "session" <=> session.conn = c
            /\ qConn[c].at # "control"
        BY <1>t, <2>3, QuicAssumption DEF Roles
      <4>2. CASE c = x
        BY <2>1, <2>7, <2>8, <4>1, <4>2
      <4>3. CASE c # x
        BY <2>8, <4>1, <4>3 DEF Leaves, Used
      <4> QED
        BY <4>2, <4>3
    <3> QED
      BY <2>1, <2>5, <3>1 DEF Roles
  <2>13. OneCall'
    <3>1. ASSUME NEW c \in Conns, Calls(qConn'[c]) PROVE FALSE
      <4>1. c # x
        BY <2>7, <2>8, <3>1
      <4>2. client.conn = c
        BY <1>t, <2>8, <3>1, <4>1 DEF Leaves, OneCall
      <4> QED
        BY <2>3, <4>1, <4>2
    <3> QED
      BY <3>1 DEF OneCall
  <2>14. Keepalive'
    BY <2>1, <2>3, <2>4, <2>5, <2>6 DEF Keepalive
  <2> QED
    BY <2>9, <2>11, <2>12, <2>13, <2>14 DEF QuicInv
<1>2. CASE HandshakeFails
  <2>1. PICK x \in Conns : qConn[x].at = "handshake" /\ ~qConn[x].open /\ qConn' = Discard(x)
    BY <1>2 DEF HandshakeFails
  <2>2. UNCHANGED <<client, pooling, ctl, ready, alive, streams, restarting, handling, tunnelChan,
                    session, locals, reqs, asked, qFaults>>
    BY <1>2 DEF HandshakeFails
  <2>3. /\ qConn' \in [Conns -> ConnType] /\ Leaves({x})
        /\ qConn'[x].at \notin Used /\ ~Calls(qConn'[x])
    BY <1>t, <2>1, DiscardLeaves
  <2>4. QuicTypeOK'
    BY <1>t, <2>2, <2>3 DEF QuicTypeOK, ConnType
  <2>5. \A c \in Conns : /\ qConn'[c].at = "queued" <=> qConn[c].at = "queued"
                         /\ qConn'[c].at = "session" <=> qConn[c].at = "session"
                         /\ qConn'[c].at = "control" <=> qConn[c].at = "control"
                         /\ Calls(qConn'[c]) => Calls(qConn[c]) /\ qConn'[c].at = qConn[c].at
    BY <2>1, <2>3 DEF Leaves, Used
  <2>6. Queue' /\ Roles' /\ OneCall'
    BY <1>t, <2>2, <2>5, QueueStays, RolesStay, CallStays
  <2>7. Keepalive'
    BY <1>t, <2>2 DEF Keepalive
  <2> QED
    BY <2>4, <2>6, <2>7 DEF QuicInv
<1> QED
  BY <1>1, <1>2

\* The control channel is given up: it is settled as refused.
LEMMA ControlGone ==
    ASSUME QuicTypeOK, Queue, Roles, OneCall, ctl' = None, client' = client,
           UNCHANGED tunnelChan, session'.conn = session.conn,
           qConn' = Settle([qConn EXCEPT ![ctl].at = "refused"], client.conn)
    PROVE  qConn' \in [Conns -> ConnType] /\ Queue' /\ Roles' /\ OneCall'
<1> DEFINE f == [qConn EXCEPT ![ctl].at = "refused"]
<1>1. qConn \in [Conns -> ConnType] /\ ctl \in Conns \cup {None}
  BY QuicTypes
<1>2. /\ f \in [Conns -> ConnType]
      /\ \A c \in Conns \ {ctl} : f[c] = qConn[c]
      /\ ctl \in Conns => f[ctl].at = "refused"
  BY <1>1 DEF ConnType, Places
<1> HIDE DEF f
<1>3. /\ qConn' \in [Conns -> ConnType] /\ Leaves({ctl})
      /\ \A c \in Conns : /\ qConn'[c].at \in Used => qConn'[c] = f[c]
                          /\ Calls(qConn'[c]) => Calls(f[c]) /\ qConn'[c].at = f[c].at
  BY <1>2, SettleLeaves DEF f
<1>4. \A c \in Conns : c = ctl => /\ qConn[c].at = "control" /\ qConn'[c].at \notin Used
                                  /\ ~Calls(qConn'[c])
  BY <1>2, <1>3 DEF Roles, Used, Calls
<1>5. ASSUME NEW c \in Conns
      PROVE  /\ qConn'[c].at = "queued" <=> qConn[c].at = "queued"
             /\ qConn'[c].at = "session" <=> qConn[c].at = "session"
             /\ qConn'[c].at # "control"
             /\ Calls(qConn'[c]) => Calls(qConn[c]) /\ qConn'[c].at = qConn[c].at
  <2>1. CASE c = ctl
    BY <1>4, <2>1 DEF Used
  <2>2. CASE c # ctl
    BY <1>3, <2>2 DEF Leaves, Used, Roles
  <2> QED
    BY <2>1, <2>2
<1>6. Queue'
  BY <1>5, QueueStays
<1>7. Roles'
  <2>1. \A c \in Conns : c # None
    BY QuicAssumption
  <2>2. \A c \in Conns : qConn'[c].at = "session" <=> session'.conn = c
    BY <1>5 DEF Roles
  <2>3. \A c \in Conns : qConn'[c].at = "control" <=> ctl' = c
    BY <1>5, <2>1
  <2> QED
    BY <2>2, <2>3 DEF Roles
<1>8. OneCall'
  BY <1>5 DEF OneCall
<1> QED
  BY <1>3, <1>6, <1>7, <1>8

\* The steps that change no connection, tunnelChan or control channel.
LEMMA QuicQuietStep ==
    ASSUME QuicInv,
           AcceptStream \/ PingTick \/ SendRequest \/ EnqueueInbound \/ OpenStreamFails
    PROVE  QuicInv'
<1> USE DEF controlVars, data, requests
<1>t. QuicTypeOK /\ Queue /\ Roles /\ Keepalive /\ OneCall
  BY DEF QuicInv
<1>s. session \in [conn : Conns \cup {None}, streams : 0..MuxCon, held : BOOLEAN]
  BY <1>t DEF QuicTypeOK
<1>1. /\ UNCHANGED <<qConn, client, tunnelChan, ctl, pooling, handling, qFaults>>
      /\ alive' \in {"none", "first", "loop", "accept"}
      /\ alive' # "none" <=> alive # "none"
  BY <1>t DEF AcceptStream, PingTick, SendRequest, EnqueueInbound,
              OpenStreamFails, QuicTypeOK
<1>2. UNCHANGED <<ready, restarting>>
  BY Zenon DEF AcceptStream, PingTick, SendRequest, EnqueueInbound, OpenStreamFails
<1>3. UNCHANGED session \/ session' = [session EXCEPT !.held = TRUE]
  BY DEF AcceptStream, PingTick, SendRequest, EnqueueInbound, OpenStreamFails
<1>4. /\ session' \in [conn : Conns \cup {None}, streams : 0..MuxCon, held : BOOLEAN]
      /\ session'.conn = session.conn
  BY <1>s, <1>3
<1>5. /\ streams' \in 0..MaxUnderWay /\ locals' \in 0..ChannelSize
      /\ reqs' \in 0..ChannelSize /\ asked' \in 0..MaxUnderWay
  <2>1. /\ streams \in 0..MaxUnderWay /\ locals \in 0..ChannelSize /\ reqs \in 0..ChannelSize
        /\ asked \in 0..MaxUnderWay /\ MaxUnderWay \in Nat /\ ChannelSize \in Nat
    BY <1>t, QuicAssumption DEF QuicTypeOK
  <2>2. streams' = streams \/ (streams > 0 /\ streams' = streams - 1)
    BY DEF AcceptStream, PingTick, SendRequest, EnqueueInbound, OpenStreamFails
  <2>3. \/ locals' = locals \/ (locals < ChannelSize /\ locals' = locals + 1)
        \/ locals > 0 /\ locals' = locals - 1
    BY DEF AcceptStream, PingTick, SendRequest, EnqueueInbound, OpenStreamFails
  <2>4. reqs' = reqs \/ (reqs > 0 /\ reqs' = reqs - 1)
    BY DEF AcceptStream, PingTick, SendRequest, EnqueueInbound, OpenStreamFails
  <2>5. asked' = asked \/ (asked < MaxUnderWay /\ asked' = asked + 1)
    BY DEF AcceptStream, PingTick, SendRequest, EnqueueInbound, OpenStreamFails
  <2> QED
    BY <2>1, <2>2, <2>3, <2>4, <2>5
<1>6. QuicTypeOK'
  <2>1. ready' \in BOOLEAN /\ restarting' \in BOOLEAN
    BY <1>2, <1>t, Zenon DEF QuicTypeOK
  <2> QED
    BY <1>1, <1>4, <1>5, <1>t, <2>1 DEF QuicTypeOK
<1>7. Queue' /\ Roles' /\ OneCall'
  BY <1>1, <1>4, <1>t DEF Queue, Roles, OneCall
<1>8. Keepalive'
  BY <1>1, <1>2, <1>t DEF Keepalive
<1> QED
  BY <1>6, <1>7, <1>8 DEF QuicInv

\* The control channel is given up after 300 s, or by Restart.
LEMMA GoneStep ==
    ASSUME QuicInv, KeepaliveEnds \/ Restarted
    PROVE  QuicInv'
<1> USE DEF controlVars, data, requests
<1>t. QuicTypeOK /\ Queue /\ Roles /\ Keepalive /\ OneCall
  BY DEF QuicInv
<1>1. /\ UNCHANGED <<client, pooling, streams, handling, tunnelChan, session>>
      /\ qConn' = Settle([qConn EXCEPT ![ctl].at = "refused"], client.conn)
      /\ ctl' = None
  BY DEF KeepaliveEnds, Restarted
<1>2. qConn' \in [Conns -> ConnType] /\ Queue' /\ Roles' /\ OneCall'
  BY <1>1, <1>t, ControlGone
<1>3. /\ locals' \in 0..ChannelSize /\ reqs' \in 0..ChannelSize /\ asked' \in 0..MaxUnderWay
      /\ qFaults' \in 0..MaxQuicFaults
  BY <1>t, QuicAssumption DEF KeepaliveEnds, Restarted, QuicTypeOK
<1>4. alive' = "none" /\ ready' = FALSE /\ restarting' = FALSE
  <2>1. CASE KeepaliveEnds
    <3>1. alive = "loop" /\ alive' = "none" /\ ready' = FALSE /\ restarting' = restarting
      BY <2>1 DEF KeepaliveEnds
    <3>2. restarting = FALSE
      BY <1>t, <3>1, Zenon DEF Keepalive, QuicTypeOK
    <3> QED
      BY <3>1, <3>2, Zenon
  <2>2. CASE Restarted
    BY <1>t, <2>2 DEF Restarted, Keepalive
  <2> QED
    BY <2>1, <2>2
<1>5. QuicTypeOK'
  <2>1. ready' \in BOOLEAN /\ restarting' \in BOOLEAN
    BY <1>4, Zenon
  <2> QED
    BY <1>1, <1>2, <1>3, <1>4, <1>t, <2>1 DEF QuicTypeOK, ConnType
<1>6. Keepalive'
  BY <1>4 DEF Keepalive
<1> QED
  BY <1>2, <1>5, <1>6 DEF QuicInv

\* A broken control connection: Restart closes every connection of the server.
LEMMA AcceptFailsStep ==
    ASSUME QuicInv, AcceptStreamFails
    PROVE  QuicInv'
<1> USE DEF controlVars, data, requests
<1>t. QuicTypeOK /\ Queue /\ Roles /\ Keepalive /\ OneCall
  BY DEF QuicInv
<1>u. qConn \in [Conns -> ConnType] /\ ctl \in Conns \cup {None}
  BY <1>t, QuicTypes
<1> DEFINE at(c) == CASE c = ctl -> "control" [] qConn[c] = FreeConn -> "none" [] OTHER -> "refused"
           f == [c \in Conns |-> [kind |-> qConn[c].kind, open |-> FALSE, at |-> at(c)]]
<1>1. /\ qConn' = Settle(f, client.conn)
      /\ UNCHANGED <<client, pooling, ctl, streams, locals, reqs, asked, qFaults>>
      /\ tunnelChan' = <<>> /\ session' = Idle /\ alive \in {"first", "accept"} /\ alive' = "none"
  BY DEF AcceptStreamFails
<1>2. ready' = FALSE /\ restarting' = TRUE /\ handling' = FALSE
  BY DEF AcceptStreamFails
<1>3. \A c \in Conns : /\ at(c) \in {"control", "none", "refused"}
                       /\ at(c) = "control" <=> ctl = c
  <2>1. ASSUME NEW c \in Conns
        PROVE  /\ at(c) \in {"control", "none", "refused"}
               /\ at(c) = "control" <=> ctl = c
    <3>1. CASE c = ctl
      <4>1. qConn[c] # FreeConn
        BY <1>t, <3>1 DEF Roles, FreeConn
      <4>2. at(c) = "control"
        BY <3>1, <4>1
      <4> QED
        BY <3>1, <4>2
    <3>2. CASE c # ctl /\ qConn[c] = FreeConn
      <4>1. at(c) = "none"
        BY <3>2
      <4> QED
        BY <3>2, <4>1
    <3>3. CASE c # ctl /\ qConn[c] # FreeConn
      <4>1. at(c) = "refused"
        BY <3>3
      <4> QED
        BY <3>3, <4>1
    <3> QED
      BY <3>1, <3>2, <3>3
  <2> QED
    BY <2>1
<1> HIDE DEF at
<1>4. /\ f \in [Conns -> ConnType]
      /\ \A c \in Conns : ~Calls(f[c]) /\ f[c].at = at(c)
  BY <1>3, <1>u DEF ConnType, Places, Calls
<1> HIDE DEF f
<1>5. /\ qConn' \in [Conns -> ConnType]
      /\ \A c \in Conns : /\ f[c].at \in Used => qConn'[c] = f[c]
                          /\ qConn'[c].at \in Used => qConn'[c] = f[c]
                          /\ Calls(qConn'[c]) => Calls(f[c])
  <2>1. \A c \in Conns \ Conns : f[c] = qConn[c]
    OBVIOUS
  <2> QED
    BY <1>1, <1>4, <2>1, SettleLeaves
<1>6. ASSUME NEW c \in Conns
      PROVE  /\ qConn'[c].at # "queued" /\ qConn'[c].at # "session" /\ ~Calls(qConn'[c])
             /\ qConn'[c].at = "control" <=> ctl = c
  BY <1>3, <1>4, <1>5 DEF Used
<1>7. Queue'
  BY <1>1, <1>6 DEF Queue
<1>8. Roles'
  <2>1. \A c \in Conns : c # None
    BY QuicAssumption
  <2> QED
    BY <1>1, <1>6, <2>1 DEF Roles, Idle
<1>9. OneCall'
  BY <1>6 DEF OneCall
<1>10. Keepalive'
  <2>1. ctl # None
    BY <1>1, <1>t DEF Keepalive
  <2> QED
    BY <1>1, <1>2, <2>1 DEF Keepalive
<1>11. QuicTypeOK'
  <2>1. ready' \in BOOLEAN /\ restarting' \in BOOLEAN /\ handling' \in BOOLEAN
    BY <1>2, Zenon
  <2>2. session' \in [conn : Conns \cup {None}, streams : 0..MuxCon, held : BOOLEAN]
    BY <1>1, QuicAssumption DEF Idle
  <2>3. tunnelChan' \in Seq(Conns) /\ Len(tunnelChan') <= ChannelSize
    BY <1>1, QuicAssumption
  <2> QED
    BY <1>1, <1>5, <1>t, <2>1, <2>2, <2>3 DEF QuicTypeOK, ConnType
<1> QED
  BY <1>7, <1>8, <1>9, <1>10, <1>11 DEF QuicInv

\* handleTunConn takes the oldest connection of tunnelChan.
LEMMA NextSessionStep ==
    ASSUME QuicInv, NextSession
    PROVE  QuicInv'
<1> USE DEF controlVars, data, requests
<1>t. QuicTypeOK /\ Queue /\ Roles /\ Keepalive /\ OneCall
  BY DEF QuicInv
<1>u. /\ qConn \in [Conns -> ConnType]
      /\ tunnelChan \in Seq(Conns) /\ Len(tunnelChan) \in Nat
  BY <1>t, QuicTypes
<1>1. /\ UNCHANGED <<client, pooling, ctl, ready, alive, streams, restarting, handling, locals,
                     reqs, asked, qFaults>>
      /\ session.conn = None /\ tunnelChan # <<>>
      /\ session' = [Idle EXCEPT !.conn = Head(tunnelChan)]
      /\ tunnelChan' = Tail(tunnelChan)
      /\ qConn' = [qConn EXCEPT ![Head(tunnelChan)].at = "session"]
  BY DEF NextSession
<1>2. PICK n \in Nat : n = Len(tunnelChan)
  BY <1>u
<1>3. PICK x \in Conns : x = Head(tunnelChan)
  BY <1>1, <1>u
<1>4. /\ n > 0 /\ tunnelChan[1] = x /\ tunnelChan' \in Seq(Conns) /\ Len(tunnelChan') = n - 1
      /\ \A i \in 1..(n - 1) : tunnelChan'[i] = tunnelChan[i + 1]
      /\ DOMAIN tunnelChan = 1..n /\ DOMAIN tunnelChan' = 1..(n - 1)
  BY <1>1, <1>2, <1>3, <1>u
<1>5. qConn[x].at = "queued"
  BY <1>4, <1>t DEF Queue
<1> DEFINE r == [qConn[x] EXCEPT !.at = "session"]
<1>6. r \in ConnType /\ r.at = "session" /\ ~Calls(r) /\ qConn' = [qConn EXCEPT ![x] = r]
  BY <1>1, <1>3, <1>u DEF ConnType, Places, Calls
<1> HIDE DEF r
<1>7. qConn' \in [Conns -> ConnType] /\ Leaves({x}) /\ qConn'[x] = r
  BY <1>6, <1>u, OneLeaves
<1>8. /\ session' \in [conn : Conns \cup {None}, streams : 0..MuxCon, held : BOOLEAN]
      /\ session'.conn = x
  <2>1. session' = [conn |-> x, streams |-> 0, held |-> FALSE]
    BY <1>1, <1>3 DEF Idle
  <2> QED
    BY <2>1, QuicAssumption
<1>9. QuicTypeOK'
  <2>1. Len(tunnelChan') <= ChannelSize
    BY <1>2, <1>4, <1>t, QuicAssumption DEF QuicTypeOK
  <2> QED
    BY <1>1, <1>4, <1>7, <1>8, <1>t, <2>1 DEF QuicTypeOK, ConnType
<1>10. Queue'
  <2>1. \A i, j \in 1..n : tunnelChan[i] = tunnelChan[j] => i = j
    BY <1>2, <1>t DEF Queue
  <2>2. ASSUME NEW c \in Conns
        PROVE  qConn'[c].at = "queued" <=> \E i \in 1..(n - 1) : tunnelChan'[i] = c
    <3>1. CASE c = x
      <4>1. ASSUME NEW i \in 1..(n - 1) PROVE tunnelChan'[i] # c
        BY <1>4, <2>1, <3>1
      <4> QED
        BY <1>6, <1>7, <3>1, <4>1
    <3>2. CASE c # x
      <4>1. qConn'[c].at = "queued" <=> qConn[c].at = "queued"
        BY <1>7, <3>2 DEF Leaves, Used
      <4>2. qConn[c].at = "queued" <=> \E i \in 1..n : tunnelChan[i] = c
        BY <1>4, <1>t DEF Queue
      <4>3. ASSUME NEW i \in 1..n, tunnelChan[i] = c
            PROVE  \E j \in 1..(n - 1) : tunnelChan'[j] = c
        <5>1. i - 1 \in 1..(n - 1)
          BY <1>4, <3>2, <4>3
        <5>2. tunnelChan'[i - 1] = tunnelChan[(i - 1) + 1] /\ (i - 1) + 1 = i
          BY <1>4, <5>1
        <5> QED
          BY <4>3, <5>1, <5>2
      <4>4. ASSUME NEW i \in 1..(n - 1), tunnelChan'[i] = c
            PROVE  \E j \in 1..n : tunnelChan[j] = c
        <5>1. i + 1 \in 1..n /\ tunnelChan[i + 1] = c
          BY <1>4, <4>4
        <5> QED
          BY <5>1
      <4> QED
        BY <4>1, <4>2, <4>3, <4>4
    <3> QED
      BY <3>1, <3>2
  <2>3. ASSUME NEW i \in 1..(n - 1), NEW j \in 1..(n - 1), tunnelChan'[i] = tunnelChan'[j]
        PROVE  i = j
    <3>1. i + 1 \in 1..n /\ j + 1 \in 1..n /\ tunnelChan[i + 1] = tunnelChan[j + 1]
      BY <1>4, <2>3
    <3>2. i + 1 = j + 1
      BY <2>1, <3>1
    <3> QED
      BY <3>2
  <2> QED
    BY <1>4, <2>2, <2>3 DEF Queue
<1>11. Roles'
  <2>1. ASSUME NEW c \in Conns
        PROVE  /\ qConn'[c].at = "session" <=> x = c
               /\ qConn'[c].at = "control" <=> ctl = c
    <3>1. qConn[c].at # "session" /\ (qConn[c].at = "control" <=> ctl = c)
      BY <1>1, <1>t, QuicAssumption DEF Roles
    <3>2. CASE c = x
      BY <1>5, <1>6, <1>7, <3>1, <3>2
    <3>3. CASE c # x
      BY <1>7, <3>1, <3>3 DEF Leaves, Used
    <3> QED
      BY <3>2, <3>3
  <2> QED
    BY <1>1, <1>8, <2>1 DEF Roles
<1>12. OneCall'
  <2>1. \A c \in Conns : Calls(qConn'[c]) => Calls(qConn[c]) /\ qConn'[c].at = qConn[c].at
    BY <1>6, <1>7 DEF Leaves
  <2> QED
    BY <1>1, <1>t, <2>1, CallStays
<1>13. Keepalive'
  BY <1>1, <1>t DEF Keepalive
<1> QED
  BY <1>9, <1>10, <1>11, <1>12, <1>13 DEF QuicInv

\* The session ends: its connection has no more use, and there is no session.
LEMMA SessionEnds ==
    ASSUME QuicTypeOK, Queue, Roles, OneCall, NEW x \in Conns, session.conn = x,
           Leaves({x}), qConn'[x].at \notin Used, ~Calls(qConn'[x]),
           UNCHANGED <<client, ctl, tunnelChan>>, session' = Idle
    PROVE  Queue' /\ Roles' /\ OneCall'
<1>1. qConn[x].at = "session"
  BY DEF Roles
<1>2. ASSUME NEW c \in Conns
      PROVE  /\ qConn'[c].at = "queued" <=> qConn[c].at = "queued"
             /\ qConn'[c].at # "session"
             /\ qConn'[c].at = "control" <=> qConn[c].at = "control"
             /\ Calls(qConn'[c]) => Calls(qConn[c]) /\ qConn'[c].at = qConn[c].at
  <2>1. CASE c = x
    BY <1>1, <2>1 DEF Used
  <2>2. CASE c # x
    BY <2>2 DEF Leaves, Used, Roles
  <2> QED
    BY <2>1, <2>2
<1>3. Queue' /\ OneCall'
  BY <1>2, QueueStays, CallStays
<1>4. Roles'
  <2>1. \A c \in Conns : c # None
    BY QuicAssumption
  <2> QED
    BY <1>2, <2>1 DEF Roles, Idle
<1> QED
  BY <1>3, <1>4

\* The steps of the session.
LEMMA SessionStep ==
    ASSUME QuicInv, OpenStream \/ Requeue \/ SessionDone
    PROVE  QuicInv'
<1> USE DEF controlVars, data, requests
<1>t. QuicTypeOK /\ Queue /\ Roles /\ Keepalive /\ OneCall
  BY DEF QuicInv
<1>u. qConn \in [Conns -> ConnType] /\ session.conn \in Conns \cup {None}
  BY <1>t, QuicTypes
<1>s. session \in [conn : Conns \cup {None}, streams : 0..MuxCon, held : BOOLEAN]
  BY <1>t DEF QuicTypeOK
<1>i. /\ Idle \in [conn : Conns \cup {None}, streams : 0..MuxCon, held : BOOLEAN]
      /\ Idle.conn = None
  BY QuicAssumption DEF Idle
<1>1. UNCHANGED <<client, pooling, ctl, ready, alive, streams, restarting, handling, tunnelChan,
                  asked, qFaults>>
  BY DEF OpenStream, Requeue, SessionDone
<1>2. locals' \in 0..ChannelSize /\ reqs' \in 0..ChannelSize
  <2>1. locals \in 0..ChannelSize /\ reqs \in 0..ChannelSize /\ ChannelSize \in Nat
    BY <1>t, QuicAssumption DEF QuicTypeOK
  <2>2. \/ locals' = locals \/ (locals < ChannelSize /\ locals' = locals + 1)
        \/ locals > 0 /\ locals' = locals - 1
    BY DEF OpenStream, Requeue, SessionDone
  <2>3. reqs' = reqs \/ (reqs < ChannelSize /\ reqs' = reqs + 1)
    BY DEF OpenStream, Requeue, SessionDone
  <2> QED
    BY <2>1, <2>2, <2>3
<1>k. Keepalive'
  BY <1>1, <1>t DEF Keepalive
<1>3. SUFFICES /\ qConn' \in [Conns -> ConnType]
               /\ session' \in [conn : Conns \cup {None}, streams : 0..MuxCon, held : BOOLEAN]
               /\ Queue' /\ Roles' /\ OneCall'
  BY <1>1, <1>2, <1>k, <1>t DEF QuicInv, QuicTypeOK, ConnType
<1>4. CASE OpenStream
  <2>1. session.conn # None /\ session.conn \in Conns
    BY <1>4, <1>u DEF OpenStream
  <2>2. CASE /\ session.streams + 1 < MuxCon /\ UNCHANGED qConn
             /\ session' = [session EXCEPT !.streams = session.streams + 1]
    <3>1. /\ session' \in [conn : Conns \cup {None}, streams : 0..MuxCon, held : BOOLEAN]
          /\ session'.conn = session.conn
      BY <1>s, <2>2, QuicAssumption
    <3>2. qConn' \in [Conns -> ConnType] /\ Leaves({})
      BY <1>u, <2>2, NoneLeaves
    <3> QED
      BY <1>1, <1>t, <3>1, <3>2, AllStay
  <2>3. CASE session' = Idle /\ qConn' = [qConn EXCEPT ![session.conn].at = "draining"]
    <3>1. PICK x \in Conns : x = session.conn
      BY <2>1
    <3> DEFINE r == [qConn[x] EXCEPT !.at = "draining"]
    <3>2. r \in ConnType /\ r.at \notin Used /\ ~Calls(r) /\ qConn' = [qConn EXCEPT ![x] = r]
      BY <1>u, <2>3, <3>1 DEF ConnType, Places, Calls, Used
    <3> HIDE DEF r
    <3>3. qConn' \in [Conns -> ConnType] /\ Leaves({x}) /\ qConn'[x] = r
      BY <1>u, <3>2, OneLeaves
    <3>4. Queue' /\ Roles' /\ OneCall'
      BY <1>1, <1>t, <2>3, <3>1, <3>2, <3>3, SessionEnds
    <3> QED
      BY <1>i, <2>3, <3>3, <3>4
  <2> QED
    BY <1>4, <2>2, <2>3 DEF OpenStream
<1>5. CASE Requeue
  <2>1. session' = Idle /\ qConn' = Discard(session.conn)
    BY <1>5 DEF Requeue
  <2>2. CASE session.conn \in Conns
    <3>1. PICK x \in Conns : x = session.conn
      BY <2>2
    <3>2. qConn' = Discard(x)
      BY <2>1, <3>1
    <3>3. /\ qConn' \in [Conns -> ConnType] /\ Leaves({x})
          /\ qConn'[x].at \notin Used /\ ~Calls(qConn'[x])
      BY <1>t, <3>2, DiscardLeaves
    <3>4. Queue' /\ Roles' /\ OneCall'
      BY <1>1, <1>t, <2>1, <3>1, <3>3, SessionEnds
    <3> QED
      BY <1>i, <2>1, <3>3, <3>4
  <2>3. CASE session.conn \notin Conns
    <3>1. session.conn = None
      BY <1>u, <2>3
    <3>2. qConn' = Settle(qConn, client.conn)
      <4>1. [qConn EXCEPT ![session.conn] = [@ EXCEPT !.open = FALSE, !.at = "refused"]] = qConn
        BY <1>u, <2>3
      <4> QED
        BY <2>1, <4>1 DEF Discard
    <3>3. qConn' \in [Conns -> ConnType] /\ Leaves({})
      BY <1>u, <3>2, SettleLeaves
    <3>4. session'.conn = session.conn
      BY <1>i, <2>1, <3>1
    <3> QED
      BY <1>1, <1>i, <1>t, <2>1, <3>3, <3>4, AllStay
  <2> QED
    BY <2>2, <2>3
<1>6. CASE SessionDone
  <2>1. PICK x \in Conns : qConn[x].at = "draining" /\ qConn' = Discard(x)
    BY <1>6 DEF SessionDone
  <2>2. UNCHANGED session
    BY <1>6 DEF SessionDone
  <2>3. /\ qConn' \in [Conns -> ConnType] /\ Leaves({x})
        /\ qConn'[x].at \notin Used /\ ~Calls(qConn'[x])
    BY <1>t, <2>1, DiscardLeaves
  <2>4. qConn[x].at \notin Used
    BY <2>1 DEF Used
  <2>5. Leaves({})
    BY <2>3, <2>4 DEF Leaves
  <2>6. session'.conn = session.conn
    BY <2>2
  <2>7. Queue' /\ Roles' /\ OneCall'
    BY <1>1, <1>t, <2>5, <2>6, AllStay
  <2> QED
    BY <1>s, <2>2, <2>3, <2>7
<1> QED
  BY <1>4, <1>5, <1>6

\* A connection breaks.
LEMMA BreakStep ==
    ASSUME QuicInv, QuicBreak
    PROVE  QuicInv'
<1> USE DEF controlVars, data, requests
<1>t. QuicTypeOK /\ Queue /\ Roles /\ Keepalive /\ OneCall
  BY DEF QuicInv
<1>u. qConn \in [Conns -> ConnType]
  BY <1>t, QuicTypes
<1>1. /\ UNCHANGED <<client, pooling, ctl, ready, alive, streams, restarting, handling, tunnelChan,
                     session, locals, reqs, asked>>
      /\ qFaults' \in 0..MaxQuicFaults
  BY <1>t, QuicAssumption DEF QuicBreak, QuicTypeOK
<1>2. PICK x \in Conns : qConn' = Settle(Shut(x), client.conn)
  BY DEF QuicBreak
<1> DEFINE f == Shut(x)
<1>3. /\ f \in [Conns -> ConnType]
      /\ \A c \in Conns : f[c].at = qConn[c].at /\ (Calls(f[c]) => Calls(qConn[c]))
  BY <1>u DEF Shut, ConnType, Calls
<1> HIDE DEF f
<1>4. /\ qConn' \in [Conns -> ConnType]
      /\ \A c \in Conns : /\ f[c].at \in Used => qConn'[c] = f[c]
                          /\ qConn'[c].at \in Used => qConn'[c] = f[c]
                          /\ Calls(qConn'[c]) => Calls(f[c]) /\ qConn'[c].at = f[c].at
  <2>1. \A c \in Conns \ Conns : f[c] = qConn[c]
    OBVIOUS
  <2>2. qConn' = Settle(f, client.conn)
    BY <1>2 DEF f
  <2> QED
    BY <1>3, <2>1, <2>2, SettleLeaves
<1>5. Leaves({})
  BY <1>3, <1>4 DEF Leaves
<1>6. Queue' /\ Roles' /\ OneCall'
  BY <1>1, <1>5, <1>t, AllStay
<1>7. QuicTypeOK'
  BY <1>1, <1>4, <1>t DEF QuicTypeOK, ConnType
<1>8. Keepalive'
  BY <1>1, <1>t DEF Keepalive
<1> QED
  BY <1>6, <1>7, <1>8 DEF QuicInv

\* Every step keeps the invariant.
LEMMA QuicInvStep ==
    QuicInv /\ [QuicNext]_quicVars => QuicInv'
<1> SUFFICES ASSUME QuicInv, [QuicNext]_quicVars PROVE QuicInv'
  OBVIOUS
<1>1. CASE UNCHANGED quicVars
  <2>1. UNCHANGED <<qConn, client, pooling, ctl, ready, alive, streams, restarting, handling,
                    tunnelChan, session, locals, reqs, asked, qFaults>>
    BY <1>1 DEF quicVars
  <2>2. QuicTypeOK'
    BY <2>1 DEF QuicInv, QuicTypeOK
  <2>3. Queue' /\ Roles' /\ OneCall'
    BY <2>1 DEF QuicInv, Queue, Roles, OneCall
  <2>4. Keepalive'
    BY <2>1 DEF QuicInv, Keepalive
  <2> QED
    BY <2>2, <2>3, <2>4 DEF QuicInv
<1>2. CASE ChannelDial \/ ChannelUp \/ ChannelGivesUp \/ ClientPing \/ ClientTimeout
  BY <1>2, QuicClientStep
<1>3. CASE PoolChecker \/ TunnelDial
  BY <1>3, TunnelStep
<1>4. CASE \E c \in Conns : AcceptTunCon(c)
  BY <1>4, AcceptStep
<1>5. CASE QuicHandshakeOk \/ HandshakeFails
  BY <1>5, QuicHandshakeStep
<1>6. CASE AcceptStream \/ PingTick \/ SendRequest \/ EnqueueInbound \/ OpenStreamFails
  BY <1>6, QuicQuietStep
<1>7. CASE KeepaliveEnds \/ Restarted
  BY <1>7, GoneStep
<1>8. CASE AcceptStreamFails
  BY <1>8, AcceptFailsStep
<1>9. CASE NextSession
  BY <1>9, NextSessionStep
<1>10. CASE OpenStream \/ Requeue \/ SessionDone
  BY <1>10, SessionStep
<1>11. CASE QuicBreak
  BY <1>11, BreakStep
<1> QED
  BY <1>1, <1>2, <1>3, <1>4, <1>5, <1>6, <1>7, <1>8, <1>9, <1>10, <1>11 DEF QuicNext

\* The invariant gives the property.
LEMMA QuicInvImplies ==
    QuicInv => OneControlChannel
<1> SUFFICES ASSUME QuicInv PROVE OneControlChannel
  OBVIOUS
<1>t. QuicTypeOK /\ Queue /\ Roles /\ Keepalive /\ OneCall
  BY DEF QuicInv
<1>u. ctl \in Conns \cup {None} /\ session.conn \in Conns \cup {None}
  BY <1>t, QuicTypes
<1>1. At("session") = {session.conn} \ {None}
  <2>1. \A c \in Conns : qConn[c].at = "session" <=> session.conn = c
    BY <1>t DEF Roles
  <2> QED
    BY <1>u, <2>1, QuicAssumption DEF At
<1>2. At("control") = {ctl} \ {None}
  <2>1. \A c \in Conns : qConn[c].at = "control" <=> ctl = c
    BY <1>t DEF Roles
  <2> QED
    BY <1>u, <2>1, QuicAssumption DEF At
<1>3. \A c \in Conns : qConn[c].at = "queued" <=> \E i \in DOMAIN tunnelChan : tunnelChan[i] = c
  BY <1>t DEF Queue
<1>4. (ready <=> alive # "none") /\ (ready => ctl # None)
  BY <1>t DEF Keepalive
<1>5. ASSUME alive # "none", NEW c \in At("handshake")
      PROVE  ~(qConn[c].kind = "control" /\ qConn[c].open)
  <2>1. c \in Conns /\ qConn[c].at = "handshake" /\ ctl # None
    BY <1>5, <1>t DEF At, Keepalive
  <2>2. ~Calls(qConn[c])
    BY <1>t, <2>1 DEF OneCall
  <2> QED
    BY <2>1, <2>2 DEF Calls
<1> QED
  BY <1>1, <1>2, <1>3, <1>4, <1>5, <1>t DEF OneControlChannel

\* quic.go: for every size of channels, sessions and pool, the server has at most
\* one control channel and one keepalive, tunnelChan and handleTunConn hold what the
\* connections say, and while a keepalive runs no second handshake can succeed.
THEOREM QuicOneControl ==
    QuicSpec => []OneControlChannel
<1>1. QuicSpec => []QuicInv
  BY QuicInvInit, QuicInvStep, PTL DEF QuicSpec
<1> QED
  BY <1>1, QuicInvImplies, PTL
=============================================================================
