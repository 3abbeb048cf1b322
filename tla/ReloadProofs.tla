---------------------------- MODULE ReloadProofs -----------------------------
(***************************************************************************)
(* Proofs about Reload, for any files with any servers and gateways, and   *)
(* any number of edits.                                                    *)
(*                                                                         *)
(* The first half is about Config: what validateListeners lets pass has no *)
(* two listeners that overlap, unless they are one server's.  The second   *)
(* half follows the listeners of the instances through reloads.            *)
(***************************************************************************)
EXTENDS Reload, WellFoundedInduction, SequenceTheorems, TLAPS

-----------------------------------------------------------------------------
(* validateListeners.                                                      *)

\* A set of natural numbers has a least element.
LEMMA Least ==
    ASSUME NEW S \in SUBSET Nat, NEW x \in S
    PROVE  \E n \in S : \A m \in S : n <= m
<1> DEFINE R == OpToRel(<, Nat)
<1>1. IsWellFoundedOn(R, Nat)
  BY NatLessThanWellFounded, Zenon
<1>2. \A m, n \in Nat : <<m, n>> \in R <=> m < n
  BY DEF OpToRel
<1> HIDE DEF R
<1>3. PICK n \in S : \A m \in S : <<m, n>> \notin R
  BY <1>1, WFMin
<1>4. ASSUME NEW m \in S PROVE n <= m
  <2>1. m \in Nat /\ n \in Nat
    OBVIOUS
  <2>2. ~(m < n)
    BY <1>2, <1>3, <2>1
  <2> QED
    BY <2>1, <2>2
<1> QED
  BY <1>4

\* A listener's place: the number of its server, 0 for the gateways, and its
\* number there.
ListenerAt(cfg, x) ==
    IF x[1] = 0 THEN GatewayListeners(cfg)[x[2]] ELSE ServerListeners(cfg.servers[x[1]])[x[2]]

\* Two listeners have no addresses that overlap.
Apart(k, l) == \A a \in k.addrs, b \in l.addrs : ~Overlap(a, b) /\ ~Overlap(b, a)

\* Two listeners of one server.
Siblings(k, l) == k.owner = l.owner /\ l.kind # "gateway"

\* The table is made of the listeners at the places D, and no two of them overlap.
Registered(cfg, table, D) ==
    /\ \A x \in D : ListenerAt(cfg, x).addrs # {}
    /\ \A x \in D : \A a \in ListenerAt(cfg, x).addrs :
          [owner |-> ListenerAt(cfg, x).owner, addr |-> a] \in table
    /\ \A e \in table : \E x \in D :
          e.owner = ListenerAt(cfg, x).owner /\ e.addr \in ListenerAt(cfg, x).addrs
    /\ \A x, y \in D : x # y => Apart(ListenerAt(cfg, x), ListenerAt(cfg, y))

\* One call of register that does not fail.
LEMMA RegisterKeeps ==
    ASSUME NEW cfg, NEW D, NEW t, Registered(cfg, t, D),
           NEW z, z \notin D, NEW l, l = ListenerAt(cfg, z), l.addrs # {},
           \A x \in D : Siblings(ListenerAt(cfg, x), l) => Apart(ListenerAt(cfg, x), l),
           NEW u \in Register(t, l)
    PROVE  Registered(cfg, u, D \cup {z})
<1>1. \A a \in l.addrs : Existing(t, a) = {} \/ (l.kind # "gateway" /\ l.owner \in Existing(t, a))
  BY DEF Register
<1>2. ASSUME NEW a \in l.addrs PROVE Existing(t, a) = {}
  <2>1. CASE Existing(t, a) = {}
    BY <2>1
  <2>2. CASE l.kind # "gateway" /\ l.owner \in Existing(t, a)
    <3>1. PICK e \in t : Overlap(e.addr, a) /\ e.owner = l.owner
      BY <2>2 DEF Existing
    <3>2. PICK x \in D : e.owner = ListenerAt(cfg, x).owner /\ e.addr \in ListenerAt(cfg, x).addrs
      BY DEF Registered
    <3>3. Apart(ListenerAt(cfg, x), l)
      BY <2>2, <3>1, <3>2 DEF Siblings
    <3> QED
      BY <3>1, <3>2, <3>3 DEF Apart
  <2> QED
    BY <1>1, <2>1, <2>2
<1>3. u = t \cup {[owner |-> l.owner, addr |-> a] : a \in l.addrs}
  <2>1. u = t \cup {[owner |-> l.owner, addr |-> a] : a \in {a \in l.addrs : Existing(t, a) = {}}}
    BY DEF Register
  <2>2. {a \in l.addrs : Existing(t, a) = {}} = l.addrs
    BY <1>2
  <2> QED
    BY <2>1, <2>2
<1>4. ASSUME NEW x \in D PROVE Apart(ListenerAt(cfg, x), l) /\ Apart(l, ListenerAt(cfg, x))
  <2> SUFFICES ASSUME NEW a \in ListenerAt(cfg, x).addrs, NEW b \in l.addrs
               PROVE  ~Overlap(a, b) /\ ~Overlap(b, a)
    BY DEF Apart
  <2>1. [owner |-> ListenerAt(cfg, x).owner, addr |-> a] \in t
    BY DEF Registered
  <2>2. ~Overlap(a, b)
    BY <1>2, <2>1 DEF Existing
  <2> QED
    BY <2>2 DEF Overlap
<1> DEFINE E == D \cup {z}
<1>5. \A x \in E : ListenerAt(cfg, x).addrs # {}
  BY DEF Registered
<1>6. ASSUME NEW x \in E, NEW a \in ListenerAt(cfg, x).addrs
      PROVE  [owner |-> ListenerAt(cfg, x).owner, addr |-> a] \in u
  <2>1. CASE x \in D
    BY <1>3, <2>1 DEF Registered
  <2>2. CASE x = z
    BY <1>3, <2>2
  <2> QED
    BY <2>1, <2>2
<1>7. ASSUME NEW e \in u
      PROVE  \E x \in E : e.owner = ListenerAt(cfg, x).owner /\ e.addr \in ListenerAt(cfg, x).addrs
  <2>1. CASE e \in t
    BY <2>1 DEF Registered
  <2>2. CASE e \notin t
    BY <1>3, <2>2
  <2> QED
    BY <2>1, <2>2
<1>8. ASSUME NEW x \in E, NEW y \in E, x # y PROVE Apart(ListenerAt(cfg, x), ListenerAt(cfg, y))
  <2>1. CASE x \in D /\ y \in D
    BY <1>8, <2>1 DEF Registered
  <2>2. CASE x = z
    BY <1>4, <1>8, <2>2
  <2>3. CASE y = z
    BY <1>4, <1>8, <2>3
  <2> QED
    BY <2>1, <2>2, <2>3
<1> QED
  BY <1>5, <1>6, <1>7, <1>8 DEF Registered

\* g is what the loop of RegisterAll has after each of its first n turns.
Loop(r, ls, g, n) ==
    /\ g = [k \in 0..n |-> g[k]] /\ g[0] = r
    /\ \A k \in 1..n : g[k] = RegisterOne(g[k - 1], ls[k])

\* The loop comes to something: otherwise there is a first turn that does not.
LEMMA LoopExists ==
    ASSUME NEW S, NEW ls \in Seq(S), NEW r
    PROVE  \E g : Loop(r, ls, g, Len(ls))
<1> DEFINE Stuck == {n \in 0..Len(ls) : ~\E g : Loop(r, ls, g, n)}
<1> SUFFICES ASSUME Len(ls) \in Stuck PROVE FALSE
  <2>1. Len(ls) \in 0..Len(ls)
    BY LenProperties
  <2> QED
    BY <2>1
<1>0. Stuck \in SUBSET Nat
  OBVIOUS
<1>1. PICK n \in Stuck : \A m \in Stuck : n <= m
  <2> HIDE DEF Stuck
  <2> QED
    BY <1>0, Least
<1>2. n \in 0..Len(ls) /\ Len(ls) \in Nat
  BY LenProperties
<1>3. CASE n = 0
  <2> DEFINE h == [k \in 0..0 |-> r]
  <2>1. Loop(r, ls, h, 0)
    BY DEF Loop
  <2> QED
    BY <1>3, <2>1
<1>4. CASE n # 0
  <2>1. n - 1 \in 0..Len(ls) /\ n - 1 \notin Stuck /\ n \in 1..Len(ls)
    BY <1>1, <1>2, <1>4
  <2>2. PICK g : Loop(r, ls, g, n - 1)
    BY <2>1
  <2> DEFINE last == RegisterOne(g[n - 1], ls[n])
             h == [k \in 0..n |-> IF k = n THEN last ELSE g[k]]
  <2> HIDE DEF last
  <2>3. h = [k \in 0..n |-> h[k]] /\ h[0] = r
    BY <1>4, <2>1, <2>2 DEF Loop
  <2>4. ASSUME NEW k \in 1..n PROVE h[k] = RegisterOne(h[k - 1], ls[k])
    <3>1. CASE k = n
      <4>1. h[n] = last /\ h[n - 1] = g[n - 1]
        BY <2>1
      <4> QED
        BY <3>1, <4>1 DEF last
    <3>2. CASE k # n
      <4>1. k \in 1..(n - 1) /\ h[k] = g[k] /\ h[k - 1] = g[k - 1]
        BY <2>1, <3>2
      <4> QED
        BY <2>2, <4>1 DEF Loop
    <3> QED
      BY <3>1, <3>2
  <2> HIDE DEF h
  <2>5. Loop(r, ls, h, n)
    BY <2>3, <2>4 DEF Loop
  <2> QED
    BY <2>5
<1> QED
  BY <1>3, <1>4

\* RegisterAll is such a loop.
LEMMA LoopIs ==
    ASSUME NEW S, NEW ls \in Seq(S), NEW r
    PROVE  \E g : Loop(r, ls, g, Len(ls)) /\ RegisterAll(r, ls) = g[Len(ls)]
<1> DEFINE after[k \in 0..Len(ls)] == IF k = 0 THEN r ELSE RegisterOne(after[k - 1], ls[k])
<1>1. RegisterAll(r, ls) = after[Len(ls)]
  BY DEF RegisterAll
<1>2. PICK g : Loop(r, ls, g, Len(ls))
  BY LoopExists
<1>3. g = [k \in 0..Len(ls) |-> IF k = 0 THEN r ELSE RegisterOne(g[k - 1], ls[k])]
  <2>1. Len(ls) \in Nat
    BY LenProperties
  <2>2. \A k \in 0..Len(ls) : g[k] = IF k = 0 THEN r ELSE RegisterOne(g[k - 1], ls[k])
    BY <1>2, <2>1 DEF Loop
  <2>3. g = [k \in 0..Len(ls) |-> g[k]]
    BY <1>2 DEF Loop
  <2> QED
    BY <2>2, <2>3
<1>4. after = [k \in 0..Len(ls) |-> IF k = 0 THEN r ELSE RegisterOne(after[k - 1], ls[k])]
  BY <1>3, Zenon
<1> HIDE DEF after
<1>5. Loop(r, ls, after, Len(ls))
  <2>1. Len(ls) \in Nat
    BY LenProperties
  <2>2. \A k \in 0..Len(ls) : after[k] = IF k = 0 THEN r ELSE RegisterOne(after[k - 1], ls[k])
    BY <1>4
  <2>3. after = [k \in 0..Len(ls) |-> after[k]]
    BY <1>4, <2>2
  <2> QED
    BY <2>1, <2>2, <2>3 DEF Loop
<1> QED
  BY <1>1, <1>5

\* The places of a loop's first n listeners.
Places(i, n) == {<<i, p>> : p \in 1..n}

\* The loop over the listeners of server i, or of the gateways when i is 0.
LEMMA RegisterAllKeeps ==
    ASSUME NEW cfg, NEW D, NEW i, NEW S, NEW ls \in Seq(S), NEW r,
           \A p \in 1..Len(ls) : ls[p] = ListenerAt(cfg, <<i, p>>) /\ <<i, p>> \notin D,
           \A t \in r.tables : Registered(cfg, t, D),
           \A p \in 1..Len(ls) : \A x \in D \cup Places(i, p - 1) :
               Siblings(ListenerAt(cfg, x), ls[p]) => Apart(ListenerAt(cfg, x), ls[p]),
           NEW u \in RegisterAll(r, ls).tables
    PROVE  Registered(cfg, u, D \cup Places(i, Len(ls)))
<1>0. Len(ls) \in Nat
  BY LenProperties
<1>1. PICK g : Loop(r, ls, g, Len(ls)) /\ RegisterAll(r, ls) = g[Len(ls)]
  BY LoopIs
<1> DEFINE Good(n) == \A t \in g[n].tables : Registered(cfg, t, D \cup Places(i, n))
           Wrong == {n \in 0..Len(ls) : ~Good(n)}
<1> SUFFICES ASSUME Len(ls) \in Wrong PROVE FALSE
  <2>1. Len(ls) \in 0..Len(ls)
    BY <1>0
  <2>2. Good(Len(ls)) => Registered(cfg, u, D \cup Places(i, Len(ls)))
    BY <1>1
  <2> HIDE DEF Good
  <2> QED
    BY <2>1, <2>2
<1>2. Wrong \in SUBSET Nat
  OBVIOUS
<1>3. PICK n \in Wrong : \A m \in Wrong : n <= m
  <2> HIDE DEF Wrong
  <2> QED
    BY <1>2, Least
<1>4. n \in 0..Len(ls)
  OBVIOUS
<1>5. CASE n = 0
  <2>1. D \cup Places(i, 0) = D
    BY DEF Places
  <2>2. g[0] = r
    BY <1>1 DEF Loop
  <2> QED
    BY <1>5, <2>1, <2>2
<1>6. CASE n # 0
  <2>1. n - 1 \in 0..Len(ls) /\ n - 1 \notin Wrong /\ n \in 1..Len(ls)
    <3> HIDE DEF Good, Wrong
    <3> QED
      BY <1>0, <1>3, <1>4, <1>6
  <2>2. Good(n - 1)
    BY <2>1
  <2>3. g[n] = RegisterOne(g[n - 1], ls[n])
    BY <1>1, <2>1 DEF Loop
  <2>4. Places(i, n) = Places(i, n - 1) \cup {<<i, n>>}
    <3>1. 1..n = 1..(n - 1) \cup {n}
      BY <2>1
    <3> QED
      BY <3>1 DEF Places
  <2>5. <<i, n>> \notin D \cup Places(i, n - 1)
    <3>1. n \notin 1..(n - 1)
      BY <2>1
    <3> QED
      BY <2>1, <3>1 DEF Places
  <2>6. ASSUME NEW t \in g[n].tables PROVE Registered(cfg, t, D \cup Places(i, n))
    <3>1. ls[n].addrs # {}
      BY <2>3 DEF RegisterOne
    <3>2. PICK v \in g[n - 1].tables : t \in Register(v, ls[n])
      BY <2>3, <3>1 DEF RegisterOne
    <3>3. Registered(cfg, v, D \cup Places(i, n - 1))
      BY <2>2
    <3> HIDE DEF Good, Wrong
    <3>4. Registered(cfg, t, (D \cup Places(i, n - 1)) \cup {<<i, n>>})
      <4>1. ls[n] = ListenerAt(cfg, <<i, n>>)
        BY <2>1
      <4>2. \A x \in D \cup Places(i, n - 1) :
               Siblings(ListenerAt(cfg, x), ls[n]) => Apart(ListenerAt(cfg, x), ls[n])
        BY <2>1
      <4> QED
        BY <2>5, <3>1, <3>2, <3>3, <4>1, <4>2, RegisterKeeps
    <3>5. (D \cup Places(i, n - 1)) \cup {<<i, n>>} = D \cup Places(i, n)
      BY <2>4
    <3> QED
      BY <3>4, <3>5
  <2> QED
    BY <2>6
<1> QED
  BY <1>5, <1>6

-----------------------------------------------------------------------------

\* What the decoder makes of the file named f.
LEMMA DecodedType ==
    ASSUME NEW f \in Files
    PROVE  LET cfg == Decoded[f] IN
           /\ Len(cfg.servers) \in Nat /\ DOMAIN cfg.servers = 1..Len(cfg.servers)
           /\ Len(cfg.gateways) \in Nat /\ DOMAIN cfg.gateways = 1..Len(cfg.gateways)
           /\ \A i \in 1..Len(cfg.servers) :
                 cfg.servers[i].ports \in Seq(Mappings) /\ cfg.servers[i].transport \in Transports
<1> DEFINE T == [name : STRING, transport : Transports, bind : Addresses, ports : Seq(Mappings)]
           cfg == Decoded[f]
<1>1. cfg.servers \in Seq(T) /\ cfg.gateways \in Seq(Elements(cfg.gateways))
  BY ReloadAssumption
<1> HIDE DEF cfg
<1>2. /\ Len(cfg.servers) \in Nat /\ DOMAIN cfg.servers = 1..Len(cfg.servers)
      /\ Len(cfg.gateways) \in Nat /\ DOMAIN cfg.gateways = 1..Len(cfg.gateways)
  BY <1>1, LenProperties
<1>3. \A i \in 1..Len(cfg.servers) : cfg.servers[i] \in T
  BY <1>1, ElementOfSeq
<1> QED
  BY <1>2, <1>3 DEF cfg

\* The listeners of a server: one for bind_addr and one for each mapping.
LEMMA ServerListenersAre ==
    ASSUME NEW s, s.ports \in Seq(Mappings)
    PROVE  LET ls == ServerListeners(s) IN
           /\ \E S : ls \in Seq(S)
           /\ Len(ls) = Len(s.ports) + 1 /\ Len(s.ports) \in Nat
           /\ DOMAIN ls = 1..Len(s.ports) + 1 /\ DOMAIN s.ports = 1..Len(s.ports)
           /\ ls[1] = [owner |-> s.name, kind |-> "bind", addrs |-> {s.bind}]
           /\ \A k \in 1..Len(s.ports) :
                 ls[k + 1] = [owner |-> s.name, kind |-> "port",
                              addrs |-> PortMappingListenAddrs(s.ports[k])]
           /\ \A p \in 1..Len(ls) : ls[p].owner = s.name /\ ls[p].kind # "gateway"
<1> DEFINE b == [owner |-> s.name, kind |-> "bind", addrs |-> {s.bind}]
           P(k) == [owner |-> s.name, kind |-> "port", addrs |-> PortMappingListenAddrs(s.ports[k])]
           q == [k \in DOMAIN s.ports |-> P(k)]
           S == {b} \cup {P(k) : k \in DOMAIN s.ports}
           ls == <<b>> \o q
<1>1. Len(s.ports) \in Nat /\ DOMAIN s.ports = 1..Len(s.ports)
  BY LenProperties
<1>2. q \in Seq(S) /\ <<b>> \in Seq(S) /\ Len(q) = Len(s.ports) /\ Len(<<b>>) = 1
  <2> HIDE DEF b, P
  <2>1. q \in [1..Len(s.ports) -> S]
    BY <1>1
  <2> HIDE DEF q, S
  <2>2. q \in Seq(S) /\ Len(q) = Len(s.ports)
    BY <1>1, <2>1
  <2>3. b \in S
    BY DEF S
  <2> QED
    BY <2>2, <2>3
<1>3. \A k \in 1..Len(s.ports) : q[k] = P(k)
  BY <1>1
<1>4. <<b>>[1] = b
  OBVIOUS
<1>5. ServerListeners(s) = ls
  BY DEF ServerListeners
<1>6. b.owner = s.name /\ b.kind # "gateway" /\ \A k \in 1..Len(s.ports) : P(k).owner = s.name /\ P(k).kind # "gateway"
  OBVIOUS
<1> HIDE DEF b, P, q, S
<1>7. ls \in Seq(S) /\ Len(ls) = Len(s.ports) + 1
  BY <1>1, <1>2
<1>8. ls[1] = b /\ \A k \in 1..Len(s.ports) : ls[k + 1] = P(k)
  BY <1>1, <1>2, <1>3, <1>4
<1> HIDE DEF ls
<1>9. \A p \in 1..Len(ls) : ls[p].owner = s.name /\ ls[p].kind # "gateway"
  <2> SUFFICES ASSUME NEW p \in 1..Len(ls) PROVE ls[p].owner = s.name /\ ls[p].kind # "gateway"
    OBVIOUS
  <2>1. p = 1 \/ (p - 1 \in 1..Len(s.ports) /\ p = (p - 1) + 1)
    BY <1>1, <1>7
  <2>2. CASE p = 1
    BY <1>6, <1>8, <2>2
  <2>3. CASE p - 1 \in 1..Len(s.ports) /\ p = (p - 1) + 1
    <3>1. ls[p] = P(p - 1)
      BY <1>8, <2>3
    <3> QED
      BY <1>6, <2>3, <3>1
  <2> QED
    BY <2>1, <2>2, <2>3
<1>10. DOMAIN ls = 1..Len(s.ports) + 1
  BY <1>7, LenProperties
<1> QED
  BY <1>1, <1>5, <1>7, <1>8, <1>9, <1>10 DEF b, P

\* g is what validateListeners has after each of the first n servers.
ServerLoop(cfg, g, n) ==
    /\ g = [k \in 0..n |-> g[k]] /\ g[0] = [tables |-> {{}}, reject |-> FALSE]
    /\ \A k \in 1..n : g[k] = RegisterAll(g[k - 1], ServerListeners(cfg.servers[k]))

\* The loop over the servers comes to something.
LEMMA ServerLoopExists ==
    ASSUME NEW cfg, Len(cfg.servers) \in Nat
    PROVE  \E g : ServerLoop(cfg, g, Len(cfg.servers))
<1> DEFINE N == Len(cfg.servers)
           Stuck == {n \in 0..N : ~\E g : ServerLoop(cfg, g, n)}
<1> HIDE DEF N
<1>0. N \in Nat
  BY DEF N
<1> SUFFICES ASSUME N \in Stuck PROVE FALSE
  <2>1. N \in 0..N
    BY <1>0
  <2> QED
    BY <2>1 DEF N
<1>1. PICK n \in Stuck : \A m \in Stuck : n <= m
  <2>1. Stuck \in SUBSET Nat
    OBVIOUS
  <2> HIDE DEF Stuck
  <2> QED
    BY <2>1, Least
<1>2. n \in 0..N
  OBVIOUS
<1>3. CASE n = 0
  <2> DEFINE none == [tables |-> {{}}, reject |-> FALSE]
             h == [k \in 0..0 |-> none]
  <2>1. h = [k \in 0..0 |-> h[k]] /\ h[0] = none
    <3> HIDE DEF none
    <3> QED
      OBVIOUS
  <2>2. ServerLoop(cfg, h, 0)
    <3> HIDE DEF h
    <3> QED
      BY <2>1 DEF ServerLoop
  <2> QED
    BY <1>3, <2>2
<1>4. CASE n # 0
  <2>1. n - 1 \in 0..N /\ n - 1 \notin Stuck /\ n \in 1..N
    BY <1>0, <1>1, <1>2, <1>4
  <2>2. PICK g : ServerLoop(cfg, g, n - 1)
    BY <2>1
  <2> DEFINE last == RegisterAll(g[n - 1], ServerListeners(cfg.servers[n]))
             h == [k \in 0..n |-> IF k = n THEN last ELSE g[k]]
  <2> HIDE DEF last
  <2>3. h = [k \in 0..n |-> h[k]] /\ h[0] = g[0]
    BY <1>4, <2>1
  <2>4. ASSUME NEW k \in 1..n PROVE h[k] = RegisterAll(h[k - 1], ServerListeners(cfg.servers[k]))
    <3>1. CASE k = n
      <4>1. h[n] = last /\ h[n - 1] = g[n - 1]
        BY <2>1
      <4> QED
        BY <3>1, <4>1 DEF last
    <3>2. CASE k # n
      <4>1. k \in 1..(n - 1) /\ h[k] = g[k] /\ h[k - 1] = g[k - 1]
        BY <2>1, <3>2
      <4> QED
        BY <2>2, <4>1 DEF ServerLoop
    <3> QED
      BY <3>1, <3>2
  <2> HIDE DEF h
  <2>5. ServerLoop(cfg, h, n)
    BY <2>2, <2>3, <2>4 DEF ServerLoop
  <2> QED
    BY <2>5
<1> QED
  BY <1>3, <1>4

\* ValidateListeners is such a loop, and one over the gateways after it.
LEMMA ServerLoopIs ==
    ASSUME NEW cfg, Len(cfg.servers) \in Nat
    PROVE  \E g : /\ ServerLoop(cfg, g, Len(cfg.servers))
                  /\ ValidateListeners(cfg) =
                        RegisterAll(g[Len(cfg.servers)], GatewayListeners(cfg))
<1> DEFINE none == [tables |-> {{}}, reject |-> FALSE]
           after[k \in 0..Len(cfg.servers)] ==
               IF k = 0 THEN [tables |-> {{}}, reject |-> FALSE]
               ELSE RegisterAll(after[k - 1], ServerListeners(cfg.servers[k]))
<1>1. ValidateListeners(cfg) = RegisterAll(after[Len(cfg.servers)], GatewayListeners(cfg))
  BY DEF ValidateListeners
<1>2. PICK g : ServerLoop(cfg, g, Len(cfg.servers))
  BY ServerLoopExists
<1>3. g = [k \in 0..Len(cfg.servers) |->
              IF k = 0 THEN none ELSE RegisterAll(g[k - 1], ServerListeners(cfg.servers[k]))]
  <2>1. g[0] = none /\ \A k \in 1..Len(cfg.servers) :
            g[k] = RegisterAll(g[k - 1], ServerListeners(cfg.servers[k]))
    BY <1>2 DEF ServerLoop
  <2>2. g = [k \in 0..Len(cfg.servers) |-> g[k]]
    BY <1>2 DEF ServerLoop
  <2> HIDE DEF none
  <2>3. \A k \in 0..Len(cfg.servers) : g[k] =
            IF k = 0 THEN none ELSE RegisterAll(g[k - 1], ServerListeners(cfg.servers[k]))
    BY <2>1
  <2> QED
    BY <2>2, <2>3
<1>4. after = [k \in 0..Len(cfg.servers) |->
              IF k = 0 THEN none ELSE RegisterAll(after[k - 1], ServerListeners(cfg.servers[k]))]
  BY <1>3, Zenon
<1> HIDE DEF after
<1>5. ServerLoop(cfg, after, Len(cfg.servers))
  <2>1. \A k \in 0..Len(cfg.servers) : after[k] =
            IF k = 0 THEN none ELSE RegisterAll(after[k - 1], ServerListeners(cfg.servers[k]))
    <3> HIDE DEF none
    <3> QED
      BY <1>4
  <2>2. after = [k \in 0..Len(cfg.servers) |-> after[k]]
    <3> HIDE DEF none
    <3> QED
      BY <1>4, <2>1
  <2>3. after[0] = none /\ \A k \in 1..Len(cfg.servers) :
            after[k] = RegisterAll(after[k - 1], ServerListeners(cfg.servers[k]))
    <3> HIDE DEF none
    <3> QED
      BY <2>1
  <2> QED
    BY <2>2, <2>3 DEF ServerLoop
<1> QED
  BY <1>1, <1>5

-----------------------------------------------------------------------------

\* The places of the listeners of the first n servers.
ServerPlaces(cfg, n) ==
    UNION {Places(i, Len(ServerListeners(cfg.servers[i]))) : i \in 1..n}

\* Overlapping does not depend on the order.
LEMMA ApartTurns == ASSUME NEW k, NEW l, Apart(k, l) PROVE Apart(l, k)
BY DEF Apart

\* A server whose listeners do not overlap.
LEMMA NoSelfOverlap ==
    ASSUME NEW cfg, ~SelfOverlap(cfg), NEW s \in Elements(cfg.servers),
           NEW p \in DOMAIN ServerListeners(s), NEW q \in DOMAIN ServerListeners(s), p < q
    PROVE  Apart(ServerListeners(s)[p], ServerListeners(s)[q])
<1>1. ASSUME NEW a \in ServerListeners(s)[p].addrs, NEW b \in ServerListeners(s)[q].addrs
      PROVE  ~Overlap(a, b)
  BY DEF SelfOverlap
<1>2. ASSUME NEW a, NEW b, Overlap(b, a) PROVE Overlap(a, b)
  BY <1>2 DEF Overlap
<1> QED
  BY <1>1, <1>2 DEF Apart

\* The servers' listeners, when they are accepted, do not overlap.
LEMMA ServersApart ==
    ASSUME NEW f \in Files, NEW cfg, cfg = Decoded[f], ValidNames(cfg), ~SelfOverlap(cfg),
           NEW g, ServerLoop(cfg, g, Len(cfg.servers)),
           NEW u \in g[Len(cfg.servers)].tables
    PROVE  Registered(cfg, u, ServerPlaces(cfg, Len(cfg.servers)))
<1> DEFINE N == Len(cfg.servers)
           Good(n) == \A t \in g[n].tables : Registered(cfg, t, ServerPlaces(cfg, n))
           Wrong == {n \in 0..N : ~Good(n)}
<1>0. /\ N \in Nat /\ DOMAIN cfg.servers = 1..N
      /\ \A i \in 1..N : cfg.servers[i].ports \in Seq(Mappings)
  BY DecodedType
<1> HIDE DEF N, Good
<1> SUFFICES ASSUME N \in Wrong PROVE FALSE
  <2>1. N \in 0..N
    BY <1>0
  <2> QED
    BY <2>1 DEF N, Good
<1>1. PICK n \in Wrong : \A m \in Wrong : n <= m
  <2>1. Wrong \in SUBSET Nat
    OBVIOUS
  <2> HIDE DEF Wrong
  <2> QED
    BY <2>1, Least
<1>2. n \in 0..N /\ ~Good(n)
  OBVIOUS
<1>3. CASE n = 0
  <2>1. ServerPlaces(cfg, 0) = {}
    BY DEF ServerPlaces
  <2>2. g[0].tables = {{}}
    BY DEF ServerLoop
  <2>3. Registered(cfg, {}, {})
    BY DEF Registered
  <2> QED
    BY <1>2, <1>3, <2>1, <2>2, <2>3 DEF Good
<1>4. CASE n # 0
  <2>1. n - 1 \in 0..N /\ n - 1 \notin Wrong /\ n \in 1..N
    <3> HIDE DEF Wrong
    <3> QED
      BY <1>0, <1>1, <1>2, <1>4
  <2>2. Good(n - 1)
    BY <2>1
  <2> DEFINE s == cfg.servers[n]
             ls == ServerListeners(s)
             D == ServerPlaces(cfg, n - 1)
  <2>3. g[n] = RegisterAll(g[n - 1], ls)
    BY <2>1 DEF ServerLoop, N
  <2>4. /\ s.ports \in Seq(Mappings) /\ s \in Elements(cfg.servers)
    BY <1>0, <2>1 DEF Elements
  <2>5. PICK S : ls \in Seq(S)
    BY <2>4, ServerListenersAre, Zenon
  <2>6. /\ Len(ls) \in Nat /\ DOMAIN ls = 1..Len(ls)
        /\ \A p \in 1..Len(ls) : ls[p].owner = s.name /\ ls[p].kind # "gateway"
    <3>1. Len(ls) \in Nat /\ DOMAIN ls = 1..Len(ls)
      BY <2>5, LenProperties
    <3>2. \A p \in 1..Len(ls) : ls[p].owner = s.name /\ ls[p].kind # "gateway"
      BY <2>4, ServerListenersAre, Zenon
    <3> QED
      BY <3>1, <3>2
  <2>7. ASSUME NEW x \in D
        PROVE  /\ \E q : x = <<x[1], q>> /\ x[1] \in 1..(n - 1) /\ ListenerAt(cfg, x).owner # s.name
    <3>1. PICK i \in 1..(n - 1) : x \in Places(i, Len(ServerListeners(cfg.servers[i])))
      BY DEF ServerPlaces
    <3>2. PICK q \in 1..Len(ServerListeners(cfg.servers[i])) : x = <<i, q>>
      BY <3>1 DEF Places
    <3>3. i \in 1..N /\ i # n /\ i # 0 /\ cfg.servers[i].ports \in Seq(Mappings)
      BY <1>0, <2>1
    <3>4. ListenerAt(cfg, x) = ServerListeners(cfg.servers[i])[q]
      BY <3>2, <3>3 DEF ListenerAt
    <3>5. ServerListeners(cfg.servers[i])[q].owner = cfg.servers[i].name
      BY <3>3, ServerListenersAre
    <3>6. cfg.servers[i].name # cfg.servers[n].name
      BY <1>0, <2>1, <3>3 DEF ValidNames
    <3> QED
      BY <3>2, <3>4, <3>5, <3>6
  <2>8. \A p \in 1..Len(ls) : ls[p] = ListenerAt(cfg, <<n, p>>)
    BY <1>4 DEF ListenerAt
  <2> HIDE DEF D, ls, s
  <2>9. ASSUME NEW p \in 1..Len(ls) PROVE <<n, p>> \notin D
    <3>1. n \notin 1..(n - 1) /\ <<n, p>>[1] = n
      BY <2>1
    <3> QED
      BY <2>7, <3>1
  <2>10. ASSUME NEW p \in 1..Len(ls), NEW x \in D \cup Places(n, p - 1),
                Siblings(ListenerAt(cfg, x), ls[p])
         PROVE  Apart(ListenerAt(cfg, x), ls[p])
    <3>1. x \notin D
      BY <2>6, <2>7, <2>10 DEF Siblings
    <3>2. PICK q \in 1..(p - 1) : x = <<n, q>>
      BY <3>1 DEF Places
    <3>3. q \in DOMAIN ls /\ p \in DOMAIN ls /\ q < p /\ q \in 1..Len(ls)
      BY <2>6
    <3>4. Apart(ls[q], ls[p])
      BY <2>4, <3>3, NoSelfOverlap DEF ls
    <3>5. ls[q] = ListenerAt(cfg, <<n, q>>)
      BY <2>8, <3>3
    <3> QED
      BY <3>2, <3>4, <3>5
  <2>11. \A t \in g[n - 1].tables : Registered(cfg, t, D)
    BY <2>2 DEF Good, D
  <2>12. ASSUME NEW t \in g[n].tables PROVE Registered(cfg, t, D \cup Places(n, Len(ls)))
    <3>1. t \in RegisterAll(g[n - 1], ls).tables
      BY <2>3
    <3> QED
      BY <2>5, <2>8, <2>9, <2>10, <2>11, <3>1, RegisterAllKeeps
  <2>13. ServerPlaces(cfg, n) = D \cup Places(n, Len(ls))
    <3>1. 1..n = 1..(n - 1) \cup {n}
      BY <2>1
    <3> QED
      BY <3>1 DEF ServerPlaces, D, ls, s
  <2>14. Good(n)
    BY <2>12, <2>13 DEF Good
  <2> QED
    BY <1>2, <2>14
<1> QED
  BY <1>3, <1>4

\* The places of all listeners.
AllPlaces(cfg) == ServerPlaces(cfg, Len(cfg.servers)) \cup Places(0, Len(cfg.gateways))

\* An accepted configuration in which no server overlaps itself has listeners that
\* all can be opened at once.
LEMMA AcceptedApart ==
    ASSUME NEW f \in Files, TRUE \in ValidateConfig(Decoded[f]), ~SelfOverlap(Decoded[f])
    PROVE  \E t : Registered(Decoded[f], t, AllPlaces(Decoded[f]))
<1> DEFINE cfg == Decoded[f]
<1>1. ValidNames(cfg) /\ ValidateListeners(cfg).tables # {}
  BY DEF ValidateConfig
<1>2. ~SelfOverlap(cfg)
  OBVIOUS
<1>3. /\ Len(cfg.servers) \in Nat
      /\ Len(cfg.gateways) \in Nat /\ DOMAIN cfg.gateways = 1..Len(cfg.gateways)
  BY DecodedType
<1>0. cfg = Decoded[f]
  OBVIOUS
<1> HIDE DEF cfg
<1>4. PICK g : /\ ServerLoop(cfg, g, Len(cfg.servers))
               /\ ValidateListeners(cfg) = RegisterAll(g[Len(cfg.servers)], GatewayListeners(cfg))
  BY <1>3, ServerLoopIs
<1> DEFINE r == g[Len(cfg.servers)]
           ls == GatewayListeners(cfg)
           L(i) == [owner |-> "gateway", kind |-> "gateway", addrs |-> {cfg.gateways[i].listen}]
           S == {L(i) : i \in 1..Len(cfg.gateways)}
           D == ServerPlaces(cfg, Len(cfg.servers))
<1>5. \A t \in r.tables : Registered(cfg, t, D)
  BY <1>0, <1>1, <1>2, <1>4, ServersApart
<1>6. ls = [i \in 1..Len(cfg.gateways) |-> L(i)]
  BY <1>3 DEF GatewayListeners
<1>7. ls \in Seq(S) /\ Len(ls) = Len(cfg.gateways) /\ \A i \in 1..Len(cfg.gateways) : ls[i] = L(i)
  <2> HIDE DEF ls, L
  <2>1. ls \in [1..Len(cfg.gateways) -> S]
    BY <1>6
  <2> HIDE DEF S
  <2> QED
    BY <1>3, <1>6, <2>1
<1>8. \A i \in 1..Len(ls) : ls[i].kind = "gateway"
  BY <1>7
<1>9. \A p \in 1..Len(ls) : ls[p] = ListenerAt(cfg, <<0, p>>)
  BY DEF ListenerAt
<1>10. ASSUME NEW p \in 1..Len(ls) PROVE <<0, p>> \notin D
  BY <1>3 DEF ServerPlaces, Places
<1> HIDE DEF ls, S, D, L, r
<1>11. ASSUME NEW p \in 1..Len(ls), NEW x PROVE ~Siblings(ListenerAt(cfg, x), ls[p])
  BY <1>8 DEF Siblings
<1>12. PICK t : t \in RegisterAll(r, ls).tables
  BY <1>1, <1>4 DEF r, ls
<1>13. Registered(cfg, t, D \cup Places(0, Len(ls)))
  BY <1>5, <1>7, <1>9, <1>10, <1>11, <1>12, RegisterAllKeeps
<1> QED
  BY <1>7, <1>13 DEF AllPlaces, D, cfg

-----------------------------------------------------------------------------
(* Port mappings and routes.                                               *)

\* For every mapping that the validator accepts, each server opens exactly the
\* addresses that were validated, or, for the forms of Misread, ends the process.
LEMMA MappingsUnderstood == Agreed
<1> SUFFICES ASSUME NEW t \in Transports, NEW m \in Mappings, PortMappingListenAddrs(m) # {}
             PROVE  Opened(t, m) = IF Misread(t, m) THEN {} ELSE PortMappingListenAddrs(m)
  BY DEF Agreed, MappingsAgree
<1>1. /\ m.form \in {"port", "range", "addr"}
      /\ m.lo \in Nat /\ m.hi \in Nat /\ m.parts \in Nat \ {0}
  BY ReloadAssumption DEF MappingForms
<1>2. CASE m.form = "port"
  <2>1. PortMappingListenAddrs(m) = Wildcards(m.lo, m.lo) /\ ValidPort(m.lo)
    BY <1>2 DEF PortMappingListenAddrs
  <2>2. m.lo \in 1..MaxPort
    BY <2>1 DEF ValidPort
  <2>3. CASE t = "quic"
    BY <1>2, <2>1, <2>2, <2>3 DEF Opened, PortConfigReader, Misread
  <2>4. CASE t # "quic"
    <3>1. CASE m.parts > 2
      BY <1>2, <2>4, <3>1 DEF Opened, ParsePortMappings, Misread
    <3>2. CASE m.parts = 1
      BY <1>1, <1>2, <2>1, <2>2, <2>4, <3>2 DEF Opened, ParsePortMappings, Misread
    <3>3. CASE m.parts = 2
      <4> DEFINE W == Wildcards(m.lo, m.lo)
      <4> HIDE DEF W
      <4>1. Opened(t, m) = IF m.lo > 1 /\ m.lo < MaxPort THEN W ELSE {}
        BY <1>2, <2>4, <3>3 DEF Opened, ParsePortMappings, W
      <4>2. Misread(t, m) <=> m.lo \in {1, MaxPort}
        BY <1>2, <2>4, <3>3 DEF Misread
      <4>3. (m.lo > 1 /\ m.lo < MaxPort) <=> m.lo \notin {1, MaxPort}
        <5>1. MaxPort \in Nat
          BY Z3 DEF MaxPort
        <5> QED
          BY <1>1, <2>2, <5>1
      <4> QED
        BY <2>1, <4>1, <4>2, <4>3 DEF W
    <3> QED
      BY <1>1, <3>1, <3>2, <3>3
  <2> QED
    BY <2>3, <2>4
<1>3. CASE m.form = "range"
  <2>1. PortMappingListenAddrs(m) = Wildcards(m.lo, m.hi)
        /\ ValidPort(m.lo) /\ ValidPort(m.hi) /\ m.lo <= m.hi
    BY <1>3 DEF PortMappingListenAddrs
  <2>2. CASE t = "quic"
    BY <1>3, <2>2 DEF Opened, PortConfigReader, Misread
  <2>3. CASE t # "quic"
    BY <1>1, <1>3, <2>1, <2>3 DEF Opened, ParsePortMappings, Misread
  <2> QED
    BY <2>2, <2>3
<1>4. CASE m.form = "addr"
  <2>1. PortMappingListenAddrs(m) = {[host |-> m.host, port |-> m.lo]} /\ ValidPort(m.lo)
    BY <1>4 DEF PortMappingListenAddrs
  <2>2. m.lo \in 0..MaxPort
    BY <2>1 DEF ValidPort
  <2> DEFINE A == {[host |-> m.host, port |-> m.lo]}
  <2> HIDE DEF A
  <2>3. CASE t = "quic"
    <3>1. Opened(t, m) = IF m.parts >= 2 THEN A ELSE {}
      BY <1>4, <2>2, <2>3 DEF Opened, PortConfigReader, A
    <3>2. Misread(t, m) <=> m.parts = 1
      BY <1>4, <2>3 DEF Misread
    <3>3. m.parts >= 2 <=> m.parts # 1
      BY <1>1
    <3> QED
      BY <2>1, <3>1, <3>2, <3>3 DEF A
  <2>4. CASE t # "quic"
    <3>1. Opened(t, m) = IF m.parts = 2 THEN A ELSE {}
      BY <1>1, <1>4, <2>2, <2>4 DEF Opened, ParsePortMappings, A
    <3>2. Misread(t, m) <=> m.parts > 2 \/ m.parts = 1
      BY <1>4, <2>4 DEF Misread
    <3>3. m.parts = 2 <=> ~(m.parts > 2 \/ m.parts = 1)
      BY <1>1
    <3> QED
      BY <2>1, <3>1, <3>2, <3>3 DEF A
  <2> QED
    BY <2>3, <2>4
<1> QED
  BY <1>1, <1>2, <1>3, <1>4

\* The addresses of one mapping do not overlap.
LEMMA MappingApart ==
    ASSUME NEW m \in Mappings, NEW a \in PortMappingListenAddrs(m),
           NEW b \in PortMappingListenAddrs(m), a # b
    PROVE  ~Overlap(a, b)
<1>1. CASE m.form = "addr"
  BY <1>1 DEF PortMappingListenAddrs
<1>2. CASE m.form # "addr"
  <2>1. PICK lo, hi : PortMappingListenAddrs(m) = Wildcards(lo, hi)
    BY <1>2 DEF PortMappingListenAddrs
  <2>2. PICK p, q \in lo..hi : a = [host |-> AllHosts, port |-> p] /\ b = [host |-> AllHosts, port |-> q]
    BY <2>1 DEF Wildcards
  <2>3. p # q
    BY <2>2
  <2> QED
    BY <2>2, <2>3 DEF Overlap
<1> QED
  BY <1>1, <1>2

\* An accepted configuration routes to servers with an inbound runtime only.
LEMMA RoutesAccepted ==
    ASSUME NEW cfg, TRUE \in ValidateConfig(cfg) PROVE RoutesResolve(cfg)
<1>1. \A g \in Elements(cfg.gateways) : ValidGateway(cfg, g)
  BY DEF ValidateConfig, ValidHTTPGateway
<1> QED
  BY <1>1 DEF ValidGateway, RoutesResolve, Referenced

-----------------------------------------------------------------------------
(* The instances and their listeners.                                      *)

Cfg(i) == Decoded[inst[i].cfg]

\* No more reloads than edits, and the cancelled instance is the current one.
WatchInv ==
    /\ watch.pc = "start" => current = 1
    /\ watch.pc = "watch" => current <= watch.last + 1
    /\ watch.pc = "sleep" => current <= watch.seen /\ inst[current].live = FALSE

\* An earlier instance is cancelled and has nothing left to start; a later one does
\* not exist.  What is in force was accepted, and only its servers have links.
InstOK(i) ==
    /\ i > current => inst[i].pc = "none"
    /\ i < current => /\ inst[i].pc = "serve" /\ inst[i].live = FALSE
                      /\ inst[i].gw = Len(Cfg(i).gateways)
    /\ inst[i].pc = "serve" => inst[i].cfg \in Files /\ TRUE \in Verdicts[inst[i].cfg]
    /\ \A n \in Names :
          link[i][n] # "none" => inst[i].pc = "serve" /\ n \in ServerNames(Cfg(i))

InstInv == \A i \in Instances : InstOK(i)

\* Listener b is the one at place x of the configuration.
PlacedAt(cfg, b, x) ==
    /\ b.addr \in ListenerAt(cfg, x).addrs
    /\ IF b.kind = "gateway" THEN x = <<0, b.at>>
       ELSE /\ x[1] # 0 /\ cfg.servers[x[1]].name = b.owner /\ x = <<x[1], b.at + 1>>
            /\ b.kind = IF b.at = 0 THEN "bind" ELSE "port"

\* A bound listener comes from the configuration of its instance, which has got as
\* far as to open it.
BoundOK(b) ==
    /\ b = Listener(b.inst, b.owner, b.kind, b.at, b.addr)
    /\ b.inst \in Instances /\ b.owner \in Owners /\ b.at \in Nat
    /\ inst[b.inst].pc = "serve"
    /\ inst[b.inst].cfg \notin Overlapping =>
          \E x \in AllPlaces(Cfg(b.inst)) : PlacedAt(Cfg(b.inst), b, x)
    /\ b.kind = "gateway" => b.at <= inst[b.inst].gw
    /\ b.kind # "gateway" =>
          b.owner \in Names /\ link[b.inst][b.owner] \notin {"none", "start", "asleep"}
    /\ b.inst < current => b.kind = "bind"

BoundInv == \A b \in bound : BoundOK(b)

\* What BindFailureExplained says of the listeners that met.
Explained == \E b \in proc.by : inst[b.inst].cfg \in Overlapping \/ Stale(b)

ProcInv ==
    /\ proc.st = "up" => proc.why = "none"
    /\ proc.why = "bind" => proc.st = "dead" /\ Explained

ReloadInv == TypeOK /\ WatchInv /\ InstInv /\ BoundInv /\ ProcInv

\* The places of servers' listeners.
LEMMA ServerPlace ==
    ASSUME NEW cfg, NEW x \in AllPlaces(cfg), x[1] # 0
    PROVE  /\ x[1] \in 1..Len(cfg.servers)
           /\ x[2] \in 1..Len(ServerListeners(cfg.servers[x[1]]))
           /\ ListenerAt(cfg, x) = ServerListeners(cfg.servers[x[1]])[x[2]]
<1>1. x \in ServerPlaces(cfg, Len(cfg.servers))
  <2>1. ASSUME x \in Places(0, Len(cfg.gateways)) PROVE FALSE
    BY <2>1 DEF Places
  <2> QED
    BY <2>1 DEF AllPlaces
<1>2. PICK i \in 1..Len(cfg.servers) : x \in Places(i, Len(ServerListeners(cfg.servers[i])))
  BY <1>1 DEF ServerPlaces
<1>3. PICK p \in 1..Len(ServerListeners(cfg.servers[i])) : x = <<i, p>>
  BY <1>2 DEF Places
<1>4. x[1] = i /\ x[2] = p
  BY <1>3
<1> QED
  BY <1>3, <1>4 DEF ListenerAt

Same(b, l) ==
    /\ b.kind = l.kind /\ b.at = l.at
    /\ b.kind # "gateway" => b.owner = l.owner
    /\ b.kind = "port" => b.addr = l.addr

\* Two listeners of one instance that overlap are the same.
LEMMA NoMeeting ==
    ASSUME NEW f \in Files, TRUE \in ValidateConfig(Decoded[f]), ~SelfOverlap(Decoded[f]),
           NEW b, NEW l, b.at \in Nat, l.at \in Nat, Overlap(b.addr, l.addr),
           NEW x \in AllPlaces(Decoded[f]), PlacedAt(Decoded[f], b, x),
           NEW y \in AllPlaces(Decoded[f]), PlacedAt(Decoded[f], l, y)
    PROVE  Same(b, l)
<1> USE DEF Same
<1> DEFINE cfg == Decoded[f]
<1>1. PICK t : Registered(cfg, t, AllPlaces(cfg))
  BY AcceptedApart
<1>2. b.addr \in ListenerAt(cfg, x).addrs /\ l.addr \in ListenerAt(cfg, y).addrs
  BY DEF PlacedAt
<1>3. \A i \in 1..Len(cfg.servers) : cfg.servers[i].ports \in Seq(Mappings)
  BY DecodedType
<1> HIDE DEF cfg
<1>4. x = y
  <2>1. x # y => Apart(ListenerAt(cfg, x), ListenerAt(cfg, y))
    BY <1>1 DEF Registered, cfg
  <2> QED
    BY <1>2, <2>1 DEF Apart
<1>5. CASE b.kind = "gateway"
  <2>1. x = <<0, b.at>> /\ x[1] = 0 /\ x[2] = b.at
    BY <1>5 DEF PlacedAt
  <2>2. l.kind = "gateway"
    BY <1>4, <2>1 DEF PlacedAt
  <2>3. x = <<0, l.at>>
    BY <1>4, <2>2 DEF PlacedAt
  <2>4. x[2] = l.at
    BY <2>3
  <2> QED
    BY <1>5, <2>1, <2>2, <2>4
<1>6. CASE b.kind # "gateway"
  <2>1. /\ x[1] # 0 /\ cfg.servers[x[1]].name = b.owner /\ x = <<x[1], b.at + 1>>
        /\ b.kind = IF b.at = 0 THEN "bind" ELSE "port"
    BY <1>6 DEF PlacedAt, cfg
  <2>2. l.kind # "gateway"
    <3>1. CASE l.kind = "gateway"
      <4>1. x = <<0, l.at>>
        BY <1>4, <3>1 DEF PlacedAt
      <4> QED
        BY <2>1, <4>1
    <3> QED
      BY <3>1
  <2>3. /\ cfg.servers[x[1]].name = l.owner /\ x = <<x[1], l.at + 1>>
        /\ l.kind = IF l.at = 0 THEN "bind" ELSE "port"
    BY <1>4, <2>2 DEF PlacedAt, cfg
  <2>4. x[2] = b.at + 1 /\ x[2] = l.at + 1
    BY <2>1, <2>3
  <2>5. b.at = l.at
    BY <2>4
  <2>6. b.kind = l.kind /\ b.owner = l.owner
    BY <2>1, <2>3, <2>5
  <2>7. ASSUME b.kind = "port" PROVE b.addr = l.addr
    <3> DEFINE s == cfg.servers[x[1]]
    <3>1. b.at # 0
      BY <2>1, <2>7
    <3>2. /\ x[1] \in 1..Len(cfg.servers)
          /\ x[2] \in 1..Len(ServerListeners(s)) /\ ListenerAt(cfg, x) = ServerListeners(s)[x[2]]
      BY <2>1, ServerPlace DEF cfg
    <3>3. s.ports \in Seq(Mappings)
      BY <1>3, <3>2
    <3> HIDE DEF s
    <3>4. Len(ServerListeners(s)) = Len(s.ports) + 1 /\ Len(s.ports) \in Nat
      BY <3>3, ServerListenersAre, Zenon
    <3>5. b.at \in 1..Len(s.ports)
      BY <2>4, <3>1, <3>2, <3>4
    <3>6. ServerListeners(s)[b.at + 1] =
              [owner |-> s.name, kind |-> "port", addrs |-> PortMappingListenAddrs(s.ports[b.at])]
      BY <3>3, <3>5, ServerListenersAre, Zenon
    <3>7. ListenerAt(cfg, x).addrs = PortMappingListenAddrs(s.ports[b.at])
      BY <2>4, <3>2, <3>6
    <3>8. s.ports[b.at] \in Mappings
      BY <3>3, <3>5, ElementOfSeq
    <3> QED
      BY <1>2, <1>4, <3>7, <3>8, MappingApart
  <2> QED
    BY <1>6, <2>5, <2>6, <2>7
<1> QED
  BY <1>5, <1>6

\* Listener l of instance i is one of its configuration that is not open yet.
Opening(i, l) ==
    /\ inst[i].pc = "serve"
    /\ inst[i].cfg \notin Overlapping => \E x \in AllPlaces(Cfg(i)) : PlacedAt(Cfg(i), l, x)
    /\ i < current => l.kind = "bind"
    /\ \A b \in bound :
          /\ b.inst = i /\ b.kind = l.kind /\ b.at = l.at
          /\ l.kind # "gateway" => b.owner = l.owner
          => l.kind = "port" /\ b # l

\* A step that at most starts gateways.
GoesOn ==
    \A j \in Instances : /\ inst'[j].cfg = inst[j].cfg /\ inst'[j].live = inst[j].live
                         /\ inst'[j].pc = inst[j].pc /\ inst[j].gw <= inst'[j].gw

\* A listener that the runtime does not have yet either gets its address, or meets
\* one of its own configuration, or one of the two is stale.
LEMMA BindExplained ==
    ASSUME ReloadInv, NEW i \in Instances, NEW owner, NEW kind, NEW at \in Nat, NEW a,
           NEW l, l = Listener(i, owner, kind, at, a), Opening(i, l),
           Bind(i, owner, kind, at, a), GoesOn
    PROVE  \/ proc' = proc /\ bound' = bound \cup {l}
           \/ bound' = bound /\ proc'.st = "dead" /\ proc'.why = "bind" /\ Explained'
<1> DEFINE met == {b \in bound : Overlap(b.addr, a)}
<1>1. CASE met = {}
  BY <1>1 DEF Bind
<1>2. CASE met # {}
  <2>1. bound' = bound /\ proc' = [st |-> "dead", why |-> "bind", by |-> met \cup {l}]
    BY <1>2 DEF Bind, Dies
  <2>2. proc'.by = met \cup {l} /\ proc'.st = "dead" /\ proc'.why = "bind"
    BY <2>1
  <2> SUFFICES Explained'
    BY <2>1, <2>2
  <2>3. PICK b \in bound : Overlap(b.addr, a)
    BY <1>2
  <2>4. BoundOK(b)
    BY DEF ReloadInv, BoundInv
  <2>5. b.inst \in Instances /\ b.at \in Nat /\ b.inst \in Int /\ i \in Int /\ current \in Int
    BY <2>4, ReloadAssumption DEF BoundOK, ReloadInv, TypeOK, Instances
  <2>6. l.inst = i /\ l.owner = owner /\ l.kind = kind /\ l.at = at /\ l.addr = a
    BY DEF Listener
  <2>7. ASSUME NEW c \in met \cup {l}, c.kind = "bind", c.inst \in Instances, c.inst < current
        PROVE  Explained'
    <3>1. inst[c.inst].live = FALSE
      BY <2>7 DEF ReloadInv, InstInv, InstOK
    <3>2. inst'[c.inst].live = FALSE
      BY <2>7, <3>1 DEF GoesOn
    <3>3. Stale(c)'
      BY <2>7, <3>2 DEF Stale
    <3> QED
      BY <2>2, <3>3 DEF Explained
  <2>8. b \in met \cup {l} /\ l \in met \cup {l}
    BY <2>3
  <2>9. CASE b.inst < current
    <3>1. b.kind = "bind"
      BY <2>4, <2>9 DEF BoundOK
    <3> QED
      BY <2>5, <2>7, <2>8, <2>9, <3>1
  <2>10. CASE i < current
    <3>1. l.kind = "bind"
      BY <2>10 DEF Opening
    <3> QED
      BY <2>6, <2>7, <2>8, <2>10, <3>1
  <2>11. CASE ~(b.inst < current) /\ ~(i < current)
    <3>1. inst[b.inst].pc = "serve" /\ inst[i].pc = "serve"
      BY <2>4 DEF BoundOK, Opening
    <3>2. ~(b.inst > current) /\ ~(i > current)
      BY <2>5, <3>1 DEF ReloadInv, InstInv, InstOK
    <3>3. b.inst = i
      BY <2>5, <2>11, <3>2
    <3>4. CASE inst[i].cfg \in Overlapping
      <4>1. inst'[l.inst].cfg \in Overlapping
        BY <2>6, <3>4 DEF GoesOn
      <4> QED
        <5>1. Overlapping' = Overlapping
          BY DEF Overlapping
        <5> QED
          BY <2>2, <2>8, <4>1, <5>1 DEF Explained
    <3>5. CASE inst[i].cfg \notin Overlapping
      <4>1. PICK f \in Files : f = inst[i].cfg /\ TRUE \in Verdicts[f]
        BY <3>1 DEF ReloadInv, InstInv, InstOK
      <4>2. PICK y \in AllPlaces(Decoded[f]) : PlacedAt(Decoded[f], l, y)
        BY <3>5, <4>1 DEF Cfg, Opening
      <4>3. PICK x \in AllPlaces(Decoded[f]) : PlacedAt(Decoded[f], b, x)
        BY <2>4, <3>3, <3>5, <4>1 DEF Cfg, BoundOK
      <4>4. ~SelfOverlap(Decoded[f])
        BY <3>5, <4>1 DEF Overlapping
      <4>5. TRUE \in ValidateConfig(Decoded[f])
        BY <4>1 DEF Verdicts
      <4>6. Same(b, l)
        <5>1. Overlap(b.addr, l.addr) /\ b.at \in Nat /\ l.at \in Nat
          BY <2>3, <2>5, <2>6
        <5> QED
          BY <4>2, <4>3, <4>4, <4>5, <5>1, NoMeeting, Zenon
      <4>7. kind = "port" /\ b # l
        BY <2>6, <3>3, <4>6 DEF Same, Opening
      <4>8. b = Listener(b.inst, b.owner, b.kind, b.at, b.addr)
        BY <2>4 DEF BoundOK
      <4>9. b = l
        BY <2>6, <3>3, <4>6, <4>7, <4>8 DEF Same
      <4> QED
        BY <4>7, <4>9
    <3> QED
      BY <3>4, <3>5
  <2> QED
    BY <2>1, <2>2, <2>9, <2>10, <2>11
<1> QED
  BY <1>1, <1>2

-----------------------------------------------------------------------------
(* The steps.                                                              *)

\* A listener stays well placed as long as its instance goes on.
LEMMA BoundKept ==
    ASSUME NEW b, BoundOK(b), current' = current,
           inst'[b.inst].pc = inst[b.inst].pc, inst'[b.inst].cfg = inst[b.inst].cfg,
           b.kind = "gateway" => b.at <= inst'[b.inst].gw,
           b.kind # "gateway" => link'[b.inst][b.owner] \notin {"none", "start", "asleep"}
    PROVE  BoundOK(b)'
BY DEF BoundOK, Cfg

\* The same, when the instances and the links do not change.
LEMMA BoundSame ==
    ASSUME BoundInv, UNCHANGED <<current, inst, link>>, bound' \subseteq bound
    PROVE  BoundInv'
<1> SUFFICES ASSUME NEW b \in bound' PROVE BoundOK(b)'
  BY DEF BoundInv
<1>1. BoundOK(b)
  BY DEF BoundInv
<1> QED
  BY <1>1, BoundKept DEF BoundOK

\* The facts about the instances do not depend on how far a link is.
LEMMA InstSame ==
    ASSUME InstInv, UNCHANGED <<current, inst>>,
           \A i \in Instances : \A n \in Names : link'[i][n] # "none" => link[i][n] # "none"
    PROVE  InstInv'
BY DEF InstInv, InstOK, Cfg

\* Nor on what the others do.
LEMMA InstKept ==
    ASSUME NEW j, InstOK(j), inst'[j] = inst[j], link'[j] = link[j],
           j > current' => j > current, j < current' => j < current
    PROVE  InstOK(j)'
BY DEF InstOK, Cfg

\* A process that is up has not met anything.
LEMMA ProcSame == ASSUME ProcInv, Running, UNCHANGED proc PROVE ProcInv'
BY DEF ProcInv, Running

\* The file, the watcher and the timers are seen by nobody else.
LEMMA EditStep == ASSUME ReloadInv, Edit PROVE ReloadInv'
<1> USE DEF ReloadInv
<1>1. UNCHANGED <<watch, current, inst, link, bound, timers, proc>> /\ Running
  BY DEF Edit
<1>2. file' \in [mtime : 0..MaxEdits, cfg : Files \cup {Broken}]
  <2>1. file.mtime \in 0..MaxEdits /\ file.mtime < MaxEdits
    BY DEF Edit, TypeOK
  <2>2. file.mtime + 1 \in 0..MaxEdits
    BY <2>1, ReloadAssumption
  <2> QED
    BY <2>2 DEF Edit
<1>3. TypeOK'
  BY <1>1, <1>2 DEF TypeOK
<1>4. WatchInv'
  BY <1>1 DEF WatchInv
<1> QED
  BY <1>1, <1>3, <1>4, InstSame, BoundSame, ProcSame

\* The fields of the watcher.
Watches == [pc : {"start", "watch", "sleep"}, last : 0..MaxEdits, seen : 0..MaxEdits]

\* What the type invariant says of the watcher and its clocks.
LEMMA WatchTypes ==
    ASSUME TypeOK
    PROVE  /\ watch \in Watches /\ file.mtime \in 0..MaxEdits
           /\ file.mtime \in Nat /\ watch.last \in Nat /\ watch.seen \in 0..MaxEdits
           /\ current \in Instances /\ current \in Nat /\ MaxEdits \in Nat
<1>1. MaxEdits \in Nat
  BY ReloadAssumption
<1>2. watch \in Watches /\ file.mtime \in 0..MaxEdits /\ current \in Instances
  BY DEF TypeOK, Watches
<1>3. watch.last \in 0..MaxEdits /\ watch.seen \in 0..MaxEdits
  BY <1>2 DEF Watches
<1>4. current \in Nat /\ file.mtime \in Nat /\ watch.last \in Nat
  BY <1>1, <1>2, <1>3 DEF Instances
<1> QED
  BY <1>1, <1>2, <1>3, <1>4

\* The watcher's first look at the file concerns nobody else.
LEMMA HotReloadStartsStep == ASSUME ReloadInv, HotReloadStarts PROVE ReloadInv'
<1> USE DEF ReloadInv
<1>1. /\ UNCHANGED <<file, current, inst, link, bound, timers, proc>> /\ Running
      /\ watch.pc = "start" /\ watch' = [watch EXCEPT !.pc = "watch", !.last = file.mtime]
  BY DEF HotReloadStarts
<1>2. /\ watch' \in Watches
      /\ watch'.pc = "watch" /\ watch'.last = file.mtime /\ file.mtime \in Nat
  BY <1>1, WatchTypes DEF Watches
<1>3. TypeOK'
  BY <1>1, <1>2 DEF TypeOK, Watches
<1>4. current = 1
  BY <1>1 DEF WatchInv
<1>5. WatchInv'
  BY <1>1, <1>2, <1>4 DEF WatchInv
<1> QED
  BY <1>1, <1>3, <1>5, InstSame, BoundSame, ProcSame

\* The fields of an instance.
Insts == [pc : {"none", "load", "serve"}, gw : Nat,
          cfg : Files \cup {Broken}, mtime : 0..MaxEdits, live : BOOLEAN]

\* Instances that do not exist yet or have just begun.
LEMMA NewInstances ==
    /\ Absent \in Insts /\ Absent.pc = "none"
    /\ Loading \in Insts /\ Loading.pc = "load"
<1>1. MaxEdits \in Nat
  BY ReloadAssumption
<1>2. Absent \in Insts /\ Absent.pc = "none"
  BY <1>1 DEF Absent, Insts
<1>3. Loading \in Insts /\ Loading.pc = "load"
  BY <1>2 DEF Loading, Insts
<1> QED
  BY <1>2, <1>3

\* One instance changes.
LEMMA InstChanges ==
    ASSUME TypeOK, NEW i \in Instances, NEW r \in Insts, inst' = [inst EXCEPT ![i] = r]
    PROVE  /\ inst' \in [Instances -> Insts] /\ inst'[i] = r
           /\ \A j \in Instances : j # i => inst'[j] = inst[j]
BY DEF TypeOK, Insts

\* A newer file cancels the current instance: its listeners may now close, and stay
\* where its configuration has them until they do.
LEMMA ChangedStep == ASSUME ReloadInv, Changed PROVE ReloadInv'
<1> USE DEF ReloadInv
<1>1. /\ UNCHANGED <<file, current, link, bound, timers, proc>> /\ Running
      /\ watch.pc = "watch" /\ file.mtime > watch.last
      /\ watch' = [watch EXCEPT !.pc = "sleep", !.seen = file.mtime]
      /\ inst' = [inst EXCEPT ![current].live = FALSE]
  BY DEF Changed
<1>2. /\ watch' \in Watches
      /\ watch'.pc = "sleep" /\ watch'.seen = file.mtime
      /\ file.mtime \in Nat /\ watch.last \in Nat /\ current \in Instances /\ current \in Nat
  BY <1>1, WatchTypes DEF Watches
<1> DEFINE r == [inst[current] EXCEPT !.live = FALSE]
<1>3. /\ r \in Insts /\ r.live = FALSE /\ r.pc = inst[current].pc /\ r.cfg = inst[current].cfg
      /\ r.gw = inst[current].gw
  BY <1>2 DEF TypeOK, Insts
<1>4. inst' = [inst EXCEPT ![current] = r]
  BY <1>1
<1> HIDE DEF r
<1>5. /\ inst' \in [Instances -> Insts] /\ inst'[current] = r
      /\ \A j \in Instances : j # current => inst'[j] = inst[j]
  BY <1>2, <1>3, <1>4, InstChanges
<1>6. TypeOK'
  BY <1>1, <1>2, <1>5 DEF TypeOK, Insts, Watches
<1>7. WatchInv'
  <2>1. current <= watch.last + 1
    BY <1>1 DEF WatchInv
  <2>2. current <= file.mtime
    BY <1>1, <1>2, <2>1
  <2> QED
    BY <1>1, <1>2, <1>3, <1>5, <2>2 DEF WatchInv
<1>8. \A j \in Instances : /\ inst'[j].pc = inst[j].pc /\ inst'[j].cfg = inst[j].cfg
                           /\ inst'[j].gw = inst[j].gw
                           /\ inst[j].live = FALSE => inst'[j].live = FALSE
  BY <1>3, <1>5
<1>9. InstInv'
  BY <1>1, <1>8 DEF InstInv, InstOK, Cfg
<1>10. BoundInv'
  <2> SUFFICES ASSUME NEW b \in bound PROVE BoundOK(b)'
    BY <1>1 DEF BoundInv
  <2>1. BoundOK(b) /\ b.inst \in Instances
    BY DEF BoundInv, BoundOK
  <2>2. b.kind = "gateway" => b.at <= inst'[b.inst].gw
    BY <1>8, <2>1 DEF BoundOK
  <2>3. b.kind # "gateway" => link'[b.inst][b.owner] \notin {"none", "start", "asleep"}
    BY <1>1, <2>1 DEF BoundOK
  <2> QED
    BY <1>1, <1>8, <2>1, <2>2, <2>3, BoundKept
<1> QED
  BY <1>1, <1>6, <1>7, <1>9, <1>10, ProcSame

\* The next instance is to load when the one before it is quiet: it has nothing bound,
\* and from now on it counts as an earlier one.
LEMMA WakeStep == ASSUME ReloadInv, Wake PROVE ReloadInv'
<1> USE DEF ReloadInv
<1>1. /\ UNCHANGED <<file, link, bound, timers, proc>> /\ Running
      /\ watch.pc = "sleep" /\ watch' = [watch EXCEPT !.pc = "watch", !.last = watch.seen]
      /\ current' = current + 1 /\ inst' = [inst EXCEPT ![current + 1] = Loading]
      /\ inst[current].pc = "serve" /\ inst[current].gw = Len(Cfg(current).gateways)
      /\ \A b \in bound : b.inst # current
  BY DEF Wake, Quiet, Cfg
<1>2. /\ watch' \in Watches /\ watch'.pc = "watch" /\ watch'.last = watch.seen
      /\ watch.seen \in 0..MaxEdits /\ current \in Instances /\ current \in Nat /\ MaxEdits \in Nat
  BY <1>1, WatchTypes DEF Watches
<1>3. current <= watch.seen /\ inst[current].live = FALSE
  BY <1>1 DEF WatchInv
<1>4. current + 1 \in Instances
  BY <1>2, <1>3 DEF Instances
<1>5. Loading \in Insts /\ Loading.pc = "load"
  BY NewInstances
<1>6. /\ inst' \in [Instances -> Insts] /\ inst'[current + 1] = Loading
      /\ \A j \in Instances : j # current + 1 => inst'[j] = inst[j]
  BY <1>1, <1>4, <1>5, InstChanges
<1>7. TypeOK'
  BY <1>1, <1>2, <1>4, <1>6 DEF TypeOK, Insts, Watches
<1>8. WatchInv'
  BY <1>1, <1>2, <1>3 DEF WatchInv
<1>9. ASSUME NEW j \in Instances PROVE InstOK(j)'
  <2>1. j \in Nat /\ InstOK(j)
    BY <1>2 DEF Instances, InstInv
  <2>2. CASE j = current + 1
    <3>1. j > current /\ ~(j > current') /\ ~(j < current')
      BY <1>1, <1>2, <2>2
    <3>2. \A n \in Names : link'[j][n] = "none"
      BY <1>1, <2>1, <3>1 DEF InstOK
    <3>3. inst'[j].pc = "load"
      BY <1>5, <1>6, <2>2
    <3> QED
      BY <3>1, <3>2, <3>3 DEF InstOK
  <2>3. CASE j = current
    <3>1. inst'[j] = inst[j] /\ ~(j > current') /\ link' = link
      BY <1>1, <1>2, <1>6, <2>3
    <3>2. inst[j].pc = "serve" /\ inst[j].live = FALSE /\ inst[j].gw = Len(Cfg(j).gateways)
      BY <1>1, <1>3, <2>3
    <3> QED
      BY <2>1, <3>1, <3>2 DEF InstOK, Cfg
  <2>4. CASE j # current /\ j # current + 1
    <3>1. inst'[j] = inst[j] /\ (j > current' => j > current) /\ (j < current' => j < current)
      BY <1>1, <1>2, <1>6, <2>1, <2>4
    <3> QED
      BY <1>1, <2>1, <3>1, InstKept
  <2> QED
    BY <2>2, <2>3, <2>4
<1>10. BoundInv'
  <2> SUFFICES ASSUME NEW b \in bound PROVE BoundOK(b)'
    BY <1>1 DEF BoundInv
  <2>1. BoundOK(b) /\ b.inst \in Instances /\ b.inst # current /\ b.inst \in Nat
    BY <1>1, <1>2 DEF BoundInv, BoundOK, Instances
  <2>2. ~(b.inst > current)
    BY <2>1 DEF BoundOK, InstInv, InstOK
  <2>3. b.inst < current /\ b.inst # current + 1
    BY <1>2, <2>1, <2>2
  <2>4. b.kind = "bind" /\ inst'[b.inst] = inst[b.inst]
    BY <1>6, <2>1, <2>3 DEF BoundOK
  <2> QED
    BY <1>1, <2>1, <2>4 DEF BoundOK, Cfg
<1> QED
  BY <1>1, <1>7, <1>8, <1>9, <1>10, ProcSame DEF InstInv

LinkStates == {"none", "start", "listen", "linked", "asleep", "gone"}

\* Any death but that of a taken address is no matter of ProcInv.
LEMMA ConfigDeath == ASSUME Dies("config", {}) PROVE ProcInv' /\ proc'.st = "dead" /\ proc'.why = "config"
BY DEF Dies, ProcInv

\* The process ends, or the instance serves a file the validator accepted.
LEMMA LoadStep == ASSUME ReloadInv, NEW i \in Instances, Load(i) PROVE ReloadInv'
<1> USE DEF ReloadInv
<1>1. /\ UNCHANGED <<file, watch, current, bound>> /\ Running /\ inst[i].pc = "load"
  BY DEF Load
<1>2. CASE Dies("config", {}) /\ UNCHANGED <<inst, link, timers>>
  <2>1. TypeOK'
    BY <1>1, <1>2, ConfigDeath DEF TypeOK
  <2>2. WatchInv'
    BY <1>1, <1>2 DEF WatchInv
  <2> QED
    BY <1>1, <1>2, <2>1, <2>2, ConfigDeath, InstSame, BoundSame
<1>3. CASE /\ file.cfg # Broken /\ TRUE \in Verdicts[file.cfg]
           /\ inst' = [inst EXCEPT ![i] = [@ EXCEPT !.pc = "serve", !.cfg = file.cfg,
                                                    !.mtime = file.mtime]]
           /\ timers' = IF Decoded[file.cfg].auto > 0 THEN timers \cup {i} ELSE timers
           /\ link' = [link EXCEPT ![i] =
                 [n \in Names |-> IF n \in ServerNames(Decoded[file.cfg]) THEN "start" ELSE "none"]]
           /\ IF Runnable(Decoded[file.cfg]) THEN UNCHANGED proc ELSE Dies("config", {})
  <2> DEFINE r == [inst[i] EXCEPT !.pc = "serve", !.cfg = file.cfg, !.mtime = file.mtime]
             m == [n \in Names |-> IF n \in ServerNames(Decoded[file.cfg]) THEN "start" ELSE "none"]
  <2>1. /\ r \in Insts /\ r.pc = "serve" /\ r.cfg = file.cfg /\ r.live = inst[i].live
        /\ file.cfg \in Files
    BY <1>3 DEF TypeOK, Insts
  <2>2. inst' = [inst EXCEPT ![i] = r]
    BY <1>3
  <2>3. /\ m \in [Names -> LinkStates] /\ link' = [link EXCEPT ![i] = m]
        /\ \A n \in Names : m[n] # "none" => n \in ServerNames(Decoded[file.cfg])
    BY <1>3 DEF LinkStates
  <2> HIDE DEF r, m
  <2>4. /\ inst' \in [Instances -> Insts] /\ inst'[i] = r
        /\ \A j \in Instances : j # i => inst'[j] = inst[j]
    BY <2>1, <2>2, InstChanges
  <2>5. /\ link' \in [Instances -> [Names -> LinkStates]] /\ link'[i] = m
        /\ \A j \in Instances : j # i => link'[j] = link[j]
    BY <2>3 DEF TypeOK, LinkStates
  <2>6. timers' \subseteq Instances
    BY <1>3 DEF TypeOK
  <2>7. /\ proc'.st \in {"up", "dead", "exited"} /\ proc'.why \in {"none", "config", "bind"}
        /\ ProcInv'
    <3>1. CASE UNCHANGED proc
      BY <1>1, <3>1, ProcSame DEF TypeOK
    <3>2. CASE Dies("config", {})
      BY <3>2, ConfigDeath
    <3> QED
      BY <1>3, <3>1, <3>2
  <2>8. TypeOK'
    BY <1>1, <2>4, <2>5, <2>6, <2>7 DEF TypeOK, Insts, LinkStates
  <2>9. i \in Nat /\ current \in Nat /\ i = current
    <3>1. i \in Nat /\ current \in Nat
      BY WatchTypes DEF Instances
    <3>2. ~(i > current) /\ ~(i < current)
      BY <1>1 DEF InstInv, InstOK
    <3> QED
      BY <3>1, <3>2
  <2>10. WatchInv'
    BY <1>1, <2>1, <2>4, <2>9 DEF WatchInv
  <2>11. ASSUME NEW j \in Instances PROVE InstOK(j)'
    <3>1. CASE j = i
      <4>1. ~(j > current') /\ ~(j < current')
        BY <1>1, <2>9, <3>1
      <4>2. inst'[j].pc = "serve" /\ inst'[j].cfg = file.cfg /\ link'[j] = m
        BY <2>1, <2>4, <2>5, <3>1
      <4> QED
        BY <1>3, <2>1, <2>3, <4>1, <4>2 DEF InstOK, Cfg
    <3>2. CASE j # i
      <4>1. inst'[j] = inst[j] /\ link'[j] = link[j] /\ InstOK(j)
        BY <2>4, <2>5, <3>2 DEF InstInv
      <4> QED
        BY <1>1, <4>1, InstKept
    <3> QED
      BY <3>1, <3>2
  <2>12. BoundInv'
    <3> SUFFICES ASSUME NEW b \in bound PROVE BoundOK(b)'
      BY <1>1 DEF BoundInv
    <3>1. BoundOK(b) /\ b.inst \in Instances /\ b.inst # i
      BY <1>1 DEF BoundInv, BoundOK
    <3>2. inst'[b.inst] = inst[b.inst] /\ link'[b.inst] = link[b.inst]
      BY <2>4, <2>5, <3>1
    <3> QED
      BY <1>1, <3>1, <3>2, BoundKept DEF BoundOK
  <2> QED
    BY <2>7, <2>8, <2>10, <2>11, <2>12 DEF InstInv
<1> QED
  BY <1>2, <1>3 DEF Load

-----------------------------------------------------------------------------
(* Where the listeners that the actions open stand in the configuration.   *)

\* A gateway listener is at a place of its configuration.
LEMMA GatewayPlaced ==
    ASSUME NEW f \in Files, NEW p \in 1..Len(Decoded[f].gateways), NEW l,
           l.kind = "gateway", l.at = p, l.addr = Decoded[f].gateways[p].listen
    PROVE  \E x \in AllPlaces(Decoded[f]) : PlacedAt(Decoded[f], l, x)
<1> DEFINE cfg == Decoded[f]
           x == <<0, p>>
<1>1. DOMAIN cfg.gateways = 1..Len(cfg.gateways)
  BY DecodedType
<1>2. x \in AllPlaces(cfg)
  BY DEF AllPlaces, Places
<1>3. x[1] = 0 /\ x[2] = p
  OBVIOUS
<1>4. GatewayListeners(cfg)[p].addrs = {cfg.gateways[p].listen}
  BY <1>1 DEF GatewayListeners
<1>5. PlacedAt(cfg, l, x)
  <2> HIDE DEF x
  <2>1. ListenerAt(cfg, x) = GatewayListeners(cfg)[p]
    BY <1>3 DEF ListenerAt
  <2>2. l.addr \in ListenerAt(cfg, x).addrs
    BY <1>4, <2>1
  <2> QED
    BY <2>2 DEF PlacedAt, x
<1> QED
  BY <1>2, <1>5

\* A place of a server's listener.
LEMMA ServerPlaced ==
    ASSUME NEW f \in Files, NEW j \in 1..Len(Decoded[f].servers),
           NEW p \in 1..Len(ServerListeners(Decoded[f].servers[j]))
    PROVE  /\ <<j, p>> \in AllPlaces(Decoded[f])
           /\ ListenerAt(Decoded[f], <<j, p>>) = ServerListeners(Decoded[f].servers[j])[p]
           /\ <<j, p>>[1] = j /\ <<j, p>>[1] # 0
<1>1. Len(Decoded[f].servers) \in Nat
  BY DecodedType
<1>2. <<j, p>>[1] = j /\ <<j, p>>[2] = p /\ j # 0
  BY <1>1
<1>3. <<j, p>> \in Places(j, Len(ServerListeners(Decoded[f].servers[j])))
  BY DEF Places
<1>4. <<j, p>> \in ServerPlaces(Decoded[f], Len(Decoded[f].servers))
  BY <1>3 DEF ServerPlaces
<1> QED
  BY <1>2, <1>4 DEF AllPlaces, ListenerAt

\* So is a tunnel listener.
LEMMA BindPlaced ==
    ASSUME NEW f \in Files, NEW j \in 1..Len(Decoded[f].servers), NEW l,
           l.kind = "bind", l.at = 0, l.owner = Decoded[f].servers[j].name,
           l.addr = Decoded[f].servers[j].bind
    PROVE  \E x \in AllPlaces(Decoded[f]) : PlacedAt(Decoded[f], l, x)
<1> DEFINE cfg == Decoded[f]
           s == cfg.servers[j]
           x == <<j, 1>>
<1>1. s.ports \in Seq(Mappings)
  BY DecodedType
<1>2. /\ Len(ServerListeners(s)) = Len(s.ports) + 1 /\ Len(s.ports) \in Nat
      /\ ServerListeners(s)[1] = [owner |-> s.name, kind |-> "bind", addrs |-> {s.bind}]
  <2> HIDE DEF s
  <2> QED
    BY <1>1, ServerListenersAre, Zenon
<1>3. 1 \in 1..Len(ServerListeners(s))
  BY <1>2
<1>4. x \in AllPlaces(cfg) /\ ListenerAt(cfg, x) = ServerListeners(s)[1] /\ x[1] = j /\ x[1] # 0
  BY <1>3, ServerPlaced
<1>5. l.addr \in ListenerAt(cfg, x).addrs
  BY <1>2, <1>4
<1>6. x = <<x[1], l.at + 1>>
  BY <1>4
<1>7. PlacedAt(cfg, l, x)
  <2> HIDE DEF x, cfg
  <2>1. cfg.servers[x[1]].name = l.owner
    BY <1>4 DEF cfg
  <2> QED
    BY <1>4, <1>5, <1>6, <2>1 DEF PlacedAt
<1> QED
  BY <1>4, <1>7

\* What a server opens for a mapping was validated, if no server overlaps itself.
LEMMA PortPlaced ==
    ASSUME NEW f \in Files, TRUE \in ValidateConfig(Decoded[f]), ~SelfOverlap(Decoded[f]),
           NEW j \in 1..Len(Decoded[f].servers), NEW k \in DOMAIN Decoded[f].servers[j].ports,
           NEW l, l.kind = "port", l.at = k, l.owner = Decoded[f].servers[j].name,
           l.addr \in Opened(Decoded[f].servers[j].transport, Decoded[f].servers[j].ports[k])
    PROVE  \E x \in AllPlaces(Decoded[f]) : PlacedAt(Decoded[f], l, x)
<1> DEFINE cfg == Decoded[f]
           s == cfg.servers[j]
           x == <<j, k + 1>>
<1>1. s.ports \in Seq(Mappings) /\ s.transport \in Transports
  BY DecodedType
<1> HIDE DEF s
<1>2. /\ Len(ServerListeners(s)) = Len(s.ports) + 1 /\ Len(s.ports) \in Nat
      /\ DOMAIN s.ports = 1..Len(s.ports)
  BY <1>1, ServerListenersAre, Zenon
<1>3. k \in 1..Len(s.ports)
  BY <1>2 DEF s
<1>4. ServerListeners(s)[k + 1] =
          [owner |-> s.name, kind |-> "port", addrs |-> PortMappingListenAddrs(s.ports[k])]
  BY <1>1, <1>3, ServerListenersAre, Zenon
<1>5. k + 1 \in 1..Len(ServerListeners(s)) /\ k # 0
  BY <1>2, <1>3
<1>6. x \in AllPlaces(cfg) /\ ListenerAt(cfg, x) = ServerListeners(s)[k + 1] /\ x[1] = j /\ x[1] # 0
  BY <1>5, ServerPlaced DEF s
<1>7. ListenerAt(cfg, x).addrs = PortMappingListenAddrs(s.ports[k])
  BY <1>4, <1>6
<1>8. PICK t : Registered(cfg, t, AllPlaces(cfg))
  BY AcceptedApart
<1>9. PortMappingListenAddrs(s.ports[k]) # {}
  BY <1>6, <1>7, <1>8 DEF Registered
<1>10. s.ports[k] \in Mappings
  BY <1>1, <1>3, ElementOfSeq
<1>11. Opened(s.transport, s.ports[k]) \subseteq PortMappingListenAddrs(s.ports[k])
  BY <1>1, <1>9, <1>10, MappingsUnderstood DEF Agreed, MappingsAgree
<1>12. l.addr \in ListenerAt(cfg, x).addrs
  BY <1>7, <1>11 DEF s
<1>13. x = <<x[1], l.at + 1>>
  BY <1>6
<1>14. PlacedAt(cfg, l, x)
  <2> HIDE DEF x, cfg
  <2>1. cfg.servers[x[1]].name = l.owner
    BY <1>6 DEF cfg
  <2> QED
    BY <1>5, <1>6, <1>12, <1>13, <2>1 DEF PlacedAt
<1> QED
  BY <1>6, <1>14

\* The server of a link that is in use.
LEMMA ServerOfIs ==
    ASSUME InstInv, NEW i \in Instances, NEW n \in Names, link[i][n] # "none"
    PROVE  /\ inst[i].pc = "serve"
           /\ \E f \in Files : /\ f = inst[i].cfg /\ TRUE \in ValidateConfig(Decoded[f])
                               /\ \E j \in 1..Len(Decoded[f].servers) :
                                     ServerOf(i, n) = Decoded[f].servers[j]
                                     /\ Decoded[f].servers[j].name = n
<1>1. inst[i].pc = "serve" /\ n \in ServerNames(Cfg(i))
  BY DEF InstInv, InstOK
<1>2. PICK f \in Files : f = inst[i].cfg /\ TRUE \in Verdicts[f]
  BY <1>1 DEF InstInv, InstOK
<1>3. TRUE \in ValidateConfig(Decoded[f])
  BY <1>2 DEF Verdicts
<1>4. DOMAIN Decoded[f].servers = 1..Len(Decoded[f].servers)
  BY DecodedType
<1>5. \E s \in Elements(Decoded[f].servers) : s.name = n
  BY <1>1, <1>2 DEF ServerNames, Cfg, Elements
<1>6. ServerOf(i, n) \in Elements(Decoded[f].servers) /\ ServerOf(i, n).name = n
  BY <1>2, <1>5 DEF ServerOf
<1>7. PICK j \in 1..Len(Decoded[f].servers) : ServerOf(i, n) = Decoded[f].servers[j]
  BY <1>4, <1>6 DEF Elements
<1> QED
  BY <1>1, <1>2, <1>3, <1>6, <1>7

-----------------------------------------------------------------------------
(* The steps that open and close listeners.                                *)

InUse == LinkStates \ {"none", "start", "asleep"}

\* The servers whose listeners are open stay in use.
LinksHold == \A b \in bound : b.kind # "gateway" => link'[b.inst][b.owner] \in InUse

\* A step that asks for an address, whatever else it does.
LEMMA BindStep ==
    ASSUME ReloadInv, Running, NEW i \in Instances,
           NEW owner \in Owners, NEW kind, NEW at \in Nat, NEW a,
           NEW l, l = Listener(i, owner, kind, at, a), Opening(i, l),
           Bind(i, owner, kind, at, a), GoesOn,
           UNCHANGED <<file, watch, current, timers>>,
           inst' \in [Instances -> Insts], link' \in [Instances -> [Names -> LinkStates]],
           LinksHold, kind = "gateway" => at <= inst'[i].gw,
           kind # "gateway" => owner \in Names /\ link'[i][owner] \in InUse,
           InstInv'
    PROVE  ReloadInv'
<1> USE DEF ReloadInv
<1>1. \/ proc' = proc /\ bound' = bound \cup {l}
      \/ bound' = bound /\ proc'.st = "dead" /\ proc'.why = "bind" /\ Explained'
  BY BindExplained
<1>2. /\ l.inst = i /\ l.owner = owner /\ l.kind = kind /\ l.at = at /\ l.addr = a
      /\ l = Listener(l.inst, l.owner, l.kind, l.at, l.addr)
  BY DEF Listener
<1>3. ProcInv' /\ proc'.st \in {"up", "dead", "exited"} /\ proc'.why \in {"none", "config", "bind"}
  <2>1. CASE proc' = proc
    BY <2>1, ProcSame DEF TypeOK
  <2>2. CASE proc'.st = "dead" /\ proc'.why = "bind" /\ Explained'
    BY <2>2 DEF ProcInv
  <2> QED
    BY <1>1, <2>1, <2>2
<1>4. \A b \in bound' : b.inst \in Instances /\ b.owner \in Owners
  <2>1. \A b \in bound : b.inst \in Instances /\ b.owner \in Owners
    BY DEF TypeOK
  <2> QED
    BY <1>1, <1>2, <2>1
<1>5. TypeOK'
  BY <1>3, <1>4 DEF TypeOK, Insts, LinkStates
<1>6. WatchInv'
  <2>1. current \in Instances
    BY DEF TypeOK
  <2> QED
    BY <2>1 DEF WatchInv, GoesOn
<1>7. ASSUME NEW b \in bound PROVE BoundOK(b)'
  <2>1. BoundOK(b) /\ b.inst \in Instances /\ b.at \in Nat
    BY DEF BoundInv, BoundOK
  <2>2. b.kind = "gateway" => b.at <= inst'[b.inst].gw
    <3>1. inst[b.inst].gw <= inst'[b.inst].gw /\ inst[b.inst].gw \in Nat /\ inst'[b.inst].gw \in Nat
      BY <2>1 DEF TypeOK, Insts, GoesOn
    <3>2. b.kind = "gateway" => b.at <= inst[b.inst].gw
      BY <2>1 DEF BoundOK
    <3> QED
      BY <2>1, <3>1, <3>2
  <2>3. b.kind # "gateway" => link'[b.inst][b.owner] \notin {"none", "start", "asleep"}
    BY DEF InUse, LinksHold
  <2> QED
    BY <2>1, <2>2, <2>3, BoundKept DEF GoesOn
<1>8. BoundOK(l)'
  <2>1. /\ inst[i].cfg \notin Overlapping => \E x \in AllPlaces(Cfg(i)) : PlacedAt(Cfg(i), l, x)
        /\ inst'[i].cfg = inst[i].cfg /\ inst'[i].pc = "serve" /\ (i < current => kind = "bind")
    BY <1>2 DEF GoesOn, Opening
  <2>2. kind # "gateway" => owner \in Names /\ link'[i][owner] \notin {"none", "start", "asleep"}
    BY DEF InUse
  <2> QED
    BY <1>2, <2>1, <2>2 DEF BoundOK, Cfg
<1>9. BoundInv'
  <2>1. CASE bound' = bound \cup {l}
    BY <1>7, <1>8, <2>1 DEF BoundInv
  <2>2. CASE bound' = bound
    BY <1>7, <2>2 DEF BoundInv
  <2> QED
    BY <1>1, <2>1, <2>2
<1> QED
  BY <1>3, <1>5, <1>6, <1>9

\* A gateway binds the next address of the configuration, or fails for a reason that
\* BindFailureExplained allows.
LEMMA StartGatewayStep == ASSUME ReloadInv, NEW i \in Instances, StartGateway(i) PROVE ReloadInv'
<1> USE DEF ReloadInv
<1>1. /\ UNCHANGED <<file, watch, current, link, timers>> /\ Running /\ inst[i].pc = "serve"
      /\ inst[i].gw < Len(Cfg(i).gateways)
      /\ Bind(i, "gateway", "gateway", inst[i].gw + 1, Cfg(i).gateways[inst[i].gw + 1].listen)
      /\ inst' = [inst EXCEPT ![i].gw = @ + 1]
  BY DEF StartGateway, Cfg
<1>2. inst[i] \in Insts /\ inst[i].gw \in Nat /\ link \in [Instances -> [Names -> LinkStates]]
  BY DEF TypeOK, Insts, LinkStates
<1>3. PICK f \in Files : f = inst[i].cfg
  BY <1>1 DEF InstInv, InstOK
<1>4. PICK g \in Nat : g = inst[i].gw
  BY <1>2
<1>5. Len(Decoded[f].gateways) \in Nat
  BY DecodedType
<1>6. g + 1 \in 1..Len(Decoded[f].gateways) /\ g + 1 \in Nat
  BY <1>1, <1>3, <1>4, <1>5 DEF Cfg
<1> DEFINE r == [inst[i] EXCEPT !.gw = @ + 1]
<1>7. /\ r \in Insts /\ r.gw = g + 1 /\ r.pc = inst[i].pc /\ r.cfg = inst[i].cfg
      /\ r.live = inst[i].live
  BY <1>2, <1>4 DEF Insts
<1>8. inst' = [inst EXCEPT ![i] = r]
  BY <1>1
<1> HIDE DEF r
<1>9. /\ inst' \in [Instances -> Insts] /\ inst'[i] = r
      /\ \A j \in Instances : j # i => inst'[j] = inst[j]
  BY <1>7, <1>8, InstChanges
<1>10. ~(i < current)
  <2>1. inst[i].gw # Len(Cfg(i).gateways)
    BY <1>1, <1>3, <1>4, <1>5 DEF Cfg
  <2> QED
    BY <2>1 DEF InstInv, InstOK
<1>11. ASSUME NEW j \in Instances PROVE InstOK(j)'
  <2>1. InstOK(j) /\ current' = current /\ link' = link
    BY <1>1 DEF InstInv
  <2>2. CASE j = i
    <3>1. inst'[j].pc = inst[j].pc /\ inst'[j].cfg = inst[j].cfg /\ ~(j < current)
      BY <1>7, <1>9, <1>10, <2>2
    <3> QED
      BY <2>1, <3>1 DEF InstOK, Cfg
  <2>3. CASE j # i
    BY <1>9, <2>1, <2>3, InstKept
  <2> QED
    BY <2>2, <2>3
<1>12. ASSUME NEW j \in Instances
       PROVE  /\ inst'[j].cfg = inst[j].cfg /\ inst'[j].live = inst[j].live
              /\ inst'[j].pc = inst[j].pc /\ inst[j].gw <= inst'[j].gw
  <2>1. inst[j].gw \in Nat
    BY DEF TypeOK
  <2>2. CASE j = i
    BY <1>4, <1>7, <1>9, <2>1, <2>2
  <2>3. CASE j # i
    BY <1>9, <2>1, <2>3
  <2> QED
    BY <2>2, <2>3
<1> DEFINE a == Decoded[f].gateways[g + 1].listen
           l == Listener(i, "gateway", "gateway", g + 1, a)
<1>13. l.kind = "gateway" /\ l.at = g + 1 /\ l.addr = a
  BY DEF Listener
<1>14. \E x \in AllPlaces(Decoded[f]) : PlacedAt(Decoded[f], l, x)
  BY <1>6, <1>13, GatewayPlaced
<1>15. ASSUME NEW b \in bound PROVE ~(b.inst = i /\ b.kind = "gateway" /\ b.at = g + 1)
  <2>1. b.kind = "gateway" => b.at <= inst[b.inst].gw
    BY DEF BoundInv, BoundOK
  <2> QED
    BY <1>4, <2>1
<1>16. ASSUME NEW b \in bound, b.kind # "gateway" PROVE link'[b.inst][b.owner] \in InUse
  <2>1. BoundOK(b)
    BY DEF BoundInv
  <2> QED
    BY <1>1, <1>2, <1>16, <2>1 DEF BoundOK, InUse
<1>17. Bind(i, "gateway", "gateway", g + 1, a)
  BY <1>1, <1>3, <1>4 DEF Cfg
<1>18. "gateway" \in Owners /\ g + 1 <= inst'[i].gw
  BY <1>6, <1>7, <1>9 DEF Owners
<1>19. \E x \in AllPlaces(Cfg(i)) : PlacedAt(Cfg(i), l, x)
  BY <1>3, <1>14 DEF Cfg
<1> HIDE DEF l, a
<1>20. Opening(i, l)
  BY <1>1, <1>10, <1>13, <1>15, <1>19 DEF Opening
<1>21. l = Listener(i, "gateway", "gateway", g + 1, a) /\ link' \in [Instances -> [Names -> LinkStates]]
  BY <1>1, <1>2 DEF l
<1>22. InstInv' /\ GoesOn /\ LinksHold
  BY <1>11, <1>12, <1>16 DEF InstInv, GoesOn, LinksHold
<1> QED
  BY <1>1, <1>6, <1>9, <1>17, <1>18, <1>20, <1>21, <1>22, BindStep

\* One link changes.
LEMMA LinkChanges ==
    ASSUME TypeOK, NEW i \in Instances, NEW n \in Names, NEW v \in LinkStates,
           link' = [link EXCEPT ![i][n] = v]
    PROVE  /\ link' \in [Instances -> [Names -> LinkStates]] /\ link'[i][n] = v
           /\ \A j \in Instances : \A m \in Names : j # i \/ m # n => link'[j][m] = link[j][m]
<1>1. link \in [Instances -> [Names -> LinkStates]]
  BY DEF TypeOK, LinkStates
<1> DEFINE r == [link[i] EXCEPT ![n] = v]
<1>2. link[i] \in [Names -> LinkStates]
  BY <1>1
<1>3. r \in [Names -> LinkStates] /\ r[n] = v /\ \A m \in Names : m # n => r[m] = link[i][m]
  BY <1>2
<1>4. link' = [link EXCEPT ![i] = r]
  OBVIOUS
<1> HIDE DEF r
<1>5. link' \in [Instances -> [Names -> LinkStates]] /\ link'[i] = r
      /\ \A j \in Instances : j # i => link'[j] = link[j]
  BY <1>1, <1>3, <1>4
<1> QED
  BY <1>3, <1>5

\* A step that changes links and closes listeners.
LEMMA LinkStep ==
    ASSUME ReloadInv, Running, UNCHANGED <<file, watch, current, inst, timers, proc>>,
           link' \in [Instances -> [Names -> LinkStates]], bound' \subseteq bound,
           \A j \in Instances : \A m \in Names : link'[j][m] # "none" => link[j][m] # "none",
           \A b \in bound' : b.kind # "gateway" => link'[b.inst][b.owner] \in InUse
    PROVE  ReloadInv'
<1> USE DEF ReloadInv
<1>1. TypeOK'
  BY DEF TypeOK, LinkStates
<1>2. WatchInv'
  BY DEF WatchInv
<1>3. BoundInv'
  <2> SUFFICES ASSUME NEW b \in bound' PROVE BoundOK(b)'
    BY DEF BoundInv
  <2>1. BoundOK(b)
    BY DEF BoundInv
  <2>2. b.kind = "gateway" => b.at <= inst'[b.inst].gw
    BY <2>1 DEF BoundOK
  <2>3. b.kind # "gateway" => link'[b.inst][b.owner] \notin {"none", "start", "asleep"}
    BY DEF InUse
  <2> QED
    BY <2>1, <2>2, <2>3, BoundKept
<1> QED
  BY <1>1, <1>2, <1>3, InstSame, ProcSame

\* What a server has open, and how far it is.
LEMMA OpenInUse ==
    ASSUME TypeOK, BoundInv, NEW b \in bound, b.kind # "gateway"
    PROVE  b.inst \in Instances /\ b.owner \in Names /\ link[b.inst][b.owner] \in InUse
<1>1. BoundOK(b) /\ link \in [Instances -> [Names -> LinkStates]]
  BY DEF BoundInv, TypeOK, LinkStates
<1>2. b.inst \in Instances /\ b.owner \in Names
      /\ link[b.inst][b.owner] \notin {"none", "start", "asleep"}
  BY <1>1 DEF BoundOK
<1> QED
  BY <1>1, <1>2 DEF InUse

\* A cancelled instance gives up its listeners, and nobody gets any.
LEMMA ReleaseStep == ASSUME ReloadInv, NEW i \in Instances, Release(i) PROVE ReloadInv'
<1> USE DEF ReloadInv
<1> DEFINE r == [n \in Names |-> IF link[i][n] = "listen" THEN "gone" ELSE link[i][n]]
<1>1. /\ UNCHANGED <<file, watch, current, inst, timers, proc>> /\ Running
      /\ bound' = {b \in bound : b.inst # i}
      /\ link' = [link EXCEPT ![i] = r]
  BY DEF Release
<1>2. link \in [Instances -> [Names -> LinkStates]]
  BY DEF TypeOK, LinkStates
<1>3. r \in [Names -> LinkStates] /\ \A n \in Names : r[n] # "none" => link[i][n] # "none"
  BY <1>2 DEF LinkStates
<1> HIDE DEF r
<1>4. /\ link' \in [Instances -> [Names -> LinkStates]] /\ link'[i] = r
      /\ \A j \in Instances : j # i => link'[j] = link[j]
  BY <1>1, <1>2, <1>3
<1>5. \A j \in Instances : \A m \in Names : link'[j][m] # "none" => link[j][m] # "none"
  BY <1>3, <1>4
<1>6. ASSUME NEW b \in bound', b.kind # "gateway" PROVE link'[b.inst][b.owner] \in InUse
  BY <1>1, <1>4, <1>6, OpenInUse
<1> QED
  BY <1>1, <1>4, <1>5, <1>6, LinkStep

\* A control channel comes up and no listener changes.
LEMMA LinkedStep ==
    ASSUME ReloadInv, NEW i \in Instances, NEW n \in Names, Linked(i, n) PROVE ReloadInv'
<1> USE DEF ReloadInv
<1>1. /\ UNCHANGED <<file, watch, current, inst, bound, timers, proc>> /\ Running
      /\ link[i][n] = "listen" /\ link' = [link EXCEPT ![i][n] = "linked"]
  BY DEF Linked
<1>2. "linked" \in LinkStates /\ "linked" \in InUse
  BY DEF LinkStates, InUse
<1>3. /\ link' \in [Instances -> [Names -> LinkStates]] /\ link'[i][n] = "linked"
      /\ \A j \in Instances : \A m \in Names : j # i \/ m # n => link'[j][m] = link[j][m]
  BY <1>1, <1>2, LinkChanges
<1>4. \A j \in Instances : \A m \in Names : link'[j][m] # "none" => link[j][m] # "none"
  BY <1>1, <1>3
<1>5. ASSUME NEW b \in bound', b.kind # "gateway" PROVE link'[b.inst][b.owner] \in InUse
  <2>1. b.inst \in Instances /\ b.owner \in Names /\ link[b.inst][b.owner] \in InUse
    BY <1>1, <1>5, OpenInUse
  <2> QED
    BY <1>2, <1>3, <2>1
<1> QED
  BY <1>1, <1>3, <1>4, <1>5, LinkStep

\* A restarting server closes its listeners and no gateway's.
LEMMA RestartStep ==
    ASSUME ReloadInv, NEW i \in Instances, NEW n \in Names, Restart(i, n) PROVE ReloadInv'
<1> USE DEF ReloadInv
<1>1. /\ UNCHANGED <<file, watch, current, inst, timers, proc>> /\ Running
      /\ link[i][n] = "linked" /\ link' = [link EXCEPT ![i][n] = "asleep"]
      /\ bound' = {b \in bound : ~(b.inst = i /\ b.owner = n /\ b.kind # "gateway")}
  BY DEF Restart
<1>2. "asleep" \in LinkStates
  BY DEF LinkStates
<1>3. /\ link' \in [Instances -> [Names -> LinkStates]]
      /\ \A j \in Instances : \A m \in Names : j # i \/ m # n => link'[j][m] = link[j][m]
  BY <1>1, <1>2, LinkChanges
<1>4. \A j \in Instances : \A m \in Names : link'[j][m] # "none" => link[j][m] # "none"
  BY <1>1, <1>3
<1>5. ASSUME NEW b \in bound', b.kind # "gateway" PROVE link'[b.inst][b.owner] \in InUse
  <2>1. b.inst \in Instances /\ b.owner \in Names /\ link[b.inst][b.owner] \in InUse
    BY <1>1, <1>5, OpenInUse
  <2>2. b.inst # i \/ b.owner # n
    BY <1>1, <1>5
  <2> QED
    BY <1>3, <2>1, <2>2
<1> QED
  BY <1>1, <1>3, <1>4, <1>5, LinkStep

\* After its sleep it is to start again, with nothing bound.
LEMMA StartAgainStep ==
    ASSUME ReloadInv, NEW i \in Instances, NEW n \in Names, StartAgain(i, n) PROVE ReloadInv'
<1> USE DEF ReloadInv
<1>1. /\ UNCHANGED <<file, watch, current, inst, bound, timers, proc>> /\ Running
      /\ link[i][n] = "asleep" /\ link' = [link EXCEPT ![i][n] = "start"]
  BY DEF StartAgain
<1>2. "start" \in LinkStates /\ "asleep" \notin InUse
  BY DEF LinkStates, InUse
<1>3. /\ link' \in [Instances -> [Names -> LinkStates]]
      /\ \A j \in Instances : \A m \in Names : j # i \/ m # n => link'[j][m] = link[j][m]
  BY <1>1, <1>2, LinkChanges
<1>4. \A j \in Instances : \A m \in Names : link'[j][m] # "none" => link[j][m] # "none"
  BY <1>1, <1>3
<1>5. ASSUME NEW b \in bound', b.kind # "gateway" PROVE link'[b.inst][b.owner] \in InUse
  <2>1. b.inst \in Instances /\ b.owner \in Names /\ link[b.inst][b.owner] \in InUse
    BY <1>1, <1>5, OpenInUse
  <2>2. b.inst # i \/ b.owner # n
    BY <1>1, <1>2, <2>1
  <2> QED
    BY <1>3, <2>1, <2>2
<1> QED
  BY <1>1, <1>3, <1>4, <1>5, LinkStep

\* A server binds its tunnel address, or fails for such a reason.
LEMMA TunnelListenerStep ==
    ASSUME ReloadInv, NEW i \in Instances, NEW n \in Names, TunnelListener(i, n) PROVE ReloadInv'
<1> USE DEF ReloadInv
<1>1. /\ UNCHANGED <<file, watch, current, inst, timers>> /\ Running
      /\ link[i][n] = "start" /\ link' = [link EXCEPT ![i][n] = "listen"]
      /\ Bind(i, n, "bind", 0, ServerOf(i, n).bind)
  BY DEF TunnelListener
<1>2. "listen" \in LinkStates /\ "listen" \in InUse /\ "start" \notin InUse
  BY DEF LinkStates, InUse
<1>3. /\ link' \in [Instances -> [Names -> LinkStates]] /\ link'[i][n] = "listen"
      /\ \A j \in Instances : \A m \in Names : j # i \/ m # n => link'[j][m] = link[j][m]
  BY <1>1, <1>2, LinkChanges
<1>4. \A j \in Instances : \A m \in Names : link'[j][m] # "none" => link[j][m] # "none"
  BY <1>1, <1>3
<1>5. inst[i].pc = "serve"
  BY <1>1, ServerOfIs
<1>0. PICK f \in Files :
          /\ f = inst[i].cfg
          /\ \E j \in 1..Len(Decoded[f].servers) :
                ServerOf(i, n) = Decoded[f].servers[j] /\ Decoded[f].servers[j].name = n
  BY <1>1, ServerOfIs
<1>6. PICK j \in 1..Len(Decoded[f].servers) :
          f = inst[i].cfg /\ ServerOf(i, n) = Decoded[f].servers[j] /\ Decoded[f].servers[j].name = n
  BY <1>0
<1> DEFINE a == Decoded[f].servers[j].bind
           l == Listener(i, n, "bind", 0, a)
<1>7. l.inst = i /\ l.kind = "bind" /\ l.at = 0 /\ l.owner = n /\ l.addr = a
  BY DEF Listener
<1>8. \E x \in AllPlaces(Decoded[f]) : PlacedAt(Decoded[f], l, x)
  BY <1>6, <1>7, BindPlaced
<1>9. Bind(i, n, "bind", 0, a)
  BY <1>1, <1>6
<1>10. \E x \in AllPlaces(Cfg(i)) : PlacedAt(Cfg(i), l, x)
  BY <1>6, <1>8 DEF Cfg
<1> HIDE DEF l, a
<1>11. ASSUME NEW b \in bound PROVE ~(b.inst = i /\ b.kind = "bind" /\ b.owner = n)
  BY <1>1, <1>2, OpenInUse
<1>12. Opening(i, l)
  BY <1>5, <1>7, <1>10, <1>11 DEF Opening
<1>13. ASSUME NEW b \in bound, b.kind # "gateway" PROVE link'[b.inst][b.owner] \in InUse
  <2>1. b.inst \in Instances /\ b.owner \in Names /\ link[b.inst][b.owner] \in InUse
    BY <1>13, OpenInUse
  <2> QED
    BY <1>2, <1>3, <2>1
<1>14. \A k \in Instances : inst[k].gw \in Nat
  BY DEF TypeOK
<1>15. inst' \in [Instances -> Insts] /\ GoesOn /\ LinksHold
  BY <1>1, <1>13, <1>14 DEF GoesOn, LinksHold, TypeOK, Insts
<1>16. InstInv'
  BY <1>1, <1>4, InstSame
<1>17. n \in Owners /\ 0 \in Nat /\ "bind" # "gateway" /\ l = Listener(i, n, "bind", 0, a)
       /\ link'[i][n] \in InUse
  BY <1>2, <1>3 DEF Owners, l
<1> QED
  BY <1>1, <1>3, <1>9, <1>12, <1>15, <1>16, <1>17, BindStep

\* So for every address of its port mappings.
LEMMA LocalListenerStep ==
    ASSUME ReloadInv, NEW i \in Instances, NEW n \in Names, LocalListener(i, n) PROVE ReloadInv'
<1> USE DEF ReloadInv
<1>1. /\ UNCHANGED <<file, watch, current, inst, link, timers>> /\ Running
      /\ link[i][n] = "linked" /\ inst[i].live
  BY DEF LocalListener
<1>2. inst[i].pc = "serve"
  BY <1>1, ServerOfIs
<1>0. PICK f \in Files :
          /\ f = inst[i].cfg /\ TRUE \in ValidateConfig(Decoded[f])
          /\ \E j \in 1..Len(Decoded[f].servers) :
                ServerOf(i, n) = Decoded[f].servers[j] /\ Decoded[f].servers[j].name = n
  BY <1>1, ServerOfIs
<1>3. PICK j \in 1..Len(Decoded[f].servers) :
          /\ f = inst[i].cfg /\ ServerOf(i, n) = Decoded[f].servers[j] /\ Decoded[f].servers[j].name = n
          /\ TRUE \in ValidateConfig(Decoded[f])
  BY <1>0
<1>4. PICK k \in DOMAIN Decoded[f].servers[j].ports :
          \/ Dies("config", {}) /\ UNCHANGED bound
          \/ \E a \in Opened(Decoded[f].servers[j].transport, Decoded[f].servers[j].ports[k]) :
                Listener(i, n, "port", k, a) \notin bound /\ Bind(i, n, "port", k, a)
  BY <1>3 DEF LocalListener
<1>5. CASE Dies("config", {}) /\ UNCHANGED bound
  <2>1. TypeOK'
    BY <1>1, <1>5, ConfigDeath DEF TypeOK
  <2>2. WatchInv'
    BY <1>1 DEF WatchInv
  <2> QED
    BY <1>1, <1>5, <2>1, <2>2, ConfigDeath, InstSame, BoundSame
<1>6. ASSUME NEW a \in Opened(Decoded[f].servers[j].transport, Decoded[f].servers[j].ports[k]),
             Listener(i, n, "port", k, a) \notin bound, Bind(i, n, "port", k, a)
      PROVE  ReloadInv'
  <2> DEFINE l == Listener(i, n, "port", k, a)
  <2>1. l.inst = i /\ l.kind = "port" /\ l.at = k /\ l.owner = n /\ l.addr = a
    BY DEF Listener
  <2>2. ASSUME inst[i].cfg \notin Overlapping
        PROVE  \E x \in AllPlaces(Cfg(i)) : PlacedAt(Cfg(i), l, x)
    <3>1. ~SelfOverlap(Decoded[f])
      BY <1>3, <2>2 DEF Overlapping
    <3> HIDE DEF l
    <3>2. \E x \in AllPlaces(Decoded[f]) : PlacedAt(Decoded[f], l, x)
      BY <1>3, <2>1, <3>1, PortPlaced
    <3> QED
      BY <1>3, <3>2 DEF Cfg
  <2>3. ~(i < current)
    BY <1>1 DEF InstInv, InstOK
  <2>4. l \notin bound
    BY <1>6
  <2>5. k \in Nat
    <3>1. Decoded[f].servers[j].ports \in Seq(Mappings)
      BY DecodedType
    <3>2. /\ DOMAIN Decoded[f].servers[j].ports = 1..Len(Decoded[f].servers[j].ports)
          /\ Len(Decoded[f].servers[j].ports) \in Nat
      BY <3>1, LenProperties
    <3> QED
      BY <3>2
  <2> HIDE DEF l
  <2>6. Opening(i, l)
    BY <1>2, <2>1, <2>2, <2>3, <2>4 DEF Opening
  <2>7. \A m \in Instances : inst[m].gw \in Nat
    BY DEF TypeOK
  <2>8. ASSUME NEW b \in bound, b.kind # "gateway" PROVE link'[b.inst][b.owner] \in InUse
    BY <1>1, <2>8, OpenInUse
  <2>9. /\ inst' \in [Instances -> Insts] /\ link' \in [Instances -> [Names -> LinkStates]]
        /\ GoesOn /\ LinksHold
    BY <1>1, <2>7, <2>8 DEF GoesOn, LinksHold, TypeOK, Insts, LinkStates
  <2>10. InstInv'
    BY <1>1, InstSame
  <2>11. n \in Owners /\ "port" # "gateway" /\ l = Listener(i, n, "port", k, a)
         /\ link'[i][n] \in InUse
    BY <1>1 DEF Owners, InUse, LinkStates, l
  <2> QED
    BY <1>1, <1>6, <2>5, <2>6, <2>9, <2>10, <2>11, BindStep
<1> QED
  BY <1>4, <1>5, <1>6

\* A new process image begins as the first one did.
LEMMA ImageFacts ==
    /\ [pc |-> "start", last |-> 0, seen |-> 0] \in Watches /\ 1 \in Instances
    /\ [i \in Instances |-> IF i = 1 THEN Loading ELSE Absent] \in [Instances -> Insts]
    /\ [i \in Instances |-> NoLinks] \in [Instances -> [Names -> LinkStates]]
<1>1. MaxEdits \in Nat
  BY ReloadAssumption
<1>2. [pc |-> "start", last |-> 0, seen |-> 0] \in Watches /\ 1 \in Instances
  BY <1>1 DEF Watches, Instances
<1>3. NoLinks \in [Names -> LinkStates]
  BY DEF NoLinks, LinkStates
<1> QED
  BY <1>2, <1>3, NewInstances

\* A fresh process: one instance that is to load and no other.
LEMMA ImageInst ==
    ASSUME current = 1, link = [i \in Instances |-> NoLinks],
           inst = [i \in Instances |-> IF i = 1 THEN Loading ELSE Absent]
    PROVE  InstInv
<1> SUFFICES ASSUME NEW j \in Instances PROVE InstOK(j)
  BY DEF InstInv
<1>1. \A n \in Names : link[j][n] = "none"
  BY DEF NoLinks
<1>2. inst[j].pc = IF j = 1 THEN "load" ELSE "none"
  BY NewInstances
<1>3. ~(j < current) /\ (j > current => j # 1)
  BY ReloadAssumption DEF Instances
<1> QED
  BY <1>1, <1>2, <1>3 DEF InstOK

\* The invariant holds when the program starts.
LEMMA ReloadInit == Init => ReloadInv
<1> SUFFICES ASSUME Init PROVE ReloadInv
  OBVIOUS
<1> USE DEF Init
<1>1. file \in [mtime : 0..MaxEdits, cfg : Files \cup {Broken}]
  BY ReloadAssumption
<1>2. proc.st = "up" /\ proc.why = "none"
  BY DEF Up
<1>3. TypeOK
  <2>1. watch \in Watches /\ current \in Instances /\ inst \in [Instances -> Insts]
        /\ link \in [Instances -> [Names -> LinkStates]]
    BY ImageFacts
  <2> QED
    BY <1>1, <1>2, <2>1 DEF TypeOK, Watches, Insts, LinkStates
<1>4. WatchInv
  BY DEF WatchInv
<1>5. InstInv
  BY ImageInst
<1>6. BoundInv /\ ProcInv
  BY <1>2 DEF BoundInv, ProcInv
<1> QED
  BY <1>3, <1>4, <1>5, <1>6 DEF ReloadInv

\* The process image is replaced, or the process exits: nothing is bound.
LEMMA ImageStep ==
    ASSUME ReloadInv, UNCHANGED file, NEW p, Image(p), p \in {Up, Exited} PROVE ReloadInv'
<1> USE DEF Image
<1>1. p.why = "none" /\ p.st \in {"up", "dead", "exited"}
  BY DEF Up, Exited
<1>2. TypeOK'
  <2>1. watch' \in Watches /\ current' \in Instances /\ inst' \in [Instances -> Insts]
        /\ link' \in [Instances -> [Names -> LinkStates]]
    BY ImageFacts
  <2>2. file' \in [mtime : 0..MaxEdits, cfg : Files \cup {Broken}]
    BY DEF ReloadInv, TypeOK
  <2>3. proc'.st \in {"up", "dead", "exited"} /\ proc'.why \in {"none", "config", "bind"}
        /\ bound' = {} /\ timers' = {}
    BY <1>1
  <2> QED
    BY <2>1, <2>2, <2>3 DEF TypeOK, Watches, Insts, LinkStates
<1>3. WatchInv'
  <2>1. watch'.pc = "start" /\ current' = 1
    OBVIOUS
  <2> QED
    BY <2>1 DEF WatchInv
<1>4. ASSUME NEW j \in Instances PROVE InstOK(j)'
  <2>1. \A n \in Names : link'[j][n] = "none"
    BY DEF NoLinks
  <2>2. inst'[j].pc = IF j = 1 THEN "load" ELSE "none"
    BY NewInstances
  <2>3. ~(j < current') /\ (j > current' => j # 1)
    BY ReloadAssumption DEF Instances
  <2> QED
    BY <2>1, <2>2, <2>3 DEF InstOK
<1>5. BoundInv' /\ ProcInv'
  BY <1>1 DEF BoundInv, ProcInv
<1> QED
  BY <1>2, <1>3, <1>4, <1>5 DEF ReloadInv, InstInv

\* Every step keeps the invariant.
LEMMA ReloadStep == ReloadInv /\ [Next]_vars => ReloadInv'
<1> SUFFICES ASSUME ReloadInv, [Next]_vars PROVE ReloadInv'
  OBVIOUS
<1>1. CASE UNCHANGED vars
  <2>1. UNCHANGED <<file, watch, current, inst, link, bound, timers, proc>>
    BY <1>1 DEF vars
  <2>2. TypeOK' /\ WatchInv'
    BY <2>1 DEF ReloadInv, TypeOK, WatchInv
  <2>3. ProcInv'
    BY <2>1 DEF ReloadInv, ProcInv, Explained, Stale
  <2> QED
    BY <2>1, <2>2, <2>3, InstSame, BoundSame DEF ReloadInv
<1>2. CASE Edit
  BY <1>2, EditStep
<1>3. CASE HotReloadStarts
  BY <1>3, HotReloadStartsStep
<1>4. CASE Changed
  BY <1>4, ChangedStep
<1>5. CASE Wake
  BY <1>5, WakeStep
<1>6. CASE ReexecSelf
  BY <1>6, ImageStep DEF ReexecSelf
<1>7. CASE Signal
  BY <1>7, ImageStep DEF Signal
<1>8. ASSUME NEW i \in Instances, Load(i) PROVE ReloadInv'
  BY <1>8, LoadStep
<1>9. ASSUME NEW i \in Instances, StartGateway(i) PROVE ReloadInv'
  BY <1>9, StartGatewayStep
<1>10. ASSUME NEW i \in Instances, Release(i) PROVE ReloadInv'
  BY <1>10, ReleaseStep
<1>11. ASSUME NEW i \in Instances, NEW n \in Names, Transport(i, n) PROVE ReloadInv'
  BY <1>11, TunnelListenerStep, LinkedStep, LocalListenerStep, RestartStep, StartAgainStep
     DEF Transport
<1> QED
  BY <1>1, <1>2, <1>3, <1>4, <1>5, <1>6, <1>7, <1>8, <1>9, <1>10, <1>11 DEF Next

\* The invariant holds in every behaviour.
LEMMA ReloadAlways == Spec => []ReloadInv
BY ReloadInit, ReloadStep, PTL DEF Spec

\* A process that dies of a taken address had a configuration in which one server
\* overlaps itself, or a cancelled transport that restarted: whatever the files,
\* the validator, the cancellation before the sleep and the order of binding rule
\* out everything else.
THEOREM BindFailureCorrect == Spec => []BindFailureExplained
<1>1. ReloadInv => BindFailureExplained
  BY DEF ReloadInv, ProcInv, Explained, BindFailureExplained
<1> QED
  BY <1>1, ReloadAlways, PTL

\* Of a configuration in force each route leads to a server with an inbound
\* runtime, and each mapping is opened as it was validated or ends the process:
\* for all mappings there are, and not only for those at the ends of the ranges.
THEOREM ConfigUnderstoodCorrect == Spec => []ConfigUnderstood
<1>1. ReloadInv => ConfigUnderstood
  <2> SUFFICES ASSUME ReloadInv, NEW i \in Instances, inst[i].pc = "serve"
               PROVE  Agreed /\ RoutesResolve(Decoded[inst[i].cfg])
    BY DEF ConfigUnderstood
  <2>1. PICK f \in Files : f = inst[i].cfg /\ TRUE \in Verdicts[f]
    BY DEF ReloadInv, InstInv, InstOK
  <2>2. RoutesResolve(Decoded[f])
    BY <2>1, RoutesAccepted DEF Verdicts
  <2> QED
    BY <2>1, <2>2, MappingsUnderstood
<1> QED
  BY <1>1, ReloadAlways, PTL

\* A configuration that validateListeners lets pass and in which no server overlaps
\* itself has no two listeners, of servers or gateways, that cannot be open at once.
THEOREM AcceptedOpens ==
    ASSUME NEW f \in Files, TRUE \in ValidateConfig(Decoded[f]), ~SelfOverlap(Decoded[f]),
           NEW x \in AllPlaces(Decoded[f]), NEW y \in AllPlaces(Decoded[f]), x # y
    PROVE  Apart(ListenerAt(Decoded[f], x), ListenerAt(Decoded[f], y))
BY AcceptedApart DEF Registered
=============================================================================
