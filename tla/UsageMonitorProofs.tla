------------------------- MODULE UsageMonitorProofs -------------------------
(***************************************************************************)
(* Proofs about UsageMonitor, for any number of monitors, savers, viewers  *)
(* and ports.  The accounts need two strengthenings: what a saver has in   *)
(* hand before it collects is nothing, and as long as clean holds one user *)
(* of the file at most is under way, with a view of the file that is still *)
(* true.                                                                   *)
(***************************************************************************)
EXTENDS UsageMonitor, FiniteSetTheorems, TLAPS

-----------------------------------------------------------------------------
(***************************************************************************)
(* Sums.  SumFunction of the community module Functions adds the values of *)
(* a function up in the order in which CHOOSE finds them; changing the     *)
(* function at one point changes the sum by as much.  The sum is shown to  *)
(* be the number of units below the function, a set to which the theorems  *)
(* on Cardinality apply.                                                   *)
(***************************************************************************)

\* The units of f over S: f[x] of them for each x.
Units(f, S) == {u \in S \X Nat : u[2] < f[u[1]]}

\* The units of one element are as many as its value.
LEMMA UnitsOfOne ==
    ASSUME NEW S, NEW f \in [S -> Nat], NEW x \in S
    PROVE  /\ IsFiniteSet(Units(f, {x}))
           /\ Cardinality(Units(f, {x})) = f[x]
<1> DEFINE n == f[x]
           unit == [i \in 1..n |-> <<x, i - 1>>]
<1>1. n \in Nat
  OBVIOUS
<1>2. unit \in Bijection(1..n, Units(f, {x}))
  <2>1. \A i \in 1..n : unit[i] = <<x, i - 1>> /\ unit[i] \in Units(f, {x})
    BY <1>1 DEF Units
  <2>2. unit \in [1..n -> Units(f, {x})]
    BY <2>1
  <2>3. \A i, j \in 1..n : unit[i] = unit[j] => i = j
    BY <2>1
  <2>4. ASSUME NEW u \in Units(f, {x}) PROVE \E i \in 1..n : unit[i] = u
    <3>1. u = <<x, u[2]>> /\ u[2] \in Nat /\ u[2] < n
      BY DEF Units
    <3>2. u[2] + 1 \in 1..n /\ unit[u[2] + 1] = u
      BY <1>1, <3>1
    <3> QED
      BY <3>2
  <2> QED
    BY <2>2, <2>3, <2>4 DEF Bijection, Injection, Surjection, IsInjective
<1>3. IsFiniteSet(1..n) /\ Cardinality(1..n) = n
  BY <1>1, FS_Interval
<1> QED
  BY <1>2, <1>3, FS_Bijection DEF ExistsBijection

\* There are finitely many units over a finite set.
LEMMA UnitsFinite ==
    ASSUME NEW S, IsFiniteSet(S), NEW f \in [S -> Nat]
    PROVE  IsFiniteSet(Units(f, S))
<1> DEFINE unitsOf == [x \in S |-> Units(f, {x})]
           all == {Units(f, {x}) : x \in S}
<1>1. unitsOf \in Surjection(S, all)
  BY DEF Surjection
<1>2. IsFiniteSet(all)
  BY <1>1, FS_Surjection
<1>3. ASSUME NEW T \in all PROVE IsFiniteSet(T)
  <2>1. PICK x \in S : T = Units(f, {x})
    OBVIOUS
  <2>2. IsFiniteSet(Units(f, {x}))
    BY UnitsOfOne
  <2> QED
    BY <2>1, <2>2
<1>4. IsFiniteSet(UNION all)
  BY <1>2, <1>3, FS_UNION
<1>5. Units(f, S) \subseteq UNION all
  BY DEF Units
<1> QED
  BY <1>4, <1>5, FS_Subset

\* One element taken out of the set takes its units with it.
LEMMA UnitsSplit ==
    ASSUME NEW S, IsFiniteSet(S), NEW f \in [S -> Nat], NEW T \in SUBSET S, NEW x \in T
    PROVE  /\ Cardinality(Units(f, T)) = f[x] + Cardinality(Units(f, T \ {x}))
           /\ Cardinality(Units(f, T \ {x})) \in Nat
<1>1. IsFiniteSet(Units(f, S))
  BY UnitsFinite
<1>2. IsFiniteSet(Units(f, T \ {x}))
  <2>1. Units(f, T \ {x}) \subseteq Units(f, S)
    BY DEF Units
  <2> QED
    BY <1>1, <2>1, FS_Subset
<1>3. Units(f, T) = Units(f, T \ {x}) \cup Units(f, {x})
  BY DEF Units
<1>4. Units(f, T \ {x}) \cap Units(f, {x}) = {}
  BY DEF Units
<1>5. IsFiniteSet(Units(f, {x})) /\ Cardinality(Units(f, {x})) = f[x]
  BY UnitsOfOne
<1>6. Cardinality(Units(f, T))
        = Cardinality(Units(f, T \ {x})) + Cardinality(Units(f, {x})) - Cardinality({})
  <2> DEFINE A == Units(f, T \ {x})
             B == Units(f, {x})
  <2>1. IsFiniteSet(A) /\ IsFiniteSet(B) /\ Units(f, T) = A \cup B /\ A \cap B = {}
    BY <1>2, <1>3, <1>4, <1>5
  <2> HIDE DEF A, B
  <2>2. Cardinality(A \cup B) = Cardinality(A) + Cardinality(B) - Cardinality(A \cap B)
    BY <2>1, FS_Union
  <2> QED
    BY <2>1, <2>2 DEF A, B
<1>7. Cardinality(Units(f, T \ {x})) \in Nat
  BY <1>2, FS_CardinalityType
<1> QED
  BY <1>5, <1>6, <1>7, FS_EmptySet

\* SumFunction counts the units: by induction over the sets over which it
\* sums, on the definition of its fold.
LEMMA SumCountsUnits ==
    ASSUME NEW S, IsFiniteSet(S), NEW f \in [S -> Nat]
    PROVE  SumFunction(f) = Cardinality(Units(f, S))
<1> DEFINE count == [T \in SUBSET S |-> Cardinality(Units(f, T))]
           Folds(g) == g = [T \in SUBSET S |->
                              IF T = {} THEN 0
                              ELSE f[CHOOSE x \in T : TRUE]
                                     + g[T \ {CHOOSE x \in T : TRUE}]]
           sum == CHOOSE g : Folds(g)
<1>1. SumFunction(f) = sum[S]
  BY DEF SumFunction, SumFunctionOnSet, FoldFunctionOnSet, MapThenFoldSet
<1> HIDE DEF sum
<1>2. Folds(count)
  <2>1. ASSUME NEW T \in SUBSET S
        PROVE  count[T] = IF T = {} THEN 0
                          ELSE f[CHOOSE x \in T : TRUE]
                                 + count[T \ {CHOOSE x \in T : TRUE}]
    <3>1. CASE T = {}
      <4>1. Units(f, {}) = {}
        BY DEF Units
      <4> QED
        BY <3>1, <4>1, FS_EmptySet
    <3>2. CASE T # {}
      <4> DEFINE x == CHOOSE x \in T : TRUE
      <4>1. x \in T
        BY <3>2
      <4> HIDE DEF x
      <4>2. Cardinality(Units(f, T)) = f[x] + Cardinality(Units(f, T \ {x}))
        BY <4>1, UnitsSplit
      <4>3. count[T] = f[x] + count[T \ {x}]
        BY <4>2
      <4> QED
        BY <3>2, <4>3 DEF x
    <3> QED
      BY <3>1, <3>2
  <2> QED
    BY <2>1
<1>3. Folds(sum)
  BY <1>2 DEF sum
<1>4. ASSUME sum[S] # count[S] PROVE FALSE
  <2> DEFINE Wrong == {T \in SUBSET S : sum[T] # count[T]}
  <2>1. IsWellFoundedOn(StrictSubsetOrdering(S), SUBSET S)
    BY FS_StrictSubsetOrderingWellFounded, FS_FiniteSubsetsOfFinite
  <2>2. S \in Wrong /\ Wrong \subseteq SUBSET S
    BY <1>4
  <2> HIDE DEF Wrong, Folds, count
  <2>3. PICK T \in Wrong : \A U \in Wrong : <<U, T>> \notin StrictSubsetOrdering(S)
    BY <2>1, <2>2, WFMin
  <2>4. T \in SUBSET S /\ sum[T] # count[T]
    BY DEF Wrong
  <2>5. ASSUME NEW U \in SUBSET T, U # T PROVE sum[U] = count[U]
    <3>1. U \in SUBSET S /\ <<U, T>> \in StrictSubsetOrdering(S)
      BY <2>4, <2>5 DEF StrictSubsetOrdering
    <3> QED
      BY <2>3, <3>1 DEF Wrong
  <2> DEFINE x == CHOOSE x \in T : TRUE
  <2>6. /\ sum[T] = IF T = {} THEN 0 ELSE f[x] + sum[T \ {x}]
        /\ count[T] = IF T = {} THEN 0 ELSE f[x] + count[T \ {x}]
    BY <1>2, <1>3, <2>4 DEF Folds
  <2>7. T # {} => x \in T
    OBVIOUS
  <2> HIDE DEF x
  <2> QED
    BY <2>4, <2>5, <2>6, <2>7
<1> QED
  BY <1>1, <1>4

\* A sum of natural numbers is one, and no summand exceeds it.
LEMMA SumType ==
    ASSUME NEW S, IsFiniteSet(S), NEW f \in [S -> Nat]
    PROVE  /\ SumFunction(f) \in Nat
           /\ \A x \in S : f[x] <= SumFunction(f)
<1>1. SumFunction(f) = Cardinality(Units(f, S))
  BY SumCountsUnits
<1>2. Cardinality(Units(f, S)) \in Nat
  BY UnitsFinite, FS_CardinalityType
<1>3. ASSUME NEW x \in S PROVE f[x] <= Cardinality(Units(f, S))
  <2>1. /\ Cardinality(Units(f, S)) = f[x] + Cardinality(Units(f, S \ {x}))
        /\ Cardinality(Units(f, S \ {x})) \in Nat
    BY UnitsSplit
  <2> QED
    BY <2>1
<1> QED
  BY <1>1, <1>2, <1>3

\* The sum of zeros is zero.
LEMMA SumZero ==
    ASSUME NEW S, IsFiniteSet(S), NEW f \in [S -> Nat], \A x \in S : f[x] = 0
    PROVE  SumFunction(f) = 0
<1>1. SumFunction(f) = Cardinality(Units(f, S))
  BY SumCountsUnits
<1>2. Units(f, S) = {}
  BY DEF Units
<1> QED
  BY <1>1, <1>2, FS_EmptySet

\* Two functions that differ at one point have sums that differ by as much.
LEMMA SumChange ==
    ASSUME NEW S, IsFiniteSet(S), NEW f \in [S -> Nat], NEW g \in [S -> Nat],
           NEW x \in S, \A y \in S \ {x} : f[y] = g[y]
    PROVE  SumFunction(f) + g[x] = SumFunction(g) + f[x]
<1>1. /\ SumFunction(f) = Cardinality(Units(f, S))
      /\ SumFunction(g) = Cardinality(Units(g, S))
  BY SumCountsUnits
<1>2. /\ Cardinality(Units(f, S)) = f[x] + Cardinality(Units(f, S \ {x}))
      /\ Cardinality(Units(g, S)) = g[x] + Cardinality(Units(g, S \ {x}))
      /\ Cardinality(Units(f, S \ {x})) \in Nat
  BY UnitsSplit
<1>3. Units(f, S \ {x}) = Units(g, S \ {x})
  BY DEF Units
<1> QED
  BY <1>1, <1>2, <1>3

-----------------------------------------------------------------------------
(* The accounts.                                                           *)

\* A saver that has not collected holds no counts.
NothingInHand ==
    \A s \in Savers : saver[s].pc \in {"idle", "read"} => saver[s].current = Zero

\* The users of the file are not two, and what the one has read of the file is
\* still what is in it.
OneUser ==
    /\ \A s, t \in Saving : s = t
    /\ \A v, w \in Viewing : v = w
    /\ Saving = {} \/ Viewing = {}
    /\ \A s \in Savers :
         /\ saver[s].pc \in {"read", "merged"} =>
              saver[s].existing = file.counts /\ file # Truncated
         /\ saver[s].pc = "write" => file = Truncated
    /\ \A v \in Viewers :
         /\ viewer[v] = "create" => file = Missing
         /\ viewer[v] = "write" => file = Truncated

UsageInv ==
    /\ TypeOK /\ NothingInHand /\ NeverOvercounts
    /\ (clean => OneUser) /\ NothingLost /\ FileStaysDecodable

-----------------------------------------------------------------------------
(* Types.                                                                  *)

\* Zero, and the sum of two counts, are counts.
LEMMA CountsType ==
    /\ Zero \in Counts
    /\ \A c, d \in Counts : Plus(c, d) \in Counts
BY DEF Zero, Plus, Counts

\* A fault is counted, and nothing is clean after it.
LEMMA FaultType == TypeOK /\ Fault => clean' \in BOOLEAN /\ faults' \in Nat /\ faults' > 0
<1> SUFFICES ASSUME TypeOK, Fault PROVE clean' \in BOOLEAN /\ faults' \in Nat /\ faults' > 0
  OBVIOUS
<1>1. clean' \in BOOLEAN
  BY Zenon DEF Fault
<1>2. faults' = faults + 1
  BY Zenon DEF Fault
<1> QED
  BY <1>1, <1>2 DEF TypeOK

\* Every step keeps the types.
LEMMA UsageTypeStep == TypeOK /\ [Next]_vars => TypeOK'
<1> SUFFICES ASSUME TypeOK, [Next]_vars PROVE TypeOK'
  OBVIOUS
<1> USE UsageAssumption, CountsType, FaultType DEF TypeOK, Call
<1>1. CASE UNCHANGED vars
  BY <1>1 DEF vars
<1>2. ASSUME NEW m \in Monitors, Start(m) PROVE TypeOK'
  BY <1>2 DEF Start
<1>3. ASSUME NEW m \in Monitors, Stop(m) PROVE TypeOK'
  BY <1>3 DEF Stop
<1>4. ASSUME NEW m \in Monitors, NEW p \in Ports, AddOrUpdatePort(m, p) PROVE TypeOK'
  BY <1>4 DEF AddOrUpdatePort, Counts
<1>5. ASSUME NEW s \in Savers, NEW m \in Monitors, Tick(s, m) PROVE TypeOK'
  BY <1>5 DEF Tick
<1>6. ASSUME NEW s \in Savers, Collect(s) PROVE TypeOK'
  BY <1>6 DEF Collect
<1>7. ASSUME NEW s \in Savers, OpenForWrite(s) PROVE TypeOK'
  BY <1>7 DEF OpenForWrite, Truncated
<1>8. ASSUME NEW s \in Savers, OpenFails(s) PROVE TypeOK'
  BY <1>8 DEF OpenFails, Idle
<1>9. ASSUME NEW s \in Savers, Write(s) PROVE TypeOK'
  BY <1>9 DEF Write, Holding, Idle
<1>10. ASSUME NEW s \in Savers, WriteFails(s) PROVE TypeOK'
  BY <1>10 DEF WriteFails, Idle
<1>11. ASSUME NEW v \in Viewers, View(v) PROVE TypeOK'
  BY <1>11 DEF View
<1>12. ASSUME NEW v \in Viewers, CreateFile(v) PROVE TypeOK'
  BY <1>12 DEF CreateFile, Truncated
<1>13. ASSUME NEW v \in Viewers, WriteNull(v) PROVE TypeOK'
  BY <1>13 DEF WriteNull, Holding
<1>14. ASSUME NEW v \in Viewers, ViewFails(v) PROVE TypeOK'
  BY <1>14 DEF ViewFails
<1>15. CASE Crash
  BY <1>15 DEF Crash, Idle
<1> QED
  BY <1>1, <1>2, <1>3, <1>4, <1>5, <1>6, <1>7, <1>8, <1>9, <1>10, <1>11, <1>12, <1>13,
     <1>14, <1>15 DEF Next, Save

-----------------------------------------------------------------------------
(* What is not in the file yet.                                            *)

InStores(p) == SumFunction([m \in Monitors |-> dataStore[m][p]])
InHands(p) == SumFunction([s \in Savers |-> saver[s].current[p]])

\* What is unsaved is a number, and each part of it is at most the whole.
LEMMA UnsavedType ==
    ASSUME TypeOK, NEW p \in Ports
    PROVE  /\ InStores(p) \in Nat /\ InHands(p) \in Nat
           /\ Unsaved(p) = InStores(p) + InHands(p)
           /\ \A m \in Monitors : dataStore[m][p] \in Nat /\ dataStore[m][p] <= InStores(p)
           /\ \A s \in Savers :
                saver[s].current[p] \in Nat /\ saver[s].current[p] <= InHands(p)
<1> DEFINE f == [m \in Monitors |-> dataStore[m][p]]
           g == [s \in Savers |-> saver[s].current[p]]
<1>1. f \in [Monitors -> Nat] /\ g \in [Savers -> Nat]
  BY DEF TypeOK, Counts
<1>2. /\ \A m \in Monitors : dataStore[m][p] = f[m]
      /\ \A s \in Savers : saver[s].current[p] = g[s]
  OBVIOUS
<1>3. InStores(p) = SumFunction(f) /\ InHands(p) = SumFunction(g)
  BY DEF InStores, InHands
<1> HIDE DEF f, g
<1>4. SumFunction(f) \in Nat /\ \A m \in Monitors : f[m] <= SumFunction(f)
  BY <1>1, UsageAssumption, SumType
<1>5. SumFunction(g) \in Nat /\ \A s \in Savers : g[s] <= SumFunction(g)
  BY <1>1, UsageAssumption, SumType
<1> QED
  BY <1>1, <1>2, <1>3, <1>4, <1>5 DEF Unsaved, InStores, InHands

\* When the store of one monitor changes, the sum of the stores does as much.
LEMMA InStoresChange ==
    ASSUME TypeOK, TypeOK', NEW p \in Ports, NEW m \in Monitors,
           \A n \in Monitors \ {m} : dataStore'[n][p] = dataStore[n][p]
    PROVE  /\ InStores(p)' + dataStore[m][p] = InStores(p) + dataStore'[m][p]
           /\ InStores(p)' \in Nat
<1> DEFINE f == [n \in Monitors |-> dataStore[n][p]]
           g == [n \in Monitors |-> dataStore'[n][p]]
<1>1. f \in [Monitors -> Nat] /\ g \in [Monitors -> Nat]
  BY DEF TypeOK, Counts
<1>2. /\ \A n \in Monitors \ {m} : f[n] = g[n]
      /\ f[m] = dataStore[m][p] /\ g[m] = dataStore'[m][p]
  OBVIOUS
<1>3. InStores(p) = SumFunction(f) /\ InStores(p)' = SumFunction(g)
  BY DEF InStores
<1> HIDE DEF f, g
<1>4. SumFunction(f) + g[m] = SumFunction(g) + f[m]
  BY <1>1, <1>2, UsageAssumption, SumChange
<1>5. SumFunction(g) \in Nat
  BY <1>1, UsageAssumption, SumType
<1> QED
  BY <1>2, <1>3, <1>4, <1>5

\* The same for what one saver has in hand.
LEMMA InHandsChange ==
    ASSUME TypeOK, TypeOK', NEW p \in Ports, NEW s \in Savers,
           \A t \in Savers \ {s} : saver'[t].current[p] = saver[t].current[p]
    PROVE  /\ InHands(p)' + saver[s].current[p] = InHands(p) + saver'[s].current[p]
           /\ InHands(p)' \in Nat
<1> DEFINE f == [t \in Savers |-> saver[t].current[p]]
           g == [t \in Savers |-> saver'[t].current[p]]
<1>1. f \in [Savers -> Nat] /\ g \in [Savers -> Nat]
  BY DEF TypeOK, Counts
<1>2. /\ \A t \in Savers \ {s} : f[t] = g[t]
      /\ f[s] = saver[s].current[p] /\ g[s] = saver'[s].current[p]
  OBVIOUS
<1>3. InHands(p) = SumFunction(f) /\ InHands(p)' = SumFunction(g)
  BY DEF InHands
<1> HIDE DEF f, g
<1>4. SumFunction(f) + g[s] = SumFunction(g) + f[s]
  BY <1>1, <1>2, UsageAssumption, SumChange
<1>5. SumFunction(g) \in Nat
  BY <1>1, UsageAssumption, SumType
<1> QED
  BY <1>2, <1>3, <1>4, <1>5

\* Steps that neither count nor collect nor finish a save leave it alone.
LEMMA UnsavedSame ==
    ASSUME NEW p \in Ports, UNCHANGED dataStore,
           \A s \in Savers : saver'[s].current = saver[s].current
    PROVE  Unsaved(p)' = Unsaved(p)
<1>1. [s \in Savers |-> saver'[s].current[p]] = [s \in Savers |-> saver[s].current[p]]
  OBVIOUS
<1> QED
  BY <1>1 DEF Unsaved

\* A saver that ends, with success or not, has nothing in hand any more.
LEMMA UnsavedDropped ==
    ASSUME TypeOK, TypeOK', NEW p \in Ports, NEW s \in Savers, UNCHANGED dataStore,
           saver' = [saver EXCEPT ![s] = Idle]
    PROVE  /\ Unsaved(p)' + saver[s].current[p] = Unsaved(p)
           /\ Unsaved(p)' \in Nat
<1>1. /\ \A t \in Savers \ {s} : saver'[t].current[p] = saver[t].current[p]
      /\ saver'[s].current[p] = 0
  BY DEF TypeOK, Idle, Call, Zero
<1>2. InHands(p)' \in Nat /\ InHands(p)' + saver[s].current[p] = InHands(p) + 0
  BY <1>1, InHandsChange
<1>3. InStores(p)' = InStores(p) /\ Unsaved(p)' = InStores(p)' + InHands(p)'
  BY DEF Unsaved, InStores, InHands
<1>4. /\ InStores(p) \in Nat /\ InHands(p) \in Nat
      /\ Unsaved(p) = InStores(p) + InHands(p) /\ saver[s].current[p] \in Nat
  BY UnsavedType
<1> QED
  BY <1>2, <1>3, <1>4

\* collectUsageDataFromSyncMap moves counts from memory into the saver's hands.
LEMMA UnsavedCollected ==
    ASSUME TypeOK, TypeOK', NothingInHand, NEW p \in Ports, NEW s \in Savers, Collect(s)
    PROVE  Unsaved(p)' = Unsaved(p)
<1> DEFINE m == saver[s].of
<1>1. m \in Monitors
  BY DEF Collect, TypeOK
<1>2. saver[s].current[p] = 0
  BY DEF Collect, NothingInHand, Zero
<1>3. /\ \A t \in Savers \ {s} : saver'[t].current[p] = saver[t].current[p]
      /\ saver'[s].current[p] = dataStore[m][p]
  BY DEF Collect, TypeOK, Call
<1>4. /\ \A n \in Monitors \ {m} : dataStore'[n][p] = dataStore[n][p]
      /\ dataStore'[m][p] = 0
  BY <1>1 DEF Collect, TypeOK, Zero
<1> HIDE DEF m
<1>5. InHands(p)' \in Nat /\ InHands(p)' + 0 = InHands(p) + dataStore[m][p]
  BY <1>2, <1>3, InHandsChange
<1>6. InStores(p)' \in Nat /\ InStores(p)' + dataStore[m][p] = InStores(p) + 0
  BY <1>1, <1>4, InStoresChange
<1>7. Unsaved(p)' = InStores(p)' + InHands(p)'
  BY DEF Unsaved, InStores, InHands
<1>8. /\ InStores(p) \in Nat /\ InHands(p) \in Nat
      /\ Unsaved(p) = InStores(p) + InHands(p) /\ dataStore[m][p] \in Nat
  BY <1>1, UnsavedType
<1> QED
  BY <1>5, <1>6, <1>7, <1>8

\* AddOrUpdatePort adds to its port what it adds to the traffic.
LEMMA UnsavedAdded ==
    ASSUME TypeOK, TypeOK', NEW p \in Ports, NEW m \in Monitors, NEW q \in Ports,
           AddOrUpdatePort(m, q)
    PROVE  /\ Unsaved(p)' + traffic[p] = Unsaved(p) + traffic'[p]
           /\ Unsaved(p)' \in Nat
<1>1. /\ \A n \in Monitors \ {m} : dataStore'[n][p] = dataStore[n][p]
      /\ dataStore'[m][p] = dataStore[m][p] + (IF p = q THEN 1 ELSE 0)
      /\ traffic'[p] = traffic[p] + (IF p = q THEN 1 ELSE 0)
      /\ traffic[p] \in Nat
  BY DEF AddOrUpdatePort, TypeOK, Counts
<1>2. /\ InStores(p)' \in Nat
      /\ InStores(p)' + dataStore[m][p] = InStores(p) + dataStore'[m][p]
  BY <1>1, InStoresChange
<1>3. InHands(p)' = InHands(p) /\ Unsaved(p)' = InStores(p)' + InHands(p)'
  BY DEF AddOrUpdatePort, Unsaved, InStores, InHands
<1>4. /\ InStores(p) \in Nat /\ InHands(p) \in Nat
      /\ Unsaved(p) = InStores(p) + InHands(p) /\ dataStore[m][p] \in Nat
  BY UnsavedType
<1> QED
  BY <1>1, <1>2, <1>3, <1>4

\* With the process goes everything that was not saved.
LEMMA UnsavedLost ==
    ASSUME NEW p \in Ports, dataStore' = [m \in Monitors |-> Zero],
           saver' = [s \in Savers |-> Idle]
    PROVE  Unsaved(p)' = 0
<1> DEFINE f == [m \in Monitors |-> dataStore'[m][p]]
           g == [s \in Savers |-> saver'[s].current[p]]
<1>1. f \in [Monitors -> Nat] /\ \A m \in Monitors : f[m] = 0
  BY DEF Zero
<1>2. g \in [Savers -> Nat] /\ \A s \in Savers : g[s] = 0
  BY DEF Idle, Call, Zero
<1>3. Unsaved(p)' = SumFunction(f) + SumFunction(g)
  BY DEF Unsaved
<1> HIDE DEF f, g
<1>4. SumFunction(f) = 0 /\ SumFunction(g) = 0
  BY <1>1, <1>2, UsageAssumption, SumZero
<1> QED
  BY <1>3, <1>4

-----------------------------------------------------------------------------
(* Steps.                                                                  *)

\* Counts reach the hands of a saver only by its collecting them.
LEMMA NothingInHandStep == TypeOK /\ NothingInHand /\ [Next]_vars => NothingInHand'
<1> SUFFICES ASSUME TypeOK, NothingInHand, [Next]_vars PROVE NothingInHand'
  OBVIOUS
<1> USE DEF TypeOK, NothingInHand, Call, Idle
<1>1. CASE UNCHANGED saver
  BY <1>1
<1>2. ASSUME NEW s \in Savers, NEW m \in Monitors, Tick(s, m) PROVE NothingInHand'
  BY <1>2 DEF Tick
<1>3. ASSUME NEW s \in Savers, Save(s) PROVE NothingInHand'
  BY <1>3 DEF Save, Collect, OpenForWrite, OpenFails, Write, WriteFails
<1>4. CASE Crash
  BY <1>4 DEF Crash
<1> QED
  BY <1>1, <1>2, <1>3, <1>4 DEF Next, vars, Start, Stop, AddOrUpdatePort, View, CreateFile,
     WriteNull, ViewFails

\* No step makes a version of the file, or one that a saver has read, together
\* with what is still to be added exceed the traffic.
LEMMA NeverOvercountsStep ==
    ASSUME TypeOK, TypeOK', NothingInHand, NeverOvercounts, [Next]_vars
    PROVE  NeverOvercounts'
<1> SUFFICES ASSUME NEW p \in Ports
             PROVE  /\ file'.counts[p] + Unsaved(p)' <= traffic'[p]
                    /\ \A s \in Savers : saver'[s].existing[p] + Unsaved(p)' <= traffic'[p]
  BY DEF NeverOvercounts
<1> DEFINE U == Unsaved(p)
           U1 == Unsaved(p)'
           Within == /\ file'.counts[p] + U1 <= traffic'[p]
                     /\ \A s \in Savers : saver'[s].existing[p] + U1 <= traffic'[p]
<1> SUFFICES Within
  OBVIOUS
<1>a. /\ file.counts[p] \in Nat /\ traffic[p] \in Nat /\ Zero[p] = 0
      /\ \A s \in Savers : saver[s].existing[p] \in Nat /\ saver[s].current[p] \in Nat
      /\ file'.counts[p] \in Nat /\ traffic'[p] \in Nat
      /\ \A s \in Savers : saver'[s].existing[p] \in Nat
  BY DEF TypeOK, Counts, Zero
<1>b. U \in Nat /\ file.counts[p] + U <= traffic[p]
  BY UnsavedType DEF NeverOvercounts
<1>c. \A s \in Savers : saver[s].existing[p] + U <= traffic[p]
  BY DEF NeverOvercounts
<1>1. CASE UNCHANGED <<dataStore, saver, traffic>> /\ file'.counts[p] \in {file.counts[p], 0}
  <2>1. U1 = U
    BY <1>1, UnsavedSame
  <2> QED
    BY <2>1, <1>1, <1>a, <1>b, <1>c
<1>2. ASSUME NEW m \in Monitors, NEW q \in Ports, AddOrUpdatePort(m, q) PROVE Within
  <2>1. U1 \in Nat /\ U1 + traffic[p] = U + traffic'[p]
    BY <1>2, UnsavedAdded
  <2>2. file' = file /\ saver' = saver
    BY <1>2 DEF AddOrUpdatePort
  <2> HIDE DEF U, U1
  <2> QED
    BY <2>1, <2>2, <1>a, <1>b, <1>c
<1>3. ASSUME NEW s \in Savers, NEW m \in Monitors, Tick(s, m) PROVE Within
  <2>1. /\ \A t \in Savers \ {s} : saver'[t] = saver[t]
        /\ saver'[s].existing = file.counts /\ saver'[s].current = Zero
        /\ saver[s].pc = "idle" /\ UNCHANGED <<dataStore, file, traffic>>
    BY <1>3 DEF Tick, Call, TypeOK
  <2>2. saver[s].current = Zero
    BY <2>1 DEF NothingInHand
  <2>3. U1 = U
    BY <2>1, <2>2, UnsavedSame
  <2> HIDE DEF U, U1
  <2> QED
    BY <2>1, <2>3, <1>a, <1>b, <1>c
<1>4. ASSUME NEW s \in Savers, Collect(s) PROVE Within
  <2>1. U1 = U
    BY <1>4, UnsavedCollected
  <2>2. /\ \A t \in Savers : saver'[t].existing = saver[t].existing
        /\ UNCHANGED <<file, traffic>>
    BY <1>4 DEF Collect, Call, TypeOK
  <2> HIDE DEF U, U1
  <2> QED
    BY <2>1, <2>2, <1>a, <1>b, <1>c
<1>5. ASSUME NEW s \in Savers, OpenForWrite(s) PROVE Within
  <2>1. /\ \A t \in Savers : /\ saver'[t].existing = saver[t].existing
                             /\ saver'[t].current = saver[t].current
        /\ file'.counts = Zero /\ UNCHANGED <<dataStore, traffic>>
    BY <1>5 DEF OpenForWrite, Call, TypeOK, Truncated
  <2>2. U1 = U
    BY <2>1, UnsavedSame
  <2> HIDE DEF U, U1
  <2> QED
    BY <2>1, <2>2, <1>a, <1>b, <1>c
<1>6. ASSUME NEW s \in Savers, saver' = [saver EXCEPT ![s] = Idle],
             UNCHANGED <<dataStore, traffic>>,
             file' = file \/ file' = Holding(Plus(saver[s].existing, saver[s].current))
      PROVE  Within
  <2>1. U1 \in Nat /\ U1 + saver[s].current[p] = U
    BY <1>6, UnsavedDropped
  <2>2. /\ \A t \in Savers \ {s} : saver'[t].existing = saver[t].existing
        /\ saver'[s].existing = Zero
    BY <1>6 DEF TypeOK, Idle, Call
  <2>3. file'.counts[p] \in {file.counts[p], saver[s].existing[p] + saver[s].current[p]}
    BY <1>6 DEF Holding, Plus
  <2> HIDE DEF U, U1
  <2> QED
    BY <2>1, <2>2, <2>3, <1>6, <1>a, <1>b, <1>c
<1>7. CASE Crash
  <2>1. U1 = 0
    BY <1>7, UnsavedLost DEF Crash
  <2>2. (\A t \in Savers : saver'[t].existing = Zero) /\ UNCHANGED <<file, traffic>>
    BY <1>7 DEF Crash, Idle, Call
  <2> HIDE DEF U, U1
  <2> QED
    BY <2>1, <2>2, <1>a, <1>b, <1>c
<1> HIDE DEF Within
<1>8. ASSUME NEW s \in Savers, Save(s) PROVE Within
  BY <1>4, <1>5, <1>6, <1>8 DEF Save, OpenFails, Write, WriteFails
<1>9. ASSUME NEW v \in Viewers, View(v) \/ CreateFile(v) \/ WriteNull(v) \/ ViewFails(v)
      PROVE  Within
  BY <1>1, <1>9, <1>a DEF View, CreateFile, WriteNull, ViewFails, Truncated, Holding
<1>10. ASSUME NEW m \in Monitors, Start(m) \/ Stop(m) PROVE Within
  BY <1>1, <1>10 DEF Start, Stop
<1>11. CASE UNCHANGED vars
  BY <1>1, <1>11 DEF vars
<1> QED
  BY <1>2, <1>3, <1>7, <1>8, <1>9, <1>10, <1>11 DEF Next

\* Two users of the file, or a fault, make clean false for good.
LEMMA CleanStep ==
    ASSUME [Next]_vars, clean'
    PROVE  /\ clean
           /\ ~Crash
           /\ \A s \in Savers : ~OpenFails(s) /\ ~WriteFails(s)
           /\ \A v \in Viewers : ~ViewFails(v)
           /\ \A s \in Savers, m \in Monitors : Tick(s, m) => ~FileInUse
           /\ \A v \in Viewers : View(v) => ~FileInUse
<1>1. Fault => FALSE
  BY Zenon DEF Fault
<1>2. \A s \in Savers, m \in Monitors : Tick(s, m) => clean /\ ~FileInUse
  BY Zenon DEF Tick
<1>3. \A v \in Viewers : View(v) => clean /\ ~FileInUse
  BY Zenon DEF View
<1>4. ~Crash /\ (\A s \in Savers : ~OpenFails(s) /\ ~WriteFails(s))
             /\ (\A v \in Viewers : ~ViewFails(v))
  BY <1>1, Zenon DEF Crash, OpenFails, WriteFails, ViewFails
<1>5. \A m \in Monitors : (Start(m) => clean) /\ (Stop(m) => clean)
  BY Zenon DEF Start, Stop
<1>6. \A m \in Monitors, p \in Ports : AddOrUpdatePort(m, p) => clean
  BY Zenon DEF AddOrUpdatePort
<1>7. \A s \in Savers : Collect(s) \/ OpenForWrite(s) \/ Write(s) => clean
  BY Zenon DEF Collect, OpenForWrite, Write
<1>8. \A v \in Viewers : CreateFile(v) \/ WriteNull(v) => clean
  BY Zenon DEF CreateFile, WriteNull
<1>9. UNCHANGED vars => clean
  BY Zenon DEF vars
<1>10. clean
  BY <1>2, <1>3, <1>4, <1>5, <1>6, <1>7, <1>8, <1>9, Zenon DEF Next, Save
<1> QED
  BY <1>2, <1>3, <1>4, <1>10, Zenon

\* As long as clean holds, there is one user at most and its view stays true.
LEMMA OneUserStep ==
    ASSUME TypeOK, OneUser, [Next]_vars, clean'
    PROVE  OneUser'
<1> USE DEF OneUser, Saving, Viewing, FileInUse, TypeOK, Call, Idle, Missing, Truncated, Holding
<1>1. CASE UNCHANGED <<file, saver, viewer>>
  BY <1>1
<1>2. ASSUME NEW s \in Savers, NEW m \in Monitors, Tick(s, m) PROVE OneUser'
  <2>1. ~FileInUse
    BY <1>2, CleanStep
  <2> QED
    BY <1>2, <2>1 DEF Tick
<1>3. ASSUME NEW s \in Savers, Collect(s) PROVE OneUser'
  BY <1>3 DEF Collect
<1>4. ASSUME NEW s \in Savers, OpenForWrite(s) PROVE OneUser'
  BY <1>4 DEF OpenForWrite
<1>5. ASSUME NEW s \in Savers, Write(s) PROVE OneUser'
  BY <1>5 DEF Write
<1>6. ASSUME NEW v \in Viewers, View(v) PROVE OneUser'
  <2>1. ~FileInUse
    BY <1>6, CleanStep
  <2> QED
    BY <1>6, <2>1 DEF View
<1>7. ASSUME NEW v \in Viewers, CreateFile(v) PROVE OneUser'
  BY <1>7 DEF CreateFile
<1>8. ASSUME NEW v \in Viewers, WriteNull(v) PROVE OneUser'
  BY <1>8 DEF WriteNull
<1> QED
  BY <1>1, <1>2, <1>3, <1>4, <1>5, <1>6, <1>7, <1>8, CleanStep
     DEF Next, Save, vars, Start, Stop, AddOrUpdatePort

\* What the next version of the file is based on, for the user there is.
LEMMA BaseOfOneUser ==
    ASSUME OneUser
    PROVE  /\ \A s \in Savers : saver[s].pc = "write" => Base = saver[s].existing
           /\ (\A s \in Savers : saver[s].pc # "write") => Base = file.counts
           /\ file # Truncated => Base = file.counts
<1>1. ASSUME NEW s \in Savers, saver[s].pc = "write" PROVE Base = saver[s].existing
  <2>1. \A t \in Savers : saver[t].pc = "write" => t = s
    BY <1>1 DEF OneUser, Saving
  <2>2. (CHOOSE t \in Savers : saver[t].pc = "write") = s
    BY <1>1, <2>1
  <2>3. file = Truncated
    BY <1>1 DEF OneUser
  <2> QED
    BY <1>1, <2>2, <2>3 DEF Base
<1> QED
  BY <1>1 DEF Base

\* As long as clean holds, no step loses a count: the base of the next version
\* changes only by what a save takes out of the saver's hands.
LEMMA NothingLostStep ==
    ASSUME TypeOK, TypeOK', NothingInHand, OneUser, OneUser', clean, clean',
           NothingLost, [Next]_vars
    PROVE  NothingLost'
<1> SUFFICES ASSUME NEW p \in Ports PROVE Base'[p] + Unsaved(p)' = traffic'[p]
  BY DEF NothingLost
<1> DEFINE U == Unsaved(p)
           U1 == Unsaved(p)'
           B == Base[p]
           B1 == Base'[p]
           Same == U1 = U /\ B1 = B /\ traffic'[p] = traffic[p]
           Exact == B1 + U1 = traffic'[p]
<1>a. B + U = traffic[p]
  BY DEF NothingLost
<1>b. (\A s \in Savers : saver'[s].pc # "write") => Base' = file'.counts
  BY DEF Base
<1>c. file' # Truncated => Base' = file'.counts
  BY DEF Base, Truncated, Zero
<1> SUFFICES Exact
  OBVIOUS
<1>1. CASE UNCHANGED <<dataStore, file, saver, traffic>>
  <2>1. U1 = U
    BY <1>1, UnsavedSame
  <2>2. Base' = Base
    BY <1>1 DEF Base, Truncated, Zero
  <2> QED
    BY <1>1, <1>a, <2>1, <2>2
<1>2. ASSUME NEW m \in Monitors, NEW q \in Ports, AddOrUpdatePort(m, q) PROVE Exact
  <2>1. U1 \in Nat /\ U1 + traffic[p] = U + traffic'[p]
    BY <1>2, UnsavedAdded
  <2>2. Base' = Base
    BY <1>2 DEF AddOrUpdatePort, Base, Truncated, Zero
  <2>3. /\ Base[p] \in Nat /\ U \in Nat /\ traffic[p] \in Nat /\ traffic'[p] \in Nat
    <3>1. Base \in Counts
      BY BaseOfOneUser DEF TypeOK
    <3>2. U \in Nat
      BY UnsavedType
    <3> QED
      BY <3>1, <3>2 DEF TypeOK, Counts
  <2> HIDE DEF U, U1
  <2> QED
    BY <1>a, <2>1, <2>2, <2>3
<1>3. ASSUME NEW s \in Savers, NEW m \in Monitors, Tick(s, m) PROVE Exact
  <2>1. /\ \A t \in Savers \ {s} : saver'[t] = saver[t]
        /\ saver'[s].pc = "read" /\ saver'[s].current = Zero
        /\ saver[s].pc = "idle" /\ file # Truncated
        /\ UNCHANGED <<dataStore, file, traffic>>
    BY <1>3 DEF Tick, Call, TypeOK
  <2>2. saver[s].current = Zero
    BY <2>1 DEF NothingInHand
  <2>3. U1 = U
    BY <2>1, <2>2, UnsavedSame
  <2>4. Base = file.counts /\ Base' = file.counts
    BY <2>1, <1>c, BaseOfOneUser
  <2> QED
    BY <1>a, <2>1, <2>3, <2>4
<1>4. ASSUME NEW s \in Savers, Collect(s) PROVE Exact
  <2>1. U1 = U
    BY <1>4, UnsavedCollected
  <2>2. UNCHANGED <<file, traffic>> /\ file # Truncated
    BY <1>4 DEF Collect, OneUser
  <2>3. Base = file.counts /\ Base' = file.counts
    BY <2>2, <1>c, BaseOfOneUser
  <2> QED
    BY <1>a, <2>1, <2>2, <2>3
<1>5. ASSUME NEW s \in Savers, OpenForWrite(s) PROVE Exact
  <2>1. /\ \A t \in Savers : saver'[t].current = saver[t].current
        /\ saver'[s].existing = saver[s].existing /\ saver'[s].pc = "write"
        /\ UNCHANGED <<dataStore, traffic>>
    BY <1>5 DEF OpenForWrite, Call, TypeOK
  <2>2. U1 = U
    BY <2>1, UnsavedSame
  <2>3. saver[s].existing = file.counts /\ file # Truncated
    BY <1>5 DEF OneUser, OpenForWrite
  <2>4. Base = saver[s].existing
    BY <2>3, BaseOfOneUser
  <2>5. Base' = saver'[s].existing
    <3>1. \A t \in Savers : saver'[t].pc = "write" => t = s
      BY <2>1 DEF OneUser, Saving
    <3>2. (CHOOSE t \in Savers : saver'[t].pc = "write") = s
      BY <2>1, <3>1
    <3>3. file' = Truncated
      BY <1>5 DEF OpenForWrite
    <3> QED
      BY <2>1, <3>2, <3>3 DEF Base, Truncated, Zero
  <2> QED
    BY <1>a, <2>1, <2>2, <2>4, <2>5
<1>6. ASSUME NEW s \in Savers, Write(s) PROVE Exact
  <2>1. saver' = [saver EXCEPT ![s] = Idle] /\ UNCHANGED <<dataStore, traffic>>
    BY <1>6 DEF Write
  <2>2. U1 \in Nat /\ U1 + saver[s].current[p] = U
    BY <2>1, UnsavedDropped
  <2>3. Base = saver[s].existing
    BY <1>6, BaseOfOneUser DEF Write
  <2>4. Base' = Plus(saver[s].existing, saver[s].current)
    BY <1>6, <1>c DEF Write, Holding, Truncated
  <2>5. saver[s].existing[p] \in Nat /\ saver[s].current[p] \in Nat
    BY DEF TypeOK, Counts
  <2>6. B1 = B + saver[s].current[p]
    BY <2>3, <2>4 DEF Plus
  <2> HIDE DEF U, U1
  <2> QED
    BY <1>a, <2>1, <2>2, <2>3, <2>5, <2>6
<1>7. ASSUME NEW v \in Viewers, CreateFile(v) \/ WriteNull(v) PROVE Exact
  <2>1. UNCHANGED <<dataStore, saver, traffic>> /\ file'.counts = Zero
    BY <1>7 DEF CreateFile, WriteNull, Truncated, Holding
  <2>2. file.counts = Zero /\ Viewing # {}
    BY <1>7 DEF CreateFile, WriteNull, OneUser, Missing, Truncated, Viewing
  <2>3. \A s \in Savers : saver[s].pc # "write"
    BY <2>2 DEF OneUser, Saving
  <2>4. Base = Zero /\ Base' = Zero
    BY <2>1, <2>2, <2>3, <1>b, BaseOfOneUser
  <2>5. U1 = U
    BY <2>1, UnsavedSame
  <2> QED
    BY <1>a, <2>1, <2>4, <2>5
<1> HIDE DEF Exact
<1> QED
  BY <1>1, <1>2, <1>3, <1>4, <1>5, <1>6, <1>7, CleanStep
     DEF Next, Save, vars, Start, Stop, View

\* Whoever truncates the file goes on to write it.
LEMMA DecodableStep ==
    ASSUME TypeOK, FileStaysDecodable, [Next]_vars
    PROVE  FileStaysDecodable'
<1> USE DEF TypeOK, FileStaysDecodable, Call, Idle, Missing, Truncated, Holding
<1>1. CASE UNCHANGED <<file, saver, viewer, faults>>
  BY <1>1
<1>2. ASSUME NEW s \in Savers, NEW m \in Monitors, Tick(s, m) PROVE FileStaysDecodable'
  BY <1>2 DEF Tick
<1>3. ASSUME NEW s \in Savers, Collect(s) PROVE FileStaysDecodable'
  BY <1>3 DEF Collect
<1>4. ASSUME NEW s \in Savers, OpenForWrite(s) PROVE FileStaysDecodable'
  BY <1>4 DEF OpenForWrite
<1>5. ASSUME NEW s \in Savers, Write(s) PROVE FileStaysDecodable'
  BY <1>5 DEF Write
<1>6. ASSUME NEW v \in Viewers, View(v) PROVE FileStaysDecodable'
  BY <1>6 DEF View
<1>7. ASSUME NEW v \in Viewers, CreateFile(v) PROVE FileStaysDecodable'
  BY <1>7 DEF CreateFile
<1>8. ASSUME NEW v \in Viewers, WriteNull(v) PROVE FileStaysDecodable'
  BY <1>8 DEF WriteNull
<1>9. CASE Fault
  BY <1>9, FaultType
<1> QED
  BY <1>1, <1>2, <1>3, <1>4, <1>5, <1>6, <1>7, <1>8, <1>9 DEF Next, Save, vars, Start, Stop,
     AddOrUpdatePort, OpenFails, WriteFails, ViewFails, Crash

-----------------------------------------------------------------------------
(* The theorems.                                                           *)

\* Nothing is counted yet, and nobody uses the file.
LEMMA UsageInvInit == Init => UsageInv
<1> SUFFICES ASSUME Init PROVE UsageInv
  OBVIOUS
<1>1. TypeOK
  BY CountsType DEF Init, TypeOK, Idle, Call, Missing
<1>2. NothingInHand /\ OneUser /\ FileStaysDecodable
  BY DEF Init, NothingInHand, OneUser, FileStaysDecodable, Saving, Viewing, Idle, Call,
     Missing, Truncated
<1>3. ASSUME NEW p \in Ports
      PROVE  /\ Unsaved(p) = 0 /\ file.counts[p] = 0 /\ traffic[p] = 0 /\ Base[p] = 0
             /\ \A s \in Savers : saver[s].existing[p] = 0
  <2> DEFINE f == [m \in Monitors |-> dataStore[m][p]]
             g == [s \in Savers |-> saver[s].current[p]]
  <2>1. f \in [Monitors -> Nat] /\ \A m \in Monitors : f[m] = 0
    BY DEF Init, Zero
  <2>2. g \in [Savers -> Nat] /\ \A s \in Savers : g[s] = 0
    BY DEF Init, Idle, Call, Zero
  <2>3. Unsaved(p) = SumFunction(f) + SumFunction(g)
    BY DEF Unsaved
  <2> HIDE DEF f, g
  <2>4. SumFunction(f) = 0 /\ SumFunction(g) = 0
    BY <2>1, <2>2, UsageAssumption, SumZero
  <2> QED
    BY <2>3, <2>4 DEF Init, Idle, Call, Missing, Truncated, Zero, Base
<1> QED
  BY <1>1, <1>2, <1>3 DEF UsageInv, NeverOvercounts, NothingLost

\* Every step keeps the accounts.
LEMMA UsageInvStep == UsageInv /\ [Next]_vars => UsageInv'
<1> SUFFICES ASSUME UsageInv, [Next]_vars PROVE UsageInv'
  OBVIOUS
<1>1. TypeOK'
  BY UsageTypeStep DEF UsageInv
<1>2. NothingInHand'
  BY NothingInHandStep DEF UsageInv
<1>3. NeverOvercounts'
  BY <1>1, NeverOvercountsStep DEF UsageInv
<1>4. ASSUME clean' PROVE OneUser' /\ NothingLost'
  <2>1. clean
    BY <1>4, CleanStep
  <2>2. OneUser'
    BY <1>4, <2>1, OneUserStep DEF UsageInv
  <2> QED
    BY <1>1, <1>4, <2>1, <2>2, NothingLostStep DEF UsageInv
<1>5. ~clean' => NothingLost'
  BY DEF NothingLost
<1>6. FileStaysDecodable'
  BY DecodableStep DEF UsageInv
<1> QED
  BY <1>1, <1>2, <1>3, <1>4, <1>5, <1>6 DEF UsageInv

\* The usage log never shows more than was transferred, and exactly that as
\* long as nobody overlaps and nothing fails: for any number of monitors that
\* share a file, of saveUsageData calls and page views under way, and of ports.
THEOREM AccountingCorrect == Spec => []Accounting
<1>1. UsageInv => Accounting
  BY DEF UsageInv, Accounting
<1> QED
  BY <1>1, UsageInvInit, UsageInvStep, PTL DEF Spec

\* Only a failed write or a crash leaves a log in which nothing can be decoded,
\* however many savers and viewers overlap.
THEOREM DecodableCorrect == Spec => []FileStaysDecodable
<1>1. UsageInv => FileStaysDecodable
  BY DEF UsageInv
<1> QED
  BY <1>1, UsageInvInit, UsageInvStep, PTL DEF Spec
=============================================================================
