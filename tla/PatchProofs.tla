----------------------------- MODULE PatchProofs -----------------------------
(***************************************************************************)
(* Theorems about the patch bay and about sending through it, for every    *)
(* set of nodes, every number of slots, every compatibility of their types *)
(* and every depth of the stack.                                           *)
(***************************************************************************)
EXTENDS Dispatch, ListProofs, FiniteSetTheorems

-----------------------------------------------------------------------------
(* Lists.                                                                  *)

\* Sorting any number of times loses nothing; once is enough to settle.
LEMMA SortTimesElements ==
    ASSUME NEW S, NEW E, NEW list \in ListOf(S, E), NEW times \in Nat, NEW order
    PROVE  /\ SortTimes(list, times, order) \in ListOf(S, E)
           /\ WeakOrder(order, S) /\ (times > 0 \/ Settled(list, order))
                 => Settled(SortTimes(list, times, order), order)
           /\ times = 0 => SortTimes(list, times, order) = list
<1> DEFINE after[k \in 0..times] == IF k = 0 THEN list ELSE Sort(after[k - 1], order)
           T == ListOf(S, E)
           step == [k \in 1..times |-> [l \in T |-> Sort(l, order)]]
<1>1. \A l \in T : Sort(l, order) \in T
  BY SortElements DEF ListOf
<1>2. \A l \in T : WeakOrder(order, S) => Settled(Sort(l, order), order)
  BY SortElements DEF ListOf
<1> HIDE DEF T
<1>3. step \in [1..times -> [T -> T]]
  BY <1>1
<1>4. \A k \in 1..times, l \in T : step[k][l] = Sort(l, order)
  OBVIOUS
<1>5. list \in T
  BY DEF T
<1> HIDE DEF step
<1>6. PICK g \in [0..times -> T] :
         g[0] = list /\ \A k \in 1..times : g[k] = step[k][g[k - 1]]
  <2>1. \E g : Recursion(g, times, T, list, step)
    BY <1>3, <1>5, RecursionExists
  <2>2. QED
    BY <2>1 DEF Recursion
<1>7. \A k \in 1..times : g[k] = Sort(g[k - 1], order) /\ g[k - 1] \in T
  <2>1. \A k \in 1..times : g[k - 1] \in T
    OBVIOUS
  <2>2. QED
    BY <2>1, <1>4, <1>6
<1>8. g = [k \in 0..times |-> IF k = 0 THEN list ELSE Sort(g[k - 1], order)]
  <2>1. \A k \in 0..times : k = 0 \/ k \in 1..times
    OBVIOUS
  <2>2. \A k \in 0..times : g[k] = IF k = 0 THEN list ELSE Sort(g[k - 1], order)
    BY <2>1, <1>6, <1>7
  <2>3. QED
    BY <2>2
<1>9. after = [k \in 0..times |-> IF k = 0 THEN list ELSE Sort(after[k - 1], order)]
  BY <1>8
<1>10. SortTimes(list, times, order) = after[times]
  BY DEF SortTimes
<1> HIDE DEF after
<1>11. after[0] = list /\ \A k \in 1..times : after[k] = Sort(after[k - 1], order)
  <2>1. 0 \in 0..times /\ \A k \in 1..times : k \in 0..times /\ k # 0
    OBVIOUS
  <2>2. QED
    BY <2>1, <1>9
<1> DEFINE G == {k \in 0..times :
                   /\ after[k] \in T
                   /\ k > 0 /\ WeakOrder(order, S) => Settled(after[k], order)}
<1>12. 0..times \subseteq G
  <2>1. 0 \in G
    BY <1>5, <1>11
  <2>2. ASSUME NEW k \in 1..times, k - 1 \in G PROVE k \in G
    BY <2>2, <1>1, <1>2, <1>11
  <2> HIDE DEF G
  <2>3. QED
    BY <2>1, <2>2, UpTo
<1>13. times \in G
  BY <1>12
<1>14. QED
  BY <1>10, <1>11, <1>13 DEF T

-----------------------------------------------------------------------------
(* Slots and the inductive invariant.                                      *)

LEMMA SlotFacts ==
    /\ Outlet \cap Inlet = {}
    /\ \A s \in Slot : s.node \in Node /\ s.rank \in Nat
    /\ \A s, t \in Slot :
          s.node = t.node /\ s.kind = t.kind /\ s.rank = t.rank => s = t
<1>1. ASSUME NEW k, NEW count \in [Node -> Nat], NEW s \in SlotsOfKind(k, count)
      PROVE  /\ s = [node |-> s.node, kind |-> s.kind, rank |-> s.rank]
             /\ s.node \in Node /\ s.kind = k /\ s.rank \in 0..count[s.node] - 1
  <2>1. PICK n \in Node : s \in [node : {n}, kind : {k}, rank : 0..count[n] - 1]
    BY DEF SlotsOfKind
  <2>2. QED
    BY <2>1
<1>2. \A s \in Outlet : /\ s = [node |-> s.node, kind |-> s.kind, rank |-> s.rank]
                        /\ s.node \in Node /\ s.kind = "out" /\ s.rank \in Nat
  BY <1>1, CountAssumption DEF Outlet
<1>3. \A s \in Inlet : /\ s = [node |-> s.node, kind |-> s.kind, rank |-> s.rank]
                       /\ s.node \in Node /\ s.kind = "in" /\ s.rank \in Nat
  BY <1>1, CountAssumption DEF Inlet
<1>4. Outlet \cap Inlet = {}
  BY <1>2, <1>3
<1>5. \A s \in Slot : /\ s = [node |-> s.node, kind |-> s.kind, rank |-> s.rank]
                      /\ s.node \in Node /\ s.rank \in Nat
  BY <1>2, <1>3 DEF Slot
<1>6. QED
  BY <1>4, <1>5

\* A node has finitely many inlets.
LEMMA FinitelyManyInlets == \A n \in Node : IsFiniteSet(InletsOf(n))
<1> SUFFICES ASSUME NEW n \in Node PROVE IsFiniteSet(InletsOf(n))
  OBVIOUS
<1>1. InletCount[n] \in Nat /\ IsFiniteSet(0..InletCount[n] - 1)
  BY CountAssumption, FS_Interval
<1> DEFINE f == [s \in InletsOf(n) |-> s.rank]
<1>2. \A s \in InletsOf(n) : s.node = n /\ s.rank \in 0..InletCount[n] - 1
                             /\ s = [node |-> n, kind |-> "in", rank |-> s.rank]
  <2> SUFFICES ASSUME NEW s \in InletsOf(n)
               PROVE  s.node = n /\ s.rank \in 0..InletCount[n] - 1
                      /\ s = [node |-> n, kind |-> "in", rank |-> s.rank]
    OBVIOUS
  <2>1. s.node = n
    BY DEF InletsOf
  <2>2. PICK m \in Node : s \in [node : {m}, kind : {"in"}, rank : 0..InletCount[m] - 1]
    BY DEF InletsOf, Inlet, SlotsOfKind
  <2>3. QED
    BY <2>1, <2>2
<1>3. f \in [InletsOf(n) -> 0..InletCount[n] - 1]
  BY <1>2
<1>4. \A s, t \in InletsOf(n) : f[s] = f[t] => s = t
  BY <1>2
<1>5. f \in Injection(InletsOf(n), 0..InletCount[n] - 1)
  BY <1>3, <1>4 DEF Injection, IsInjective
<1>6. QED
  BY <1>1, <1>5, FS_Injection

\* The slots at the other ends of a slot's links.
Partners(s) == ToSet(connections[s])

Tidy ==
    /\ connections \in [Slot -> Seq(Slot)]
    /\ \A s \in Slot : connections[s] \in ListOf(Slot, Partners(s))
    /\ \A s \in Slot : \A t \in Partners(s) :
          /\ s \in Partners(t)
          /\ s.node \in alive /\ t.node \in alive
          /\ s \in Outlet <=> t \in Inlet
          /\ t \in Outlet <=> s \in Inlet
    /\ id \in [Slot -> Nat]
    /\ position \in [Node -> 0..MaxPosition]
    /\ alive \in SUBSET Node
    /\ counter \in 0..MaxCreations

LEMMA TidyMeans == Tidy => PatchTypeOK /\ LinksMutual
<1> SUFFICES ASSUME Tidy PROVE PatchTypeOK /\ LinksMutual
  OBVIOUS
<1>1. ASSUME NEW s \in Slot
      PROVE  /\ connections[s] \in Seq(Slot) /\ IsInjective(connections[s])
             /\ \A k \in DOMAIN connections[s] : connections[s][k] \in Partners(s)
             /\ \A t : Contains(connections[s], t) <=> t \in Partners(s)
             /\ Partners(s) \subseteq Slot
  <2>1. connections[s] \in Seq(Slot) /\ IsInjective(connections[s])
    BY DEF Tidy, ListOf
  <2>2. QED
    BY <2>1, ElementsOf DEF Partners, ToSet
<1>2. PatchTypeOK
  BY <1>1, SlotFacts DEF Tidy, PatchTypeOK, Slot
<1>3. LinksMutual
  <2> SUFFICES ASSUME NEW s \in Slot
               PROVE  /\ IsInjective(connections[s])
                      /\ \A t \in ToSet(connections[s]) :
                            /\ Contains(connections[t], s)
                            /\ {s.node, t.node} \subseteq alive
    BY DEF LinksMutual
  <2>1. IsInjective(connections[s])
    BY <1>1
  <2>2. ASSUME NEW t \in Partners(s)
        PROVE  Contains(connections[t], s) /\ {s.node, t.node} \subseteq alive
    BY <1>1 DEF Tidy
  <2>3. QED
    BY <2>1, <2>2 DEF Partners
<1>4. QED
  BY <1>2, <1>3

LEMMA InitTidy == PatchInit => Tidy
<1> SUFFICES ASSUME PatchInit PROVE Tidy
  OBVIOUS
<1>1. \A s \in Slot : connections[s] = <<>>
  BY DEF PatchInit
<1>2. ToSet(<<>>) = {} /\ <<>> \in ListOf(Slot, {}) /\ <<>> \in Seq(Slot)
  BY EmptyList DEF ListOf
<1>3. \A s \in Slot : Partners(s) = {} /\ connections[s] \in ListOf(Slot, Partners(s))
  BY <1>1, <1>2 DEF Partners
<1>4. connections \in [Slot -> Seq(Slot)] /\ id \in [Slot -> Nat]
  BY <1>2, SlotFacts DEF PatchInit
<1>5. QED
  BY <1>3, <1>4, BoundAssumption DEF Tidy, PatchInit

-----------------------------------------------------------------------------
(* What each operation does to the links.                                  *)

\* The lists are as they were but for the slots at the other ends, which are
\* those of Q now.
Relinked(Q) ==
    /\ connections' \in [Slot -> Seq(Slot)]
    /\ \A s \in Slot : connections'[s] \in ListOf(Slot, Q[s])

\* connect() adds each end to the other.
LEMMA ConnectRelinks ==
    ASSUME Tidy, NEW o \in Outlet, NEW i \in Inlet, Connect(o, i)
    PROVE  Relinked([s \in Slot |-> IF s = o THEN Partners(s) \cup {i}
                                    ELSE IF s = i THEN Partners(s) \cup {o}
                                    ELSE Partners(s)])
<1>1. o # i /\ o \in Slot /\ i \in Slot
  BY SlotFacts DEF Slot
<1> DEFINE order == SlotOrder(id, position)
<1>2. \A s \in Slot :
         connections'[s] = IF s = o THEN Push(connections[s], i, order)
                           ELSE IF s = i THEN Push(connections[s], o, order)
                           ELSE connections[s]
  BY <1>1 DEF Connect, Tidy
<1> HIDE DEF order
<1>3. \A s \in Slot : connections[s] \in ListOf(Slot, Partners(s))
  BY DEF Tidy
<1>4. /\ Push(connections[o], i, order) \in ListOf(Slot, Partners(o) \cup {i})
      /\ Push(connections[i], o, order) \in ListOf(Slot, Partners(i) \cup {o})
  BY <1>1, <1>3, PushElements
<1>5. connections' \in [Slot -> Seq(Slot)]
  <2>1. DOMAIN connections' = Slot
    BY DEF Connect, Tidy
  <2>2. \A s \in Slot : connections'[s] \in Seq(Slot)
    BY <1>2, <1>3, <1>4 DEF ListOf
  <2>3. connections' = [s \in Slot |-> connections'[s]]
    BY DEF Connect, Tidy
  <2>4. QED
    BY <2>2, <2>3
<1>6. QED
  BY <1>1, <1>2, <1>3, <1>4, <1>5 DEF Relinked

\* disconnect() removes each end from the other.
LEMMA DisconnectRelinks ==
    ASSUME Tidy, NEW o \in Outlet, NEW i \in Inlet, Disconnect(o, i)
    PROVE  Relinked([s \in Slot |-> IF s = o THEN Partners(s) \ {i}
                                    ELSE IF s = i THEN Partners(s) \ {o}
                                    ELSE Partners(s)])
<1>1. o # i /\ o \in Slot /\ i \in Slot
  BY SlotFacts DEF Slot
<1>2. \A s \in Slot :
         connections'[s] = IF s = o THEN RemoveObject(connections[s], i)
                           ELSE IF s = i THEN RemoveObject(connections[s], o)
                           ELSE connections[s]
  BY <1>1 DEF Disconnect, Tidy
<1>3. \A s \in Slot : connections[s] \in ListOf(Slot, Partners(s))
  BY DEF Tidy
<1>4. /\ RemoveObject(connections[o], i) \in ListOf(Slot, Partners(o) \ {i})
      /\ RemoveObject(connections[i], o) \in ListOf(Slot, Partners(i) \ {o})
  BY <1>1, <1>3, RemoveElements
<1>5. connections' \in [Slot -> Seq(Slot)]
  <2>1. \A s \in Slot : connections'[s] \in Seq(Slot)
    BY <1>2, <1>3, <1>4 DEF ListOf
  <2>2. connections' = [s \in Slot |-> connections'[s]]
    BY DEF Disconnect, Tidy
  <2>3. QED
    BY <2>1, <2>2
<1>6. QED
  BY <1>1, <1>2, <1>3, <1>4, <1>5 DEF Relinked

\* Sorting the lists that lead to some slots links what was linked.
LEMMA SortingRelinks ==
    ASSUME Tidy, NEW slots, IsFiniteSet(slots), NEW ids, NEW positions,
           connections' = SortIncoming(slots, ids, positions)
    PROVE  Relinked([s \in Slot |-> Partners(s)])
<1> DEFINE times(s) == Cardinality({t \in slots : Contains(connections[t], s)})
           order == SlotOrder(ids, positions)
<1>1. \A s : times(s) \in Nat
  <2> TAKE s
  <2>1. {t \in slots : Contains(connections[t], s)} \in SUBSET slots
    OBVIOUS
  <2>2. IsFiniteSet({t \in slots : Contains(connections[t], s)})
    BY <2>1, FS_Subset
  <2>3. QED
    BY <2>2, FS_CardinalityType
<1>2. connections' = [s \in Slot |-> SortTimes(connections[s], times(s), order)]
  BY DEF SortIncoming
<1> HIDE DEF times, order
<1>3. \A s \in Slot : connections'[s] \in ListOf(Slot, Partners(s))
  <2> TAKE s \in Slot
  <2>1. connections[s] \in ListOf(Slot, Partners(s))
    BY DEF Tidy
  <2>2. SortTimes(connections[s], times(s), order) \in ListOf(Slot, Partners(s))
    BY <2>1, <1>1, SortTimesElements
  <2>3. QED
    BY <1>2, <2>2
<1>4. connections' \in [Slot -> Seq(Slot)]
  BY <1>2, <1>3 DEF ListOf
<1>5. QED
  BY <1>3, <1>4 DEF Relinked

\* ~Node() takes the slots of the node out of every list.
LEMMA DestroyRelinks ==
    ASSUME Tidy, NEW n \in Node, DestroyNode(n)
    PROVE  Relinked([s \in Slot |-> IF s.node = n THEN {}
                                    ELSE Partners(s) \ SlotsOf(n)])
<1>1. \A s \in Slot :
         connections'[s] = IF s.node = n THEN <<>>
                           ELSE Without(connections[s], SlotsOf(n))
  BY DEF DestroyNode
<1>2. \A s \in Slot : Without(connections[s], SlotsOf(n))
                         \in ListOf(Slot, Partners(s) \ SlotsOf(n))
  <2> TAKE s \in Slot
  <2>1. connections[s] \in ListOf(Slot, Partners(s))
    BY DEF Tidy
  <2>2. QED
    BY <2>1, WithoutOrdered
<1>3. \A s \in Slot :
         connections'[s] \in ListOf(Slot, IF s.node = n THEN {}
                                          ELSE Partners(s) \ SlotsOf(n))
  BY <1>1, <1>2, EmptyList
<1>4. connections' \in [Slot -> Seq(Slot)]
  <2>1. \A s \in Slot : connections'[s] \in Seq(Slot)
    BY <1>3 DEF ListOf
  <2>2. connections' = [s \in Slot |-> connections'[s]]
    BY DEF DestroyNode
  <2>3. QED
    BY <2>1, <2>2
<1>5. QED
  BY <1>3, <1>4 DEF Relinked

LEMMA RelinkedMeans ==
    ASSUME NEW Q, Relinked(Q)
    PROVE  \A s \in Slot : /\ Partners(s)' = Q[s]
                           /\ connections'[s] \in ListOf(Slot, Partners(s)')
                           /\ \A t : Contains(connections'[s], t) <=> t \in Q[s]
<1> SUFFICES ASSUME NEW s \in Slot
             PROVE  /\ Partners(s)' = Q[s]
                    /\ connections'[s] \in ListOf(Slot, Partners(s)')
                    /\ \A t : Contains(connections'[s], t) <=> t \in Q[s]
  OBVIOUS
<1>1. connections'[s] \in Seq(Slot) /\ ToSet(connections'[s]) = Q[s]
  BY DEF Relinked, ListOf
<1>2. Partners(s)' = Q[s]
  BY <1>1 DEF Partners
<1>3. QED
  BY <1>1, <1>2, ElementsOf DEF Relinked

-----------------------------------------------------------------------------
(* The invariant is kept.                                                  *)

LEMMA SlotsAreEither == \A s \in Slot : s \in Outlet <=> s \notin Inlet
BY SlotFacts DEF Slot

LEMMA ConnectTidy ==
    ASSUME Tidy, NEW o \in Outlet, NEW i \in Inlet, Connect(o, i)
    PROVE  Tidy'
<1> DEFINE Q == [s \in Slot |-> IF s = o THEN Partners(s) \cup {i}
                                ELSE IF s = i THEN Partners(s) \cup {o}
                                ELSE Partners(s)]
<1>1. Relinked(Q)
  BY ConnectRelinks
<1>2. \A s \in Slot : Partners(s)' = Q[s] /\ connections'[s] \in ListOf(Slot, Partners(s)')
  BY <1>1, RelinkedMeans
<1>3. /\ o \in Slot /\ i \in Slot /\ o # i
      /\ o.node \in alive /\ i.node \in alive
      /\ UNCHANGED <<id, position, alive, counter>>
  BY SlotFacts DEF Slot, Connect
<1>4. \A s \in Slot : Partners(s) \subseteq Slot
  BY ElementsOf DEF Tidy, Partners
<1>5. ASSUME NEW s \in Slot, NEW t \in Partners(s)'
      PROVE  /\ s \in Partners(t)'
             /\ s.node \in alive /\ t.node \in alive
             /\ s \in Outlet <=> t \in Inlet
             /\ t \in Outlet <=> s \in Inlet
  <2>1. t \in Slot
    BY <1>2, <1>3, <1>4, <1>5
  <2>2. CASE t \in Partners(s)
    <3>1. /\ s \in Partners(t)
          /\ s.node \in alive /\ t.node \in alive
          /\ s \in Outlet <=> t \in Inlet
          /\ t \in Outlet <=> s \in Inlet
      BY <2>1, <2>2 DEF Tidy
    <3>2. Partners(t) \subseteq Partners(t)'
      BY <2>1, <1>2
    <3>3. QED
      BY <3>1, <3>2
  <2>3. CASE t \notin Partners(s)
    <3>1. (s = o /\ t = i) \/ (s = i /\ t = o)
      BY <2>3, <1>2, <1>5
    <3>2. o \notin Inlet /\ i \notin Outlet
      BY <1>3, SlotsAreEither
    <3>3. i \in Partners(o)' /\ o \in Partners(i)'
      BY <1>2, <1>3
    <3>4. CASE s = o /\ t = i
      BY <3>2, <3>3, <3>4, <1>3
    <3>5. CASE s = i /\ t = o
      BY <3>2, <3>3, <3>5, <1>3
    <3>6. QED
      BY <3>1, <3>4, <3>5
  <2>4. QED
    BY <2>2, <2>3
<1>6. QED
  BY <1>1, <1>2, <1>3, <1>5 DEF Tidy, Relinked

LEMMA DisconnectTidy ==
    ASSUME Tidy, NEW o \in Outlet, NEW i \in Inlet, Disconnect(o, i)
    PROVE  Tidy'
<1> DEFINE Q == [s \in Slot |-> IF s = o THEN Partners(s) \ {i}
                                ELSE IF s = i THEN Partners(s) \ {o}
                                ELSE Partners(s)]
<1>1. Relinked(Q)
  BY DisconnectRelinks
<1>2. \A s \in Slot : Partners(s)' = Q[s] /\ connections'[s] \in ListOf(Slot, Partners(s)')
  BY <1>1, RelinkedMeans
<1>3. UNCHANGED <<id, position, alive, counter>> /\ o # i
  BY SlotFacts DEF Disconnect
<1>4. \A s \in Slot : Partners(s) \subseteq Slot
  BY ElementsOf DEF Tidy, Partners
<1>5. ASSUME NEW s \in Slot, NEW t \in Partners(s)'
      PROVE  /\ s \in Partners(t)'
             /\ s.node \in alive /\ t.node \in alive
             /\ s \in Outlet <=> t \in Inlet
             /\ t \in Outlet <=> s \in Inlet
  <2>1. t \in Partners(s) /\ t \in Slot
    BY <1>2, <1>4, <1>5
  <2>2. ~(s = o /\ t = i) /\ ~(s = i /\ t = o)
    BY <1>2, <1>3, <1>5
  <2>3. QED
    BY <2>1, <2>2, <1>2, <1>3 DEF Tidy
<1>6. QED
  BY <1>1, <1>2, <1>3, <1>5 DEF Tidy, Relinked

LEMMA DestroyTidy ==
    ASSUME Tidy, NEW n \in Node, DestroyNode(n)
    PROVE  Tidy'
<1> DEFINE Q == [s \in Slot |-> IF s.node = n THEN {} ELSE Partners(s) \ SlotsOf(n)]
<1>1. Relinked(Q)
  BY DestroyRelinks
<1>2. \A s \in Slot : Partners(s)' = Q[s] /\ connections'[s] \in ListOf(Slot, Partners(s)')
  BY <1>1, RelinkedMeans
<1>3. UNCHANGED <<id, position, counter>> /\ alive' = alive \ {n}
  BY DEF DestroyNode
<1>4. \A s \in Slot : Partners(s) \subseteq Slot
  BY ElementsOf DEF Tidy, Partners
<1>5. ASSUME NEW s \in Slot, NEW t \in Partners(s)'
      PROVE  /\ s \in Partners(t)'
             /\ s.node \in alive' /\ t.node \in alive'
             /\ s \in Outlet <=> t \in Inlet
             /\ t \in Outlet <=> s \in Inlet
  <2>1. t \in Partners(s) /\ t \in Slot /\ s.node # n /\ t.node # n
    BY <1>2, <1>4, <1>5 DEF SlotsOf
  <2>2. QED
    BY <2>1, <1>2, <1>3 DEF Tidy, SlotsOf
<1>6. QED
  BY <1>1, <1>2, <1>3, <1>5 DEF Tidy, Relinked

\* Sorting keeps the links, whatever the new positions and ids are.
LEMMA SortingTidy ==
    ASSUME Tidy, Relinked([s \in Slot |-> Partners(s)]),
           id' \in [Slot -> Nat], position' \in [Node -> 0..MaxPosition],
           alive' \in SUBSET Node, alive \subseteq alive',
           counter' \in 0..MaxCreations
    PROVE  Tidy'
<1>1. \A s \in Slot : /\ Partners(s)' = Partners(s)
                      /\ connections'[s] \in ListOf(Slot, Partners(s)')
  BY RelinkedMeans
<1>2. \A s \in Slot : Partners(s) \subseteq Slot
  BY ElementsOf DEF Tidy, Partners
<1>3. QED
  BY <1>1, <1>2 DEF Tidy, Relinked

LEMMA SetTriggerPositionTidy ==
    ASSUME Tidy, NEW n \in Node, NEW p \in 1..MaxPosition, SetTriggerPosition(n, p)
    PROVE  Relinked([s \in Slot |-> Partners(s)]) /\ Tidy'
<1>1. Relinked([s \in Slot |-> Partners(s)])
  BY FinitelyManyInlets, SortingRelinks DEF SetTriggerPosition
<1>2. position' \in [Node -> 0..MaxPosition]
  BY BoundAssumption DEF SetTriggerPosition, Tidy
<1>3. UNCHANGED <<id, alive, counter>>
  BY DEF SetTriggerPosition
<1>4. QED
  BY <1>1, <1>2, <1>3, SortingTidy DEF Tidy

LEMMA SetIdTidy ==
    ASSUME Tidy, NEW i \in Inlet, NEW k \in 0..MaxId, SetId(i, k)
    PROVE  Relinked([s \in Slot |-> Partners(s)]) /\ Tidy'
<1>1. Relinked([s \in Slot |-> Partners(s)])
  BY FS_Singleton, SortingRelinks DEF SetId
<1>2. id' \in [Slot -> Nat]
  <2>1. k \in Nat
    BY BoundAssumption
  <2>2. id' = [id EXCEPT ![i] = k]
    BY DEF SetId
  <2>3. QED
    BY <2>1, <2>2 DEF Tidy
<1>3. UNCHANGED <<position, alive, counter>>
  BY DEF SetId
<1>4. QED
  BY <1>1, <1>2, <1>3, SortingTidy DEF Tidy

LEMMA CreateNodeTidy ==
    ASSUME Tidy, NEW n \in Node, CreateNode(n)
    PROVE  Relinked([s \in Slot |-> Partners(s)]) /\ Tidy'
<1>1. Relinked([s \in Slot |-> Partners(s)])
  BY DEF CreateNode, Tidy, Relinked
<1>2. counter' \in 0..MaxCreations /\ counter' \in 0..MaxPosition
  BY BoundAssumption DEF CreateNode, Tidy
<1>3. position' \in [Node -> 0..MaxPosition]
  BY <1>2 DEF CreateNode, Tidy
<1>4. id' \in [Slot -> Nat]
  <2>1. \A s \in Slot : s.rank \in Nat /\ id[s] \in Nat
    BY SlotFacts DEF Tidy
  <2>2. id' = [s \in Slot |-> IF s.node = n THEN s.rank ELSE id[s]]
    BY DEF CreateNode
  <2>3. QED
    BY <2>1, <2>2
<1>5. alive' \in SUBSET Node /\ alive \subseteq alive'
  BY DEF CreateNode, Tidy
<1>6. QED
  BY <1>1, <1>2, <1>3, <1>4, <1>5, SortingTidy

LEMMA NextTidy == Tidy /\ [PatchNext]_patchVars => Tidy'
<1> SUFFICES ASSUME Tidy, [PatchNext]_patchVars PROVE Tidy'
  OBVIOUS
<1>1. CASE UNCHANGED patchVars
  BY <1>1 DEF patchVars, Tidy, Partners
<1>2. ASSUME NEW n \in Node, CreateNode(n) PROVE Tidy'
  BY <1>2, CreateNodeTidy
<1>3. ASSUME NEW n \in Node, DestroyNode(n) PROVE Tidy'
  BY <1>3, DestroyTidy
<1>4. ASSUME NEW n \in Node, NEW p \in 1..MaxPosition, SetTriggerPosition(n, p)
      PROVE  Tidy'
  BY <1>4, SetTriggerPositionTidy
<1>5. ASSUME NEW o \in Outlet, NEW i \in Inlet, Connect(o, i) PROVE Tidy'
  BY <1>5, ConnectTidy
<1>6. ASSUME NEW o \in Outlet, NEW i \in Inlet, Disconnect(o, i) PROVE Tidy'
  BY <1>6, DisconnectTidy
<1>7. ASSUME NEW i \in Inlet, NEW k \in 0..MaxId, SetId(i, k) PROVE Tidy'
  BY <1>7, SetIdTidy
<1>8. QED
  BY <1>1, <1>2, <1>3, <1>4, <1>5, <1>6, <1>7 DEF PatchNext

THEOREM PatchInvariant == PatchSpec => []Tidy
BY InitTidy, NextTidy, PTL DEF PatchSpec

(* Type correctness of the patch bay: an outlet's list holds inlets, an    *)
(* inlet's list outlets, of slots that the classes of the nodes have.      *)
THEOREM PatchTypeCorrect == PatchSpec => []PatchTypeOK
<1>1. Tidy => PatchTypeOK
  BY TidyMeans
<1>2. QED
  BY <1>1, PatchInvariant, PTL

(* slot.cpp:48 "two way connection": both ends of a link agree, and none   *)
(* leads to a node that is gone, whatever was linked, sorted, renumbered   *)
(* and destroyed before.                                                   *)
THEOREM LinksAlwaysMutual == PatchSpec => []LinksMutual
<1>1. Tidy => LinksMutual
  BY TidyMeans
<1>2. QED
  BY <1>1, PatchInvariant, PTL

-----------------------------------------------------------------------------
(* Steps of the links.                                                     *)

LEMMA ContainsPartner ==
    Tidy => \A s \in Slot : \A t : Contains(connections[s], t) <=> t \in Partners(s)
BY ElementsOf DEF Tidy, Partners

\* What a step may do to the links of the patch.
LEMMA StepOfLinks ==
    ASSUME Tidy, PatchNext
    PROVE  \/ Relinked([s \in Slot |-> Partners(s)])
           \/ \E n \in Node : DestroyNode(n)
           \/ \E o \in Outlet, i \in Inlet : Connect(o, i) \/ Disconnect(o, i)
BY CreateNodeTidy, SetTriggerPositionTidy, SetIdTidy DEF PatchNext

\* As NoLinkLost has it, of one step.
LEMMA StepLosesNoLink ==
    ASSUME Tidy, PatchNext, NEW o \in Outlet, NEW i \in Inlet,
           Contains(connections[o], i), ~Contains(connections'[o], i)
    PROVE  Disconnect(o, i) \/ DestroyNode(o.node) \/ DestroyNode(i.node)
<1>1. o \in Slot /\ i \in Slot /\ o # i /\ i \in Partners(o)
  BY ContainsPartner, SlotFacts DEF Slot
<1>2. ASSUME NEW Q, Relinked(Q) PROVE i \notin Q[o]
  BY <1>1, <1>2, RelinkedMeans
<1>3. ~Relinked([s \in Slot |-> Partners(s)])
  BY <1>1, <1>2
<1>4. ASSUME NEW n \in Node, DestroyNode(n)
      PROVE  DestroyNode(o.node) \/ DestroyNode(i.node)
  <2> DEFINE Q == [s \in Slot |-> IF s.node = n THEN {} ELSE Partners(s) \ SlotsOf(n)]
  <2>1. Relinked(Q)
    BY <1>4, DestroyRelinks
  <2>2. i \notin Q[o]
    BY <2>1, <1>2
  <2>3. o.node = n \/ i.node = n
    BY <1>1, <2>2 DEF SlotsOf
  <2>4. QED
    BY <1>4, <2>3
<1>5. ASSUME NEW p \in Outlet, NEW j \in Inlet, Connect(p, j) PROVE FALSE
  <2> DEFINE Q == [s \in Slot |-> IF s = p THEN Partners(s) \cup {j}
                                  ELSE IF s = j THEN Partners(s) \cup {p}
                                  ELSE Partners(s)]
  <2>1. Relinked(Q)
    BY <1>5, ConnectRelinks
  <2>2. i \notin Q[o]
    BY <2>1, <1>2
  <2>3. QED
    BY <1>1, <2>2
<1>6. ASSUME NEW p \in Outlet, NEW j \in Inlet, Disconnect(p, j)
      PROVE  Disconnect(o, i)
  <2> DEFINE Q == [s \in Slot |-> IF s = p THEN Partners(s) \ {j}
                                  ELSE IF s = j THEN Partners(s) \ {p}
                                  ELSE Partners(s)]
  <2>1. Relinked(Q)
    BY <1>6, DisconnectRelinks
  <2>2. i \notin Q[o]
    BY <2>1, <1>2
  <2>3. o # j
    BY SlotFacts
  <2>4. o = p /\ i = j
    BY <1>1, <2>2, <2>3
  <2>5. QED
    BY <1>6, <2>4
<1>7. QED
  BY <1>3, <1>4, <1>5, <1>6, StepOfLinks

(* A link goes when it is unlinked or with one of its nodes, and is never  *)
(* lost by the sorting of a list (OrderedList::sort takes every container  *)
(* out and pushes it again).                                               *)
THEOREM NoLinkEverLost == PatchSpec => NoLinkLost
<1>1. Tidy /\ [PatchNext]_patchVars
        => [\A o \in Outlet, i \in Inlet :
               Contains(connections[o], i) /\ ~Contains(connections'[o], i) =>
                  Disconnect(o, i) \/ DestroyNode(o.node) \/ DestroyNode(i.node)
           ]_patchVars
  BY StepLosesNoLink
<1>2. QED
  BY <1>1, PatchInvariant, PTL DEF PatchSpec, NoLinkLost

\* Both ends agree, so either tells the links.
LEMMA LinksOfPartners ==
    Tidy => Links = {l \in Outlet \X Inlet : l[2] \in Partners(l[1])}
<1> SUFFICES ASSUME Tidy
             PROVE  Links = {l \in Outlet \X Inlet : l[2] \in Partners(l[1])}
  OBVIOUS
<1>1. ASSUME NEW o \in Outlet, NEW i \in Inlet
      PROVE  Contains(connections[o], i) /\ Contains(connections[i], o)
                <=> i \in Partners(o)
  <2>1. o \in Slot /\ i \in Slot
    BY DEF Slot
  <2>2. QED
    BY <2>1, ContainsPartner DEF Tidy
<1>2. QED
  BY <1>1 DEF Links

LEMMA LinksAfter ==
    ASSUME Tidy', NEW Q, Relinked(Q)
    PROVE  Links' = {l \in Outlet \X Inlet : l[2] \in Q[l[1]]}
<1>1. (Links = {l \in Outlet \X Inlet : l[2] \in Partners(l[1])})'
  BY LinksOfPartners, PTL
<1>2. \A o \in Outlet : Partners(o)' = Q[o]
  BY RelinkedMeans DEF Slot
<1>3. QED
  BY <1>1, <1>2

\* What each operation does to the links.
LEMMA DestroyDetaches ==
    ASSUME Tidy, Tidy', NEW n \in Node, DestroyNode(n)
    PROVE  Links' = {l \in Links : n \notin {l[1].node, l[2].node}}
<1>1. Links = {l \in Outlet \X Inlet : l[2] \in Partners(l[1])}
  BY LinksOfPartners
<1>2. \A p \in Outlet : p \in Slot /\ p \notin Inlet
  BY SlotFacts DEF Slot
<1> DEFINE Q == [s \in Slot |-> IF s.node = n THEN {} ELSE Partners(s) \ SlotsOf(n)]
<1>3. Links' = {l \in Outlet \X Inlet : l[2] \in Q[l[1]]}
  <2>1. Relinked(Q)
    BY DestroyRelinks
  <2> HIDE DEF Q
  <2>2. QED
    BY <2>1, LinksAfter
<1>4. \A p \in Outlet, j \in Inlet :
         j \in Q[p] <=> j \in Partners(p) /\ p.node # n /\ j.node # n
  BY <1>2 DEF SlotsOf, Slot
<1> HIDE DEF Q
<1>5. QED
  BY <1>1, <1>3, <1>4

LEMMA ConnectMakes ==
    ASSUME Tidy, Tidy', NEW o \in Outlet, NEW i \in Inlet, Connect(o, i)
    PROVE  Links' = Links \cup {<<o, i>>}
<1>1. Links = {l \in Outlet \X Inlet : l[2] \in Partners(l[1])}
  BY LinksOfPartners
<1>2. \A p \in Outlet : p \in Slot /\ p \notin Inlet
  BY SlotFacts DEF Slot
<1> DEFINE Q == [s \in Slot |-> IF s = o THEN Partners(s) \cup {i}
                                ELSE IF s = i THEN Partners(s) \cup {o}
                                ELSE Partners(s)]
<1>3. Links' = {l \in Outlet \X Inlet : l[2] \in Q[l[1]]}
  <2>1. Relinked(Q)
    BY ConnectRelinks
  <2> HIDE DEF Q
  <2>2. QED
    BY <2>1, LinksAfter
<1>4. \A p \in Outlet, j \in Inlet :
         j \in Q[p] <=> j \in Partners(p) \/ (p = o /\ j = i)
  BY <1>2
<1> HIDE DEF Q
<1>5. QED
  BY <1>1, <1>3, <1>4

LEMMA DisconnectBreaks ==
    ASSUME Tidy, Tidy', NEW o \in Outlet, NEW i \in Inlet, Disconnect(o, i)
    PROVE  Links' = Links \ {<<o, i>>}
<1>1. Links = {l \in Outlet \X Inlet : l[2] \in Partners(l[1])}
  BY LinksOfPartners
<1>2. \A p \in Outlet : p \in Slot /\ p \notin Inlet
  BY SlotFacts DEF Slot
<1> DEFINE Q == [s \in Slot |-> IF s = o THEN Partners(s) \ {i}
                                ELSE IF s = i THEN Partners(s) \ {o}
                                ELSE Partners(s)]
<1>3. Links' = {l \in Outlet \X Inlet : l[2] \in Q[l[1]]}
  <2>1. Relinked(Q)
    BY DisconnectRelinks
  <2> HIDE DEF Q
  <2>2. QED
    BY <2>1, LinksAfter
<1>4. \A p \in Outlet, j \in Inlet :
         j \in Q[p] <=> j \in Partners(p) /\ ~(p = o /\ j = i)
  BY <1>2
<1> HIDE DEF Q
<1>5. QED
  BY <1>1, <1>3, <1>4

LEMMA SortingKeepsLinks ==
    ASSUME Tidy, Tidy', Relinked([s \in Slot |-> Partners(s)])
    PROVE  Links' = Links
<1>1. Links = {l \in Outlet \X Inlet : l[2] \in Partners(l[1])}
  BY LinksOfPartners
<1>2. Links' = {l \in Outlet \X Inlet : l[2] \in [s \in Slot |-> Partners(s)][l[1]]}
  BY LinksAfter
<1>3. QED
  BY <1>1, <1>2, SlotFacts DEF Slot

LEMMA StepOfWiring ==
    Tidy /\ Tidy' /\ [PatchNext]_patchVars => [Cables!WiringNext]_(Cables!wiringVars)
<1> SUFFICES ASSUME Tidy, Tidy', [PatchNext]_patchVars
             PROVE  Cables!WiringNext \/ UNCHANGED <<Links, alive, position, id>>
  BY DEF Cables!wiringVars
<1>1. ASSUME NEW n \in Node, CreateNode(n) PROVE Cables!Add(n)
  <2>1. Links' = Links
    BY <1>1, CreateNodeTidy, SortingKeepsLinks
  <2>2. QED
    BY <1>1, <2>1 DEF CreateNode, Cables!Add
<1>2. ASSUME NEW n \in Node, DestroyNode(n) PROVE Cables!Remove(n)
  BY <1>2, DestroyDetaches DEF DestroyNode, Cables!Remove
<1>3. ASSUME Relinked([s \in Slot |-> Partners(s)]), UNCHANGED alive
      PROVE  Cables!Move \/ UNCHANGED <<Links, alive, position, id>>
  BY <1>3, SortingKeepsLinks DEF Cables!Move
<1>4. ASSUME NEW n \in Node, NEW p \in 1..MaxPosition, SetTriggerPosition(n, p)
      PROVE  Cables!Move \/ UNCHANGED <<Links, alive, position, id>>
  BY <1>3, <1>4, SetTriggerPositionTidy DEF SetTriggerPosition
<1>5. ASSUME NEW i \in Inlet, NEW k \in 0..MaxId, SetId(i, k)
      PROVE  Cables!Move \/ UNCHANGED <<Links, alive, position, id>>
  BY <1>3, <1>5, SetIdTidy DEF SetId
<1>6. ASSUME NEW o \in Outlet, NEW i \in Inlet, Connect(o, i)
      PROVE  Cables!Make(o, i)
  BY <1>6, ConnectMakes DEF Connect, Cables!Make
<1>7. ASSUME NEW o \in Outlet, NEW i \in Inlet, Disconnect(o, i)
      PROVE  Cables!Break(o, i)
  BY <1>7, DisconnectBreaks DEF Disconnect, Cables!Break
<1>8. CASE UNCHANGED patchVars
  BY <1>8 DEF patchVars, Links
<1>9. CASE PatchNext
  BY <1>1, <1>2, <1>4, <1>5, <1>6, <1>7, <1>9 DEF PatchNext, Cables!WiringNext
<1>10. QED
  BY <1>8, <1>9

\* slot.cpp:45-86: the patch bay implements the wiring.  A sort that follows a
\* move, and a creation, change no link; a destruction takes exactly the links
\* of its node; connect() and disconnect() make or break one whole link.
THEOREM PatchImplementsWiring == PatchSpec => ImplementsWiring
<1>1. PatchInit => Cables!WiringInit
  <2> SUFFICES ASSUME PatchInit PROVE Links = {}
    BY DEF PatchInit, Cables!WiringInit
  <2>1. \A s \in Slot : Partners(s) = {}
    BY EmptyList DEF PatchInit, Partners, ListOf
  <2>2. QED
    BY <2>1, InitTidy, LinksOfPartners DEF Slot
<1>2. QED
  BY <1>1, StepOfWiring, PatchInvariant, PTL
     DEF PatchSpec, ImplementsWiring, Cables!WiringSpec

-----------------------------------------------------------------------------
(* The order of the outlets' lists, when no two nodes share a position.    *)

LiveInlets == {i \in Inlet : i.node \in alive}

OwnPositions == \A m, n \in alive : position[m] = position[n] => m = n

SettledOutlets ==
    \A o \in Outlet : Settled(connections[o], SlotOrder(id, position))

LEMMA OrderMeans ==
    ASSUME NEW ids, NEW positions, NEW s \in Slot, NEW t \in Slot
    PROVE  <<s, t>> \in SlotOrder(ids, positions)
              <=> IF s.node = t.node THEN ids[s] < ids[t]
                  ELSE positions[s.node] < positions[t.node]
BY DEF SlotOrder, AtLeast

\* The order of two slots hangs on their ids and the positions of their nodes.
LEMMA OrderUnmoved ==
    ASSUME NEW S \in SUBSET Slot,
           NEW ids, NEW positions, NEW ids2, NEW positions2,
           \A x \in S : ids2[x] = ids[x] /\ positions2[x.node] = positions[x.node]
    PROVE  \A x, y \in S : <<x, y>> \in SlotOrder(ids2, positions2)
                              => <<x, y>> \in SlotOrder(ids, positions)
BY DEF SlotOrder, AtLeast

\* Slots of nodes at different positions can be put in a row.  (Of nodes at
\* one position they cannot: neither of two such slots is at least the other,
\* and both may be level with a third that is.)
LEMMA OrderIsWeak ==
    ASSUME NEW live \in SUBSET Node,
           NEW ids \in [Slot -> Nat], NEW positions \in [Node -> Nat],
           \A m, n \in live : positions[m] = positions[n] => m = n
    PROVE  WeakOrder(SlotOrder(ids, positions), {i \in Inlet : i.node \in live})
<1> DEFINE S == {i \in Inlet : i.node \in live}
           Less(x, y) == IF x.node = y.node THEN ids[x] < ids[y]
                         ELSE positions[x.node] < positions[y.node]
<1>1. \A x, y \in S : <<x, y>> \in SlotOrder(ids, positions) <=> Less(x, y)
  BY OrderMeans DEF Slot
<1>2. \A x \in S : ids[x] \in Nat /\ positions[x.node] \in Nat
  BY SlotFacts DEF Slot
<1>3. \A x, y \in S : positions[x.node] = positions[y.node] => x.node = y.node
  OBVIOUS
<1> HIDE DEF S
<1>4. \A x, y \in S : Less(x, y) => ~Less(y, x)
  BY <1>2
<1>5. \A x, y, z \in S : ~Less(x, y) /\ ~Less(y, z) => ~Less(x, z)
  BY <1>2, <1>3
<1> HIDE DEF Less
<1>6. WeakOrder(SlotOrder(ids, positions), S)
  BY <1>1, <1>4, <1>5 DEF WeakOrder
<1>7. QED
  BY <1>6 DEF S

LEMMA PositionsAreNaturals == Tidy => position \in [Node -> Nat]
BY BoundAssumption DEF Tidy

LEMMA LiveOrderIsWeak ==
    Tidy /\ OwnPositions => WeakOrder(SlotOrder(id, position), LiveInlets)
BY OrderIsWeak, PositionsAreNaturals DEF Tidy, OwnPositions, LiveInlets

LEMMA ListsOfLiveInlets ==
    ASSUME Tidy, NEW o \in Outlet
    PROVE  /\ Partners(o) \subseteq LiveInlets
           /\ connections[o] \in ListOf(LiveInlets, Partners(o))
<1>1. o \in Slot /\ connections[o] \in ListOf(Slot, Partners(o))
  BY DEF Slot, Tidy
<1>2. Partners(o) \subseteq LiveInlets
  BY <1>1 DEF Tidy, LiveInlets
<1>3. QED
  BY <1>1, <1>2, ListRetyped

\* A list none of whose objects were moved against each other stays settled.
LEMMA SettledUnmoved ==
    ASSUME NEW S, NEW E, NEW list \in ListOf(S, E), NEW R, NEW R2,
           \A x, y \in E : <<x, y>> \in R2 => <<x, y>> \in R,
           Settled(list, R)
    PROVE  Settled(list, R2)
BY DEF ListOf, Settled, ToSet

\* sort_incoming_connections() of the slots that were moved settles all lists.
LEMMA SortingSettles ==
    ASSUME Tidy, SettledOutlets, NEW slots \in SUBSET Inlet, IsFiniteSet(slots),
           NEW ids \in [Slot -> Nat], NEW positions \in [Node -> Nat],
           \A m, n \in alive : positions[m] = positions[n] => m = n,
           \A x, y \in LiveInlets \ slots :
              <<x, y>> \in SlotOrder(ids, positions)
                 => <<x, y>> \in SlotOrder(id, position),
           connections' = SortIncoming(slots, ids, positions),
           NEW o \in Outlet
    PROVE  Settled(connections'[o], SlotOrder(ids, positions))
<1> DEFINE sharing == {t \in slots : Contains(connections[t], o)}
           times == Cardinality(sharing)
           order == SlotOrder(ids, positions)
<1>1. o \in Slot /\ connections[o] \in ListOf(LiveInlets, Partners(o))
  BY ListsOfLiveInlets DEF Slot
<1>2. Partners(o) \subseteq LiveInlets
  BY ListsOfLiveInlets
<1>3. connections'[o] = SortTimes(connections[o], times, order)
  BY <1>1 DEF SortIncoming
<1>4. IsFiniteSet(sharing)
  <2>1. sharing \in SUBSET slots
    OBVIOUS
  <2>2. QED
    BY <2>1, FS_Subset
<1>5. times \in Nat /\ (times = 0 => sharing = {})
  <2> HIDE DEF sharing
  <2>1. QED
    BY <1>4, FS_CardinalityType, FS_EmptySet
<1>6. WeakOrder(order, LiveInlets)
  BY OrderIsWeak DEF Tidy, LiveInlets
<1>7. times > 0 \/ Settled(connections[o], order)
  <2> SUFFICES ASSUME times = 0 PROVE Settled(connections[o], order)
    BY <1>5
  <2>1. ASSUME NEW x \in Partners(o) PROVE x \notin slots
    <3>1. x \in Slot /\ o \in Partners(x)
      BY <1>1, <1>2 DEF Tidy, LiveInlets, Slot
    <3>2. Contains(connections[x], o)
      BY <3>1, ContainsPartner
    <3>3. QED
      BY <3>2, <1>5
  <2>2. \A x, y \in Partners(o) : <<x, y>> \in order => <<x, y>> \in SlotOrder(id, position)
    BY <2>1, <1>2
  <2>3. Settled(connections[o], SlotOrder(id, position))
    BY DEF SettledOutlets
  <2> HIDE DEF order
  <2>4. QED
    BY <2>2, <2>3, <1>1, SettledUnmoved
<1> HIDE DEF times, order
<1>8. Settled(SortTimes(connections[o], times, order), order)
  BY <1>1, <1>5, <1>6, <1>7, SortTimesElements
<1>9. QED
  BY <1>3, <1>8 DEF order

Rightmost == Tidy /\ OwnPositions /\ SettledOutlets

LEMMA ConnectRightmost ==
    ASSUME Rightmost, NEW p \in Outlet, NEW j \in Inlet, Connect(p, j)
    PROVE  Rightmost'
<1>1. Tidy' /\ OwnPositions'
  BY ConnectTidy DEF Rightmost, OwnPositions, Connect
<1>2. UNCHANGED <<id, position>>
  BY DEF Connect
<1>3. ASSUME NEW o \in Outlet
      PROVE  Settled(connections'[o], SlotOrder(id, position))
  <2>1. /\ o # j /\ o \in Slot
        /\ Settled(connections[o], SlotOrder(id, position))
    BY SlotFacts DEF Slot, Rightmost, SettledOutlets
  <2>2. CASE o # p
    BY <2>1, <2>2 DEF Connect, Rightmost, Tidy
  <2>3. CASE o = p
    <3>1. connections'[o] = Push(connections[o], j, SlotOrder(id, position))
      BY <2>1, <2>3 DEF Connect, Rightmost, Tidy
    <3>2. connections[o] \in Seq(LiveInlets) /\ j \in LiveInlets
      BY ListsOfLiveInlets DEF ListOf, LiveInlets, Connect, Rightmost
    <3>3. WeakOrder(SlotOrder(id, position), LiveInlets)
      BY LiveOrderIsWeak DEF Rightmost
    <3>4. QED
      BY <2>1, <3>1, <3>2, <3>3, PushSettles
  <2>4. QED
    BY <2>2, <2>3
<1>4. QED
  BY <1>1, <1>2, <1>3 DEF Rightmost, SettledOutlets

LEMMA DisconnectRightmost ==
    ASSUME Rightmost, NEW p \in Outlet, NEW j \in Inlet, Disconnect(p, j)
    PROVE  Rightmost'
<1>1. Tidy' /\ OwnPositions'
  BY DisconnectTidy DEF Rightmost, OwnPositions, Disconnect
<1>2. UNCHANGED <<id, position>>
  BY DEF Disconnect
<1>3. ASSUME NEW o \in Outlet
      PROVE  Settled(connections'[o], SlotOrder(id, position))
  <2>1. /\ o # j /\ o \in Slot
        /\ Settled(connections[o], SlotOrder(id, position))
        /\ connections[o] \in ListOf(Slot, Partners(o))
    BY SlotFacts DEF Slot, Rightmost, SettledOutlets, Tidy
  <2>2. connections'[o] = connections[o]
        \/ connections'[o] = RemoveObject(connections[o], j)
    BY <2>1 DEF Disconnect, Rightmost, Tidy
  <2> DEFINE order == SlotOrder(id, position)
  <2> HIDE DEF order
  <2>3. Settled(connections[o], order) => Settled(RemoveObject(connections[o], j), order)
    BY <2>1, RemoveElements
  <2>4. QED
    BY <2>1, <2>2, <2>3 DEF order
<1>4. QED
  BY <1>1, <1>2, <1>3 DEF Rightmost, SettledOutlets

LEMMA DestroyRightmost ==
    ASSUME Rightmost, NEW n \in Node, DestroyNode(n)
    PROVE  Rightmost'
<1>1. Tidy' /\ OwnPositions'
  BY DestroyTidy DEF Rightmost, OwnPositions, DestroyNode
<1>2. UNCHANGED <<id, position>>
  BY DEF DestroyNode
<1>3. ASSUME NEW o \in Outlet
      PROVE  Settled(connections'[o], SlotOrder(id, position))
  <2>1. /\ o \in Slot
        /\ Settled(connections[o], SlotOrder(id, position))
        /\ connections[o] \in ListOf(Slot, Partners(o))
    BY DEF Slot, Rightmost, SettledOutlets, Tidy
  <2>2. connections'[o] = <<>>
        \/ connections'[o] = Without(connections[o], SlotsOf(n))
    BY <2>1 DEF DestroyNode
  <2> DEFINE order == SlotOrder(id, position)
             gone == SlotsOf(n)
  <2> HIDE DEF order, gone
  <2>3. Settled(connections[o], order) => Settled(Without(connections[o], gone), order)
    BY <2>1, WithoutOrdered
  <2>4. Settled(<<>>, order)
    BY EmptyList
  <2>5. QED
    BY <2>1, <2>2, <2>3, <2>4 DEF order, gone
<1>4. QED
  BY <1>1, <1>2, <1>3 DEF Rightmost, SettledOutlets

LEMMA CreateNodeRightmost ==
    ASSUME \A m \in alive : position[m] # counter + 1,
           Rightmost, NEW n \in Node, CreateNode(n)
    PROVE  Rightmost'
<1>1. Tidy'
  BY CreateNodeTidy DEF Rightmost
<1>2. OwnPositions'
  <2>1. /\ \A m \in alive : position[m] # counter + 1 /\ m # n /\ m \in Node
        /\ alive' = alive \cup {n}
        /\ position' = [position EXCEPT ![n] = counter + 1]
        /\ position \in [Node -> Nat]
    BY PositionsAreNaturals DEF CreateNode, Rightmost, Tidy
  <2>2. /\ position'[n] = counter + 1
        /\ \A m \in alive : position'[m] = position[m]
    BY <2>1
  <2>3. QED
    BY <2>1, <2>2 DEF Rightmost, OwnPositions
<1>3. ASSUME NEW o \in Outlet
      PROVE  Settled(connections'[o], SlotOrder(id', position'))
  <2>1. /\ Partners(o) \subseteq LiveInlets
        /\ connections[o] \in ListOf(LiveInlets, Partners(o))
        /\ Settled(connections[o], SlotOrder(id, position))
    BY ListsOfLiveInlets DEF Rightmost, SettledOutlets
  <2>2. \A x \in LiveInlets : /\ x \in Slot /\ x.node # n
                              /\ id'[x] = id[x]
                              /\ position'[x.node] = position[x.node]
    BY SlotFacts DEF LiveInlets, CreateNode, Slot, Rightmost, Tidy
  <2>3. \A x, y \in LiveInlets :
           <<x, y>> \in SlotOrder(id', position')
              => <<x, y>> \in SlotOrder(id, position)
    <3>1. LiveInlets \in SUBSET Slot
      BY <2>2
    <3>2. QED
      BY <2>2, <3>1, OrderUnmoved
  <2>4. connections'[o] = connections[o]
    BY DEF CreateNode
  <2>5. QED
    BY <2>1, <2>3, <2>4, SettledUnmoved
<1>4. QED
  BY <1>1, <1>2, <1>3 DEF Rightmost, SettledOutlets

LEMMA SetTriggerPositionRightmost ==
    ASSUME ~Ties, Rightmost, NEW n \in Node, NEW p \in 1..MaxPosition,
           SetTriggerPosition(n, p)
    PROVE  Rightmost'
<1>1. Tidy' /\ position' \in [Node -> Nat]
  <2>1. Tidy'
    BY SetTriggerPositionTidy DEF Rightmost
  <2>2. QED
    BY <2>1, BoundAssumption DEF Tidy
<1>2. /\ position' = [position EXCEPT ![n] = p] /\ alive' = alive /\ id' = id
      /\ \A m \in alive \ {n} : position[m] # p
      /\ connections' = SortIncoming(InletsOf(n), id, position')
      /\ position \in [Node -> Nat] /\ alive \subseteq Node
  BY PositionsAreNaturals DEF SetTriggerPosition, Rightmost, Tidy
<1>3. \A k, m \in alive : position'[k] = position'[m] => k = m
  <2>1. /\ position'[n] = p
        /\ \A m \in alive : m # n => position'[m] = position[m] /\ position[m] # p
    BY <1>2
  <2>2. QED
    BY <2>1 DEF Rightmost, OwnPositions
<1>4. \A x, y \in LiveInlets \ InletsOf(n) :
         <<x, y>> \in SlotOrder(id, position') => <<x, y>> \in SlotOrder(id, position)
  <2> DEFINE S == LiveInlets \ InletsOf(n)
  <2>1. S \in SUBSET Slot /\ \A x \in S : position'[x.node] = position[x.node]
    BY <1>2, SlotFacts DEF LiveInlets, InletsOf, Slot
  <2> HIDE DEF S
  <2>2. \A x, y \in S : <<x, y>> \in SlotOrder(id, position')
                           => <<x, y>> \in SlotOrder(id, position)
    BY <2>1, OrderUnmoved
  <2>3. QED
    BY <2>2 DEF S
<1>5. InletsOf(n) \in SUBSET Inlet /\ IsFiniteSet(InletsOf(n))
  BY FinitelyManyInlets DEF InletsOf
<1>6. \A o \in Outlet : Settled(connections'[o], SlotOrder(id, position'))
  <2> DEFINE slots == InletsOf(n)
  <2>1. /\ Tidy /\ SettledOutlets /\ id \in [Slot -> Nat]
        /\ slots \in SUBSET Inlet /\ IsFiniteSet(slots)
        /\ connections' = SortIncoming(slots, id, position')
        /\ \A x, y \in LiveInlets \ slots :
              <<x, y>> \in SlotOrder(id, position')
                 => <<x, y>> \in SlotOrder(id, position)
    BY <1>2, <1>4, <1>5 DEF Rightmost, Tidy
  <2> HIDE DEF slots
  <2>2. QED
    BY <2>1, <1>1, <1>3, SortingSettles
<1>7. QED
  BY <1>1, <1>2, <1>3, <1>6 DEF Rightmost, OwnPositions, SettledOutlets

LEMMA SetIdRightmost ==
    ASSUME Rightmost, NEW i \in Inlet, NEW k \in 0..MaxId, SetId(i, k)
    PROVE  Rightmost'
<1>1. Tidy'
  BY SetIdTidy DEF Rightmost
<1>2. /\ id' = [id EXCEPT ![i] = k] /\ UNCHANGED <<position, alive>>
      /\ connections' = SortIncoming({i}, id', position)
      /\ position \in [Node -> Nat] /\ id \in [Slot -> Nat]
  BY PositionsAreNaturals DEF SetId, Rightmost, Tidy
<1>3. id' \in [Slot -> Nat]
  BY <1>1 DEF Tidy
<1>4. \A x, y \in LiveInlets \ {i} :
         <<x, y>> \in SlotOrder(id', position) => <<x, y>> \in SlotOrder(id, position)
  <2> DEFINE S == LiveInlets \ {i}
  <2>1. S \in SUBSET Slot /\ \A x \in S : id'[x] = id[x]
    BY <1>2 DEF LiveInlets, Slot
  <2> HIDE DEF S
  <2>2. \A x, y \in S : <<x, y>> \in SlotOrder(id', position)
                           => <<x, y>> \in SlotOrder(id, position)
    BY <2>1, OrderUnmoved
  <2>3. QED
    BY <2>2 DEF S
<1>5. {i} \in SUBSET Inlet /\ IsFiniteSet({i})
  BY FS_Singleton
<1>6. \A o \in Outlet : Settled(connections'[o], SlotOrder(id', position))
  BY <1>2, <1>3, <1>4, <1>5, SortingSettles DEF Rightmost, OwnPositions
<1>7. QED
  BY <1>1, <1>2, <1>6 DEF Rightmost, OwnPositions, SettledOutlets

LEMMA NextRightmost ==
    ASSUME ~Ties, Rightmost, [PatchNext]_patchVars
    PROVE  Rightmost'
<1>1. CASE UNCHANGED patchVars
  BY <1>1 DEF patchVars, Rightmost, Tidy, Partners, OwnPositions, SettledOutlets
<1>2. CASE PatchNext
  BY <1>2, ConnectRightmost, DisconnectRightmost, DestroyRightmost,
     CreateNodeRightmost, SetTriggerPositionRightmost, SetIdRightmost
     DEF PatchNext, CreateNode
<1>3. QED
  BY <1>1, <1>2

LEMMA SettledIsInOrder == Tidy /\ SettledOutlets => RightmostFirst
<1> SUFFICES ASSUME Tidy, SettledOutlets, NEW o \in Outlet,
                    NEW j \in DOMAIN connections[o],
                    NEW k \in DOMAIN connections[o], j < k
             PROVE  ~RightOf(connections[o][k], connections[o][j])
  BY DEF RightmostFirst, InOrder
<1> DEFINE x == connections[o][j]
           y == connections[o][k]
<1>1. <<x, y>> \notin SlotOrder(id, position)
  BY DEF SettledOutlets, Settled
<1>2. x \in Slot /\ y \in Slot
  <2>1. connections[o] \in Seq(Slot)
    BY DEF Tidy, Slot
  <2>2. QED
    BY <2>1, ElementsOf
<1>3. /\ id[x] \in Nat /\ id[y] \in Nat
      /\ position[x.node] \in Nat /\ position[y.node] \in Nat
  BY <1>2, SlotFacts, PositionsAreNaturals DEF Tidy
<1> HIDE DEF x, y
<1>4. ~RightOf(y, x)
  BY <1>1, <1>2, <1>3, OrderMeans DEF RightOf
<1>5. QED
  BY <1>4 DEF x, y

(* slot.cpp:61 "rightmost node and rightmost position in the same node":   *)
(* an outlet sends to the rightmost inlet first, although its list is kept *)
(* by others than the nodes whose positions order it.  Nodes at the same   *)
(* position break it (Ties).                                               *)
THEOREM AlwaysRightmostFirst ==
    ASSUME ~Ties
    PROVE  PatchSpec => []RightmostFirst
<1>1. PatchInit => Rightmost
  <2> SUFFICES ASSUME PatchInit PROVE Rightmost
    OBVIOUS
  <2>1. SettledOutlets
    BY EmptyList DEF PatchInit, SettledOutlets, Slot
  <2>2. OwnPositions
    BY DEF PatchInit, OwnPositions
  <2>3. QED
    BY <2>1, <2>2, InitTidy DEF Rightmost
<1>2. Rightmost /\ [PatchNext]_patchVars => Rightmost'
  BY NextRightmost
<1>3. Rightmost => RightmostFirst
  BY SettledIsInOrder DEF Rightmost
<1>4. QED
  BY <1>1, <1>2, <1>3, PTL DEF PatchSpec

-----------------------------------------------------------------------------
(* Sending.                                                                *)

\* By definition: a send changes no list, and a command is an operation of the
\* patch.
LEMMA DispatchIsAPatch == DispatchSpec => PatchSpec
<1>1. DispatchInit => PatchInit
  BY DEF DispatchInit
<1>2. [DispatchNext]_dispatchVars => [PatchNext]_patchVars
  BY DEF DispatchNext, dispatchVars, Start, Send, Return, Command
<1>3. QED
  BY <1>1, <1>2, PTL DEF DispatchSpec, PatchSpec

-----------------------------------------------------------------------------
(* The walks on the stack.                                                 *)

\* The inlets that a walk has still to serve, the present one included.
Rest(w) ==
    {connections[w.outlet][j] : j \in w.at..Len(connections[w.outlet])}

Walking(w) ==
    /\ w \in Walk
    /\ w.at \in 1..Len(connections[w.outlet])
    /\ w.due = Rest(w)

\* Each walk but the first is of the node that the one below it calls.
Stacked(s) ==
    /\ s \in Seq(Walk)
    /\ \A k \in 1..Len(s) : Walking(s[k])
    /\ \A k \in 2..Len(s) : s[k].outlet.node = Served(s[k - 1]).node

Sending == Tidy /\ Stacked(stack)

LEMMA ListOfOutlet ==
    ASSUME Tidy, NEW o \in Outlet
    PROVE  /\ connections[o] \in Seq(Slot)
           /\ Len(connections[o]) \in Nat
           /\ DOMAIN connections[o] = 1..Len(connections[o])
           /\ \A i, j \in 1..Len(connections[o]) :
                 connections[o][i] = connections[o][j] => i = j
           /\ \A j \in 1..Len(connections[o]) : connections[o][j] \in Partners(o)
           /\ Partners(o) = {connections[o][j] : j \in 1..Len(connections[o])}
           /\ Partners(o) \subseteq Inlet
<1>1. o \in Slot /\ connections[o] \in Seq(Slot) /\ IsInjective(connections[o])
  BY DEF Slot, Tidy, ListOf
<1>2. Partners(o) \subseteq Inlet
  BY <1>1, ElementsOf DEF Tidy, Partners
<1>3. QED
  BY <1>1, <1>2, ElementsOf DEF Partners, IsInjective

\* A send that begins has everything before it.
LEMMA BegunStacked ==
    ASSUME Tidy, NEW s, Stacked(s), NEW o \in Outlet,
           s # <<>> => o.node = Served(s[Len(s)]).node
    PROVE  Stacked(Begun(s, o))
<1>1. CASE connections[o] = <<>>
  BY <1>1 DEF Begun
<1>2. CASE connections[o] # <<>>
  <2> DEFINE w == [outlet |-> o, at |-> 1, sends |-> 0, due |-> ToSet(connections[o])]
             r == Append(s, w)
  <2>1. Begun(s, o) = r
    BY <1>2 DEF Begun
  <2>2. /\ w.outlet = o /\ w.at = 1
        /\ w.due = Partners(o) /\ Partners(o) \subseteq Inlet
    BY ListOfOutlet DEF Partners
  <2>3. w \in Walk
    BY <2>2, DispatchAssumption DEF Walk, Partners
  <2>4. 1 \in 1..Len(connections[o])
    BY <1>2, ListOfOutlet, EmptySeq
  <2>5. Walking(w)
    BY <2>2, <2>3, <2>4, ListOfOutlet DEF Walking, Rest
  <2> HIDE DEF w
  <2>6. s \in Seq(Walk) /\ Len(s) \in Nat
    BY LenProperties DEF Stacked
  <2>7. /\ r \in Seq(Walk) /\ Len(r) = Len(s) + 1 /\ r[Len(s) + 1] = w
        /\ \A k \in 1..Len(s) : r[k] = s[k]
    BY <2>3, <2>6, AppendProperties
  <2> HIDE DEF r
  <2>8. \A k \in 1..Len(r) : Walking(r[k])
    <3>1. \A k \in 1..Len(r) : k \in 1..Len(s) \/ k = Len(s) + 1
      BY <2>6, <2>7
    <3>2. QED
      BY <3>1, <2>5, <2>7 DEF Stacked
  <2>9. ASSUME NEW k \in 2..Len(r) PROVE r[k].outlet.node = Served(r[k - 1]).node
    <3>1. CASE k \in 2..Len(s)
      <4>1. k \in 1..Len(s) /\ k - 1 \in 1..Len(s)
        BY <3>1, <2>6
      <4>2. QED
        BY <4>1, <3>1, <2>7 DEF Stacked
    <3>2. CASE k = Len(s) + 1
      <4>1. Len(s) \in 1..Len(s) /\ k - 1 = Len(s)
        BY <3>2, <2>6, <2>9
      <4>2. s # <<>>
        BY <4>1, EmptySeq
      <4>3. r[k - 1] = s[Len(s)] /\ r[k].outlet = o
        BY <4>1, <3>2, <2>2, <2>7
      <4>4. QED
        BY <4>2, <4>3
    <3>3. QED
      BY <3>1, <3>2, <2>6, <2>7
  <2>10. QED
    BY <2>1, <2>7, <2>8, <2>9 DEF Stacked
<1>3. QED
  BY <1>1, <1>2

\* The walk on top goes on without its outlet: the others stay, and it may
\* be replaced by a walk of the same outlet.
LEMMA FrontStacked ==
    ASSUME NEW s, Stacked(s), s # <<>>
    PROVE  /\ Stacked(Front(s))
           /\ \A w : Walking(w) /\ w.outlet = s[Len(s)].outlet
                        => Stacked(Append(Front(s), w))
<1> DEFINE n == Len(s)
           f == Front(s)
<1>1. s \in Seq(Walk) /\ n \in Nat \ {0} /\ \A k \in 1..n : s[k] \in Walk
  BY LenProperties, EmptySeq, ElementOfSeq DEF Stacked
<1>2. /\ f \in Seq(Walk) /\ Len(f) = n - 1
      /\ \A k \in 1..n - 1 : f[k] = s[k]
  <2>1. \A k \in 1..n - 1 : s[k] \in Walk
    BY <1>1
  <2>2. f = SubSeq(s, 1, n - 1)
    BY DEF Front
  <2> HIDE DEF f, n
  <2>3. QED
    BY <1>1, <2>1, <2>2, SubSeqProperties
<1> HIDE DEF f, n
<1>3. \A k \in 1..n - 1 : Walking(f[k])
  <2>1. \A k \in 1..n - 1 : k \in 1..n
    BY <1>1
  <2>2. QED
    BY <2>1, <1>2 DEF Stacked, n
<1>4. \A k \in 2..n - 1 : f[k].outlet.node = Served(f[k - 1]).node
  <2>1. \A k \in 2..n - 1 : k \in 2..n /\ k \in 1..n - 1 /\ k - 1 \in 1..n - 1
    BY <1>1
  <2>2. QED
    BY <2>1, <1>2 DEF Stacked, n
<1>5. Stacked(f)
  BY <1>2, <1>3, <1>4 DEF Stacked
<1>6. ASSUME NEW w, Walking(w), w.outlet = s[n].outlet
      PROVE  Stacked(Append(f, w))
  <2> DEFINE r == Append(f, w)
  <2>1. /\ r \in Seq(Walk) /\ Len(r) = n /\ r[n] = w
        /\ \A k \in 1..n - 1 : r[k] = f[k]
    <3>1. w \in Walk
      BY <1>6 DEF Walking
    <3>2. QED
      BY <3>1, <1>1, <1>2, AppendProperties
  <2> HIDE DEF r
  <2>2. \A k \in 1..n : Walking(r[k])
    <3>1. \A k \in 1..n : k \in 1..n - 1 \/ k = n
      BY <1>1
    <3>2. QED
      BY <3>1, <2>1, <1>3, <1>6
  <2>3. ASSUME NEW k \in 2..n PROVE r[k].outlet.node = Served(r[k - 1]).node
    <3>1. k - 1 \in 1..n - 1 /\ k \in 1..n /\ (k = n \/ k \in 2..n - 1)
          /\ (k \in 2..n - 1 => k \in 1..n - 1)
      BY <1>1
    <3>2. r[k - 1] = s[k - 1]
      BY <3>1, <2>1, <1>2
    <3>3. r[k].outlet = s[k].outlet
      BY <3>1, <2>1, <1>2, <1>6
    <3>4. QED
      BY <3>2, <3>3 DEF Stacked, n
  <2>4. QED
    BY <2>1, <2>2, <2>3 DEF Stacked, r
<1>7. QED
  BY <1>5, <1>6 DEF f, n

LEMMA TopOfStack ==
    ASSUME Stacked(stack), stack # <<>>
    PROVE  /\ Top = stack[Len(stack)] /\ Walking(Top)
           /\ stack \in Seq(Walk) /\ Len(stack) \in 1..Len(stack)
           /\ Len(stack) \in Nat
<1>1. stack \in Seq(Walk) /\ Len(stack) \in Nat \ {0}
  BY EmptySeq DEF Stacked
<1>2. QED
  BY <1>1 DEF Top, Last, Stacked

LEMMA StartSending ==
    ASSUME Sending, NEW o \in Outlet, Start(o)
    PROVE  Stacked(stack')
BY BegunStacked DEF Sending, Start

LEMMA SendSending ==
    ASSUME Sending, NEW o \in Outlet, Send(o)
    PROVE  Stacked(stack')
<1> DEFINE n == Len(stack)
           r == [stack EXCEPT ![n].sends = @ + 1]
           w == [Top EXCEPT !.sends = @ + 1]
<1>1. /\ stack # <<>> /\ Top = stack[n] /\ Walking(Top)
      /\ stack \in Seq(Walk) /\ n \in 1..n /\ n \in Nat
      /\ o.node = Served(Top).node /\ Top.sends < MaxSends
      /\ stack' = Begun(r, o)
  BY TopOfStack DEF Sending, Send
<1>2. /\ w \in Walk /\ w.outlet = Top.outlet /\ w.at = Top.at /\ w.due = Top.due
  <2>1. Top \in Walk /\ Top.sends + 1 \in 0..MaxSends
    BY <1>1, DispatchAssumption DEF Walking, Walk
  <2>2. QED
    BY <2>1 DEF Walk
<1>3. r = [stack EXCEPT ![n] = w]
  BY <1>1
<1> HIDE DEF w, n
<1>4. /\ r \in Seq(Walk) /\ Len(r) = n
      /\ \A k \in 1..n : r[k] = IF k = n THEN w ELSE stack[k]
  BY <1>1, <1>2, <1>3, ExceptSeq DEF n
<1> HIDE DEF r
<1>5. \A k \in 1..n : /\ r[k].outlet = stack[k].outlet
                      /\ r[k].at = stack[k].at /\ r[k].due = stack[k].due
                      /\ r[k] \in Walk
  <2>1. \A k \in 1..n : stack[k] \in Walk
    BY <1>1, ElementOfSeq DEF n
  <2>2. QED
    BY <2>1, <1>1, <1>2, <1>4
<1>6. \A k \in 1..n : Walking(r[k]) /\ Served(r[k]) = Served(stack[k])
  <2> TAKE k \in 1..n
  <2>1. Walking(stack[k])
    BY DEF Sending, Stacked, n
  <2>2. /\ r[k].outlet = stack[k].outlet
        /\ r[k].at = stack[k].at /\ r[k].due = stack[k].due
        /\ r[k] \in Walk
    BY <1>5
  <2>3. Rest(r[k]) = Rest(stack[k]) /\ Served(r[k]) = Served(stack[k])
    BY <2>2 DEF Rest, Served
  <2>4. QED
    BY <2>1, <2>2, <2>3 DEF Walking
<1>7. Stacked(r)
  <2>1. \A k \in 2..n : k \in 1..n /\ k - 1 \in 1..n
    BY <1>1
  <2>2. \A k \in 2..n : r[k].outlet.node = Served(r[k - 1]).node
    BY <2>1, <1>5, <1>6 DEF Sending, Stacked, n
  <2>3. QED
    BY <2>2, <1>4, <1>6 DEF Stacked
<1>8. o.node = Served(r[Len(r)]).node
  BY <1>1, <1>4, <1>6
<1>9. QED
  BY <1>1, <1>7, <1>8, BegunStacked DEF Sending

LEMMA AdvancedWalk ==
    ASSUME NEW w \in Walk
    PROVE  Advanced(w) = [outlet |-> w.outlet, at |-> w.at + 1, sends |-> 0,
                          due |-> w.due \ {Served(w)}]
<1> DEFINE x == Served(w)
<1>1. w = [outlet |-> w.outlet, at |-> w.at, sends |-> w.sends, due |-> w.due]
  BY DEF Walk
<1>2. Advanced(w) = [w EXCEPT !.at = w.at + 1, !.sends = 0, !.due = w.due \ {x}]
  BY DEF Advanced
<1> HIDE DEF x
<1>3. QED
  BY <1>1, <1>2 DEF x

LEMMA ReturnSending ==
    ASSUME Sending, Return
    PROVE  Stacked(stack')
<1> DEFINE next == Advanced(Top)
           list == connections[Top.outlet]
<1>1. /\ stack # <<>> /\ Top = stack[Len(stack)] /\ Walking(Top)
      /\ stack' = IF next.at > Len(list) THEN Front(stack)
                  ELSE Append(Front(stack), next)
  BY TopOfStack DEF Sending, Return, Advanced, Walking, Walk
<1>2. CASE next.at > Len(list)
  BY <1>1, <1>2, FrontStacked DEF Sending
<1>3. CASE ~(next.at > Len(list))
  <2>1. /\ Top \in Walk /\ Top.at \in 1..Len(list) /\ Top.due = Rest(Top)
        /\ Top.outlet \in Outlet
    BY <1>1 DEF Walking, Walk
  <2>2. next = [outlet |-> Top.outlet, at |-> Top.at + 1, sends |-> 0,
                due |-> Top.due \ {Served(Top)}]
    BY <2>1, AdvancedWalk
  <2>3. next \in Walk
    BY <2>1, <2>2, DispatchAssumption DEF Walk
  <2>4. /\ Len(list) \in Nat
        /\ \A i, j \in 1..Len(list) : list[i] = list[j] => i = j
    BY <2>1, ListOfOutlet DEF Sending
  <2>5. Top.at + 1 \in 1..Len(list)
    BY <1>3, <2>1, <2>2, <2>4
  <2>6. Top.due \ {Served(Top)} = {list[j] : j \in Top.at + 1..Len(list)}
    <3>1. Top.due = {list[j] : j \in Top.at..Len(list)} /\ Served(Top) = list[Top.at]
      BY <2>1 DEF Rest, Served
    <3>2. \A j : j \in Top.at..Len(list)
                    <=> (j = Top.at \/ j \in Top.at + 1..Len(list))
      BY <2>1, <2>4
    <3>3. \A j \in Top.at + 1..Len(list) : list[j] # list[Top.at]
      BY <2>1, <2>4
    <3> HIDE DEF list
    <3>4. QED
      BY <3>1, <3>2, <3>3
  <2>7. Walking(next)
    BY <2>2, <2>3, <2>5, <2>6 DEF Walking, Rest
  <2>8. QED
    BY <1>1, <1>3, <2>2, <2>7, FrontStacked DEF Sending
<1>4. QED
  BY <1>2, <1>3

LEMMA NextSending ==
    ASSUME Sending, [DispatchNext]_dispatchVars
    PROVE  Sending'
<1>1. Tidy'
  <2>1. [PatchNext]_patchVars
    BY DEF DispatchNext, dispatchVars, Start, Send, Return, Command
  <2>2. QED
    BY <2>1, NextTidy DEF Sending
<1>2. CASE UNCHANGED connections
  <2>1. Stacked(stack')
    BY StartSending, SendSending, ReturnSending
       DEF DispatchNext, dispatchVars, Command, Sending
  <2>2. Stacked(stack)'
    BY <2>1, <1>2 DEF Stacked, Walking, Rest, Served
  <2>3. QED
    BY <1>1, <2>2 DEF Sending
<1>3. CASE stack = <<>> /\ stack' = <<>>
  <2>1. Stacked(stack)'
    BY <1>3, EmptySeq DEF Stacked
  <2>2. QED
    BY <1>1, <2>1 DEF Sending
<1>4. connections' = connections \/ (stack = <<>> /\ stack' = <<>>)
  BY DEF DispatchNext, dispatchVars, patchVars, Start, Send, Return, Command, Idle
<1>5. QED
  BY <1>2, <1>3, <1>4

THEOREM DispatchInvariant == DispatchSpec => []Sending
<1>1. DispatchInit => Sending
  BY InitTidy, EmptySeq DEF DispatchInit, Sending, Stacked
<1>2. QED
  BY <1>1, NextSending, PTL DEF DispatchSpec

(* outlet.cpp:41: send() calls the methods of nodes that are there, and    *)
(* the sends on the stack are a chain of links of the patch, whatever the  *)
(* methods send and however deep they do.                                  *)
THEOREM AlwaysAChainOfCalls == DispatchSpec => []ChainOfCalls
<1>1. Sending => ChainOfCalls
  <2> SUFFICES ASSUME Sending, NEW k \in 1..Len(stack)
               PROVE  /\ stack[k].at \in DOMAIN connections[stack[k].outlet]
                      /\ {stack[k].outlet.node, Served(stack[k]).node} \subseteq alive
                      /\ k > 1 => stack[k].outlet.node = Served(stack[k - 1]).node
    BY LenProperties DEF ChainOfCalls, Sending, Stacked
  <2> DEFINE w == stack[k]
  <2>1. /\ w \in Walk /\ w.outlet \in Outlet
        /\ w.at \in 1..Len(connections[w.outlet])
    BY DEF Sending, Stacked, Walking, Walk
  <2>2. w.at \in DOMAIN connections[w.outlet] /\ Served(w) \in Partners(w.outlet)
    BY <2>1, ListOfOutlet DEF Sending, Served
  <2>3. w.outlet.node \in alive /\ Served(w).node \in alive
    BY <2>1, <2>2 DEF Sending, Tidy, Slot
  <2>4. k > 1 => w.outlet.node = Served(stack[k - 1]).node
    <3>1. Len(stack) \in Nat
      BY LenProperties DEF Sending, Stacked
    <3>2. k > 1 => k \in 2..Len(stack)
      BY <3>1
    <3>3. QED
      BY <3>2 DEF Sending, Stacked
  <2>5. QED
    BY <2>2, <2>3, <2>4
<1>2. QED
  BY <1>1, DispatchInvariant, PTL

(* outlet.h:73 "Send the signal to all connections": a walk has before it  *)
(* exactly the inlets it has not served, the rightmost first, while the    *)
(* methods it calls send in their turn and commands wait for the lock.     *)
THEOREM AlwaysServedOnceInOrder ==
    ASSUME ~Ties
    PROVE  DispatchSpec => []ServedOnceInOrder
<1>1. Sending /\ RightmostFirst => ServedOnceInOrder
  <2> SUFFICES ASSUME Sending, RightmostFirst, NEW k \in 1..Len(stack)
               PROVE  LET w == stack[k]
                          list == connections[w.outlet]
                          rest == {list[j] : j \in w.at..Len(list)}
                      IN  /\ w.at \in DOMAIN list
                          /\ w.due = rest
                          /\ \A i \in rest : ~RightOf(i, Served(w))
    BY LenProperties DEF ServedOnceInOrder, Sending, Stacked
  <2> DEFINE w == stack[k]
             list == connections[w.outlet]
             rest == {list[j] : j \in w.at..Len(list)}
  <2>1. /\ w.outlet \in Outlet /\ w.at \in 1..Len(list) /\ w.due = rest
    BY DEF Sending, Stacked, Walking, Walk, Rest
  <2>2. /\ Len(list) \in Nat /\ DOMAIN list = 1..Len(list)
        /\ \A j \in 1..Len(list) : list[j] \in Slot
    BY <2>1, ListOfOutlet DEF Sending, Slot
  <2>3. ASSUME NEW j \in w.at..Len(list) PROVE ~RightOf(list[j], Served(w))
    <3>1. Served(w) = list[w.at] /\ j \in 1..Len(list)
      BY <2>1, <2>2 DEF Served
    <3>2. CASE j = w.at
      <4>1. list[j] \in Slot
        BY <3>1, <2>2
      <4>2. id[list[j]] \in Nat
        BY <4>1 DEF Sending, Tidy
      <4>3. QED
        BY <3>1, <3>2, <4>2 DEF RightOf
    <3>3. CASE j # w.at
      <4>1. w.at < j
        BY <3>3, <2>1, <2>2
      <4>2. InOrder(list)
        BY <2>1 DEF RightmostFirst
      <4>3. QED
        BY <3>1, <4>1, <4>2, <2>1, <2>2 DEF InOrder
    <3>4. QED
      BY <3>2, <3>3
  <2>4. QED
    BY <2>1, <2>2, <2>3
<1>2. QED
  BY <1>1, DispatchInvariant, DispatchIsAPatch, AlwaysRightmostFirst, PTL

-----------------------------------------------------------------------------
(* The depth of the stack.                                                 *)

LEMMA StepwiseIncreasing ==
    ASSUME NEW n \in Nat, NEW h \in [1..n -> Int],
           \A j \in 1..n - 1 : h[j] < h[j + 1]
    PROVE  \A i, j \in 1..n : i < j => h[i] < h[j]
<1> SUFFICES ASSUME NEW i \in 1..n PROVE \A j \in 1..n : i < j => h[i] < h[j]
  OBVIOUS
<1> DEFINE G == {m \in 0..n : m > i => h[i] < h[m]}
<1>1. 0 \in G
  OBVIOUS
<1>2. ASSUME NEW m \in 1..n, m - 1 \in G PROVE m \in G
  <2> SUFFICES ASSUME m > i PROVE h[i] < h[m]
    OBVIOUS
  <2>1. m - 1 \in 1..n - 1 /\ m - 1 >= i
    OBVIOUS
  <2>2. h[m - 1] < h[m]
    <3>1. h[m - 1] < h[(m - 1) + 1]
      BY <2>1
    <3>2. QED
      BY <3>1
  <2>3. m - 1 = i \/ h[i] < h[m - 1]
    BY <1>2, <2>1
  <2>4. h[i] \in Int /\ h[m - 1] \in Int /\ h[m] \in Int
    BY <2>1
  <2>5. QED
    BY <2>2, <2>3, <2>4
<1> HIDE DEF G
<1>3. 0..n \subseteq G
  BY <1>1, <1>2, UpTo
<1>4. QED
  BY <1>3 DEF G

\* The nodes of the walks and the node served last are all different when
\* links lead from lower to higher levels.
LEMMA DepthIsBounded ==
    ASSUME IsFiniteSet(Node), Sending
    PROVE  DepthBounded
<1> SUFFICES ASSUME NEW level \in [Node -> 1..Cardinality(Node)],
                    \A l \in Links : level[l[1].node] < level[l[2].node],
                    stack # <<>>
             PROVE  Len(stack) < Cardinality(alive)
  BY DEF DepthBounded, Acyclic
<1> DEFINE n == Len(stack)
           f == [j \in 1..n + 1 |-> IF j <= n THEN stack[j].outlet.node
                                    ELSE Served(stack[n]).node]
           h == [j \in 1..n + 1 |-> level[f[j]]]
<1>1. n \in Nat /\ n \in 1..n
  BY TopOfStack DEF Sending
<1>2. ASSUME NEW k \in 1..n
      PROVE  /\ <<stack[k].outlet, Served(stack[k])>> \in Links
             /\ stack[k].outlet.node \in alive /\ Served(stack[k]).node \in alive
  <2> DEFINE w == stack[k]
  <2>1. /\ w \in Walk /\ w.outlet \in Outlet
        /\ w.at \in 1..Len(connections[w.outlet])
    BY DEF Sending, Stacked, Walking, Walk
  <2>2. Served(w) \in Partners(w.outlet) /\ Served(w) \in Inlet
    BY <2>1, ListOfOutlet DEF Sending, Served
  <2>3. <<w.outlet, Served(w)>> \in Links
    BY <2>1, <2>2, LinksOfPartners DEF Sending
  <2>4. QED
    BY <2>1, <2>2, <2>3 DEF Sending, Tidy, Slot
<1>3. \A j \in 1..n : f[j + 1] = Served(stack[j]).node
  <2> TAKE j \in 1..n
  <2>1. CASE j = n
    BY <1>1, <2>1
  <2>2. CASE j # n
    <3>1. j + 1 \in 2..n /\ j + 1 \in 1..n + 1 /\ j + 1 <= n
      BY <1>1, <2>2
    <3>2. stack[j + 1].outlet.node = Served(stack[(j + 1) - 1]).node
      BY <3>1 DEF Sending, Stacked
    <3>3. f[j + 1] = stack[j + 1].outlet.node
      BY <3>1
    <3>4. QED
      BY <3>2, <3>3, <1>1
  <2>3. QED
    BY <2>1, <2>2
<1>4. \A j \in 1..n : f[j] = stack[j].outlet.node
  BY <1>1
<1>5. f \in [1..n + 1 -> alive]
  <2>1. \A j \in 1..n : f[j] \in alive
    <3> TAKE j \in 1..n
    <3>1. f[j] = stack[j].outlet.node
      BY <1>1
    <3>2. QED
      BY <3>1, <1>2
  <2>2. f[n + 1] \in alive
    <3>1. f[n + 1] = Served(stack[n]).node
      BY <1>1, <1>3
    <3>2. QED
      BY <3>1, <1>1, <1>2
  <2>3. \A j \in 1..n + 1 : j \in 1..n \/ j = n + 1
    BY <1>1
  <2>4. \A j \in 1..n + 1 : f[j] \in alive
    BY <2>1, <2>2, <2>3
  <2>5. QED
    BY <2>4
<1>6. \A j \in 1..n : level[f[j]] < level[f[j + 1]]
  BY <1>2, <1>3, <1>4
<1> HIDE DEF f
<1>7. Cardinality(Node) \in Nat /\ alive \subseteq Node
  BY FS_CardinalityType DEF Sending, Tidy
<1>8. h \in [1..n + 1 -> Int]
  <2>1. \A j \in 1..n + 1 : level[f[j]] \in Int
    BY <1>5, <1>7
  <2>2. QED
    BY <2>1
<1>9. \A j \in 1..(n + 1) - 1 : h[j] < h[j + 1]
  BY <1>1, <1>6
<1> HIDE DEF h
<1>10. \A i, j \in 1..n + 1 : i < j => h[i] < h[j]
  <2>1. n + 1 \in Nat
    BY <1>1
  <2>2. QED
    BY <2>1, <1>8, <1>9, StepwiseIncreasing
<1>11. \A i, j \in 1..n + 1 : f[i] = f[j] => i = j
  <2> SUFFICES ASSUME NEW i \in 1..n + 1, NEW j \in 1..n + 1, i < j
               PROVE  f[i] # f[j]
    BY <1>1
  <2>1. h[i] < h[j] /\ h[i] \in Int
    BY <1>8, <1>10
  <2>2. h[i] = level[f[i]] /\ h[j] = level[f[j]]
    BY DEF h
  <2>3. QED
    BY <2>1, <2>2
<1>12. f \in Injection(1..n + 1, alive)
  BY <1>5, <1>11 DEF Injection, IsInjective
<1>13. IsFiniteSet(alive) /\ Cardinality(1..n + 1) <= Cardinality(alive)
  <2>1. IsFiniteSet(alive)
    BY <1>7, FS_Subset
  <2>2. QED
    BY <2>1, <1>12, FS_Injection
<1>14. Cardinality(1..n + 1) = n + 1
  BY <1>1, FS_Interval
<1>15. Cardinality(alive) \in Nat
  BY <1>13, FS_CardinalityType
<1>16. QED
  BY <1>1, <1>13, <1>14, <1>15

(* outlet.cpp:41: send() recurses through the methods it calls, and only a *)
(* cycle of links can exhaust the stack: without one, fewer sends are      *)
(* nested than there are nodes, whatever the methods send.                 *)
THEOREM AlwaysDepthBounded ==
    ASSUME IsFiniteSet(Node)
    PROVE  DispatchSpec => []DepthBounded
<1>1. Sending => DepthBounded
  BY DepthIsBounded
<1>2. QED
  BY <1>1, DispatchInvariant, PTL
=============================================================================
