-------------------------- MODULE PlanetLinksProofs --------------------------
(***************************************************************************)
(* Theorems about the links that commands ask for, for every set of nodes  *)
(* and of requests.                                                        *)
(***************************************************************************)
EXTENDS PlanetLinks, PatchProofs

-----------------------------------------------------------------------------
(* Urls.                                                                   *)

LEMMA UrlFacts ==
    \A u \in Url : /\ u = [node |-> u.node, kind |-> u.kind, rank |-> u.rank]
                   /\ u.node \in Node
<1>1. ASSUME NEW k, NEW count \in [Node -> Nat], NEW u \in SlotsOfKind(k, count)
      PROVE  /\ u = [node |-> u.node, kind |-> u.kind, rank |-> u.rank]
             /\ u.node \in Node
  <2>1. PICK n \in Node : u \in [node : {n}, kind : {k}, rank : 0..count[n] - 1]
    BY DEF SlotsOfKind
  <2>2. QED
    BY <2>1
<1>2. \A u \in Slot : /\ u = [node |-> u.node, kind |-> u.kind, rank |-> u.rank]
                      /\ u.node \in Node
  BY <1>1, CountAssumption DEF Slot, Outlet, Inlet
<1>3. QED
  BY <1>2 DEF Url, Nowhere

\* Nothing is both a slot, a node and nowhere.
LEMMA KindFacts ==
    /\ \A s \in Slot : s.kind \in {"out", "in"} /\ s \in Url \ Nowhere
    /\ \A u \in Url : u.kind \in {"out", "in"} => u \in Slot
    /\ \A u \in Url : u.kind = "node" => u.rank = 0 /\ u \notin Nowhere
    /\ \A u \in Url : u \in Nowhere <=> u.kind = "none"
    /\ \A u \in Url : u.kind \in {"out", "in", "node", "none"}
<1>1. ASSUME NEW k, NEW count \in [Node -> Nat], NEW u \in SlotsOfKind(k, count)
      PROVE  u.kind = k
  <2>1. PICK n \in Node : u \in [node : {n}, kind : {k}, rank : 0..count[n] - 1]
    BY DEF SlotsOfKind
  <2>2. QED
    BY <2>1
<1>2. \A s \in Slot : s.kind \in {"out", "in"}
  BY <1>1, CountAssumption DEF Slot, Outlet, Inlet
<1>3. QED
  BY <1>2 DEF Url, Nowhere

\* The ends of a link belong to the two nodes that the urls name.
LEMMA EndsFacts ==
    \A r \in Request : /\ Ends(r) = <<Ends(r)[1], Ends(r)[2]>>
                       /\ {Ends(r)[1].node, Ends(r)[2].node} = {r[1].node, r[2].node}
<1> SUFFICES ASSUME NEW r \in Request
             PROVE  /\ Ends(r) = <<Ends(r)[1], Ends(r)[2]>>
                    /\ {Ends(r)[1].node, Ends(r)[2].node} = {r[1].node, r[2].node}
  OBVIOUS
<1>1. r[1] \in Url /\ r[2] \in Url
  BY RequestAssumption
<1>2. \A u \in Url : SourceSlot(u).node = u.node /\ TargetSlot(u).node = u.node
  BY UrlFacts DEF SourceSlot, TargetSlot
<1>3. \/ Ends(r) = <<SourceSlot(r[1]), TargetSlot(r[2])>>
      \/ Ends(r) = <<TargetSlot(r[2]), SourceSlot(r[1])>>
  BY DEF Ends
<1>4. QED
  BY <1>1, <1>2, <1>3

-----------------------------------------------------------------------------
(* Links on a state of the lists.                                          *)

\* What Tidy says of the lists, for lists that are on their way.
Wired(cs, live) ==
    /\ cs \in [Slot -> Seq(Slot)]
    /\ \A s \in Slot : cs[s] \in ListOf(Slot, ToSet(cs[s]))
    /\ \A s \in Slot : \A t \in ToSet(cs[s]) :
          /\ s \in ToSet(cs[t])
          /\ s.node \in live /\ t.node \in live
          /\ s \in Outlet <=> t \in Inlet
          /\ t \in Outlet <=> s \in Inlet

LinksIn(cs) == {l \in Outlet \X Inlet : l[2] \in ToSet(cs[l[1]])}

LEMMA TidyIsWired == Tidy => Wired(connections, alive) /\ Links = LinksIn(connections)
BY LinksOfPartners DEF Tidy, Wired, Partners, LinksIn

LEMMA WiredIsTidy ==
    ASSUME Wired(connections', alive'),
           id' \in [Slot -> Nat], position' \in [Node -> 0..MaxPosition],
           alive' \in SUBSET Node, counter' \in 0..MaxCreations
    PROVE  Tidy' /\ Links' = LinksIn(connections')
<1>1. Tidy'
  BY DEF Tidy, Wired, Partners
<1>2. (Links = {l \in Outlet \X Inlet : l[2] \in Partners(l[1])})'
  BY <1>1, LinksOfPartners, PTL
<1>3. QED
  BY <1>1, <1>2 DEF Partners, LinksIn

\* One more link.
LEMMA ConnectedWired ==
    ASSUME NEW cs, NEW live, Wired(cs, live), NEW r \in Request,
           {r[1].node, r[2].node} \subseteq live,
           NEW ids, NEW positions
    PROVE  /\ Wired(Connected(cs, r, ids, positions), live)
           /\ LinksIn(Connected(cs, r, ids, positions))
                 = LinksIn(cs) \cup ({Ends(r)} \cap Compatible)
<1> DEFINE new == Connected(cs, r, ids, positions)
           o == Ends(r)[1]
           i == Ends(r)[2]
           order == SlotOrder(ids, positions)
<1>1. CASE ~Linkable(r)
  BY <1>1 DEF Connected, Linkable
<1>2. CASE Linkable(r)
  <2>1. /\ Ends(r) = <<o, i>> /\ o \in Outlet /\ i \in Inlet /\ o # i
        /\ o \in Slot /\ i \in Slot /\ o.node \in live /\ i.node \in live
        /\ Ends(r) \in Compatible
    BY <1>2, EndsFacts, CompatibleAssumption, SlotFacts
       DEF Linkable, Slot
  <2>2. new = [cs EXCEPT ![o] = Push(@, i, order), ![i] = Push(@, o, order)]
    BY <1>2 DEF Connected
  <2> HIDE DEF new, o, i, order
  <2>3. \A s \in Slot : /\ cs[s] \in ListOf(Slot, ToSet(cs[s]))
                        /\ ToSet(cs[s]) \subseteq Slot
    BY ElementsOf DEF Wired
  <2>4. \A s \in Slot : new[s] = IF s = o THEN Push(cs[o], i, order)
                                 ELSE IF s = i THEN Push(cs[i], o, order)
                                 ELSE cs[s]
    BY <2>1, <2>2 DEF Wired
  <2>5. /\ Push(cs[o], i, order) \in ListOf(Slot, ToSet(cs[o]) \cup {i})
        /\ Push(cs[i], o, order) \in ListOf(Slot, ToSet(cs[i]) \cup {o})
    BY <2>1, <2>3, PushElements
  <2>6. \A s \in Slot :
           /\ ToSet(new[s]) = IF s = o THEN ToSet(cs[o]) \cup {i}
                              ELSE IF s = i THEN ToSet(cs[i]) \cup {o}
                              ELSE ToSet(cs[s])
           /\ new[s] \in ListOf(Slot, ToSet(new[s]))
    BY <2>3, <2>4, <2>5 DEF ListOf
  <2>7. new \in [Slot -> Seq(Slot)]
    <3>1. new = [s \in Slot |-> new[s]]
      BY <2>2 DEF Wired
    <3>2. \A s \in Slot : new[s] \in Seq(Slot)
      BY <2>6 DEF ListOf
    <3>3. QED
      BY <3>1, <3>2
  <2>8. ASSUME NEW s \in Slot, NEW t \in ToSet(new[s])
        PROVE  /\ s \in ToSet(new[t])
               /\ s.node \in live /\ t.node \in live
               /\ s \in Outlet <=> t \in Inlet
               /\ t \in Outlet <=> s \in Inlet
    <3>1. \/ t \in ToSet(cs[s])
          \/ s = o /\ t = i
          \/ s = i /\ t = o
      BY <2>6, <2>8
    <3>2. CASE t \in ToSet(cs[s])
      BY <2>1, <2>3, <2>6, <3>2 DEF Wired
    <3>3. CASE (s = o /\ t = i) \/ (s = i /\ t = o)
      BY <2>1, <2>6, <3>3, SlotFacts
    <3>4. QED
      BY <3>1, <3>2, <3>3
  <2>9. Wired(new, live)
    BY <2>6, <2>7, <2>8 DEF Wired
  <2>10. LinksIn(new) = LinksIn(cs) \cup {<<o, i>>}
    <3>1. \A p \in Outlet, j \in Inlet :
             j \in ToSet(new[p]) <=> j \in ToSet(cs[p]) \/ (p = o /\ j = i)
      BY <2>1, <2>6, SlotFacts DEF Slot
    <3>2. QED
      BY <2>1, <3>1 DEF LinksIn
  <2>11. QED
    BY <2>1, <2>9, <2>10 DEF new
<1>3. QED
  BY <1>1, <1>2

SettledIn(cs, ids, positions) ==
    \A o \in Outlet : Settled(cs[o], SlotOrder(ids, positions))

LEMMA ConnectedSettled ==
    ASSUME NEW cs, NEW live, Wired(cs, live), NEW r \in Request,
           {r[1].node, r[2].node} \subseteq live,
           NEW ids, NEW positions, SettledIn(cs, ids, positions),
           WeakOrder(SlotOrder(ids, positions), {i \in Inlet : i.node \in live})
    PROVE  SettledIn(Connected(cs, r, ids, positions), ids, positions)
<1> DEFINE new == Connected(cs, r, ids, positions)
           p == Ends(r)[1]
           j == Ends(r)[2]
           order == SlotOrder(ids, positions)
           S == {i \in Inlet : i.node \in live}
<1>1. CASE ~Linkable(r)
  BY <1>1 DEF Connected
<1>2. CASE Linkable(r)
  <2>1. p \in Outlet /\ j \in Inlet /\ p # j /\ p \in Slot /\ j \in Slot /\ j \in S
    BY <1>2, EndsFacts, CompatibleAssumption, SlotFacts
       DEF Linkable, Slot
  <2>2. new = [cs EXCEPT ![p] = Push(@, j, order), ![j] = Push(@, p, order)]
    BY <1>2 DEF Connected
  <2> SUFFICES ASSUME NEW o \in Outlet PROVE Settled(new[o], order)
    BY DEF SettledIn
  <2>3. WeakOrder(order, S) /\ Settled(cs[o], order)
    BY DEF SettledIn
  <2> HIDE DEF new, p, j, order
  <2>4. o \in Slot /\ o # j /\ cs[o] \in ListOf(Slot, ToSet(cs[o]))
    BY <2>1, SlotFacts DEF Slot, Wired
  <2>5. new[o] = IF o = p THEN Push(cs[o], j, order) ELSE cs[o]
    BY <2>1, <2>2, <2>4 DEF Wired
  <2>6. ToSet(cs[o]) \subseteq S
    <3>1. \A t \in ToSet(cs[o]) : t \in Inlet /\ t.node \in live
      BY <2>4 DEF Wired
    <3>2. QED
      BY <3>1
  <2> HIDE DEF S
  <2>7. cs[o] \in Seq(S)
    <3>1. cs[o] \in ListOf(S, ToSet(cs[o]))
      BY <2>4, <2>6, ListRetyped
    <3>2. QED
      BY <3>1 DEF ListOf
  <2>8. Settled(Push(cs[o], j, order), order)
    BY <2>1, <2>3, <2>7, PushSettles
  <2>9. QED
    BY <2>3, <2>5, <2>8
<1>3. QED
  BY <1>1, <1>2

-----------------------------------------------------------------------------
(* What object_at finds.                                                   *)

\* A node and its first in- and outlet are found together, or not at all.
Together(T) ==
    \A u \in T, v \in Url \ Nowhere :
        u.rank = 0 /\ v.rank = 0 /\ u.node = v.node => v \in T

Grown ==
    /\ tree \subseteq Url \ Nowhere
    /\ strays \subseteq tree
    /\ \A u \in tree : u.node \in alive
    /\ Together(tree)
    /\ Together(strays)

\* Links lead to slots that are found.
LinksFound == \A l \in Links : {l[1], l[2]} \subseteq tree

LEMMA FoundAlive ==
    ASSUME Grown, NEW r \in Request, BothFound(r, tree)
    PROVE  {r[1].node, r[2].node} \subseteq alive
BY DEF Grown, BothFound

\* To find the urls of a link is to find its ends.
LEMMA FoundEnds ==
    ASSUME NEW T \in SUBSET (Url \ Nowhere), Together(T),
           NEW r \in Request, Ends(r) \in Outlet \X Inlet
    PROVE  BothFound(r, T) <=> {Ends(r)[1], Ends(r)[2]} \subseteq T
<1>1. r[1] \in Url /\ r[2] \in Url
  BY RequestAssumption
<1>2. ASSUME NEW u \in Url, NEW s \in Slot,
             s = SourceSlot(u) \/ s = TargetSlot(u)
      PROVE  u \in T <=> s \in T
  <2>1. CASE u.kind # "node"
    BY <1>2, <2>1 DEF SourceSlot, TargetSlot
  <2>2. CASE u.kind = "node"
    <3>1. s.node = u.node /\ s.rank = u.rank
      BY <1>2, <2>2, UrlFacts DEF SourceSlot, TargetSlot
    <3>2. u.rank = 0 /\ u \in Url \ Nowhere /\ s \in Url \ Nowhere
      BY <2>2, KindFacts
    <3>3. QED
      BY <3>1, <3>2 DEF Together
  <2>3. QED
    BY <2>1, <2>2
<1>3. \/ Ends(r) = <<SourceSlot(r[1]), TargetSlot(r[2])>>
      \/ Ends(r) = <<TargetSlot(r[2]), SourceSlot(r[1])>>
  BY DEF Ends
<1>4. Ends(r)[1] \in Slot /\ Ends(r)[2] \in Slot
  BY DEF Slot
<1>5. /\ SourceSlot(r[1]) \in Slot /\ TargetSlot(r[2]) \in Slot
      /\ {Ends(r)[1], Ends(r)[2]} = {SourceSlot(r[1]), TargetSlot(r[2])}
  BY <1>3, <1>4
<1>6. /\ r[1] \in T <=> SourceSlot(r[1]) \in T
      /\ r[2] \in T <=> TargetSlot(r[2]) \in T
  BY <1>1, <1>2, <1>5
<1>7. QED
  BY <1>5, <1>6 DEF BothFound

\* The requests that a retry finds both ends of.
Found(links) == {r \in ToSet(links) : BothFound(r, tree)}

LEMMA RetryLinks ==
    ASSUME Tidy, Grown, NEW links \in Seq(Request)
    PROVE  LET new == Retry(connections, links)[1]
           IN  /\ Wired(new, alive)
               /\ LinksIn(new) = Links \cup ({Ends(r) : r \in Found(links)} \cap Compatible)
               /\ WeakOrder(SlotOrder(id, position), LiveInlets) /\ SettledOutlets
                     => SettledIn(new, id, position)
<1> DEFINE n == Len(links)
           lists[k \in 0..n] ==
              IF k = 0 THEN connections
              ELSE IF BothFound(links[k], tree)
                   THEN Connected(lists[k - 1], links[k], id, position)
                   ELSE lists[k - 1]
           T == {cs \in [Slot -> Seq(Slot)] : Wired(cs, alive)}
           Next1(cs, r) == IF BothFound(r, tree) THEN Connected(cs, r, id, position)
                           ELSE cs
           step == [k \in 1..n |-> [cs \in T |-> Next1(cs, links[k])]]
<1>1. n \in Nat /\ \A k \in 1..n : links[k] \in Request
  BY ElementsOf
<1>2. ASSUME NEW cs \in T, NEW r \in Request PROVE Next1(cs, r) \in T
  <2>1. Wired(cs, alive)
    OBVIOUS
  <2>2. BothFound(r, tree) => Wired(Connected(cs, r, id, position), alive)
    BY <2>1, FoundAlive, ConnectedWired
  <2>3. QED
    BY <2>1, <2>2 DEF Wired
<1>3. connections \in T /\ Links = LinksIn(connections)
  BY TidyIsWired DEF Tidy
<1> HIDE DEF T
<1>4. step \in [1..n -> [T -> T]]
  <2> HIDE DEF Next1
  <2>1. QED
    BY <1>1, <1>2
<1>5. \A k \in 1..n, cs \in T : step[k][cs] = Next1(cs, links[k])
  OBVIOUS
<1> HIDE DEF step
<1>6. PICK g \in [0..n -> T] :
         g[0] = connections /\ \A k \in 1..n : g[k] = step[k][g[k - 1]]
  <2>1. \E g : Recursion(g, n, T, connections, step)
    BY <1>1, <1>3, <1>4, RecursionExists
  <2>2. QED
    BY <2>1 DEF Recursion
<1>7. \A k \in 1..n : g[k - 1] \in T /\ g[k] = Next1(g[k - 1], links[k])
  <2>1. \A k \in 1..n : g[k - 1] \in T
    BY <1>1
  <2> HIDE DEF Next1
  <2>2. QED
    BY <2>1, <1>5, <1>6
<1>8. g = [k \in 0..n |-> IF k = 0 THEN connections
                          ELSE IF BothFound(links[k], tree)
                               THEN Connected(g[k - 1], links[k], id, position)
                               ELSE g[k - 1]]
  <2>1. \A k \in 0..n : k = 0 \/ k \in 1..n
    BY <1>1
  <2>2. \A k \in 0..n : g[k] = IF k = 0 THEN connections
                               ELSE IF BothFound(links[k], tree)
                                    THEN Connected(g[k - 1], links[k], id, position)
                                    ELSE g[k - 1]
    BY <2>1, <1>6, <1>7
  <2>3. QED
    BY <2>2
<1>9. lists = [k \in 0..n |-> IF k = 0 THEN connections
                              ELSE IF BothFound(links[k], tree)
                                   THEN Connected(lists[k - 1], links[k], id, position)
                                   ELSE lists[k - 1]]
  BY <1>8
<1>10. Retry(connections, links)[1] = lists[n]
  BY DEF Retry
<1> HIDE DEF lists
<1>11. /\ lists[0] = connections
       /\ \A k \in 1..n : lists[k] = Next1(lists[k - 1], links[k])
  <2>1. 0 \in 0..n /\ \A k \in 1..n : k \in 0..n /\ k # 0
    BY <1>1
  <2>2. QED
    BY <2>1, <1>9
<1> DEFINE FoundUpTo(k) == {links[j] : j \in {x \in 1..k : BothFound(links[x], tree)}}
           made(k) == {Ends(r) : r \in FoundUpTo(k)} \cap Compatible
           Sane == WeakOrder(SlotOrder(id, position), LiveInlets) /\ SettledOutlets
           G == {k \in 0..n : /\ lists[k] \in T
                              /\ LinksIn(lists[k]) = Links \cup made(k)
                              /\ Sane => SettledIn(lists[k], id, position)}
<1>12. 0..n \subseteq G
  <2>1. 0 \in G
    <3>1. made(0) = {}
      OBVIOUS
    <3>2. Sane => SettledIn(lists[0], id, position)
      BY <1>11 DEF SettledIn, SettledOutlets
    <3> HIDE DEF made, Sane
    <3>3. QED
      BY <1>1, <1>3, <1>11, <3>1, <3>2
  <2>2. ASSUME NEW k \in 1..n, k - 1 \in G PROVE k \in G
    <3> DEFINE r == links[k]
               cs == lists[k - 1]
    <3>1. /\ r \in Request /\ cs \in T /\ Wired(cs, alive)
          /\ lists[k] = Next1(cs, r) /\ k \in 0..n
          /\ LinksIn(cs) = Links \cup made(k - 1)
          /\ Sane => SettledIn(cs, id, position)
      BY <2>2, <1>1, <1>11 DEF T
    <3>2. lists[k] \in T
      BY <3>1, <1>2
    <3>3. FoundUpTo(k) = FoundUpTo(k - 1) \cup (IF BothFound(r, tree) THEN {r} ELSE {})
      BY <1>1
    <3>4. LinksIn(lists[k]) = LinksIn(cs)
                                \cup (IF BothFound(r, tree) THEN {Ends(r)} \cap Compatible
                                      ELSE {})
      BY <3>1, FoundAlive, ConnectedWired
    <3>5. Sane => SettledIn(lists[k], id, position)
      BY <3>1, FoundAlive, ConnectedSettled DEF LiveInlets
    <3> HIDE DEF r, cs, FoundUpTo, Sane, T
    <3>6. LinksIn(lists[k]) = Links \cup made(k)
      BY <3>1, <3>3, <3>4
    <3>7. QED
      BY <3>1, <3>2, <3>5, <3>6
  <2> HIDE DEF G
  <2>3. QED
    BY <2>1, <2>2, <1>1, UpTo
<1>13. n \in G
  BY <1>1, <1>12
<1>14. FoundUpTo(n) = Found(links)
  <2>1. ToSet(links) = {links[j] : j \in 1..n}
    BY ElementsOf
  <2>2. QED
    BY <2>1 DEF Found
<1>15. QED
  BY <1>10, <1>13, <1>14 DEF T

-----------------------------------------------------------------------------
(* What each operation does to the links and to the pending links.         *)

Names == pending \in Seq(Request)

LEMMA WaitingRequests ==
    Names => Waiting = {Ends(r) : r \in ToSet(pending)} /\ ToSet(pending) \subseteq Request
BY ElementsOf DEF Names, Waiting

LEMMA WaitingAfter ==
    Names' => Waiting' = {Ends(r) : r \in ToSet(pending')}
BY ElementsOf DEF Names, Waiting

LEMMA UnchangedLinks ==
    ASSUME Tidy, UNCHANGED <<connections, id, position, alive, counter>>
    PROVE  Tidy' /\ Links' = Links
BY DEF Tidy, Partners, Links

LEMMA LinkLinks ==
    ASSUME Tidy, Names, Grown, NEW r \in Request, Link(r)
    PROVE  /\ Tidy' /\ Names'
           /\ BothFound(r, tree) => /\ Links' = Links \cup ({Ends(r)} \cap Compatible)
                                    /\ pending' = pending
           /\ ~BothFound(r, tree) => /\ Links' = Links
                                     /\ ToSet(pending') = ToSet(pending) \cup {r}
<1>1. UNCHANGED <<id, position, alive, counter>>
  BY DEF Link
<1>2. CASE BothFound(r, tree)
  <2>1. connections' = Connected(connections, r, id, position) /\ pending' = pending
    BY <1>2 DEF Link
  <2>2. /\ Wired(connections', alive)
        /\ LinksIn(connections') = Links \cup ({Ends(r)} \cap Compatible)
    BY <1>2, <2>1, TidyIsWired, FoundAlive, ConnectedWired
  <2>3. Tidy' /\ Links' = LinksIn(connections')
    BY <1>1, <2>2, WiredIsTidy DEF Tidy
  <2>4. QED
    BY <1>2, <2>1, <2>2, <2>3 DEF Names
<1>3. CASE ~BothFound(r, tree)
  <2>1. UNCHANGED connections /\ pending' = Append(pending, r)
    BY <1>3 DEF Link
  <2>2. Tidy' /\ Links' = Links
    BY <1>1, <2>1, UnchangedLinks
  <2>3. QED
    BY <1>3, <2>1, <2>2, ElementsOfAppend DEF Names
<1>4. QED
  BY <1>2, <1>3

LEMMA UnlinkLinks ==
    ASSUME Tidy, Names, Grown, LinksFound, NEW r \in Request, Unlink(r)
    PROVE  /\ Tidy' /\ Names'
           /\ Links' = Links \ {Ends(r)}
           /\ BothFound(r, tree) => pending' = pending
           /\ ~BothFound(r, tree) => pending' = WithoutPending(pending, r)
           /\ ToSet(pending') \subseteq ToSet(pending)
           /\ ToSet(pending) \ {r} \subseteq ToSet(pending')
<1>1. UNCHANGED <<id, position, alive, counter>>
  BY DEF Unlink
<1> DEFINE o == Ends(r)[1]
           i == Ends(r)[2]
<1>2. Ends(r) = <<o, i>> /\ {o.node, i.node} = {r[1].node, r[2].node}
  BY EndsFacts
<1>3. CASE BothFound(r, tree) /\ Ends(r) \in Outlet \X Inlet
  <2>1. o \in Outlet /\ i \in Inlet /\ pending' = pending
    BY <1>3 DEF Unlink
  <2>2. Disconnect(o, i)
    BY <1>1, <1>2, <1>3, FoundAlive DEF Unlink, Disconnect
  <2> HIDE DEF o, i
  <2>3. Tidy'
    BY <2>1, <2>2, DisconnectTidy
  <2>4. Links' = Links \ {<<o, i>>}
    BY <2>1, <2>2, <2>3, DisconnectBreaks
  <2>5. QED
    BY <1>2, <1>3, <2>1, <2>3, <2>4 DEF Names
<1>4. CASE BothFound(r, tree) /\ Ends(r) \notin Outlet \X Inlet
  <2>1. UNCHANGED <<connections, pending>>
    BY <1>4 DEF Unlink
  <2>2. Ends(r) \notin Links
    BY <1>4 DEF Links
  <2>3. QED
    BY <1>1, <1>4, <2>1, <2>2, UnchangedLinks DEF Names
<1>5. CASE ~BothFound(r, tree)
  <2>1. UNCHANGED connections /\ pending' = WithoutPending(pending, r)
    BY <1>5 DEF Unlink
  <2>2. Ends(r) \notin Links
    <3> SUFFICES ASSUME Ends(r) \in Links PROVE FALSE
      OBVIOUS
    <3>1. Ends(r) \in Outlet \X Inlet /\ {o, i} \subseteq tree
      BY DEF Links, LinksFound
    <3>2. QED
      BY <3>1, <1>5, FoundEnds DEF Grown
  <2>3. /\ pending' \in Seq(Request)
        /\ ToSet(pending') \subseteq ToSet(pending)
        /\ ToSet(pending) \ {r} \subseteq ToSet(pending')
    BY <2>1, RemoveFirstElements DEF Names, WithoutPending
  <2>4. QED
    BY <1>1, <1>5, <2>1, <2>2, <2>3, UnchangedLinks DEF Names
<1>6. QED
  BY <1>3, <1>4, <1>5

LEMMA AskForPendingLinks ==
    ASSUME Tidy, Names, Grown, AskForPending
    PROVE  /\ Tidy' /\ Names'
           /\ Links' = Links \cup ({Ends(r) : r \in Found(pending)} \cap Compatible)
           /\ pending' = Without(pending, Found(pending))
           /\ ToSet(pending') = ToSet(pending) \ Found(pending)
<1>1. /\ UNCHANGED <<id, position, alive, counter>>
      /\ connections' = Retry(connections, pending)[1]
      /\ pending' = Without(pending, Found(pending))
  BY DEF AskForPending, Retry, Found
<1>2. /\ Wired(connections', alive)
      /\ LinksIn(connections')
            = Links \cup ({Ends(r) : r \in Found(pending)} \cap Compatible)
  BY <1>1, RetryLinks DEF Names
<1>3. Tidy' /\ Links' = LinksIn(connections')
  BY <1>1, <1>2, WiredIsTidy DEF Tidy
<1>4. pending' \in Seq(Request) /\ ToSet(pending') = ToSet(pending) \ Found(pending)
  BY <1>1, WithoutElements DEF Names
<1>5. QED
  BY <1>1, <1>2, <1>3, <1>4 DEF Names

LEMMA NewNodeLinks ==
    ASSUME Tidy, NEW n \in Node, NewNode(n)
    PROVE  Tidy' /\ Links' = Links
<1>1. connections' = connections /\ alive' = alive \cup {n} /\ counter' = counter + 1
  BY DEF NewNode
<1>2. counter + 1 \in 0..MaxCreations /\ counter + 1 \in 0..MaxPosition
  BY BoundAssumption DEF NewNode, Tidy
<1>3. /\ id' \in [Slot -> Nat]
      /\ position' \in [Node -> 0..MaxPosition]
      /\ alive' \in SUBSET Node
      /\ counter' \in 0..MaxCreations
  BY <1>1, <1>2, SlotFacts DEF NewNode, Tidy
<1>4. Wired(connections', alive') /\ Links = LinksIn(connections)
  BY <1>1, TidyIsWired DEF Wired
<1>5. QED
  BY <1>1, <1>3, <1>4, WiredIsTidy

LEMMA DestroyLinkedLinks ==
    ASSUME Tidy, NEW n \in Node, DestroyLinked(n)
    PROVE  Tidy' /\ Links' = {l \in Links : n \notin {l[1].node, l[2].node}}
<1>1. DestroyNode(n)
  BY DEF DestroyLinked
<1>2. Tidy'
  BY <1>1, DestroyTidy
<1>3. QED
  BY <1>1, <1>2, DestroyDetaches

-----------------------------------------------------------------------------
(* Nothing is forgotten, and a link waits for a reason.                    *)

Asked ==
    /\ Tidy
    /\ Names
    /\ Grown
    /\ LinksFound
    /\ wanted \subseteq Compatible
    /\ NothingForgotten
    /\ PendingForAReason

\* The two properties of the pending links, by the requests and not by place.
LEMMA AskedMeans ==
    ASSUME Names
    PROVE  /\ NothingForgotten <=> wanted \subseteq Links \cup {Ends(r) : r \in ToSet(pending)}
           /\ PendingForAReason <=> \A r \in ToSet(pending) : ~BothFound(r, tree \ strays)
<1>1. /\ DOMAIN pending = 1..Len(pending)
      /\ ToSet(pending) = {pending[i] : i \in 1..Len(pending)}
  BY ElementsOf DEF Names
<1>2. QED
  BY <1>1 DEF NothingForgotten, PendingForAReason

LEMMA AskedAfter ==
    ASSUME Names',
           wanted' \subseteq Links' \cup {Ends(r) : r \in ToSet(pending')},
           \A r \in ToSet(pending') : ~BothFound(r, tree' \ strays')
    PROVE  NothingForgotten' /\ PendingForAReason'
<1>1. /\ DOMAIN pending' = 1..Len(pending')
      /\ ToSet(pending') = {pending'[i] : i \in 1..Len(pending')}
  BY ElementsOf DEF Names
<1>2. QED
  BY <1>1 DEF NothingForgotten, PendingForAReason

LEMMA InitAsked == PlanetInit => Asked
<1> SUFFICES ASSUME PlanetInit PROVE Asked
  OBVIOUS
<1>1. Tidy
  BY InitTidy DEF PlanetInit
<1>2. Names /\ wanted = {} /\ ToSet(pending) = {}
  BY EmptyElements DEF PlanetInit, Names
<1>3. Grown /\ LinksFound
  <2>1. Links = {}
    <3>1. \A s \in Slot : Partners(s) = {}
      BY EmptyList DEF PlanetInit, PatchInit, Partners, ListOf
    <3>2. QED
      BY <1>1, <3>1, LinksOfPartners DEF Slot
  <2>2. tree = {} /\ strays = {}
    BY DEF PlanetInit
  <2>3. QED
    BY <2>1, <2>2 DEF Grown, LinksFound, Together
<1>4. QED
  BY <1>1, <1>2, <1>3, AskedMeans DEF Asked

LEMMA LinkAsked ==
    ASSUME Asked, NEW r \in Request, Link(r)
    PROVE  Asked'
<1>1. /\ Tidy /\ Names /\ Grown /\ LinksFound /\ wanted \subseteq Compatible
      /\ wanted \subseteq Links \cup {Ends(q) : q \in ToSet(pending)}
      /\ \A q \in ToSet(pending) : ~BothFound(q, tree \ strays)
  BY AskedMeans DEF Asked
<1>2. /\ UNCHANGED <<alive, tree, strays>>
      /\ wanted' = IF Linkable(r) THEN wanted \cup {Ends(r)} ELSE wanted
  BY DEF Link
<1>3. wanted' = wanted \cup ({Ends(r)} \cap Compatible)
  BY <1>2 DEF Linkable
<1>4. /\ Tidy' /\ Names'
      /\ BothFound(r, tree) => /\ Links' = Links \cup ({Ends(r)} \cap Compatible)
                               /\ pending' = pending
      /\ ~BothFound(r, tree) => /\ Links' = Links
                                /\ ToSet(pending') = ToSet(pending) \cup {r}
  BY <1>1, LinkLinks
<1>5. wanted' \subseteq Links' \cup {Ends(q) : q \in ToSet(pending')}
  BY <1>1, <1>3, <1>4
<1>6. \A q \in ToSet(pending') : ~BothFound(q, tree' \ strays')
  BY <1>1, <1>2, <1>4 DEF BothFound
<1>7. Grown' /\ LinksFound'
  <2>1. Grown'
    BY <1>1, <1>2 DEF Grown, Together
  <2>2. BothFound(r, tree) /\ Ends(r) \in Compatible => {Ends(r)[1], Ends(r)[2]} \subseteq tree
    BY <1>1, FoundEnds, CompatibleAssumption DEF Grown
  <2>3. QED
    BY <1>1, <1>2, <1>4, <2>1, <2>2 DEF LinksFound
<1>8. QED
  BY <1>1, <1>3, <1>4, <1>5, <1>6, <1>7, AskedAfter DEF Asked

LEMMA UnlinkAsked ==
    ASSUME Asked, NEW r \in Request, Unlink(r)
    PROVE  Asked'
<1>1. /\ Tidy /\ Names /\ Grown /\ LinksFound /\ wanted \subseteq Compatible
      /\ wanted \subseteq Links \cup {Ends(q) : q \in ToSet(pending)}
      /\ \A q \in ToSet(pending) : ~BothFound(q, tree \ strays)
  BY AskedMeans DEF Asked
<1>2. UNCHANGED <<alive, tree, strays>> /\ wanted' = wanted \ {Ends(r)}
  BY DEF Unlink
<1>3. /\ Tidy' /\ Names' /\ Links' = Links \ {Ends(r)}
      /\ ToSet(pending') \subseteq ToSet(pending)
      /\ ToSet(pending) \ {r} \subseteq ToSet(pending')
  BY <1>1, UnlinkLinks
<1>4. wanted' \subseteq Links' \cup {Ends(q) : q \in ToSet(pending')}
  BY <1>1, <1>2, <1>3
<1>5. \A q \in ToSet(pending') : ~BothFound(q, tree' \ strays')
  BY <1>1, <1>2, <1>3 DEF BothFound
<1>6. Grown' /\ LinksFound'
  BY <1>1, <1>2, <1>3 DEF Grown, Together, LinksFound
<1>7. QED
  BY <1>1, <1>2, <1>3, <1>4, <1>5, <1>6, AskedAfter DEF Asked

LEMMA AskForPendingAsked ==
    ASSUME Asked, AskForPending
    PROVE  Asked'
<1>1. /\ Tidy /\ Names /\ Grown /\ LinksFound /\ wanted \subseteq Compatible
      /\ wanted \subseteq Links \cup {Ends(q) : q \in ToSet(pending)}
  BY AskedMeans DEF Asked
<1>2. UNCHANGED <<alive, tree, wanted>> /\ strays' = {}
  BY DEF AskForPending
<1>3. /\ Tidy' /\ Names'
      /\ Links' = Links \cup ({Ends(q) : q \in Found(pending)} \cap Compatible)
      /\ ToSet(pending') = ToSet(pending) \ Found(pending)
  BY <1>1, AskForPendingLinks
<1>4. wanted' \subseteq Links' \cup {Ends(q) : q \in ToSet(pending')}
  BY <1>1, <1>2, <1>3
<1>5. \A q \in ToSet(pending') : ~BothFound(q, tree' \ strays')
  BY <1>2, <1>3 DEF Found, BothFound
<1>6. Grown' /\ LinksFound'
  <2>1. Grown'
    BY <1>1, <1>2 DEF Grown, Together
  <2>2. ASSUME NEW q \in Found(pending), Ends(q) \in Compatible
        PROVE  {Ends(q)[1], Ends(q)[2]} \subseteq tree
    <3>1. q \in Request /\ BothFound(q, tree)
      BY <1>1, WaitingRequests DEF Found
    <3>2. QED
      BY <1>1, <2>2, <3>1, FoundEnds, CompatibleAssumption DEF Grown
  <2>3. QED
    BY <1>1, <1>2, <1>3, <2>1, <2>2 DEF LinksFound
<1>7. QED
  BY <1>1, <1>2, <1>3, <1>4, <1>5, <1>6, AskedAfter DEF Asked

LEMMA NewNodeAsked ==
    ASSUME Asked, NEW n \in Node, NewNode(n)
    PROVE  Asked'
<1>1. /\ Tidy /\ Names /\ Grown /\ LinksFound /\ wanted \subseteq Compatible
      /\ wanted \subseteq Links \cup {Ends(q) : q \in ToSet(pending)}
      /\ \A q \in ToSet(pending) : ~BothFound(q, tree \ strays)
  BY AskedMeans DEF Asked
<1>2. /\ UNCHANGED <<pending, wanted>>
      /\ alive' = alive \cup {n}
      /\ tree' = tree \cup Born(n) /\ strays' = strays \cup Born(n)
  BY DEF NewNode
<1>3. Tidy' /\ Links' = Links /\ Names'
  BY <1>1, <1>2, NewNodeLinks DEF Names
<1>4. \A q \in ToSet(pending') : ~BothFound(q, tree' \ strays')
  BY <1>1, <1>2 DEF BothFound
<1>5. Grown' /\ LinksFound'
  <2>1. ASSUME NEW u \in Born(n), NEW v \in Url \ Nowhere,
               u.rank = 0, v.rank = 0, u.node = v.node
        PROVE  v \in Born(n)
    BY <2>1, LateAssumption DEF Born
  <2>2. /\ Together(tree') /\ Together(strays')
    BY <1>1, <1>2, <2>1 DEF Grown, Together
  <2>3. QED
    BY <1>1, <1>2, <1>3, <2>2 DEF Grown, LinksFound, Born
<1>6. QED
  BY <1>1, <1>2, <1>3, <1>4, <1>5, AskedAfter DEF Asked

LEMMA DeclareLinks ==
    ASSUME Tidy, NEW s \in Late, Declare(s)
    PROVE  Tidy' /\ Links' = Links
BY UnchangedLinks DEF Declare, patchVars

LEMMA DeclareAsked ==
    ASSUME Asked, NEW s \in Late, Declare(s)
    PROVE  Asked'
<1>1. /\ Tidy /\ Names /\ Grown /\ LinksFound /\ wanted \subseteq Compatible
      /\ wanted \subseteq Links \cup {Ends(q) : q \in ToSet(pending)}
      /\ \A q \in ToSet(pending) : ~BothFound(q, tree \ strays)
  BY AskedMeans DEF Asked
<1>2. /\ UNCHANGED <<pending, wanted, alive>>
      /\ s.node \in alive
      /\ tree' = tree \cup {s} /\ strays' = strays \cup {s}
  BY DEF Declare, patchVars
<1>3. Tidy' /\ Links' = Links /\ Names'
  BY <1>1, <1>2, DeclareLinks DEF Names
<1>4. \A q \in ToSet(pending') : ~BothFound(q, tree' \ strays')
  BY <1>1, <1>2 DEF BothFound
<1>5. Grown' /\ LinksFound'
  <2>1. s \in Url \ Nowhere /\ s.rank # 0
    BY LateAssumption, KindFacts
  <2>2. /\ Together(tree') /\ Together(strays')
    BY <1>1, <1>2, <2>1 DEF Grown, Together
  <2>3. QED
    BY <1>1, <1>2, <1>3, <2>1, <2>2 DEF Grown, LinksFound
<1>6. QED
  BY <1>1, <1>2, <1>3, <1>4, <1>5, AskedAfter DEF Asked

LEMMA DestroyLinkedAsked ==
    ASSUME Asked, NEW n \in Node, DestroyLinked(n)
    PROVE  Asked'
<1>1. /\ Tidy /\ Names /\ Grown /\ LinksFound /\ wanted \subseteq Compatible
      /\ wanted \subseteq Links \cup {Ends(q) : q \in ToSet(pending)}
      /\ \A q \in ToSet(pending) : ~BothFound(q, tree \ strays)
  BY AskedMeans DEF Asked
<1>2. /\ pending' = pending
      /\ wanted' = {l \in wanted : l \in Links => n \notin {l[1].node, l[2].node}}
      /\ alive' = alive \ {n}
      /\ tree' = {u \in tree : u.node # n}
      /\ strays' = {u \in strays : u.node # n}
  BY DEF DestroyLinked, DestroyNode
<1>3. /\ Tidy' /\ Names'
      /\ Links' = {l \in Links : n \notin {l[1].node, l[2].node}}
  BY <1>1, <1>2, DestroyLinkedLinks DEF Names
<1>4. wanted' \subseteq Links' \cup {Ends(q) : q \in ToSet(pending')}
  BY <1>1, <1>2, <1>3
<1>5. \A q \in ToSet(pending') : ~BothFound(q, tree' \ strays')
  BY <1>1, <1>2 DEF BothFound
<1>6. Grown' /\ LinksFound'
  BY <1>1, <1>2, <1>3 DEF Grown, Together, LinksFound
<1>7. QED
  BY <1>1, <1>2, <1>3, <1>4, <1>5, <1>6, AskedAfter DEF Asked

LEMMA NextAsked == Asked /\ [PlanetNext]_planetVars => Asked'
<1> SUFFICES ASSUME Asked, [PlanetNext]_planetVars PROVE Asked'
  OBVIOUS
<1>1. CASE UNCHANGED planetVars
  BY <1>1 DEF planetVars, patchVars, Asked, Tidy, Partners, Names, Links,
              NothingForgotten, PendingForAReason, Grown, Together, LinksFound
<1>2. CASE PlanetNext
  BY <1>2, LinkAsked, UnlinkAsked, AskForPendingAsked, NewNodeAsked,
     DestroyLinkedAsked, DeclareAsked DEF PlanetNext, CreateInstance, CreateElsewhere
<1>3. QED
  BY <1>1, <1>2

LEMMA PlanetInvariant == PlanetSpec => []Asked
BY InitAsked, NextAsked, PTL DEF PlanetSpec

\* planet.cpp:92 and 111: a link that was asked for, and neither withdrawn nor
\* lost with one of its nodes, is made or waits: no retry, no failed creation
\* and no command for another link makes the planet forget it.
THEOREM NothingEverForgotten == PlanetSpec => []NothingForgotten
BY PlanetInvariant, PTL DEF Asked

\* planet.cpp:59 and 92: a pending link waits for a node or a slot that is
\* missing, a slot that a script has not declared and a misspelt url included,
\* or that came after the latest retry: the retry leaves none behind that could
\* be made.
THEOREM AlwaysPendingForAReason == PlanetSpec => []PendingForAReason
BY PlanetInvariant, PTL DEF Asked

\* slot.cpp:48 "two way connection": also when links are made late, several in
\* one retry, both ends of every link agree.
THEOREM PlanetLinksMutual == PlanetSpec => []LinksMutual
<1>1. Asked => LinksMutual
  BY TidyMeans DEF Asked
<1>2. QED
  BY <1>1, PlanetInvariant, PTL

-----------------------------------------------------------------------------
(* The patch is wired as it was asked for.                                 *)

\* No two requests name one link.
OneName == \A r, s \in Request : Ends(r) = Ends(s) => r = s

\* Every link that is made or waits is one that was asked for and not
\* withdrawn, or counts as revived.
Accounted ==
    \A l \in Compatible : l \in Links \cup Waiting => l \in wanted \cup revived

\* No link is pending twice.
PendingOnce == pending \in ListOf(Request, ToSet(pending))

Account == Asked /\ Accounted /\ PendingOnce

LEMMA LinkAccount ==
    ASSUME ~Repeats, Account, NEW r \in Request, Link(r)
    PROVE  Account'
<1>1. /\ Asked /\ Tidy /\ Names /\ Grown /\ LinksFound /\ PendingOnce
      /\ Waiting = {Ends(q) : q \in ToSet(pending)}
      /\ \A l \in Compatible : l \in Links \cup Waiting => l \in wanted \cup revived
  BY WaitingRequests DEF Account, Accounted, Asked
<1>2. Asked' /\ Names'
  BY <1>1, LinkAsked DEF Asked
<1>3. /\ revived' = revived \ {Ends(r)}
      /\ wanted' = IF Linkable(r) THEN wanted \cup {Ends(r)} ELSE wanted
  BY DEF Link
<1>4. /\ BothFound(r, tree) => /\ Links' = Links \cup ({Ends(r)} \cap Compatible)
                               /\ pending' = pending
      /\ ~BothFound(r, tree) => /\ Links' = Links
                                /\ ToSet(pending') = ToSet(pending) \cup {r}
  BY <1>1, LinkLinks
<1>5. Links' \cup Waiting' \subseteq Links \cup Waiting \cup {Ends(r)}
  BY <1>1, <1>2, <1>4, WaitingAfter
<1>6. Accounted'
  <2>1. \A l \in Compatible : l \in Links' \cup Waiting' => l \in wanted' \cup revived'
    BY <1>1, <1>3, <1>5 DEF Linkable
  <2>2. QED
    BY <2>1 DEF Accounted
<1>7. PendingOnce'
  <2>1. CASE BothFound(r, tree)
    BY <1>1, <1>4, <2>1 DEF PendingOnce
  <2>2. CASE ~BothFound(r, tree)
    <3>1. ~Contains(pending, r) /\ pending' = Append(pending, r)
      BY <2>2 DEF Link
    <3>2. r \notin ToSet(pending)
      BY <1>1, <3>1, ElementsOf DEF Names
    <3>3. pending' \in ListOf(Request, ToSet(pending) \cup {r})
      BY <1>1, <3>1, <3>2, AppendNew DEF PendingOnce
    <3>4. QED
      BY <3>3, <2>2, <1>4 DEF PendingOnce
  <2>3. QED
    BY <2>1, <2>2
<1>8. QED
  BY <1>2, <1>6, <1>7 DEF Account

LEMMA UnlinkAccount ==
    ASSUME OneName, Account, NEW r \in Request, Unlink(r)
    PROVE  Account'
<1>1. /\ Asked /\ Tidy /\ Names /\ Grown /\ LinksFound /\ PendingOnce
      /\ Waiting = {Ends(q) : q \in ToSet(pending)}
      /\ ToSet(pending) \subseteq Request
      /\ \A l \in Compatible : l \in Links \cup Waiting => l \in wanted \cup revived
  BY WaitingRequests DEF Account, Accounted, Asked
<1>2. Asked' /\ Names'
  BY <1>1, UnlinkAsked DEF Asked
<1>3. /\ Links' = Links \ {Ends(r)}
      /\ BothFound(r, tree) => pending' = pending
      /\ ~BothFound(r, tree) => pending' = WithoutPending(pending, r)
  BY <1>1, UnlinkLinks
<1>4. /\ revived' = (IF BothFound(r, tree) /\ Ends(r) \in Waiting
                     THEN revived \cup {Ends(r)} ELSE revived \ {Ends(r)})
      /\ wanted' = wanted \ {Ends(r)}
  BY DEF Unlink
<1>5. CASE BothFound(r, tree)
  <2>1. pending' = pending /\ Waiting' = Waiting
    BY <1>1, <1>2, <1>3, <1>5, WaitingAfter
  <2>2. Accounted'
    <3>1. \A l \in Compatible : l \in Links' \cup Waiting' => l \in wanted' \cup revived'
      BY <2>1, <1>1, <1>3, <1>4, <1>5
    <3>2. QED
      BY <3>1 DEF Accounted
  <2>3. QED
    BY <2>1, <2>2, <1>1, <1>2 DEF Account, PendingOnce
<1>6. CASE ~BothFound(r, tree)
  <2>1. pending' \in ListOf(Request, ToSet(pending) \ {r})
    <3>1. pending' = RemoveObject(pending, r)
      BY <1>3, <1>6 DEF WithoutPending, RemoveObject
    <3>2. QED
      BY <3>1, <1>1, RemoveElements DEF PendingOnce
  <2>2. ToSet(pending') = ToSet(pending) \ {r}
    BY <2>1 DEF ListOf
  <2>3. Waiting' \subseteq Waiting \ {Ends(r)}
    <3>1. Waiting' = {Ends(q) : q \in ToSet(pending) \ {r}}
      BY <2>2, <1>2, WaitingAfter
    <3>2. QED
      BY <3>1, <1>1 DEF OneName
  <2>4. Accounted'
    <3>1. \A l \in Compatible : l \in Links' \cup Waiting' => l \in wanted' \cup revived'
      BY <2>3, <1>1, <1>3, <1>4
    <3>2. QED
      BY <3>1 DEF Accounted
  <2>5. QED
    BY <2>1, <2>2, <2>4, <1>2 DEF Account, PendingOnce
<1>7. QED
  BY <1>5, <1>6

LEMMA AskForPendingAccount ==
    ASSUME Account, AskForPending
    PROVE  Account'
<1>1. /\ Asked /\ Tidy /\ Names /\ Grown /\ LinksFound /\ PendingOnce
      /\ Waiting = {Ends(q) : q \in ToSet(pending)}
      /\ \A l \in Compatible : l \in Links \cup Waiting => l \in wanted \cup revived
  BY WaitingRequests DEF Account, Accounted, Asked
<1>2. Asked' /\ Names'
  BY <1>1, AskForPendingAsked DEF Asked
<1>3. /\ Links' = Links \cup ({Ends(q) : q \in Found(pending)} \cap Compatible)
      /\ pending' = Without(pending, Found(pending))
      /\ ToSet(pending') = ToSet(pending) \ Found(pending)
  BY <1>1, AskForPendingLinks
<1>4. Found(pending) \subseteq ToSet(pending)
  BY DEF Found
<1>5. Waiting' \subseteq Waiting /\ Links' \subseteq Links \cup Waiting
  BY <1>1, <1>2, <1>3, <1>4, WaitingAfter
<1>6. Accounted'
  <2>1. UNCHANGED <<wanted, revived>>
    BY DEF AskForPending
  <2>2. \A l \in Compatible : l \in Links' \cup Waiting' => l \in wanted' \cup revived'
    BY <2>1, <1>1, <1>5
  <2>3. QED
    BY <2>2 DEF Accounted
<1>7. PendingOnce'
  <2> DEFINE gone == Found(pending)
  <2> HIDE DEF gone
  <2>1. Without(pending, gone) \in ListOf(Request, ToSet(pending) \ gone)
    BY <1>1, WithoutOrdered DEF PendingOnce
  <2>2. QED
    BY <2>1, <1>3 DEF PendingOnce, gone
<1>8. QED
  BY <1>2, <1>6, <1>7 DEF Account

LEMMA NewNodeAccount ==
    ASSUME Account, NEW n \in Node, NewNode(n)
    PROVE  Account'
<1>1. Asked' /\ Links' = Links /\ UNCHANGED <<pending, wanted, revived>>
  BY NewNodeAsked, NewNodeLinks DEF Account, Asked, NewNode
<1>2. Waiting' = Waiting
  BY <1>1 DEF Waiting
<1>3. QED
  BY <1>1, <1>2 DEF Account, Accounted, PendingOnce

LEMMA DeclareAccount ==
    ASSUME Account, NEW s \in Late, Declare(s)
    PROVE  Account'
<1>1. Asked' /\ Links' = Links /\ UNCHANGED <<pending, wanted, revived>>
  BY DeclareAsked, DeclareLinks DEF Account, Asked, Declare
<1>2. Waiting' = Waiting
  BY <1>1 DEF Waiting
<1>3. QED
  BY <1>1, <1>2 DEF Account, Accounted, PendingOnce

LEMMA DestroyLinkedAccount ==
    ASSUME Account, NEW n \in Node, DestroyLinked(n)
    PROVE  Account'
<1>1. /\ Asked /\ Tidy /\ Names /\ Grown /\ LinksFound /\ PendingOnce
      /\ \A l \in Compatible : l \in Links \cup Waiting => l \in wanted \cup revived
  BY DEF Account, Accounted, Asked
<1>2. Asked' /\ pending' = pending
  BY <1>1, DestroyLinkedAsked DEF DestroyLinked
<1>3. Links' \subseteq Links
  BY <1>1, DestroyLinkedLinks
<1>4. Waiting' = Waiting
  BY <1>2 DEF Waiting
<1>5. /\ wanted' = {l \in wanted : l \in Links => n \notin {l[1].node, l[2].node}}
      /\ revived' = (revived \cup {l \in Links : n \in {l[1].node, l[2].node}})
                       \cap (Links' \cup Waiting)
  BY DEF DestroyLinked
<1>6. \A l \in Compatible : l \in Links' \cup Waiting' => l \in wanted' \cup revived'
  BY <1>1, <1>3, <1>4, <1>5
<1>7. QED
  BY <1>1, <1>2, <1>6 DEF Account, Accounted, PendingOnce

LEMMA NextAccount ==
    ASSUME ~Repeats, OneName
    PROVE  Account /\ [PlanetNext]_planetVars => Account'
<1> SUFFICES ASSUME Account, [PlanetNext]_planetVars PROVE Account'
  OBVIOUS
<1>1. CASE UNCHANGED planetVars
  <2>1. Asked'
    BY <1>1, NextAsked DEF Account
  <2>2. QED
    BY <2>1, <1>1 DEF planetVars, patchVars, Account, Accounted, PendingOnce, Links, Waiting
<1>2. CASE PlanetNext
  BY <1>2, LinkAccount, UnlinkAccount, AskForPendingAccount, NewNodeAccount,
     DestroyLinkedAccount, DeclareAccount DEF PlanetNext, CreateInstance, CreateElsewhere
<1>3. QED
  BY <1>1, <1>2

LEMMA AccountIsWiring == Account => WiredAsAsked
<1> SUFFICES ASSUME Account, NEW l \in Compatible,
                    {l[1], l[2]} \cap strays = {}, l \notin revived
             PROVE  l \in Links <=> l \in wanted /\ {l[1], l[2]} \subseteq tree
  BY DEF WiredAsAsked
<1>1. /\ Tidy /\ Names /\ Grown /\ LinksFound
      /\ wanted \subseteq Links \cup {Ends(q) : q \in ToSet(pending)}
      /\ \A q \in ToSet(pending) : ~BothFound(q, tree \ strays)
      /\ ToSet(pending) \subseteq Request
  BY AskedMeans, WaitingRequests DEF Account, Asked
<1>2. ASSUME l \in Links
      PROVE  l \in wanted /\ {l[1], l[2]} \subseteq tree
  BY <1>1, <1>2 DEF Account, Accounted, LinksFound
<1>3. ASSUME l \in wanted, {l[1], l[2]} \subseteq tree
      PROVE  l \in Links
  <2> SUFFICES ASSUME NEW q \in ToSet(pending), Ends(q) = l PROVE FALSE
    BY <1>1, <1>3
  <2>1. tree \ strays \in SUBSET (Url \ Nowhere) /\ Together(tree \ strays)
    BY <1>1 DEF Grown, Together
  <2>2. q \in Request /\ Ends(q) \in Outlet \X Inlet
    BY <1>1, CompatibleAssumption
  <2>3. {Ends(q)[1], Ends(q)[2]} \subseteq tree \ strays
    BY <1>3
  <2>4. BothFound(q, tree \ strays)
    BY <2>1, <2>2, <2>3, FoundEnds
  <2>5. QED
    BY <2>4, <1>1
<1>4. QED
  BY <1>2, <1>3

\* planet.cpp:59: between slots that exist, and that the latest retry saw,
\* there is a link exactly when it was asked for, early or late, and not taken
\* back, whatever came between.  (Not when a pending link is asked for again or
\* by two names: "||" forgets one of the two, README.)
THEOREM AlwaysWiredAsAsked ==
    ASSUME ~Repeats, OneName
    PROVE  PlanetSpec => []WiredAsAsked
<1>1. PlanetInit => Account
  <2> SUFFICES ASSUME PlanetInit PROVE Account
    OBVIOUS
  <2>1. Asked /\ pending = <<>>
    BY InitAsked DEF PlanetInit
  <2>2. Links = {}
    <3>1. \A s \in Slot : Partners(s) = {}
      BY EmptyList DEF PlanetInit, PatchInit, Partners, ListOf
    <3>2. QED
      BY <2>1, <3>1, LinksOfPartners DEF Slot, Asked
  <2>3. Waiting = {} /\ PendingOnce
    BY <2>1, EmptyList, EmptyElements, WaitingRequests DEF PendingOnce, Asked
  <2>4. QED
    BY <2>1, <2>2, <2>3 DEF Account, Accounted
<1>2. Account /\ [PlanetNext]_planetVars => Account'
  BY NextAccount
<1>3. QED
  BY <1>1, <1>2, AccountIsWiring, PTL DEF PlanetSpec

-----------------------------------------------------------------------------
(* The order of the outlets' lists.                                        *)

\* A position is the number of a creation: commands change none.
PositionsAreAges == \A m \in alive : position[m] <= counter

Aged == Asked /\ Rightmost /\ PositionsAreAges

LEMMA LinkAged ==
    ASSUME Aged, NEW r \in Request, Link(r)
    PROVE  SettledOutlets' /\ UNCHANGED <<id, position, alive, counter>>
<1>1. UNCHANGED <<id, position, alive, counter>>
  BY DEF Link
<1>2. SettledIn(connections, id, position)
  BY DEF Aged, Rightmost, SettledOutlets, SettledIn
<1>3. CASE ~BothFound(r, tree)
  BY <1>1, <1>2, <1>3 DEF Link, SettledIn, SettledOutlets
<1>4. CASE BothFound(r, tree)
  <2>1. WeakOrder(SlotOrder(id, position), {i \in Inlet : i.node \in alive})
    BY LiveOrderIsWeak DEF Aged, Rightmost, LiveInlets
  <2>2. Wired(connections, alive)
    BY TidyIsWired DEF Aged, Asked
  <2>3. SettledIn(Connected(connections, r, id, position), id, position)
    BY <1>2, <1>4, <2>1, <2>2, FoundAlive, ConnectedSettled DEF Aged, Asked
  <2>4. QED
    BY <1>1, <1>4, <2>3 DEF Link, SettledIn, SettledOutlets
<1>5. QED
  BY <1>1, <1>3, <1>4

LEMMA UnlinkAged ==
    ASSUME Aged, NEW r \in Request, Unlink(r)
    PROVE  SettledOutlets' /\ UNCHANGED <<id, position, alive, counter>>
<1>1. UNCHANGED <<id, position, alive, counter>>
  BY DEF Unlink
<1>2. CASE UNCHANGED connections
  BY <1>1, <1>2 DEF Aged, Rightmost, SettledOutlets
<1>3. CASE BothFound(r, tree) /\ Ends(r) \in Outlet \X Inlet
  <2> DEFINE o == Ends(r)[1]
             i == Ends(r)[2]
  <2>1. /\ o \in Outlet /\ i \in Inlet
        /\ {o.node, i.node} = {r[1].node, r[2].node}
    BY <1>3, EndsFacts
  <2>2. Disconnect(o, i)
    BY <1>1, <1>3, <2>1, FoundAlive DEF Unlink, Disconnect, Aged, Asked
  <2>3. QED
    BY <1>1, <2>1, <2>2, DisconnectRightmost DEF Aged, Rightmost
<1>4. QED
  BY <1>2, <1>3 DEF Unlink

LEMMA AskForPendingAged ==
    ASSUME Aged, AskForPending
    PROVE  SettledOutlets' /\ UNCHANGED <<id, position, alive, counter>>
<1>1. /\ UNCHANGED <<id, position, alive, counter>>
      /\ connections' = Retry(connections, pending)[1]
  BY DEF AskForPending
<1>2. WeakOrder(SlotOrder(id, position), LiveInlets) /\ SettledOutlets
  BY LiveOrderIsWeak DEF Aged, Rightmost
<1>3. SettledIn(connections', id, position)
  BY <1>1, <1>2, RetryLinks DEF Aged, Asked, Names
<1>4. QED
  BY <1>1, <1>3 DEF SettledIn, SettledOutlets

LEMMA NewNodeAged ==
    ASSUME Aged, NEW n \in Node, NewNode(n)
    PROVE  Rightmost' /\ PositionsAreAges'
<1>1. /\ alive \subseteq Node /\ counter \in Nat /\ position \in [Node -> Nat]
      /\ \A m \in alive : position[m] <= counter
  BY PositionsAreNaturals, BoundAssumption DEF Aged, Asked, Tidy, PositionsAreAges
<1>2. \A m \in alive : position[m] # counter + 1
  BY <1>1
<1>3. CreateNode(n)
  BY <1>2 DEF NewNode, CreateNode
<1>4. Rightmost'
  BY <1>2, <1>3, CreateNodeRightmost DEF Aged
<1>5. PositionsAreAges'
  BY <1>1 DEF NewNode, PositionsAreAges
<1>6. QED
  BY <1>4, <1>5

LEMMA DestroyLinkedAged ==
    ASSUME Aged, NEW n \in Node, DestroyLinked(n)
    PROVE  Rightmost' /\ PositionsAreAges'
<1>1. DestroyNode(n)
  BY DEF DestroyLinked
<1>2. Rightmost'
  BY <1>1, DestroyRightmost DEF Aged
<1>3. PositionsAreAges'
  BY <1>1 DEF Aged, PositionsAreAges, DestroyNode
<1>4. QED
  BY <1>2, <1>3

LEMMA DeclareAged ==
    ASSUME Aged, NEW s \in Late, Declare(s)
    PROVE  SettledOutlets' /\ UNCHANGED <<id, position, alive, counter>>
BY DEF Declare, patchVars, Aged, Rightmost, SettledOutlets

LEMMA NextAged == Aged /\ [PlanetNext]_planetVars => Aged'
<1> SUFFICES ASSUME Aged, [PlanetNext]_planetVars PROVE Aged'
  OBVIOUS
<1>1. Asked' /\ Tidy'
  BY NextAsked DEF Aged, Asked
<1>2. CASE UNCHANGED planetVars
  BY <1>1, <1>2 DEF planetVars, patchVars, Aged, Rightmost, OwnPositions,
                    SettledOutlets, PositionsAreAges
<1>3. CASE SettledOutlets' /\ UNCHANGED <<id, position, alive, counter>>
  BY <1>1, <1>3 DEF Aged, Rightmost, OwnPositions, PositionsAreAges
<1>4. CASE Rightmost' /\ PositionsAreAges'
  BY <1>1, <1>4 DEF Aged
<1>5. CASE PlanetNext
  BY <1>3, <1>4, <1>5, LinkAged, UnlinkAged, AskForPendingAged, NewNodeAged,
     DestroyLinkedAged, DeclareAged DEF PlanetNext, CreateInstance, CreateElsewhere
<1>6. QED
  BY <1>2, <1>5

\* slot.cpp:61 "rightmost node and rightmost position in the same node": in a
\* patch that commands build nodes keep the positions they were created at,
\* which sIdCounter gives to one of them only, although the patch does not ask
\* for that here (Ties); so every outlet sends to the rightmost inlet first, in
\* whatever order links are asked for and several of them are made by one retry.
THEOREM PlanetRightmostFirst == PlanetSpec => [](OwnPositions /\ RightmostFirst)
<1>1. PlanetInit => Aged
  <2> SUFFICES ASSUME PlanetInit PROVE Aged
    OBVIOUS
  <2>1. SettledOutlets
    BY EmptyList DEF PlanetInit, PatchInit, SettledOutlets, Slot
  <2>2. OwnPositions /\ PositionsAreAges
    BY DEF PlanetInit, PatchInit, OwnPositions, PositionsAreAges
  <2>3. QED
    BY <2>1, <2>2, InitAsked DEF Aged, Asked, Rightmost
<1>2. Aged /\ [PlanetNext]_planetVars => Aged'
  BY NextAged
<1>3. Aged => OwnPositions /\ RightmostFirst
  BY SettledIsInOrder DEF Aged, Rightmost
<1>4. QED
  BY <1>1, <1>2, <1>3, PTL DEF PlanetSpec
=============================================================================
