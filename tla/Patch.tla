-------------------------------- MODULE Patch --------------------------------
(***************************************************************************)
(* The patch bay of a planet: the slots of the nodes (core/slot.h, inlet.h *)
(* and outlet.h with their .cpp) and what nodes do to them (core/node.h).  *)
(* A link is stored twice, in the connections_ of its outlet and in those  *)
(* of its inlet.  Both lists are OrderedLists whose order depends on state *)
(* of the nodes at the other end, which changes under them: an outlet      *)
(* sends to its list front first, so the order is the order of execution   *)
(* of the patch.                                                           *)
(*                                                                         *)
(* The operations are those of a command: each runs with the planet's      *)
(* lock, so each is one step.                                              *)
(***************************************************************************)
EXTENDS OrderedList

CONSTANTS Node,         \* addresses of nodes
          InletCount,   \* number of inlets of each node, as its class says
          OutletCount,  \* number of outlets of each node
          Compatible,   \* pairs <<outlet, inlet>> whose types match
          MaxPosition,  \* bound of trigger positions
          MaxCreations, \* bound of sIdCounter: nodes ever created
          MaxId,        \* bound of slot ids
          Ties          \* may nodes share a position, slots of a node an id?

ASSUME CountAssumption == /\ InletCount \in [Node -> Nat]
                          /\ OutletCount \in [Node -> Nat]
ASSUME BoundAssumption == /\ {MaxPosition, MaxCreations, MaxId} \subseteq Nat
                          /\ MaxCreations <= MaxPosition
ASSUME TiesAssumption == Ties \in BOOLEAN

SlotsOfKind(kind, count) ==
    UNION {[node : {n}, kind : {kind}, rank : 0..count[n] - 1] : n \in Node}

Outlet == SlotsOfKind("out", OutletCount)
Inlet == SlotsOfKind("in", InletCount)
Slot == Outlet \cup Inlet

ASSUME CompatibleAssumption == Compatible \subseteq Outlet \X Inlet

VARIABLES connections,  \* connections_ of every slot
          id,           \* id_ of every slot: its place in the node
          position,     \* trigger_position_ of every node
          alive,        \* nodes of the tree
          counter       \* Node::sIdCounter

patchVars == <<connections, id, position, alive, counter>>

-----------------------------------------------------------------------------
(* The order of the lists.                                                 *)

\* Slot::operator>=, "largest first".
AtLeast(s, t, ids, positions) ==
    IF s.node = t.node
    THEN ids[s] < ids[t]
    ELSE positions[s.node] < positions[t.node]

SlotOrder(ids, positions) ==
    {pair \in Slot \X Slot : AtLeast(pair[1], pair[2], ids, positions)}

\* sort(), as many times as it is called.
SortTimes(list, times, order) ==
    LET after[k \in 0..times] ==
            IF k = 0 THEN list ELSE Sort(after[k - 1], order)
    IN  after[times]

\* Mutant: the list of the slot itself is sorted, not those that lead to it.
SortOwnConnections(slots, ids, positions) ==
    [s \in Slot |-> IF s \in slots
                    THEN Sort(connections[s], SlotOrder(ids, positions))
                    ELSE connections[s]]

\* sort_incoming_connections() of each of the slots: every slot at the other
\* end sorts its list, once for each of them it is connected to.
SortIncoming(slots, ids, positions) ==
    [s \in Slot |->
        SortTimes(connections[s],
                  Cardinality({t \in slots : Contains(connections[t], s)}),
                  SlotOrder(ids, positions))]

-----------------------------------------------------------------------------
(* Operations.                                                             *)

SlotsOf(n) == {s \in Slot : s.node = n}
InletsOf(n) == {s \in Inlet : s.node = n}

\* Node() and the slots that make_inlets and make_outlets register.
CreateNode(n) ==
    /\ n \notin alive
    /\ counter < MaxCreations
    /\ Ties \/ \A m \in alive : position[m] # counter + 1
    /\ alive' = alive \cup {n}
    /\ counter' = counter + 1
    /\ position' = [position EXCEPT ![n] = counter + 1]
    /\ id' = [s \in Slot |-> IF s.node = n THEN s.rank ELSE id[s]]
    /\ UNCHANGED connections

\* Mutant: slot->add_connection(slot).
ConnectToItself(o, i) ==
    /\ {o.node, i.node} \subseteq alive
    /\ <<o, i>> \in Compatible
    /\ connections' = [connections EXCEPT
                         ![o] = Push(@, i, SlotOrder(id, position)),
                         ![i] = Push(@, i, SlotOrder(id, position))]
    /\ UNCHANGED <<id, position, alive, counter>>

\* connect(), from either end; a pair whose types do not match is refused.
Connect(o, i) ==
    /\ {o.node, i.node} \subseteq alive
    /\ <<o, i>> \in Compatible
    /\ connections' = [connections EXCEPT
                         ![o] = Push(@, i, SlotOrder(id, position)),
                         ![i] = Push(@, o, SlotOrder(id, position))]
    /\ UNCHANGED <<id, position, alive, counter>>

\* Mutant: only the list of the inlet is changed.
DisconnectInlet(o, i) ==
    /\ {o.node, i.node} \subseteq alive
    /\ connections' = [connections EXCEPT ![i] = RemoveObject(@, o)]
    /\ UNCHANGED <<id, position, alive, counter>>

\* disconnect()
Disconnect(o, i) ==
    /\ {o.node, i.node} \subseteq alive
    /\ connections' = [connections EXCEPT ![o] = RemoveObject(@, i),
                                          ![i] = RemoveObject(@, o)]
    /\ UNCHANGED <<id, position, alive, counter>>

\* set_trigger_position(p): sort_connections() goes over the inlets.
SetTriggerPosition(n, p) ==
    /\ n \in alive
    /\ Ties \/ \A m \in alive \ {n} : position[m] # p
    /\ position' = [position EXCEPT ![n] = p]
    /\ connections' = SortIncoming(InletsOf(n), id, position')
    /\ UNCHANGED <<id, alive, counter>>

\* set_id(k) of a slot that is registered already (the tests do it to inlets).
SetId(s, k) ==
    /\ s.node \in alive
    /\ Ties \/ \A t \in SlotsOf(s.node) \ {s} : t.kind = s.kind => id[t] # k
    /\ id' = [id EXCEPT ![s] = k]
    /\ connections' = SortIncoming({s}, id', position)
    /\ UNCHANGED <<position, alive, counter>>

\* Mutant: the inlets of the node are not deleted.
DestroyOutlets(n) ==
    /\ n \in alive
    /\ alive' = alive \ {n}
    /\ connections' = [s \in Slot |->
                         IF s.node = n /\ s \in Outlet THEN <<>>
                         ELSE IF s \in Outlet THEN connections[s]
                         ELSE Without(connections[s], SlotsOf(n))]
    /\ UNCHANGED <<id, position, counter>>

\* ~Node() and the ~Slot() of all its slots: each removes itself from the
\* lists of the others and empties its own.  (~Node's loop skips every other
\* slot, because ~Inlet and ~Outlet erase from the vector it walks; the slots
\* it skips are deleted with the tree of objects right after it.)
DestroyNode(n) ==
    /\ n \in alive
    /\ alive' = alive \ {n}
    /\ connections' = [s \in Slot |->
                         IF s.node = n THEN <<>>
                         ELSE Without(connections[s], SlotsOf(n))]
    /\ UNCHANGED <<id, position, counter>>

-----------------------------------------------------------------------------
PatchInit ==
    /\ connections = [s \in Slot |-> <<>>]
    /\ id = [s \in Slot |-> s.rank]
    /\ position = [n \in Node |-> 0]
    /\ alive = {}
    /\ counter = 0

PatchNext ==
    \/ \E n \in Node : \/ CreateNode(n)
                       \/ DestroyNode(n)
                       \/ \E p \in 1..MaxPosition : SetTriggerPosition(n, p)
    \/ \E o \in Outlet, i \in Inlet : Connect(o, i) \/ Disconnect(o, i)
    \/ \E i \in Inlet, k \in 0..MaxId : SetId(i, k)

PatchSpec == PatchInit /\ [][PatchNext]_patchVars

-----------------------------------------------------------------------------
(* Properties.                                                             *)

PatchTypeOK ==
    /\ connections \in [Slot -> Seq(Slot)]
    /\ id \in [Slot -> Nat]
    /\ position \in [Node -> 0..MaxPosition]
    /\ alive \in SUBSET Node
    /\ counter \in 0..MaxCreations
    /\ \A o \in Outlet : \A i \in DOMAIN connections[o] : connections[o][i] \in Inlet
    /\ \A i \in Inlet : \A k \in DOMAIN connections[i] : connections[i][k] \in Outlet

\* slot.cpp:48 "two way connection": a link is in the lists of both ends, in
\* each once, and leads to no slot of a node that is gone.
LinksMutual ==
    \A s \in Slot :
        /\ IsInjective(connections[s])
        /\ \A t \in ToSet(connections[s]) :
               Contains(connections[t], s) /\ {s.node, t.node} \subseteq alive

\* s belongs in front of t: "rightmost node and rightmost position in the
\* same node" (slot.cpp:61).
RightOf(s, t) ==
    IF s.node = t.node THEN id[s] > id[t]
                       ELSE position[s.node] > position[t.node]

InOrder(list) ==
    \A j, k \in DOMAIN list : j < k => ~RightOf(list[k], list[j])

\* An outlet sends to the rightmost inlet first, whatever links, positions
\* and ids changed since the link was made.
RightmostFirst == \A o \in Outlet : InOrder(connections[o])

\* A link goes when it is unlinked or one of its nodes is destroyed, and not
\* when a list is sorted or another link, node or position changes.
NoLinkLost ==
    [][\A o \in Outlet, i \in Inlet :
          Contains(connections[o], i) /\ ~Contains(connections'[o], i) =>
             Disconnect(o, i) \/ DestroyNode(o.node) \/ DestroyNode(i.node)
      ]_patchVars

\* The links, for both of their ends.
Links == {l \in Outlet \X Inlet : /\ Contains(connections[l[1]], l[2])
                                  /\ Contains(connections[l[2]], l[1])}

Cables == INSTANCE Wiring
    WITH WOutlet <- Outlet, WInlet <- Inlet, WNode <- Node,
         links <- Links, nodes <- alive, place <- <<position, id>>

\* The two lists of each link are one link to whoever uses them: a node or a
\* slot that moves, and so sorts the lists of others, gains and loses none,
\* nor does a creation; a destruction takes those of its node only, and
\* anything else changes one link between living nodes and moves nothing.
ImplementsWiring == Cables!WiringSpec
=============================================================================
