----------------------------- MODULE PlanetLinks -----------------------------
(***************************************************************************)
(* Links as commands ask for them (core/planet.cpp, Slot::change_link and  *)
(* the link and creation commands of core/text_command.rl): "a => b" and   *)
(* "a || b" name the ends of a link by their urls, before or after the     *)
(* nodes and their slots exist; a url may also be one where nothing ever   *)
(* stands.  A link with a missing end is kept in pending_links_ and tried  *)
(* again when a text command has created a node.  A text command makes two *)
(* calls for a new node, the creation and the retry of the pending links,  *)
(* and takes the planet's lock for each: other commands (OSC) run between  *)
(* the two.  A Lua node may declare more slots later, with a new script:   *)
(* nobody asks for the pending links then.                                 *)
(***************************************************************************)
EXTENDS Patch

CONSTANTS Request,      \* pairs of urls that commands name
          Late,         \* slots that scripts declare when the node is there
          Repeats       \* may a pending link be asked for again?

\* A url in a node with no object behind it, ever.
Nowhere == [node : Node, kind : {"none"}, rank : {0}]

\* The url of a slot, or of a node, which stands for its first in- or outlet,
\* or one that leads nowhere.
Url == Slot \cup [node : Node, kind : {"node"}, rank : {0}] \cup Nowhere

ASSUME RequestAssumption == Request \subseteq Url \X Url
ASSUME LateAssumption == Late \subseteq {s \in Slot : s.rank > 0}
ASSUME FirstSlotAssumption ==
    \A n \in Node : InletCount[n] > 0 /\ OutletCount[n] > 0

VARIABLES tree,         \* the urls that object_at finds
          pending,      \* pending_links_
          asking,       \* create_instance is between its two calls
          wanted,       \* history: links asked for, not withdrawn, not lost
          strays,       \* history: urls in the tree that came after the latest retry
          revived       \* history: links withdrawn or lost that still wait, or
                        \* were made by a retry since

planetVars == <<patchVars, tree, pending, asking, wanted, strays, revived>>

-----------------------------------------------------------------------------
(* Urls.                                                                   *)

\* Mutant: the nodes of both ends are looked up, not the slots.
NodesFound(r, objects) == {r[1].node, r[2].node} \subseteq {u.node : u \in objects}

\* object_at(url) gives an object, for both ends.
BothFound(r, objects) == {r[1], r[2]} \subseteq objects

\* Planet::link: the slot that a source stands for.
SourceSlot(u) == IF u.kind = "node" THEN [u EXCEPT !.kind = "out"] ELSE u

\* Slot::change_link: the slot that a target stands for.
TargetSlot(u) == IF u.kind = "node" THEN [u EXCEPT !.kind = "in"] ELSE u

\* The outlet and the inlet; the source may be either.
Ends(r) ==
    LET s == SourceSlot(r[1])
        t == TargetSlot(r[2])
    IN  IF s.kind = "out" THEN <<s, t>> ELSE <<t, s>>

\* TYPE_CAST(Inlet, target) or TYPE_CAST(Outlet, target), and the types of
\* Slot::add_connection.
Linkable(r) == Ends(r) \in Compatible

-----------------------------------------------------------------------------
(* Links.                                                                  *)

\* The links of the patch that wait in pending_links_.
Waiting == {Ends(pending[k]) : k \in DOMAIN pending}

\* Slot::connect on a state of the lists.
Connected(cs, r, ids, positions) ==
    LET o == Ends(r)[1]
        i == Ends(r)[2]
    IN  IF ~Linkable(r) THEN cs
        ELSE [cs EXCEPT ![o] = Push(@, i, SlotOrder(ids, positions)),
                        ![i] = Push(@, o, SlotOrder(ids, positions))]

\* Planet::link with "=>", from a command of either kind.
Link(r) ==
    /\ revived' = revived \ {Ends(r)}
    /\ wanted' = IF Linkable(r) THEN wanted \cup {Ends(r)} ELSE wanted
    /\ IF BothFound(r, tree)
       THEN /\ connections' = Connected(connections, r, id, position)
            /\ UNCHANGED pending
       ELSE /\ Repeats \/ ~Contains(pending, r)
            /\ pending' = Append(pending, r)
            /\ UNCHANGED connections
    /\ UNCHANGED <<id, position, alive, counter, tree, asking, strays>>

\* Mutant: only the source is compared.
WithoutPendingSource(links, r) ==
    IF \E k \in DOMAIN links : links[k][1] = r[1]
    THEN RemoveAt(links, SelectInSeq(links, LAMBDA l : l[1] = r[1]))
    ELSE links

\* remove_pending_link: the first one with these two urls.
WithoutPending(links, r) == RemoveFirst(links, r)

\* Planet::link with "||"
Unlink(r) ==
    /\ revived' = (IF BothFound(r, tree) /\ Ends(r) \in Waiting
                   THEN revived \cup {Ends(r)} ELSE revived \ {Ends(r)})
    /\ wanted' = wanted \ {Ends(r)}
    /\ IF BothFound(r, tree)
       THEN /\ IF Ends(r) \in Outlet \X Inlet
               THEN connections' = [connections EXCEPT
                       ![Ends(r)[1]] = RemoveObject(@, Ends(r)[2]),
                       ![Ends(r)[2]] = RemoveObject(@, Ends(r)[1])]
               ELSE UNCHANGED connections
            /\ UNCHANGED pending
       ELSE /\ pending' = WithoutPending(pending, r)
            /\ UNCHANGED connections
    /\ UNCHANGED <<id, position, alive, counter, tree, asking, strays>>

-----------------------------------------------------------------------------
(* Nodes.                                                                  *)

\* Mutant: the walk ends with the first link it creates.
RetryFirst(cs, links) ==
    LET k == SelectInSeq(links, LAMBDA r : BothFound(r, tree))
    IN  IF k = 0 THEN <<cs, links>>
        ELSE <<Connected(cs, links[k], id, position), RemoveAt(links, k)>>

\* create_pending_links: try every pending link; those whose ends exist are
\* created or refused for good, the others stay.
Retry(cs, links) ==
    LET lists[k \in 0..Len(links)] ==
            IF k = 0 THEN cs
            ELSE IF BothFound(links[k], tree)
                 THEN Connected(lists[k - 1], links[k], id, position)
                 ELSE lists[k - 1]
    IN  <<lists[Len(links)],
          Without(links, {r \in ToSet(links) : BothFound(r, tree)})>>

\* The objects of a new node: itself and the slots of its class.
Born(n) == {u \in Url \ (Nowhere \cup Late) : u.node = n}

\* The state of a new node, before any link is made; a node of a class that
\* fails in init() or start() is in the tree as well.
NewNode(n) ==
    /\ n \notin alive
    /\ counter < MaxCreations
    /\ alive' = alive \cup {n}
    /\ counter' = counter + 1
    /\ position' = [position EXCEPT ![n] = counter + 1]
    /\ id' = [s \in Slot |-> IF s.node = n THEN s.rank ELSE id[s]]
    /\ tree' = tree \cup Born(n)
    /\ strays' = strays \cup Born(n)
    /\ UNCHANGED <<connections, pending, wanted, revived>>

\* TextCommand::create_instance, its first call: the new node starts, or
\* fails (and then the second call is not made).
CreateInstance(n, starts) ==
    /\ ~asking
    /\ NewNode(n)
    /\ asking' = starts

\* TextCommand::create_instance, its second call: /rubyk/link(nil).
AskForPending ==
    /\ asking
    /\ asking' = FALSE
    /\ LET retried == Retry(connections, pending)
       IN  connections' = retried[1] /\ pending' = retried[2]
    /\ strays' = {}
    /\ UNCHANGED <<id, position, alive, counter, tree, wanted, revived>>

\* A node created over OSC: nobody asks for the pending links.
CreateElsewhere(n) ==
    /\ NewNode(n)
    /\ UNCHANGED asking

\* inlet() or outlet() in a script that a Lua node gets later, a slot after
\* those it has: nobody asks for the pending links either.
Declare(s) ==
    /\ s \in Late \ tree
    /\ s.node \in alive
    /\ \A t \in SlotsOf(s.node) : t.kind = s.kind /\ t.rank < s.rank => t \in tree
    /\ tree' = tree \cup {s}
    /\ strays' = strays \cup {s}
    /\ UNCHANGED <<patchVars, pending, asking, wanted, revived>>

\* A node that goes takes its slots and links along; its pending links stay.
DestroyLinked(n) ==
    /\ DestroyNode(n)
    /\ wanted' = {l \in wanted : l \in Links => n \notin {l[1].node, l[2].node}}
    /\ revived' = (revived \cup {l \in Links : n \in {l[1].node, l[2].node}})
                     \cap (Links' \cup Waiting)
    /\ tree' = {u \in tree : u.node # n}
    /\ strays' = {u \in strays : u.node # n}
    /\ UNCHANGED <<pending, asking>>

-----------------------------------------------------------------------------
PlanetInit ==
    /\ PatchInit
    /\ tree = {}
    /\ pending = <<>>
    /\ asking = FALSE
    /\ wanted = {}
    /\ strays = {}
    /\ revived = {}

PlanetNext ==
    \/ \E r \in Request : Link(r) \/ Unlink(r)
    \/ \E n \in Node : \/ \E starts \in BOOLEAN : CreateInstance(n, starts)
                       \/ CreateElsewhere(n)
                       \/ DestroyLinked(n)
    \/ \E s \in Late : Declare(s)
    \/ AskForPending

PlanetSpec == PlanetInit /\ [][PlanetNext]_planetVars

-----------------------------------------------------------------------------
(* Properties.                                                             *)

\* The patch is what the commands asked for: between two slots that exist
\* there is a link exactly when it was asked for, early or late, and neither
\* withdrawn nor lost with one of their nodes, once the pending links were
\* tried again after the slots appeared; there is none to a slot that does
\* not exist.  Left out are the links that such a retry brings back: a link
\* may wait although it is made or both its slots exist, and neither "||" nor
\* the end of a node looks into pending_links_ then.
WiredAsAsked ==
    \A l \in Compatible :
        LET ends == {l[1], l[2]}
        IN  ends \cap strays = {} /\ l \notin revived =>
                (l \in Links <=> l \in wanted /\ ends \subseteq tree)

\* A link that was asked for, and neither withdrawn nor lost with one of its
\* nodes, is made or waits in pending_links_: no creation, failed or not, and
\* no other command makes the planet forget it.
NothingForgotten ==
    \A l \in wanted : l \in Links \/ \E k \in DOMAIN pending : Ends(pending[k]) = l

\* A link waits only for a node or a slot that is missing, or that appeared
\* after the latest retry.
PendingForAReason ==
    \A k \in DOMAIN pending : ~BothFound(pending[k], tree \ strays)

\* Does not hold (README, smaller findings), and no configuration checks it.
\* text_command.h:143 "the link will be kept in Planet's link buffer until
\* all variables are found": and no longer.
PendingMeansMissing ==
    \A k \in DOMAIN pending : ~BothFound(pending[k], tree)
=============================================================================
