------------------------------- MODULE Wiring -------------------------------
(***************************************************************************)
(* What the slots promise the rest of the planet: a set of links, each     *)
(* from an outlet to an inlet.  A link is made and removed as a whole, for *)
(* both of its ends at once, while both nodes exist and nothing is moved.  *)
(* A new node has no links and changes none, a node that goes takes        *)
(* exactly its own along, and moving a node or a slot changes none.        *)
(***************************************************************************)
CONSTANTS WOutlet, WInlet,  \* slots: records with at least the field node
          WNode             \* the nodes they belong to

VARIABLES links,            \* pairs of an outlet and an inlet
          nodes,            \* the nodes that exist
          place             \* where the nodes and their slots stand

wiringVars == <<links, nodes, place>>

WiringInit == links = {} /\ nodes = {}

Make(o, i) ==
    /\ {o.node, i.node} \subseteq nodes
    /\ links' = links \cup {<<o, i>>}
    /\ UNCHANGED <<nodes, place>>

Break(o, i) ==
    /\ {o.node, i.node} \subseteq nodes
    /\ links' = links \ {<<o, i>>}
    /\ UNCHANGED <<nodes, place>>

\* The new node is given its place.
Add(n) ==
    /\ n \notin nodes
    /\ nodes' = nodes \cup {n}
    /\ UNCHANGED links

Remove(n) ==
    /\ n \in nodes
    /\ nodes' = nodes \ {n}
    /\ links' = {l \in links : n \notin {l[1].node, l[2].node}}
    /\ UNCHANGED place

Move ==
    /\ place' # place
    /\ UNCHANGED <<links, nodes>>

WiringNext ==
    \/ \E o \in WOutlet, i \in WInlet : Make(o, i) \/ Break(o, i)
    \/ \E n \in WNode : Add(n) \/ Remove(n)
    \/ Move

WiringSpec == WiringInit /\ [][WiringNext]_wiringVars
=============================================================================
