------------------------------ MODULE Dispatch ------------------------------
(***************************************************************************)
(* Sending through the patch (Outlet::send in core/outlet.cpp,             *)
(* Inlet::receive in core/inlet.h, Node::send in core/node.h).  There is   *)
(* no queue between nodes: send() walks the list of its outlet and calls   *)
(* the method behind each inlet, which sends in its turn before it         *)
(* returns.  What runs at an instant is a stack of such walks, all in the  *)
(* thread that holds the planet's lock: the operations of the patch        *)
(* (Patch) wait until the stack is empty.                                  *)
(***************************************************************************)
EXTENDS Patch

CONSTANTS MaxDepth,     \* bound: walks on the stack
          MaxSends      \* bound: sends of one call of a method

ASSUME DispatchAssumption == MaxDepth \in Nat \ {0} /\ MaxSends \in Nat \ {0}

VARIABLE stack  \* the walks under way, the innermost last

dispatchVars == <<patchVars, stack>>

\* A walk of send(): its outlet, the place of its iterator, how often the
\* method called there has sent and (history) the inlets that were linked
\* when it began and whose methods have not returned.
Walk == [outlet : Outlet, at : Nat, sends : 0..MaxSends, due : SUBSET Inlet]

-----------------------------------------------------------------------------
Top == Last(stack)

\* iterator->obj
Served(w) == connections[w.outlet][w.at]

\* The state of send() before its first receive(), on top of the walks below;
\* an outlet without connections is done at once.
Begun(below, o) ==
    IF connections[o] = <<>> THEN below
    ELSE Append(below, [outlet |-> o, at |-> 1, sends |-> 0,
                        due |-> ToSet(connections[o])])

\* The method of a node was called by the worker or by a command, and sends.
Start(o) ==
    /\ stack = <<>>
    /\ o.node \in alive
    /\ stack' = Begun(stack, o)
    /\ UNCHANGED patchVars

\* The method called by receive() sends: Node::send(port, val) with the port
\* of one of its outlets (it ignores any other).
Send(o) ==
    /\ stack # <<>>
    /\ Len(stack) < MaxDepth
    /\ o.node = Served(Top).node
    /\ Top.sends < MaxSends
    /\ stack' = Begun([stack EXCEPT ![Len(stack)].sends = @ + 1], o)
    /\ UNCHANGED patchVars

\* Mutant: the iterator is not advanced.
Again(w) == [w EXCEPT !.sends = 0, !.due = @ \ {Served(w)}]

\* iterator = iterator->next
Advanced(w) == [w EXCEPT !.at = @ + 1, !.sends = 0, !.due = @ \ {Served(w)}]

\* The method called by receive() returns; after the last inlet send() does.
Return ==
    /\ stack # <<>>
    /\ LET next == Advanced(Top)
       IN  stack' = IF next.at > Len(connections[Top.outlet])
                    THEN Front(stack)
                    ELSE Append(Front(stack), next)
    /\ UNCHANGED patchVars

\* Mutant: commands do not wait for the planet's lock.
Unguarded == TRUE

\* A command gets the lock between two dispatches.
Idle == stack = <<>>

Command ==
    /\ Idle
    /\ PatchNext
    /\ UNCHANGED stack

-----------------------------------------------------------------------------
DispatchInit == PatchInit /\ stack = <<>>

DispatchNext == \/ \E o \in Outlet : Start(o) \/ Send(o)
                \/ Return
                \/ Command

\* A method returns in the end (it is straight code that sends a bounded
\* number of times); nothing makes anyone send or issue a command.
DispatchSpec ==
    DispatchInit /\ [][DispatchNext]_dispatchVars /\ WF_dispatchVars(Return)

-----------------------------------------------------------------------------
(* Properties.                                                             *)

\* outlet.h:73 "Send the signal to all connections": every inlet that was
\* linked when a send began is served once and in the order of the patch, the
\* rightmost first, although each call may start other sends of the same
\* outlet and commands wait to change the list under the walk.
ServedOnceInOrder ==
    \A k \in DOMAIN stack :
        LET w == stack[k]
            list == connections[w.outlet]
            rest == {list[j] : j \in w.at..Len(list)}
        IN  /\ w.at \in DOMAIN list
            /\ w.due = rest
            /\ \A i \in rest : ~RightOf(i, Served(w))

\* A walk never calls a method of a node that is gone, and each send on the
\* stack is one of the node that the send below it is calling.
ChainOfCalls ==
    \A k \in DOMAIN stack :
        LET w == stack[k]
        IN  /\ w.at \in DOMAIN connections[w.outlet]
            /\ {w.outlet.node, Served(w).node} \subseteq alive
            /\ k > 1 => w.outlet.node = Served(stack[k - 1]).node

\* No chain of links leads from a node back to it.
Acyclic ==
    \E level \in [Node -> 1..Cardinality(Node)] :
        \A l \in Links : level[l[1].node] < level[l[2].node]

\* outlet.cpp:41: send() recurses through the methods it calls.  In a patch
\* without cycles no more sends are nested than there are nodes, whatever was
\* linked and unlinked on the way there; only a cycle can exhaust the stack.
DepthBounded == Acyclic => Len(stack) < Cardinality(alive) \/ stack = <<>>

\* In a patch without cycles a send ends, and lets the commands in.
DispatchEnds == (stack # <<>> /\ Acyclic) ~> (stack = <<>>)
=============================================================================
