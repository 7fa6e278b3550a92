------------------------------ MODULE Calendar ------------------------------
(***************************************************************************)
(* What the worker promises its nodes, without a list, a lock or a loop: a *)
(* page for every instant holding the events due at that instant in their  *)
(* order of arrival.  Events run one at a time, earliest page first, first *)
(* come first served on a page, and an event that was accepted leaves the  *)
(* calendar only by running or because the node it is for cancels it.      *)
(***************************************************************************)
EXTENDS Lists

CONSTANTS Instant,      \* instants an event can be due at
          Event,        \* records with at least the fields when and node
          NoEvent       \* no event is running

VARIABLES page,         \* page[t]: events due at t, in order of arrival
          running,      \* the event whose node is being banged
          last          \* due time of the latest event that ran

calendarVars == <<page, running, last>>

CalendarInit ==
    /\ page = [t \in Instant |-> <<>>]
    /\ running = NoEvent
    /\ last = 0

\* An event is accepted only for an instant after the one reached so far.
Accept(e) ==
    /\ e.when > last
    /\ page' = [page EXCEPT ![e.when] = Append(@, e)]
    /\ UNCHANGED <<running, last>>

Cancel(n) ==
    /\ page' = [t \in Instant |->
                  Without(page[t], {e \in ToSet(page[t]) : e.node = n})]
    /\ UNCHANGED <<running, last>>

Run(t) ==
    /\ running = NoEvent
    /\ page[t] # <<>>
    /\ \A u \in Instant : u < t => page[u] = <<>>
    /\ running' = Head(page[t])
    /\ page' = [page EXCEPT ![t] = Tail(@)]
    /\ last' = t

Finish ==
    /\ running # NoEvent
    /\ running' = NoEvent
    /\ UNCHANGED <<page, last>>

CalendarNext ==
    \/ \E e \in Event : Accept(e)
    \/ \E e \in Event : Cancel(e.node)
    \/ \E t \in Instant : Run(t)
    \/ Finish

CalendarSpec == CalendarInit /\ [][CalendarNext]_calendarVars
=============================================================================
