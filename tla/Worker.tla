------------------------------- MODULE Worker -------------------------------
(***************************************************************************)
(* The worker of a planet (core/worker.h, core/worker.cpp): one thread     *)
(* that wakes every 10 us, takes the planet's lock, bangs the looped nodes *)
(* and then triggers the events that are due.  The calls a node makes on   *)
(* it (core/node.h: bang_me_in, remove_my_events, loop_me, unloop_me and   *)
(* ~Node) arrive from two sides:                                           *)
(*   - from another thread (a command, the main thread), which holds the   *)
(*     same lock: between two rounds of the loop;                          *)
(*   - from inside the bang of a node, run by the worker itself with the   *)
(*     lock held, in the middle of a round.                                *)
(* The lock, the thread and its should_run_ flag are oscit's (external).   *)
(***************************************************************************)
EXTENDS OrderedList

CONSTANTS Node,         \* nodes of the tree
          EventId,      \* heap addresses of events: bounds the live events
          MaxTime,      \* bound: the clock and every event stay below it
          Interval,     \* arguments of bang_me_in, in ms
          SelfCancel,   \* may a bang remove the events of its own node?
          NoEvent       \* no event is being triggered

ASSUME MaxTimeAssumption == MaxTime \in Nat
ASSUME IntervalAssumption == Interval \subseteq Nat
ASSUME SelfCancelAssumption == SelfCancel \in BOOLEAN

Time == 0..MaxTime
Event == [id : EventId, node : Node, when : Time, forced : BOOLEAN]

ASSUME NoEventAssumption == NoEvent \notin Event

VARIABLES clock,        \* time_ref_.elapsed()
          current_time, \* the logical time nodes reckon with
          real_time,    \* local realTime of pop_events: the time of the round
          pc,           \* where the worker thread is
          queue,        \* events_queue_
          event,        \* local e of pop_events while it is triggered
          looped,       \* looped_nodes_
          turn,         \* position of trigger_loop_events in looped_nodes_
          should_run,   \* should_run_
          alive,        \* nodes that are not destroyed
          last          \* history: when_ of the latest event triggered

vars == <<clock, current_time, real_time, pc, queue, event, looped, turn,
          should_run, alive, last>>

timeVars == <<clock, current_time, real_time>>
threadVars == <<pc, event, turn>>

-----------------------------------------------------------------------------
(* The queue.                                                              *)

\* Mutant: a newcomer overtakes the events of its own instant.
LaterThan(e, f) == e.when > f.when

\* Event::operator>=
NotEarlier(e, f) == e.when >= f.when

\* The order of events_queue_.
EventOrder == {pair \in Event \X Event : NotEarlier(pair[1], pair[2])}

\* Mutant: no event is refused for being due already.
NeverMissed(e) == FALSE

\* register_event(event): times are whole milliseconds, so an event within
\* WORKER_SLEEP_MS (0.01 ms) of the logical time is one that is not after it.
Missed(e) == e.when <= current_time

RegisterEvent(q, e) ==
    IF ~Missed(e) /\ (should_run \/ e.forced)
    THEN Push(q, e, EventOrder)
    ELSE q

\* Mutant: the walk stops at the first event of the node.
FreeFirstEventFor(q, n) ==
    IF \E i \in DOMAIN q : q[i].node = n
    THEN RemoveAt(q, SelectInSeq(q, LAMBDA e : e.node = n))
    ELSE q

\* free_events_for(node): a walk over the queue that takes out every event of
\* the node.  It triggers a forced event as it removes it, which does nothing
\* in the states where it meets one here: ~Node calls it when only Node::bang
\* is left of the node (MidiOut looks at that case), remove_my_events() has
\* no forced events to remove (RemoveMyEvents).
FreeEventsFor(q, n) == Without(q, {e \in ToSet(q) : e.node = n})

Queued == ToSet(queue)
UsedId == {e.id : e \in Queued} \cup (IF event = NoEvent THEN {} ELSE {event.id})

-----------------------------------------------------------------------------
(* The calls of the nodes.                                                 *)

\* The worker thread does not hold the lock.
LockFree == pc \in {"off", "sleep", "unlocked", "ended"}
\* The worker thread is inside a bang.
InBang == pc \in {"bang", "trigger"}

CanCall(n) == (LockFree \/ InBang) /\ n \in alive

\* bang_me_in(interval, parameter, forced)
BangMeIn(n, interval, forced) ==
    /\ CanCall(n)
    /\ current_time + interval <= MaxTime
    /\ \E id \in EventId \ UsedId :
           queue' = RegisterEvent(queue,
                      [id |-> id, node |-> n,
                       when |-> current_time + interval, forced |-> forced])
    /\ UNCHANGED <<timeVars, threadVars, looped, should_run, alive, last>>

\* A patch without feedback never leads from the bang of a node back to a
\* method of that node; a patch with feedback does (SelfCancel).
MayCancel(n) == pc = "trigger" => (SelfCancel \/ n # event.node)

\* Nodes that remove their events (Metro) register none that are forced, nodes
\* whose events are forced (MidiOut) do not remove them.
NoneForced(n) == \A e \in Queued : e.node = n => ~e.forced

\* remove_my_events()
RemoveMyEvents(n) ==
    /\ CanCall(n)
    /\ MayCancel(n)
    /\ NoneForced(n)
    /\ queue' = FreeEventsFor(queue, n)
    /\ UNCHANGED <<timeVars, threadVars, looped, should_run, alive, last>>

\* loop_me(): looped_ is true exactly when the node is in looped_nodes_, so
\* register_looped_node finds nothing to free and appends.
LoopMe(n) ==
    /\ CanCall(n)
    /\ pc # "bang"
    /\ ~Contains(looped, n)
    /\ looped' = Append(looped, n)
    /\ UNCHANGED <<timeVars, threadVars, queue, should_run, alive, last>>

\* free_looped_node(node)
WithoutLooped(n) ==
    IF Contains(looped, n)
    THEN \E i \in DOMAIN looped :
            looped[i] = n /\ looped' = RemoveAt(looped, i)
    ELSE UNCHANGED looped

\* unloop_me()
UnloopMe(n) ==
    /\ CanCall(n)
    /\ pc # "bang"
    /\ Contains(looped, n)
    /\ WithoutLooped(n)
    /\ UNCHANGED <<timeVars, threadVars, queue, should_run, alive, last>>

\* ~Node(): the node is gone once its events and its loop entry are.  A node
\* is not deleted from its own bang, nor a looped one while the loop runs.
Destroy(n) ==
    /\ CanCall(n)
    /\ pc = "trigger" => n # event.node
    /\ pc # "bang"
    /\ queue' = FreeEventsFor(queue, n)
    /\ WithoutLooped(n)
    /\ alive' = alive \ {n}
    /\ UNCHANGED <<timeVars, threadVars, should_run, last>>

\* worker_.quit(), from a command or from a node.
Quit ==
    /\ LockFree \/ InBang
    /\ should_run
    /\ should_run' = FALSE
    /\ UNCHANGED <<timeVars, threadVars, queue, looped, alive, last>>

Call ==
    \/ \E n \in Node, d \in Interval, forced \in BOOLEAN : BangMeIn(n, d, forced)
    \/ \E n \in Node : \/ RemoveMyEvents(n)
                       \/ LoopMe(n)
                       \/ UnloopMe(n)
                       \/ Destroy(n)
    \/ Quit

-----------------------------------------------------------------------------
(* The worker thread.                                                      *)

\* start(): the first call of loop() does not look at should_run_.
Start ==
    /\ pc = "off"
    /\ pc' = "sleep"
    /\ should_run' = TRUE
    /\ UNCHANGED <<timeVars, queue, event, looped, turn, alive, last>>

\* loop(), up to the lock: nanosleep, lock(), read the clock.
Wake ==
    /\ pc = "sleep"
    /\ pc' = "looping"
    /\ turn' = 1
    /\ current_time' = clock
    /\ real_time' = clock
    /\ UNCHANGED <<clock, queue, event, looped, should_run, alive, last>>

\* trigger_loop_events(), one node per step.
LoopBang ==
    /\ pc = "looping"
    /\ turn <= Len(looped)
    /\ pc' = "bang"
    /\ UNCHANGED <<timeVars, queue, event, looped, turn, should_run, alive, last>>

LoopBangReturn ==
    /\ pc = "bang"
    /\ pc' = "looping"
    /\ turn' = turn + 1
    /\ UNCHANGED <<timeVars, queue, event, looped, should_run, alive, last>>

LoopDone ==
    /\ pc = "looping"
    /\ turn > Len(looped)
    /\ pc' = "popping"
    /\ turn' = 0
    /\ UNCHANGED <<timeVars, queue, event, looped, should_run, alive, last>>

\* Mutant: the loop stops at an event that is due exactly now.
HeadIsPast == queue # <<>> /\ real_time > Head(queue).when

\* The condition of the while loop of pop_events().
HeadIsDue == queue # <<>> /\ real_time >= Head(queue).when

Trigger ==
    /\ pc = "popping"
    /\ HeadIsDue
    /\ pc' = "trigger"
    /\ event' = Head(queue)
    /\ current_time' = event'.when
    /\ last' = event'.when
    /\ UNCHANGED <<clock, real_time, queue, looped, turn, should_run, alive>>

\* Mutant: the local e outlives its iteration.
ReturnKeepsEvent ==
    /\ pc = "trigger"
    /\ pc' = "popping"
    /\ queue' = Pop(queue)
    /\ UNCHANGED <<timeVars, event, looped, turn, should_run, alive, last>>

\* Mutant: everything due at the instant of e is taken out with it.
ReturnClearsInstant ==
    /\ pc = "trigger"
    /\ pc' = "popping"
    /\ event' = NoEvent
    /\ queue' = SelectSeq(queue, LAMBDA e : e.when # event.when)
    /\ UNCHANGED <<timeVars, looped, turn, should_run, alive, last>>

\* The bang returns: delete e, then events_queue_.pop(), whatever is there.
TriggerReturn ==
    /\ pc = "trigger"
    /\ pc' = "popping"
    /\ event' = NoEvent
    /\ queue' = Pop(queue)
    /\ UNCHANGED <<timeVars, looped, turn, should_run, alive, last>>

\* End of pop_events() and unlock().
Unlock ==
    /\ pc = "popping"
    /\ ~HeadIsDue
    /\ pc' = "unlocked"
    /\ current_time' = real_time
    /\ UNCHANGED <<clock, real_time, queue, event, looped, turn, should_run,
                   alive, last>>

\* loop() returns should_run_, and start_worker calls it again or ends.
Continue ==
    /\ pc = "unlocked"
    /\ pc' = IF should_run THEN "sleep" ELSE "ended"
    /\ UNCHANGED <<timeVars, queue, event, looped, turn, should_run, alive, last>>

Round == \/ Wake \/ LoopBang \/ LoopBangReturn \/ LoopDone
         \/ Trigger \/ TriggerReturn \/ Unlock \/ Continue

Tick ==
    /\ clock < MaxTime
    /\ clock' = clock + 1
    /\ UNCHANGED <<current_time, real_time, threadVars, queue, looped,
                   should_run, alive, last>>

Init ==
    /\ clock = 0
    /\ current_time = 0
    /\ real_time = 0
    /\ pc = "off"
    /\ queue = <<>>
    /\ event = NoEvent
    /\ looped = <<>>
    /\ turn = 0
    /\ should_run = FALSE
    /\ alive = Node
    /\ last = 0

Next == Call \/ Start \/ Round \/ Tick

Spec == Init /\ [][Next]_vars

\* The scheduler runs the worker thread, a bang returns, time passes and main
\* starts the worker.  Nothing forces a node or a command to call.
FairSpec == Spec /\ WF_vars(Start) /\ WF_vars(Round) /\ WF_vars(Tick)

-----------------------------------------------------------------------------
(* Properties.                                                             *)

TypeOK ==
    /\ clock \in Time
    /\ current_time \in Time
    /\ real_time \in Time
    /\ pc \in {"off", "sleep", "looping", "bang", "popping", "trigger",
               "unlocked", "ended"}
    /\ queue \in Seq(Event)
    /\ event \in Event \cup {NoEvent}
    /\ looped \in Seq(Node)
    /\ turn \in Nat
    /\ should_run \in BOOLEAN
    /\ alive \in SUBSET Node
    /\ last \in Time
    /\ (event # NoEvent) <=> (pc = "trigger")

\* ordered_list.h:186 "kept sorted, the smallest being on top [...] only one
\* pointer to an object is stored": the queue is in order of time and an
\* event is in it once, whatever is registered from wherever.
QueueOrdered ==
    \A i, j \in DOMAIN queue :
        i < j => /\ queue[i].when <= queue[j].when
                 /\ queue[i].id # queue[j].id

\* pop_events leaves nothing behind and register_event lets nothing in that
\* is already due: while another thread can look, every event of the queue is
\* after the logical time.
NothingOverdue ==
    LockFree => \A i \in DOMAIN queue : queue[i].when > current_time

\* Triggers happen in order of time, across rounds and whatever the bangs
\* register on the way.
TriggersInOrder == [][last' >= last]_vars

\* ~Node (node.cpp:36): neither the queue nor the loop keeps a pointer to a
\* node that is destroyed.
NoDanglingNode ==
    /\ \A i \in DOMAIN queue : queue[i].node \in alive
    /\ \A i \in DOMAIN looped : looped[i] \in alive
    /\ pc = "trigger" => event.node \in alive

\* worker.h:152 "Trigger events with a time older or equal to the current
\* time": an event that leaves the queue was triggered, or removed for its
\* node by that node.
NoEventDropped ==
    [][\A e \in Queued \ Queued' :
          \/ TriggerReturn /\ e = event
          \/ RemoveMyEvents(e.node)
          \/ Destroy(e.node)]_vars

\* The agenda the worker implements: the page of an instant holds the events
\* of the queue that are due then, except the one being triggered.
Page == [t \in Time |-> Without(queue, {e \in Queued : e.when # t \/ e = event})]

Agenda == INSTANCE Calendar WITH Instant <- Time, page <- Page, running <- event

ImplementsCalendar == Agenda!CalendarSpec

\* While the worker runs, every event is triggered or removed in the end.
EveryEventServed ==
    \A id \in EventId :
        (\E e \in Queued : e.id = id)
            ~> (pc = "ended" \/ ~\E e \in Queued : e.id = id)

\* loop() holds the planet's lock for one round.  A bang may register events,
\* but none for the present instant, so the round cannot be kept going by the
\* events it triggers: the thread reaches unlock() and lets the others in.
RoundEnds == (pc = "looping") ~> LockFree
=============================================================================
