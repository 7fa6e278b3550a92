---------------------------- MODULE MetroProofs ----------------------------
(***************************************************************************)
(* Theorems about the metronomes: for any number of metros, any beats, any  *)
(* number of addresses for events and any bound of the clock, the queue is *)
(* what the worker needs it to be, a running metro bangs at regular         *)
(* intervals, and its next beat is in the queue.                           *)
(***************************************************************************)
EXTENDS Metro, WorkerProofs, FiniteSetTheorems

-----------------------------------------------------------------------------
(* The next beat.                                                          *)

LEMMA IntervalIs ==
    \A b \in Nat : /\ IntervalOf(b) \in Nat
                   /\ b >= MS => IntervalOf(b) > 0
BY DEF IntervalOf, MS

LEMMA ClampIs ==
    \A b \in Int : b > 0 => /\ Clamp(b) \in Nat
                            /\ b > MS => Clamp(b) = b
BY DEF Clamp, WORKER_SLEEP, MS

NextBeat(m, b) == [id     |-> CHOOSE id \in EventId : id \notin UsedId,
                   node   |-> m,
                   when   |-> current_time + IntervalOf(b),
                   forced |-> FALSE]

\* Is the next beat one that the worker takes?
Taken(b) == /\ current_time + IntervalOf(b) <= MaxTime
            /\ IntervalOf(b) > 0
            /\ should_run

LEMMA FreshId ==
    ASSUME CanAllocate
    PROVE  (CHOOSE id \in EventId : id \notin UsedId) \in EventId \ UsedId
<1>1. EventId \ UsedId # {}
  BY FS_EmptySet DEF CanAllocate
<1>2. QED
  BY <1>1

LEMMA NextBeatIs ==
    ASSUME TypeOK, CanAllocate, NEW m \in Node, NEW b \in Nat,
           current_time + IntervalOf(b) <= MaxTime
    PROVE  /\ NextBeat(m, b) \in Event
           /\ NextBeat(m, b).node = m
           /\ NextBeat(m, b).when = current_time + IntervalOf(b)
           /\ NextBeat(m, b) # event
           /\ NextBeat(m, b) \notin Queued
           /\ \A e \in Queued : e.id # NextBeat(m, b).id
<1> DEFINE id == CHOOSE i \in EventId : i \notin UsedId
<1>1. id \in EventId \ UsedId
  BY FreshId
<1> HIDE DEF id
<1>2. /\ NextBeat(m, b) = [id |-> id, node |-> m,
                           when |-> current_time + IntervalOf(b), forced |-> FALSE]
  BY DEF NextBeat, id
<1>3. current_time + IntervalOf(b) \in Time
  <2>1. current_time \in Nat /\ IntervalOf(b) \in Nat /\ MaxTime \in Nat
    BY IntervalIs, MaxTimeAssumption DEF TypeOK, Time
  <2>2. QED
    BY <2>1 DEF Time
<1>4. /\ NextBeat(m, b) \in Event
      /\ NextBeat(m, b).id = id
  BY <1>1, <1>2, <1>3 DEF Event
<1>5. event # NoEvent => id # event.id
  BY <1>1 DEF UsedId
<1>6. \A e \in Queued : e.id # id
  BY <1>1 DEF UsedId
<1>7. NextBeat(m, b) # event
  BY <1>4, <1>5, NoEventAssumption
<1>8. QED
  BY <1>2, <1>4, <1>6, <1>7

\* bang_me_in(ONE_MINUTE / tempo_) on a queue that fits.
LEMMA ScheduleFits ==
    ASSUME IInv, CanAllocate, NEW q, NEW living, Fits(q, living),
           ToSet(q) \subseteq Queued,
           NEW m \in Node, m \in living, NEW b \in Nat
    PROVE  /\ Fits(ScheduleBeat(q, m, b), living)
           /\ ToSet(ScheduleBeat(q, m, b)) =
                 IF Taken(b) THEN ToSet(q) \cup {NextBeat(m, b)} ELSE ToSet(q)
<1> DEFINE e == NextBeat(m, b)
<1>1. CASE current_time + IntervalOf(b) > MaxTime
  <2>1. ScheduleBeat(q, m, b) = q
    BY <1>1 DEF ScheduleBeat
  <2>2. ~Taken(b)
    BY <1>1, IntervalIs, MaxTimeAssumption DEF Taken, IInv, TypeOK, Time
  <2>3. QED
    BY <2>1, <2>2
<1>2. CASE ~(current_time + IntervalOf(b) > MaxTime)
  <2>1. current_time \in Nat /\ IntervalOf(b) \in Nat /\ MaxTime \in Nat
    BY IntervalIs, MaxTimeAssumption DEF IInv, TypeOK, Time
  <2>2. current_time + IntervalOf(b) <= MaxTime
    BY <1>2, <2>1
  <2>3. ScheduleBeat(q, m, b) = RegisterEvent(q, e)
    BY <1>2 DEF ScheduleBeat, NextBeat
  <2>4. /\ e \in Event /\ e.node = m /\ e # event
        /\ e.when = current_time + IntervalOf(b)
        /\ \A f \in ToSet(q) : f.id # e.id
    BY <2>2, NextBeatIs DEF IInv
  <2>5. e.forced = FALSE
    BY DEF NextBeat
  <2> HIDE DEF e
  <2>6. Fits(RegisterEvent(q, e), living)
    BY <2>4, RegisterFits
  <2>7. ~Missed(e) /\ (should_run \/ e.forced) <=> Taken(b)
    BY <2>1, <2>2, <2>4, <2>5 DEF Missed, Taken
  <2>8. ToSet(RegisterEvent(q, e)) =
           IF Taken(b) THEN ToSet(q) \cup {e} ELSE ToSet(q)
    BY <2>4, <2>7, RegisteredEvents DEF Fits
  <2>9. QED
    BY <2>3, <2>6, <2>8 DEF e
<1>3. QED
  BY <1>1, <1>2

-----------------------------------------------------------------------------
(* The metros keep the invariant of the worker.                            *)

MetroInv == IInv /\ RunningFirst /\ MetroTypeOK

LEMMA MetroInitEstablishes == MetroInit => MetroInv
<1> SUFFICES ASSUME MetroInit PROVE MetroInv
  OBVIOUS
<1>1. /\ queue = <<>> /\ queue \in Seq(Event) /\ DOMAIN queue = {}
      /\ looped = <<>> /\ looped \in Seq(Node) /\ DOMAIN looped = {}
  BY DEF MetroInit
<1>2. 0 \in Time /\ 0 \in Nat
  BY MaxTimeAssumption DEF Time
<1>3. TypeOK
  BY <1>1, <1>2 DEF MetroInit, TypeOK
<1>4. QueueOrdered /\ NothingOverdue /\ QueueAfterLast
  BY <1>1 DEF QueueOrdered, NothingOverdue, QueueAfterLast
<1>5. NoDanglingNode /\ LoopedOnce
  BY <1>1 DEF MetroInit, NoDanglingNode, LoopedOnce
<1>6. TimesOrdered /\ TriggerTimes /\ RunningFirst
  BY DEF MetroInit, TimesOrdered, TriggerTimes, RunningFirst
<1>7. MetroTypeOK
  BY <1>2, <1>3, BeatAssumption DEF MetroInit, MetroTypeOK
<1>8. QED
  BY <1>3, <1>4, <1>5, <1>6, <1>7 DEF MetroInv, IInv

\* What the calls have in common: the worker's variables they leave alone.
Untouched == UNCHANGED <<clock, current_time, real_time, pc, event, turn, looped,
                         should_run, last>>

\* What each call does to the queue: MetroInv and a set of events.
LEMMA CreateEffect ==
    ASSUME MetroInv, NEW m \in Node, Create(m)
    PROVE  /\ MetroInv' /\ Untouched /\ LockFree
           /\ Queued' = IF Taken(DefaultBeat) THEN Queued \cup {NextBeat(m, DefaultBeat)}
                        ELSE Queued
<1> USE DEF MetroInv
<1>1. /\ Untouched /\ LockFree /\ CanAllocate
      /\ alive' = alive \cup {m}
      /\ queue' = ScheduleBeat(queue, m, DefaultBeat)
      /\ UNCHANGED banged
  BY DEF Create, Untouched, timeVars, threadVars
<1>2. Fits(queue, alive) /\ alive \in SUBSET Node
  BY QueueFits DEF IInv, TypeOK
<1>3. Fits(queue, alive')
  BY <1>1, <1>2 DEF Fits
<1>4. /\ Fits(queue', alive')
      /\ ToSet(queue') = IF Taken(DefaultBeat)
                         THEN Queued \cup {NextBeat(m, DefaultBeat)} ELSE Queued
  <2>1. DefaultBeat \in Nat /\ m \in alive' /\ ToSet(queue) \subseteq Queued
    BY <1>1, BeatAssumption DEF Queued
  <2>2. QED
    BY <1>1, <1>3, <2>1, ScheduleFits DEF Queued
<1>5. /\ alive' \in SUBSET Node
      /\ pc = "trigger" => event.node \in alive'
      /\ \A i \in DOMAIN looped : looped[i] \in alive'
  BY <1>1, <1>2 DEF IInv, NoDanglingNode
<1>6. IInv' /\ RunningFirst'
  BY <1>1, <1>4, <1>5, FittingCall DEF Untouched
<1>7. MetroTypeOK'
  <2>1. run' \in [Node -> BOOLEAN] /\ beat' \in [Node -> Nat] /\ tick' \in [Node -> Time]
    BY BeatAssumption DEF Create, MetroTypeOK, TypeOK
  <2>2. QED
    BY <1>1, <1>6, <2>1 DEF MetroTypeOK, IInv, Untouched
<1>8. QED
  BY <1>1, <1>4, <1>6, <1>7 DEF Queued

LEMMA MethodEffect ==
    ASSUME MetroInv, Untouched, UNCHANGED <<alive, banged>>, Fits(queue', alive),
           run' \in [Node -> BOOLEAN], beat' \in [Node -> Nat], tick' \in [Node -> Time]
    PROVE  MetroInv'
<1> USE DEF MetroInv
<1>1. /\ alive' \in SUBSET Node /\ Fits(queue', alive')
      /\ pc = "trigger" => event.node \in alive'
      /\ \A i \in DOMAIN looped : looped[i] \in alive'
  BY DEF IInv, TypeOK, NoDanglingNode
<1>2. IInv' /\ RunningFirst'
  BY <1>1, FittingCall DEF Untouched
<1>3. QED
  BY <1>2 DEF MetroTypeOK, IInv, Untouched

LEMMA StartEffect ==
    ASSUME MetroInv, NEW m \in Node, StartMetro(m)
    PROVE  /\ MetroInv' /\ Untouched
           /\ Queued' = IF ~run[m] /\ Taken(beat[m])
                        THEN Queued \cup {NextBeat(m, beat[m])} ELSE Queued
<1> USE DEF MetroInv
<1>1. /\ Untouched /\ CanAllocate /\ m \in alive
      /\ UNCHANGED <<alive, banged, beat>>
      /\ run' = [run EXCEPT ![m] = TRUE]
      /\ IF run[m] THEN UNCHANGED <<queue, tick>>
                   ELSE /\ queue' = ScheduleBeat(queue, m, beat[m])
                        /\ tick' = [tick EXCEPT ![m] = current_time]
  BY DEF StartMetro, CallMethod, CanCall, Untouched, timeVars, threadVars
<1>2. Fits(queue, alive) /\ beat[m] \in Nat /\ ToSet(queue) \subseteq Queued
  BY QueueFits DEF MetroTypeOK, Queued
<1>3. /\ Fits(queue', alive)
      /\ ToSet(queue') = IF ~run[m] /\ Taken(beat[m])
                         THEN Queued \cup {NextBeat(m, beat[m])} ELSE Queued
  BY <1>1, <1>2, ScheduleFits DEF Queued
<1>4. run' \in [Node -> BOOLEAN] /\ beat' \in [Node -> Nat] /\ tick' \in [Node -> Time]
  BY <1>1 DEF MetroTypeOK, TypeOK
<1>5. MetroInv'
  BY <1>1, <1>3, <1>4, MethodEffect
<1>6. QED
  BY <1>1, <1>3, <1>5 DEF Queued

LEMMA StopEffect ==
    ASSUME MetroInv, NEW m \in Node, StopMetro(m)
    PROVE  /\ MetroInv' /\ Untouched
           /\ Queued' = {e \in Queued : e.node # m}
<1> USE DEF MetroInv
<1>1. /\ Untouched
      /\ UNCHANGED <<alive, banged, beat, tick>>
      /\ run' = [run EXCEPT ![m] = FALSE]
      /\ queue' = FreeEventsFor(queue, m)
  BY DEF StopMetro, Untouched, timeVars, threadVars
<1>2. Fits(queue', alive)
  <2>1. Fits(queue', alive \ {m})
    BY <1>1, QueueFits, FreeFits
  <2>2. QED
    BY <2>1 DEF Fits
<1>3. ToSet(queue') = {e \in Queued : e.node # m}
  BY <1>1, FreedEvents DEF IInv, TypeOK, Queued
<1>4. run' \in [Node -> BOOLEAN] /\ beat' \in [Node -> Nat] /\ tick' \in [Node -> Time]
  BY <1>1 DEF MetroTypeOK
<1>5. MetroInv'
  BY <1>1, <1>2, <1>4, MethodEffect
<1>6. QED
  BY <1>1, <1>3, <1>5 DEF Queued

LEMMA TempoEffect ==
    ASSUME MetroInv, NEW m \in Node, NEW b \in Beat, Tempo(m, b)
    PROVE  /\ MetroInv' /\ Untouched
           /\ Clamp(b) \in Nat
           /\ Queued' = IF run[m] /\ Taken(Clamp(b))
                        THEN {e \in Queued : e.node # m} \cup {NextBeat(m, Clamp(b))}
                        ELSE {e \in Queued : e.node # m}
<1> USE DEF MetroInv
<1> DEFINE cleared == FreeEventsFor(queue, m)
<1>1. /\ Untouched /\ CanAllocate /\ m \in alive
      /\ UNCHANGED <<alive, banged, run>>
      /\ beat' = [beat EXCEPT ![m] = Clamp(b)]
      /\ queue' = IF run[m] THEN ScheduleBeat(cleared, m, Clamp(b)) ELSE cleared
      /\ tick' = IF run[m] THEN [tick EXCEPT ![m] = current_time] ELSE tick
      /\ b > 0
  BY DEF Tempo, CallMethod, CanCall, Untouched, timeVars, threadVars
<1>2. Clamp(b) \in Nat
  BY <1>1, BeatAssumption, ClampIs
<1>3. Fits(cleared, alive)
  <2>1. Fits(cleared, alive \ {m})
    BY QueueFits, FreeFits
  <2>2. QED
    BY <2>1 DEF Fits
<1>4. ToSet(cleared) = {e \in Queued : e.node # m}
  BY FreedEvents DEF IInv, TypeOK, Queued
<1> HIDE DEF cleared
<1>5. /\ Fits(queue', alive)
      /\ ToSet(queue') = IF run[m] /\ Taken(Clamp(b))
                         THEN ToSet(cleared) \cup {NextBeat(m, Clamp(b))}
                         ELSE ToSet(cleared)
  <2>1. ToSet(cleared) \subseteq Queued
    BY <1>4
  <2>2. QED
    BY <1>1, <1>2, <1>3, <2>1, ScheduleFits
<1>6. run' \in [Node -> BOOLEAN] /\ beat' \in [Node -> Nat] /\ tick' \in [Node -> Time]
  BY <1>1, <1>2 DEF MetroTypeOK, TypeOK
<1>7. MetroInv'
  BY <1>1, <1>5, <1>6, MethodEffect
<1>8. QED
  BY <1>1, <1>2, <1>4, <1>5, <1>7 DEF Queued

LEMMA DestroyEffect ==
    ASSUME MetroInv, NEW m \in Node, DestroyMetro(m)
    PROVE  /\ MetroInv' /\ LockFree
           /\ UNCHANGED <<clock, current_time, real_time, pc, event, should_run, last>>
           /\ Queued' = {e \in Queued : e.node # m}
<1> USE DEF MetroInv
<1>1. /\ Destroy(m) /\ LockFree
      /\ UNCHANGED <<clock, current_time, real_time, pc, event, should_run, last,
                     beat, banged, tick>>
      /\ run' = [run EXCEPT ![m] = FALSE]
      /\ queue' = FreeEventsFor(queue, m)
  BY DEF DestroyMetro, Destroy, timeVars, threadVars
<1>2. IInv'
  BY <1>1, DestroyPreserves
<1>3. RunningFirst'
  BY <1>1 DEF RunningFirst, LockFree
<1>4. MetroTypeOK'
  BY <1>1, <1>2 DEF MetroTypeOK, IInv
<1>5. ToSet(queue') = {e \in Queued : e.node # m}
  BY <1>1, FreedEvents DEF IInv, TypeOK, Queued
<1>6. QED
  BY <1>1, <1>2, <1>3, <1>4, <1>5 DEF Queued

LEMMA BangEffect ==
    ASSUME MetroInv, Bang
    PROVE  /\ MetroInv' /\ Untouched
           /\ event \in Event /\ event.node \in alive /\ event.node \in Node
           /\ beat[event.node] \in Nat
           /\ Queued' = IF run[event.node] /\ Taken(beat[event.node])
                        THEN Queued \cup {NextBeat(event.node, beat[event.node])}
                        ELSE Queued
<1> USE DEF MetroInv
<1> DEFINE m == event.node
<1>1. /\ Untouched /\ UNCHANGED <<alive, run, beat>>
      /\ pc = "trigger" /\ banged' = TRUE
      /\ run[m] => CanAllocate
      /\ queue' = IF run[m] THEN ScheduleBeat(queue, m, beat[m]) ELSE queue
      /\ tick' = IF run[m] THEN [tick EXCEPT ![m] = current_time] ELSE tick
  BY DEF Bang, Untouched, timeVars, threadVars
<1>2. event \in Event /\ m \in alive /\ m \in Node
  BY <1>1, EventFields DEF IInv, TypeOK, NoDanglingNode
<1> HIDE DEF m
<1>3. Fits(queue, alive) /\ beat[m] \in Nat /\ ToSet(queue) \subseteq Queued
  BY <1>2, QueueFits DEF MetroTypeOK, Queued
<1>4. /\ Fits(queue', alive)
      /\ ToSet(queue') = IF run[m] /\ Taken(beat[m])
                         THEN Queued \cup {NextBeat(m, beat[m])} ELSE Queued
  BY <1>1, <1>2, <1>3, ScheduleFits DEF Queued
<1>5. run' \in [Node -> BOOLEAN] /\ beat' \in [Node -> Nat] /\ tick' \in [Node -> Time]
  BY <1>1 DEF MetroTypeOK, IInv, TypeOK
<1>6. /\ alive' \in SUBSET Node /\ Fits(queue', alive')
      /\ pc = "trigger" => event.node \in alive'
      /\ \A i \in DOMAIN looped : looped[i] \in alive'
  BY <1>1, <1>4 DEF IInv, TypeOK, NoDanglingNode
<1>7. IInv' /\ RunningFirst'
  BY <1>1, <1>6, FittingCall DEF Untouched
<1>8. MetroInv'
  BY <1>1, <1>5, <1>7 DEF MetroTypeOK, IInv, Untouched
<1>9. QED
  BY <1>1, <1>2, <1>3, <1>4, <1>8 DEF Queued, m

\* The pop after the bang takes the running event out, if it is there.
LEMMA BangReturnEffect ==
    ASSUME MetroInv, BangReturn
    PROVE  /\ MetroInv'
           /\ Queued' \subseteq Queued \ {event}
           /\ event \in Queued => Queued' = Queued \ {event}
<1> USE DEF MetroInv
<1>1. /\ pc = "trigger" /\ pc' = "popping" /\ event' = NoEvent
      /\ queue' = Pop(queue)
      /\ UNCHANGED <<clock, current_time, real_time, turn, looped, should_run,
                     alive, last, run, beat, tick>>
      /\ banged' = FALSE
  BY DEF BangReturn, TriggerReturn, timeVars
<1>2. Fits(queue', alive) /\ event \notin ToSet(queue')
  BY <1>1, QueueFits, PopFits
<1>3. IInv' /\ RunningFirst'
  BY <1>1, <1>2, FittingReturn
<1>4. MetroInv'
  BY <1>1, <1>3 DEF MetroTypeOK, IInv
<1>5. queue \in Seq(Event) /\ Ordered(queue)
  BY DEF IInv, TypeOK, QueueOrdered, Ordered
<1>6. /\ queue = <<>> => ToSet(queue') = {}
      /\ queue # <<>> => ToSet(queue') = ToSet(queue) \ {queue[1]}
  BY <1>1, <1>5, PoppedEvents
<1>7. event \in ToSet(queue) => queue # <<>> /\ event = queue[1]
  BY <1>1, <1>5, HeadOfEvents DEF RunningFirst, AtMostHead, ToSet
<1>8. QED
  BY <1>2, <1>4, <1>6, <1>7 DEF Queued

LEMMA ThreadEffect ==
    ASSUME MetroInv, ThreadStep \/ ((Start \/ Quit \/ Tick) /\ UNCHANGED metroVars)
    PROVE  /\ MetroInv'
           /\ UNCHANGED <<queue, alive, run, beat, banged, tick>>
<1> USE DEF MetroInv
<1>1. /\ Start \/ Wake \/ LoopDone \/ Trigger \/ Unlock \/ Continue \/ Quit \/ Tick
      /\ UNCHANGED metroVars
  BY DEF ThreadStep
<1>2. IInv' /\ RunningFirst'
  BY <1>1, ThreadKeepsRunningFirst
<1>3. UNCHANGED <<queue, alive>> /\ (pc = "trigger" => pc' = "trigger")
  BY <1>1 DEF Start, Wake, LoopDone, Trigger, Unlock, Continue, Quit, Tick, threadVars
<1>4. QED
  BY <1>1, <1>2, <1>3 DEF MetroTypeOK, IInv, metroVars

LEMMA TempoOffEffect ==
    ASSUME MetroInv, NEW m \in Node, TempoOff(m)
    PROVE  /\ MetroInv' /\ Untouched
           /\ UNCHANGED <<queue, alive, beat, banged, tick>>
<1> USE DEF MetroInv
<1>1. /\ Untouched /\ UNCHANGED <<queue, alive, beat, banged, tick>>
      /\ run' = [run EXCEPT ![m] = FALSE]
  BY DEF TempoOff, Untouched, timeVars, threadVars
<1>2. Fits(queue', alive)
  BY <1>1, QueueFits
<1>3. run' \in [Node -> BOOLEAN] /\ beat' \in [Node -> Nat] /\ tick' \in [Node -> Time]
  BY <1>1 DEF MetroTypeOK
<1>4. QED
  BY <1>1, <1>2, <1>3, MethodEffect

LEMMA StutterMetro ==
    ASSUME MetroInv, UNCHANGED <<vars, metroVars>>
    PROVE  MetroInv'
<1>1. IInv'
  BY NextPreserves DEF MetroInv, vars
<1>2. RunningFirst' /\ MetroTypeOK'
  BY DEF MetroInv, RunningFirst, MetroTypeOK, TypeOK, vars, metroVars
<1>3. QED
  BY <1>1, <1>2 DEF MetroInv

LEMMA MetroNextPreserves == MetroInv /\ [MetroNext]_<<vars, metroVars>> => MetroInv'
<1> SUFFICES ASSUME MetroInv, [MetroNext]_<<vars, metroVars>> PROVE MetroInv'
  OBVIOUS
<1>1. CASE MetroCall
  BY <1>1, CreateEffect, StartEffect, StopEffect, TempoEffect, TempoOffEffect,
     DestroyEffect DEF MetroCall
<1>2. CASE Bang
  BY <1>2, BangEffect
<1>3. CASE BangReturn
  BY <1>3, BangReturnEffect
<1>4. CASE ThreadStep \/ ((Start \/ Quit \/ Tick) /\ UNCHANGED metroVars)
  BY <1>4, ThreadEffect
<1>5. CASE UNCHANGED <<vars, metroVars>>
  BY <1>5, StutterMetro
<1>6. QED
  BY <1>1, <1>2, <1>3, <1>4, <1>5 DEF MetroNext

\* Every state that metros can reach satisfies the invariant of the worker.
THEOREM MetroInvariance == MetroSpec => []MetroInv
<1>1. MetroInit => MetroInv
  BY MetroInitEstablishes
<1>2. MetroInv /\ [MetroNext]_<<vars, metroVars>> => MetroInv'
  BY MetroNextPreserves
<1>3. QED
  BY <1>1, <1>2, PTL DEF MetroSpec

\* The fields of the metros and the variables of their worker keep their types.
THEOREM MetroTypeCorrect == MetroSpec => []MetroTypeOK
<1>1. MetroInv => MetroTypeOK
  BY DEF MetroInv
<1>2. QED
  BY <1>1, MetroInvariance, PTL

\* What is proved of a worker with unrestricted nodes holds for metros that are
\* created and deleted while it runs: the queue is sorted, nothing is overdue
\* while others can look, and no pointer to a deleted metro is left.
THEOREM MetrosKeepTheQueue ==
    MetroSpec => [](QueueOrdered /\ NothingOverdue /\ NoDanglingNode)
<1>1. MetroInv => QueueOrdered /\ NothingOverdue /\ NoDanglingNode
  BY DEF MetroInv, IInv
<1>2. QED
  BY <1>1, MetroInvariance, PTL

-----------------------------------------------------------------------------
(* Regular beats.                                                          *)

\* The events that are still to bang: the one whose bang is under way is not.
Ahead == IF banged THEN Queued \ {event} ELSE Queued

\* An event ahead is the next beat of a metro that runs, one beat after its
\* latest bang, and the only one of that metro.
OneBeat ==
    /\ \A e \in Ahead : /\ run[e.node]
                        /\ e.when = tick[e.node] + IntervalOf(beat[e.node])
    /\ \A e, f \in Ahead : e.node = f.node => e = f

\* Between the choice of an event and its bang nobody can remove it.
ChosenIsQueued == pc = "trigger" /\ ~banged => event \in Queued

LEMMA QueuedNodes ==
    ASSUME MetroInv
    PROVE  /\ Queued \subseteq Event
           /\ \A e \in Queued : e.node \in alive /\ e.node \in Node
<1>1. queue \in Seq(Event) /\ \A i \in DOMAIN queue : queue[i].node \in alive
  BY DEF MetroInv, IInv, TypeOK, NoDanglingNode
<1>2. QED
  BY <1>1, ElementsOf, EventFields DEF Queued, ToSet

\* A method of m replaces what m has ahead by at most one event, which fits.
LEMMA OneBeatKept ==
    ASSUME MetroInv, OneBeat, NEW m \in Node, NEW fresh,
           Ahead' \subseteq {e \in Ahead : e.node # m} \cup fresh,
           \A x, y \in fresh : x = y,
           \A x \in fresh : /\ x.node = m
                            /\ run'[m]
                            /\ x.when = tick'[m] + IntervalOf(beat'[m]),
           \A k \in Node : k # m => /\ run'[k] = run[k]
                                    /\ tick'[k] = tick[k]
                                    /\ beat'[k] = beat[k]
    PROVE  OneBeat'
<1>1. \A e \in Ahead : e.node \in Node
  BY QueuedNodes DEF Ahead
<1>2. \A e \in Ahead' : /\ run'[e.node]
                        /\ e.when = tick'[e.node] + IntervalOf(beat'[e.node])
  <2> SUFFICES ASSUME NEW e \in Ahead'
               PROVE  /\ run'[e.node]
                      /\ e.when = tick'[e.node] + IntervalOf(beat'[e.node])
    OBVIOUS
  <2>1. CASE e \in fresh
    BY <2>1
  <2>2. CASE e \in Ahead /\ e.node # m
    BY <1>1, <2>2 DEF OneBeat
  <2>3. QED
    BY <2>1, <2>2
<1>3. \A e, f \in Ahead' : e.node = f.node => e = f
  BY DEF OneBeat
<1>4. \A b, c : b = c => IntervalOf(b) = IntervalOf(c)
  OBVIOUS
<1>5. QED
  BY <1>2, <1>3 DEF OneBeat

LEMMA OneBeatFewer ==
    ASSUME OneBeat, Ahead' \subseteq Ahead, UNCHANGED <<run, tick, beat>>
    PROVE  OneBeat'
BY DEF OneBeat, IntervalOf

\* At most one event, when the worker takes it.
Fresh(m, b) == IF Taken(b) THEN {NextBeat(m, b)} ELSE {}

LEMMA FreshProperties ==
    ASSUME MetroInv, CanAllocate, NEW m \in Node, NEW b \in Nat
    PROVE  /\ \A x, y \in Fresh(m, b) : x = y
           /\ \A x \in Fresh(m, b) : /\ x.node = m
                                     /\ x.when = current_time + IntervalOf(b)
                                     /\ x # event
BY NextBeatIs DEF Fresh, Taken, MetroInv, IInv

RegularInv == MetroInv /\ OneBeat /\ ChosenIsQueued

LEMMA CallIsRegular ==
    ASSUME \A b \in Beat : b > 0, RegularInv, MetroCall
    PROVE  RegularInv'
<1> USE DEF RegularInv
<1>1. PICK m \in Node : \/ Create(m) \/ StartMetro(m) \/ StopMetro(m)
                        \/ TempoOff(m) \/ DestroyMetro(m)
                        \/ \E b \in Beat : Tempo(m, b)
  BY DEF MetroCall
<1>2. ~TempoOff(m)
  BY BeatAssumption DEF TempoOff
<1>3. MetroInv'
  BY <1>1, <1>2, CreateEffect, StartEffect, StopEffect, TempoEffect, DestroyEffect
<1>4. UNCHANGED <<pc, event, banged>> /\ (pc = "trigger" => banged)
  BY <1>1, <1>2 DEF Create, StartMetro, StopMetro, DestroyMetro, Destroy, Tempo,
                    CallMethod, LockFree, timeVars, threadVars
<1>5. ChosenIsQueued'
  BY <1>4 DEF ChosenIsQueued
<1>6. /\ run \in [Node -> BOOLEAN] /\ tick \in [Node -> Time] /\ beat \in [Node -> Nat]
      /\ LockFree => ~banged
  BY DEF MetroInv, MetroTypeOK, LockFree
<1>7. CASE Create(m)
  <2>1. /\ Queued' = IF Taken(DefaultBeat) THEN Queued \cup {NextBeat(m, DefaultBeat)}
                     ELSE Queued
        /\ LockFree
    BY <1>7, CreateEffect
  <2>2. Ahead' \subseteq {e \in Ahead : e.node # m} \cup Fresh(m, DefaultBeat)
    BY <1>4, <1>6, <1>7, <2>1, QueuedNodes DEF Ahead, Fresh, Create
  <2>3. /\ run' = [run EXCEPT ![m] = TRUE]
        /\ beat' = [beat EXCEPT ![m] = DefaultBeat]
        /\ tick' = [tick EXCEPT ![m] = current_time]
        /\ CanAllocate /\ DefaultBeat \in Nat
    BY <1>7, BeatAssumption DEF Create
  <2>4. \A x, y \in Fresh(m, DefaultBeat) : x = y
    BY <2>3, FreshProperties
  <2>5. \A x \in Fresh(m, DefaultBeat) :
           x.node = m /\ run'[m] /\ x.when = tick'[m] + IntervalOf(beat'[m])
    BY <1>6, <2>3, FreshProperties
  <2>6. \A k \in Node : k # m => /\ run'[k] = run[k]
                                 /\ tick'[k] = tick[k]
                                 /\ beat'[k] = beat[k]
    BY <1>6, <2>3
  <2>7. OneBeat'
    BY <2>2, <2>4, <2>5, <2>6, OneBeatKept
  <2>8. QED
    BY <1>3, <1>5, <2>7
<1>8. CASE StartMetro(m)
  <2>1. /\ Queued' = IF ~run[m] /\ Taken(beat[m])
                     THEN Queued \cup {NextBeat(m, beat[m])} ELSE Queued
        /\ run' = [run EXCEPT ![m] = TRUE]
        /\ UNCHANGED beat /\ CanAllocate
        /\ run[m] => UNCHANGED tick
        /\ ~run[m] => tick' = [tick EXCEPT ![m] = current_time]
    BY <1>8, StartEffect DEF StartMetro
  <2>2. CASE run[m]
    <3>1. UNCHANGED <<run, tick, beat>>
      BY <1>6, <2>1, <2>2
    <3>2. Ahead' \subseteq Ahead
      BY <1>4, <2>1, <2>2 DEF Ahead
    <3>3. QED
      BY <1>3, <1>5, <3>1, <3>2, OneBeatFewer
  <2>3. CASE ~run[m]
    <3>1. Ahead' \subseteq {e \in Ahead : e.node # m} \cup Fresh(m, beat[m])
      <4>1. \A e \in Ahead : e.node # m
        BY <2>3 DEF OneBeat
      <4>2. QED
        BY <1>4, <2>1, <2>3, <4>1 DEF Ahead, Fresh
    <3>2. \A x, y \in Fresh(m, beat[m]) : x = y
      BY <1>6, <2>1, FreshProperties
    <3>3. \A x \in Fresh(m, beat[m]) :
             x.node = m /\ run'[m] /\ x.when = tick'[m] + IntervalOf(beat'[m])
      BY <1>6, <2>1, <2>3, FreshProperties
    <3>4. \A k \in Node : k # m => /\ run'[k] = run[k]
                                   /\ tick'[k] = tick[k]
                                   /\ beat'[k] = beat[k]
      BY <1>6, <2>1, <2>3
    <3>5. OneBeat'
      BY <3>1, <3>2, <3>3, <3>4, OneBeatKept
    <3>6. QED
      BY <1>3, <1>5, <3>5
  <2>4. QED
    BY <2>2, <2>3
<1>9. CASE StopMetro(m) \/ DestroyMetro(m)
  <2>1. /\ Queued' = {e \in Queued : e.node # m}
        /\ run' = [run EXCEPT ![m] = FALSE]
        /\ UNCHANGED <<beat, tick>>
    BY <1>9, StopEffect, DestroyEffect DEF StopMetro, DestroyMetro
  <2> DEFINE none == {}
  <2>2. /\ Ahead' \subseteq {e \in Ahead : e.node # m} \cup none
        /\ \A x \in none : FALSE
    BY <1>4, <2>1 DEF Ahead
  <2>3. \A k \in Node : k # m => /\ run'[k] = run[k]
                                 /\ tick'[k] = tick[k]
                                 /\ beat'[k] = beat[k]
    BY <1>6, <2>1
  <2> HIDE DEF none
  <2>4. OneBeat'
    BY <2>2, <2>3, OneBeatKept
  <2>5. QED
    BY <1>3, <1>5, <2>4
<1>10. ASSUME NEW b \in Beat, Tempo(m, b)
       PROVE  RegularInv'
  <2>1. /\ Clamp(b) \in Nat
        /\ Queued' = IF run[m] /\ Taken(Clamp(b))
                     THEN {e \in Queued : e.node # m} \cup {NextBeat(m, Clamp(b))}
                     ELSE {e \in Queued : e.node # m}
        /\ beat' = [beat EXCEPT ![m] = Clamp(b)]
        /\ tick' = IF run[m] THEN [tick EXCEPT ![m] = current_time] ELSE tick
        /\ UNCHANGED run /\ CanAllocate
    BY <1>10, TempoEffect DEF Tempo
  <2> DEFINE fresh == IF run[m] THEN Fresh(m, Clamp(b)) ELSE {}
  <2>2. Ahead' \subseteq {e \in Ahead : e.node # m} \cup fresh
    BY <1>4, <2>1 DEF Ahead, Fresh
  <2>3. \A x, y \in fresh : x = y
    BY <2>1, FreshProperties
  <2>4. \A x \in fresh :
           x.node = m /\ run'[m] /\ x.when = tick'[m] + IntervalOf(beat'[m])
    BY <1>6, <2>1, FreshProperties
  <2>5. \A k \in Node : k # m => /\ run'[k] = run[k]
                                 /\ tick'[k] = tick[k]
                                 /\ beat'[k] = beat[k]
    BY <1>6, <2>1
  <2> HIDE DEF fresh
  <2>6. OneBeat'
    BY <2>2, <2>3, <2>4, <2>5, OneBeatKept
  <2>7. QED
    BY <1>3, <1>5, <2>6
<1>11. QED
  BY <1>1, <1>2, <1>7, <1>8, <1>9, <1>10

LEMMA BangIsRegular ==
    ASSUME RegularInv, Bang
    PROVE  RegularInv'
<1> USE DEF RegularInv
<1> DEFINE m == event.node
<1>1. /\ MetroInv'
      /\ m \in Node /\ beat[m] \in Nat
      /\ Queued' = IF run[m] /\ Taken(beat[m])
                   THEN Queued \cup {NextBeat(m, beat[m])} ELSE Queued
      /\ UNCHANGED <<pc, event, run, beat>> /\ pc = "trigger"
      /\ ~banged /\ banged'
      /\ run[m] => CanAllocate
      /\ tick' = IF run[m] THEN [tick EXCEPT ![m] = current_time] ELSE tick
  BY BangEffect DEF Bang, Untouched
<1>2. event \in Ahead /\ Ahead = Queued
  BY <1>1 DEF ChosenIsQueued, Ahead
<1>3. run[m] /\ \A e \in Ahead : e # event => e.node # m
  BY <1>2 DEF OneBeat
<1>4. run \in [Node -> BOOLEAN] /\ tick \in [Node -> Time] /\ beat \in [Node -> Nat]
  BY DEF MetroInv, MetroTypeOK
<1> HIDE DEF m
<1>5. Ahead' \subseteq {e \in Ahead : e.node # m} \cup Fresh(m, beat[m])
  BY <1>1, <1>2, <1>3 DEF Ahead, Fresh
<1>6. \A x, y \in Fresh(m, beat[m]) : x = y
  BY <1>1, <1>3, FreshProperties
<1>7. \A x \in Fresh(m, beat[m]) :
         x.node = m /\ run'[m] /\ x.when = tick'[m] + IntervalOf(beat'[m])
  BY <1>1, <1>3, <1>4, FreshProperties
<1>8. \A k \in Node : k # m => /\ run'[k] = run[k]
                               /\ tick'[k] = tick[k]
                               /\ beat'[k] = beat[k]
  BY <1>1, <1>3, <1>4
<1>9. OneBeat'
  BY <1>1, <1>5, <1>6, <1>7, <1>8, OneBeatKept
<1>10. ChosenIsQueued'
  BY <1>1 DEF ChosenIsQueued
<1>11. QED
  BY <1>1, <1>9, <1>10

\* The steps of the thread, the clock and the planet: nothing moves.
LEMMA ThreadKeepsAhead ==
    ASSUME MetroInv, ThreadStep \/ ((Start \/ Quit \/ Tick) /\ UNCHANGED metroVars)
    PROVE  /\ Ahead' = Ahead
           /\ \/ pc' # "trigger"
              \/ event' \in Queued'
              \/ UNCHANGED <<pc, event, banged, queue>>
<1>1. /\ Start \/ Wake \/ LoopDone \/ Trigger \/ Unlock \/ Continue \/ Quit \/ Tick
      /\ UNCHANGED <<queue, banged>>
  BY ThreadEffect DEF ThreadStep
<1>2. banged => pc = "trigger"
  BY DEF MetroInv, MetroTypeOK
<1>3. CASE Trigger
  <2>1. /\ queue \in Seq(Event) /\ queue # <<>> /\ event' = Head(queue)
        /\ pc = "popping"
    BY <1>3 DEF MetroInv, IInv, TypeOK, Trigger, HeadIsDue
  <2>2. event' = queue[1] /\ 1 \in DOMAIN queue
    BY <2>1, HeadOfEvents
  <2>3. Queued' = Queued /\ event' \in Queued'
    BY <1>1, <2>2 DEF Queued, ToSet
  <2>4. QED
    BY <1>1, <1>2, <2>1, <2>3 DEF Ahead
<1>4. CASE ~Trigger
  <2>1. UNCHANGED event /\ (pc' = "trigger" => pc = "trigger")
    BY <1>1, <1>4 DEF Start, Wake, LoopDone, Unlock, Continue, Quit, Tick, threadVars
  <2>2. QED
    BY <1>1, <2>1 DEF Ahead, Queued
<1>5. QED
  BY <1>3, <1>4

LEMMA StepIsRegular ==
    ASSUME \A b \in Beat : b > 0, RegularInv, [MetroNext]_<<vars, metroVars>>
    PROVE  RegularInv'
<1> USE DEF RegularInv
<1>1. CASE MetroCall
  BY <1>1, CallIsRegular
<1>2. CASE Bang
  BY <1>2, BangIsRegular
<1>3. CASE BangReturn
  <2>1. /\ MetroInv' /\ Queued' \subseteq Queued \ {event}
        /\ UNCHANGED <<run, tick, beat>> /\ ~banged' /\ pc' # "trigger" /\ banged
    BY <1>3, BangReturnEffect DEF BangReturn, TriggerReturn
  <2>2. Ahead' \subseteq Ahead
    BY <2>1 DEF Ahead
  <2>3. QED
    BY <2>1, <2>2, OneBeatFewer DEF ChosenIsQueued
<1>4. CASE ThreadStep \/ ((Start \/ Quit \/ Tick) /\ UNCHANGED metroVars)
  <2>1. MetroInv' /\ UNCHANGED <<run, tick, beat>>
    BY <1>4, ThreadEffect
  <2>2. Ahead' \subseteq Ahead
    BY <1>4, ThreadKeepsAhead
  <2>3. OneBeat'
    BY <2>1, <2>2, OneBeatFewer
  <2>4. ChosenIsQueued'
    BY <1>4, ThreadKeepsAhead DEF ChosenIsQueued, Queued
  <2>5. QED
    BY <2>1, <2>3, <2>4
<1>5. CASE UNCHANGED <<vars, metroVars>>
  <2>1. MetroInv'
    BY <1>5, StutterMetro
  <2>2. UNCHANGED <<queue, event, pc, banged, run, tick, beat>>
    BY <1>5 DEF vars, metroVars
  <2>3. Ahead' \subseteq Ahead
    BY <2>2 DEF Ahead, Queued
  <2>4. OneBeat'
    BY <2>2, <2>3, OneBeatFewer
  <2>5. ChosenIsQueued'
    BY <2>2 DEF ChosenIsQueued, Queued
  <2>6. QED
    BY <2>1, <2>4, <2>5
<1>6. QED
  BY <1>1, <1>2, <1>3, <1>4, <1>5 DEF MetroNext

\* Metro.cpp:102: as long as every tempo asked for is positive, a bang comes
\* one beat after the one before it, whatever else is started, stopped, retuned,
\* created or deleted meanwhile, with or without feedback in the patch.
THEOREM AlwaysRegular ==
    ASSUME \A b \in Beat : b > 0
    PROVE  MetroSpec => Regular
<1>1. MetroInit => RegularInv
  <2> SUFFICES ASSUME MetroInit PROVE RegularInv
    OBVIOUS
  <2>1. MetroInv /\ queue = <<>> /\ pc = "off"
    BY MetroInitEstablishes DEF MetroInit
  <2>2. Ahead = {}
    BY <2>1, EmptyElements DEF Ahead, Queued
  <2>3. QED
    BY <2>1, <2>2 DEF RegularInv, OneBeat, ChosenIsQueued
<1>2. RegularInv /\ [MetroNext]_<<vars, metroVars>> => RegularInv'
  BY StepIsRegular
<1>3. RegularInv /\ [MetroNext]_<<vars, metroVars>>
         => [Bang /\ run[event.node] =>
               current_time = tick[event.node] + IntervalOf(beat[event.node])
            ]_<<vars, metroVars>>
  <2> SUFFICES ASSUME RegularInv, Bang
               PROVE  current_time = tick[event.node] + IntervalOf(beat[event.node])
    OBVIOUS
  <2>1. pc = "trigger" /\ ~banged
    BY DEF Bang
  <2>2. event \in Ahead
    BY <2>1 DEF RegularInv, ChosenIsQueued, Ahead
  <2>3. current_time = event.when
    BY <2>1 DEF RegularInv, MetroInv, IInv, TriggerTimes
  <2>4. QED
    BY <2>2, <2>3 DEF RegularInv, OneBeat
<1>4. QED
  BY <1>1, <1>2, <1>3, PTL DEF MetroSpec, Regular

-----------------------------------------------------------------------------
(* The next beat is in the queue.                                          *)

\* What the patch and the tempos have to be like: no bang comes back to its own
\* metro, metros are created once the worker runs, and a positive tempo is slow
\* enough for a beat of a millisecond.  Without any of the three the property
\* is false.
Playable ==
    /\ SelfCancel = FALSE
    /\ EarlyCreate = FALSE
    /\ \A b \in Beat : b > 0 => b > MS
    /\ DefaultBeat >= MS

NobodyEarly == pc = "off" => alive = {}

SlowBeats == \A m \in Node : beat[m] >= MS

\* A metro that runs has a beat ahead, in the middle of a round as well.
HasBeatAhead(m) ==
    run[m] /\ tick[m] + IntervalOf(beat[m]) <= MaxTime =>
        \E e \in Ahead : e.node = m

Served == should_run => \A m \in alive : HasBeatAhead(m)

ServedInv ==
    MetroInv /\ StillThere /\ NobodyEarly /\ SlowBeats /\ Served

LEMMA FreshIsAhead ==
    ASSUME MetroInv, CanAllocate, NEW m \in Node, NEW b \in Nat, b >= MS,
           should_run, current_time + IntervalOf(b) <= MaxTime
    PROVE  /\ Taken(b)
           /\ NextBeat(m, b).node = m
           /\ NextBeat(m, b) # event
BY NextBeatIs, IntervalIs DEF Taken, MetroInv, IInv

\* Between rounds and during the bang of another metro, a method of m leaves the
\* events of the others.
LEMMA OthersServed ==
    ASSUME Served, NEW m, UNCHANGED <<event, banged, should_run>>,
           {e \in Queued : e.node # m} \subseteq Queued',
           NEW k \in alive, k # m, should_run,
           run'[k] = run[k], tick'[k] = tick[k], beat'[k] = beat[k]
    PROVE  HasBeatAhead(k)'
<1>1. SUFFICES ASSUME run[k], tick[k] + IntervalOf(beat[k]) <= MaxTime
               PROVE  \E e \in Ahead' : e.node = k
  BY DEF HasBeatAhead, IntervalOf
<1>2. PICK e \in Ahead : e.node = k
  BY <1>1 DEF Served, HasBeatAhead
<1>3. e \in Ahead'
  BY <1>2 DEF Ahead
<1>4. QED
  BY <1>2, <1>3

LEMMA CallIsServed ==
    ASSUME Playable, ServedInv, MetroCall
    PROVE  ServedInv'
<1> USE DEF ServedInv
<1>1. PICK m \in Node : \/ Create(m) \/ StartMetro(m) \/ StopMetro(m)
                        \/ TempoOff(m) \/ DestroyMetro(m)
                        \/ \E b \in Beat : Tempo(m, b)
  BY DEF MetroCall
<1>2. MetroInv' /\ UNCHANGED <<pc, event, banged, should_run, current_time>>
  BY <1>1, CreateEffect, StartEffect, StopEffect, TempoEffect, TempoOffEffect,
     DestroyEffect
     DEF Untouched, Create, StartMetro, StopMetro, TempoOff, DestroyMetro, Tempo
<1>3. {e \in Queued : e.node # m} \subseteq Queued'
  <2>1. TempoOff(m) => Queued' = Queued
    BY DEF TempoOff, Queued
  <2>2. QED
    BY <1>1, <2>1, CreateEffect, StartEffect, StopEffect, TempoEffect, DestroyEffect
<1>4. pc = "trigger" => m # event.node
  BY <1>1 DEF Playable, Create, StartMetro, StopMetro, TempoOff, DestroyMetro,
              Tempo, CallMethod, MayCancel, LockFree
<1>5. StillThere'
  BY <1>2, <1>3, <1>4 DEF StillThere
<1>6. /\ pc = "off" => ~Create(m)
      /\ ~Create(m) => alive' \subseteq alive
  BY <1>1 DEF Create, Playable, StartMetro, StopMetro, TempoOff, DestroyMetro,
              Destroy, Tempo
<1>7. NobodyEarly'
  BY <1>2, <1>6 DEF NobodyEarly
<1>8. /\ run \in [Node -> BOOLEAN] /\ tick \in [Node -> Time] /\ beat \in [Node -> Nat]
      /\ alive \in SUBSET Node
      /\ LockFree => ~banged
  BY DEF MetroInv, IInv, TypeOK, MetroTypeOK, LockFree
<1>9. \A k \in Node : k # m => /\ run'[k] = run[k]
                               /\ tick'[k] = tick[k]
                               /\ beat'[k] = beat[k]
  BY <1>1, <1>8 DEF Create, StartMetro, StopMetro, TempoOff, DestroyMetro, Tempo
<1>10. beat'[m] >= MS
  <2>1. beat[m] >= MS
    BY DEF SlowBeats
  <2>2. CASE Create(m)
    BY <1>8, <2>2 DEF Create, Playable
  <2>3. ASSUME NEW b \in Beat, Tempo(m, b) PROVE beat'[m] >= MS
    <3>1. b > MS /\ b \in Int /\ Clamp(b) = b /\ beat'[m] = Clamp(b)
      BY <1>8, <2>3, BeatAssumption, ClampIs DEF Tempo, Playable
    <3>2. QED
      BY <3>1 DEF MS
  <2>4. ~Create(m) /\ ~(\E b \in Beat : Tempo(m, b)) => UNCHANGED beat
    BY <1>1 DEF StartMetro, StopMetro, TempoOff, DestroyMetro
  <2>5. QED
    BY <1>1, <2>1, <2>2, <2>3, <2>4
<1>11. SlowBeats'
  BY <1>9, <1>10 DEF SlowBeats
<1>12. ASSUME should_run, m \in alive', run'[m],
              tick'[m] + IntervalOf(beat'[m]) <= MaxTime
       PROVE  \E e \in Ahead' : e.node = m
  <2>1. CASE Create(m)
    <3>1. /\ Queued' = IF Taken(DefaultBeat)
                       THEN Queued \cup {NextBeat(m, DefaultBeat)} ELSE Queued
          /\ tick'[m] = current_time /\ beat'[m] = DefaultBeat /\ CanAllocate
          /\ DefaultBeat \in Nat /\ DefaultBeat >= MS
      BY <1>8, <2>1, CreateEffect, BeatAssumption DEF Create, Playable
    <3>2. /\ Taken(DefaultBeat) /\ NextBeat(m, DefaultBeat).node = m
          /\ NextBeat(m, DefaultBeat) # event
      BY <1>12, <3>1, FreshIsAhead
    <3>3. NextBeat(m, DefaultBeat) \in Ahead'
      BY <1>2, <3>1, <3>2 DEF Ahead
    <3>4. QED
      BY <3>2, <3>3
  <2>2. CASE StartMetro(m)
    <3>1. /\ Queued' = IF ~run[m] /\ Taken(beat[m])
                       THEN Queued \cup {NextBeat(m, beat[m])} ELSE Queued
          /\ beat'[m] = beat[m] /\ CanAllocate
          /\ run[m] => UNCHANGED tick
          /\ ~run[m] => tick'[m] = current_time
          /\ m \in alive
      BY <1>8, <2>2, StartEffect DEF StartMetro, CallMethod, CanCall
    <3>2. CASE run[m]
      <4>1. HasBeatAhead(m)
        BY <1>12, <3>1 DEF Served
      <4>2. PICK e \in Ahead : e.node = m
        BY <1>12, <3>1, <3>2, <4>1 DEF HasBeatAhead
      <4>3. e \in Ahead'
        BY <1>2, <3>1, <3>2, <4>2 DEF Ahead
      <4>4. QED
        BY <4>2, <4>3
    <3>3. CASE ~run[m]
      <4>1. beat[m] \in Nat /\ beat[m] >= MS
        BY <1>8 DEF SlowBeats
      <4>2. /\ Taken(beat[m]) /\ NextBeat(m, beat[m]).node = m
            /\ NextBeat(m, beat[m]) # event
        BY <1>12, <3>1, <3>3, <4>1, FreshIsAhead
      <4>3. NextBeat(m, beat[m]) \in Ahead'
        BY <1>2, <3>1, <3>3, <4>2 DEF Ahead
      <4>4. QED
        BY <4>2, <4>3
    <3>4. QED
      BY <3>2, <3>3
  <2>3. ASSUME NEW b \in Beat, Tempo(m, b)
        PROVE  \E e \in Ahead' : e.node = m
    <3>1. /\ Queued' = IF run[m] /\ Taken(Clamp(b))
                       THEN {e \in Queued : e.node # m} \cup {NextBeat(m, Clamp(b))}
                       ELSE {e \in Queued : e.node # m}
          /\ beat'[m] = Clamp(b) /\ CanAllocate /\ run[m]
          /\ tick'[m] = current_time
          /\ Clamp(b) \in Nat
      BY <1>8, <1>12, <2>3, TempoEffect DEF Tempo
    <3>2. /\ Taken(Clamp(b)) /\ NextBeat(m, Clamp(b)).node = m
          /\ NextBeat(m, Clamp(b)) # event
      BY <1>10, <1>12, <3>1, FreshIsAhead
    <3>3. NextBeat(m, Clamp(b)) \in Ahead'
      BY <1>2, <3>1, <3>2 DEF Ahead
    <3>4. QED
      BY <3>2, <3>3
  <2>4. ~StopMetro(m) /\ ~TempoOff(m) /\ ~DestroyMetro(m)
    BY <1>8, <1>12 DEF StopMetro, TempoOff, DestroyMetro
  <2>5. QED
    BY <1>1, <2>1, <2>2, <2>3, <2>4
<1>13. Served'
  <2> SUFFICES ASSUME should_run', NEW k \in alive' PROVE HasBeatAhead(k)'
    BY DEF Served
  <2>1. CASE k = m
    <3>1. should_run /\ m \in alive'
      BY <1>2, <2>1
    <3>2. HasBeatAhead(m)'
      BY <1>12, <3>1 DEF HasBeatAhead
    <3>3. QED
      BY <2>1, <3>2
  <2>2. CASE k # m
    <3>1. k \in alive /\ k \in Node /\ should_run
      BY <1>1, <1>2, <1>8, <2>2 DEF Create, StartMetro, StopMetro, TempoOff,
                                    DestroyMetro, Destroy, Tempo
    <3>2. run'[k] = run[k] /\ tick'[k] = tick[k] /\ beat'[k] = beat[k]
      BY <1>9, <2>2, <3>1
    <3>3. QED
      BY <1>2, <1>3, <2>2, <3>1, <3>2, OthersServed
  <2>3. QED
    BY <2>1, <2>2
<1>14. QED
  BY <1>2, <1>5, <1>7, <1>11, <1>13

\* bang() registers the next beat before it sends.
LEMMA BangIsServed ==
    ASSUME Playable, ServedInv, Bang
    PROVE  ServedInv'
<1> USE DEF ServedInv
<1> DEFINE m == event.node
<1>1. /\ MetroInv'
      /\ m \in Node /\ beat[m] \in Nat
      /\ Queued' = IF run[m] /\ Taken(beat[m])
                   THEN Queued \cup {NextBeat(m, beat[m])} ELSE Queued
      /\ UNCHANGED <<pc, event, run, beat, alive, should_run>>
      /\ pc = "trigger" /\ ~banged /\ banged'
      /\ run[m] => CanAllocate
      /\ tick' = IF run[m] THEN [tick EXCEPT ![m] = current_time] ELSE tick
  BY BangEffect DEF Bang, Untouched
<1>2. /\ run \in [Node -> BOOLEAN] /\ tick \in [Node -> Time] /\ beat \in [Node -> Nat]
      /\ alive \in SUBSET Node
  BY DEF MetroInv, IInv, TypeOK, MetroTypeOK
<1>3. StillThere' /\ NobodyEarly' /\ SlowBeats'
  BY <1>1 DEF StillThere, NobodyEarly, SlowBeats
<1>4. Served'
  <2> SUFFICES ASSUME should_run, NEW k \in alive, run[k],
                      tick'[k] + IntervalOf(beat[k]) <= MaxTime
               PROVE  \E e \in Ahead' : e.node = k
    BY <1>1 DEF Served, HasBeatAhead, IntervalOf
  <2>1. CASE k = m
    <3>1. tick'[m] = current_time /\ CanAllocate /\ beat[m] >= MS
      BY <1>1, <1>2, <2>1 DEF SlowBeats
    <3>2. current_time + IntervalOf(beat[m]) <= MaxTime
      BY <2>1, <3>1
    <3> HIDE DEF m
    <3>3. /\ Taken(beat[m]) /\ NextBeat(m, beat[m]).node = m
          /\ NextBeat(m, beat[m]) # event
      BY <1>1, <3>1, <3>2, FreshIsAhead
    <3>4. NextBeat(m, beat[m]) \in Ahead'
      BY <1>1, <2>1, <3>3 DEF Ahead
    <3>5. QED
      BY <2>1, <3>3, <3>4
  <2>2. CASE k # m
    <3>1. tick'[k] = tick[k]
      BY <1>1, <1>2, <2>2
    <3>2. PICK e \in Queued : e.node = k
      BY <1>1, <3>1 DEF Served, HasBeatAhead, Ahead
    <3>3. e \in Ahead'
      BY <1>1, <2>2, <3>2 DEF Ahead
    <3>4. QED
      BY <3>2, <3>3
  <2>3. QED
    BY <2>1, <2>2
<1>5. QED
  BY <1>1, <1>3, <1>4

LEMMA StepIsServed ==
    ASSUME Playable, ServedInv, [MetroNext]_<<vars, metroVars>>
    PROVE  ServedInv'
<1> USE DEF ServedInv
<1>1. CASE MetroCall
  BY <1>1, CallIsServed
<1>2. CASE Bang
  BY <1>2, BangIsServed
<1>3. CASE BangReturn
  <2>1. /\ MetroInv'
        /\ UNCHANGED <<run, tick, beat, alive, should_run>>
        /\ ~banged' /\ pc' = "popping" /\ banged /\ pc = "trigger"
        /\ event \in Queued => Queued' = Queued \ {event}
    BY <1>3, BangReturnEffect DEF BangReturn, TriggerReturn
  <2>2. Ahead' = Ahead
    BY <2>1 DEF Ahead, StillThere
  <2>3. Served'
    BY <2>1, <2>2 DEF Served, HasBeatAhead, IntervalOf
  <2>4. QED
    BY <2>1, <2>3 DEF StillThere, NobodyEarly, SlowBeats
<1>4. CASE ThreadStep \/ ((Start \/ Quit \/ Tick) /\ UNCHANGED metroVars)
  <2>1. MetroInv' /\ UNCHANGED <<queue, alive, run, tick, beat>>
    BY <1>4, ThreadEffect
  <2>2. Ahead' = Ahead
    BY <1>4, ThreadKeepsAhead
  <2>3. StillThere'
    BY <1>4, ThreadKeepsAhead DEF StillThere, Queued
  <2>4. /\ pc' = "off" => pc = "off"
        /\ \/ UNCHANGED should_run \/ ~should_run' \/ pc = "off"
    BY <1>4 DEF ThreadStep, Start, Wake, LoopDone, Trigger, Unlock, Continue, Quit,
                Tick, threadVars
  <2>5. NobodyEarly' /\ SlowBeats'
    BY <2>1, <2>4 DEF NobodyEarly, SlowBeats
  <2>6. Served'
    BY <2>1, <2>2, <2>4 DEF Served, HasBeatAhead, IntervalOf, NobodyEarly
  <2>7. QED
    BY <2>1, <2>3, <2>5, <2>6
<1>5. CASE UNCHANGED <<vars, metroVars>>
  <2>1. MetroInv'
    BY <1>5, StutterMetro
  <2>2. UNCHANGED <<queue, event, pc, banged, run, tick, beat, alive, should_run>>
    BY <1>5 DEF vars, metroVars
  <2>3. Ahead' = Ahead
    BY <2>2 DEF Ahead, Queued
  <2>4. StillThere' /\ NobodyEarly' /\ SlowBeats'
    BY <2>2 DEF StillThere, NobodyEarly, SlowBeats, Queued
  <2>5. Served'
    BY <2>2, <2>3 DEF Served, HasBeatAhead, IntervalOf
  <2>6. QED
    BY <2>1, <2>4, <2>5
<1>6. QED
  BY <1>1, <1>2, <1>3, <1>4, <1>5 DEF MetroNext

\* In a playable patch, a metro that runs has its next beat in the queue whenever
\* another thread can look: no order of starts, stops, tempos, deletions and
\* bangs makes it silent, a tempo that is not positive and a start after it
\* included.
THEOREM BeatAlwaysPending ==
    ASSUME Playable
    PROVE  MetroSpec => []BeatPending
<1>1. MetroInit => ServedInv
  <2> SUFFICES ASSUME MetroInit PROVE ServedInv
    OBVIOUS
  <2>1. MetroInv
    BY MetroInitEstablishes
  <2>2. SlowBeats
    BY DEF MetroInit, SlowBeats, Playable
  <2>3. StillThere /\ NobodyEarly /\ Served
    BY DEF MetroInit, StillThere, NobodyEarly, Served
  <2>4. QED
    BY <2>1, <2>2, <2>3 DEF ServedInv
<1>2. ServedInv /\ [MetroNext]_<<vars, metroVars>> => ServedInv'
  BY StepIsServed
<1>3. ServedInv => BeatPending
  <2> SUFFICES ASSUME ServedInv, LockFree, should_run, NEW m \in alive,
                      run[m] /\ tick[m] + IntervalOf(beat[m]) <= MaxTime
               PROVE  \E e \in Queued : e.node = m
    BY DEF BeatPending
  <2>1. Ahead = Queued
    BY DEF ServedInv, MetroInv, MetroTypeOK, LockFree, Ahead
  <2>2. HasBeatAhead(m)
    BY DEF ServedInv, Served
  <2>3. QED
    BY <2>1, <2>2 DEF HasBeatAhead
<1>4. QED
  BY <1>1, <1>2, <1>3, PTL DEF MetroSpec
=============================================================================
