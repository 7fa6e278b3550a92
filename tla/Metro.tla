-------------------------------- MODULE Metro --------------------------------
(***************************************************************************)
(* Metronomes (objects/Metro.cpp) on a worker: the nodes of the worker are *)
(* metros, and the calls they make are those of Metro's own methods.  Every *)
(* method runs with the planet's lock, from another thread between two     *)
(* rounds or, when a patch leads there, from the bang of another metro.    *)
(*                                                                         *)
(* A tempo is represented by the length of its beat in 1/100 ms, which is  *)
(* what the code computes from it (ONE_MINUTE / tempo_); a beat that is    *)
(* not positive stands for a tempo that is not.                            *)
(***************************************************************************)
EXTENDS Worker

CONSTANTS Beat,         \* beats asked for, in 1/100 ms
          DefaultBeat,  \* the beat of a new metro (120 bpm)
          EarlyCreate   \* may a metro be created before the worker starts?

ASSUME BeatAssumption == Beat \subseteq Int /\ DefaultBeat \in Nat \ {0}

WORKER_SLEEP == 1       \* WORKER_SLEEP_MS in 1/100 ms
MS == 100               \* one millisecond

VARIABLES run,          \* run_
          beat,         \* ONE_MINUTE / tempo_
          banged,       \* the bang of the event being triggered is under way
          tick          \* history: logical time of the latest bang or start

metroVars == <<run, beat, banged, tick>>

-----------------------------------------------------------------------------
\* bang_me_in takes whole milliseconds: the fraction is cut off.
IntervalOf(b) == b \div MS

\* Mutant: the interval is counted from the start of the round.
FromRoundStart(q, n, b) ==
    LET when == real_time + IntervalOf(b)
    IN  IF when > MaxTime THEN q
        ELSE RegisterEvent(q, [id     |-> CHOOSE id \in EventId : id \notin UsedId,
                               node   |-> n,
                               when   |-> when,
                               forced |-> FALSE])

\* bang_me_in(ONE_MINUTE / tempo_).  Events after MaxTime are left out.
ScheduleBeat(q, n, b) ==
    LET when == current_time + IntervalOf(b)
    IN  IF when > MaxTime THEN q
        ELSE RegisterEvent(q, [id     |-> CHOOSE id \in EventId : id \notin UsedId,
                               node   |-> n,
                               when   |-> when,
                               forced |-> FALSE])

\* Bound: an address is free for a new event, and calls between two bangs
\* leave one for the next bang.
CanAllocate == Cardinality(EventId \ UsedId) > (IF pc = "trigger" THEN 0 ELSE 1)

\* change_tempo: the fastest tempo is ONE_MINUTE / (WORKER_SLEEP_MS * 1.5).
Clamp(b) == IF b < WORKER_SLEEP + MS THEN (3 * WORKER_SLEEP) \div 2 ELSE b

\* NewMethod creates the node and calls start(), which bangs.
Create(m) ==
    /\ LockFree
    /\ pc = "off" => EarlyCreate
    /\ m \notin alive
    /\ CanAllocate
    /\ alive' = alive \cup {m}
    /\ run' = [run EXCEPT ![m] = TRUE]
    /\ beat' = [beat EXCEPT ![m] = DefaultBeat]
    /\ tick' = [tick EXCEPT ![m] = current_time]
    /\ queue' = ScheduleBeat(queue, m, DefaultBeat)
    /\ UNCHANGED <<timeVars, threadVars, looped, should_run, last, banged>>

\* A method of m is called: from outside, or from the patch behind a bang.
CallMethod(m) ==
    /\ CanCall(m)
    /\ MayCancel(m)
    /\ pc = "trigger" => banged

\* Mutant: the flag is set before it is looked at.
StartAlreadyRunning(m) ==
    /\ CallMethod(m)
    /\ run' = [run EXCEPT ![m] = TRUE]
    /\ UNCHANGED <<queue, tick>>
    /\ UNCHANGED <<timeVars, threadVars, looped, should_run, alive, last,
                   beat, banged>>

\* start_stop(1): a metro that runs is left alone.
StartMetro(m) ==
    /\ CallMethod(m)
    /\ CanAllocate
    /\ run' = [run EXCEPT ![m] = TRUE]
    /\ IF run[m]
       THEN UNCHANGED <<queue, tick>>
       ELSE /\ queue' = ScheduleBeat(queue, m, beat[m])
            /\ tick' = [tick EXCEPT ![m] = current_time]
    /\ UNCHANGED <<timeVars, threadVars, looped, should_run, alive, last,
                   beat, banged>>

\* start_stop(0)
StopMetro(m) ==
    /\ CallMethod(m)
    /\ queue' = FreeEventsFor(queue, m)
    /\ run' = [run EXCEPT ![m] = FALSE]
    /\ UNCHANGED <<timeVars, threadVars, looped, should_run, alive, last,
                   beat, banged, tick>>

\* tempo(t) with t <= 0
TempoOff(m) ==
    /\ CallMethod(m)
    /\ \E b \in Beat : b <= 0
    /\ run' = [run EXCEPT ![m] = FALSE]
    /\ UNCHANGED <<timeVars, threadVars, queue, looped, should_run, alive,
                   last, beat, banged, tick>>

\* tempo(t) with t > 0 and t # tempo_
Tempo(m, b) ==
    /\ CallMethod(m)
    /\ b > 0 /\ b # beat[m]
    /\ CanAllocate
    /\ beat' = [beat EXCEPT ![m] = Clamp(b)]
    /\ LET cleared == FreeEventsFor(queue, m)
       IN  queue' = IF run[m] THEN ScheduleBeat(cleared, m, Clamp(b))
                              ELSE cleared
    /\ tick' = IF run[m] THEN [tick EXCEPT ![m] = current_time] ELSE tick
    /\ UNCHANGED <<timeVars, threadVars, looped, should_run, alive, last,
                   run, banged>>

\* The node is deleted; its memory may serve for a new metro.
DestroyMetro(m) ==
    /\ Destroy(m)
    /\ LockFree
    /\ run' = [run EXCEPT ![m] = FALSE]
    /\ UNCHANGED <<beat, banged, tick>>

\* Mutant: the bang sends and leaves the next beat to someone else.
BangOnce ==
    /\ pc = "trigger" /\ ~banged
    /\ tick' = IF run[event.node]
               THEN [tick EXCEPT ![event.node] = current_time] ELSE tick
    /\ banged' = TRUE
    /\ UNCHANGED <<timeVars, threadVars, queue, looped, should_run, alive, last,
                   run, beat>>

\* bang(): register the next beat first, then send.
Bang ==
    /\ pc = "trigger" /\ ~banged
    /\ LET m == event.node
       IN  /\ run[m] => CanAllocate
           /\ queue' = IF run[m] THEN ScheduleBeat(queue, m, beat[m]) ELSE queue
           /\ tick' = IF run[m] THEN [tick EXCEPT ![m] = current_time] ELSE tick
    /\ banged' = TRUE
    /\ UNCHANGED <<timeVars, threadVars, looped, should_run, alive, last,
                   run, beat>>

\* Mutant: the flag outlives the bang.
ReturnStillBanged ==
    /\ banged
    /\ TriggerReturn
    /\ UNCHANGED <<run, beat, tick, banged>>

\* The event is deleted and popped by the worker.
BangReturn ==
    /\ banged
    /\ TriggerReturn
    /\ banged' = FALSE
    /\ UNCHANGED <<run, beat, tick>>

-----------------------------------------------------------------------------
MetroInit ==
    /\ clock = 0 /\ current_time = 0 /\ real_time = 0 /\ last = 0
    /\ pc = "off" /\ event = NoEvent /\ turn = 0
    /\ queue = <<>> /\ looped = <<>>
    /\ should_run = FALSE
    /\ alive = {}
    /\ run = [m \in Node |-> FALSE]
    /\ beat = [m \in Node |-> DefaultBeat]
    /\ banged = FALSE
    /\ tick = [m \in Node |-> 0]

MetroCall ==
    \E m \in Node : \/ Create(m) \/ StartMetro(m) \/ StopMetro(m)
                    \/ TempoOff(m) \/ DestroyMetro(m)
                    \/ \E b \in Beat : Tempo(m, b)

ThreadStep ==
    /\ Wake \/ LoopDone \/ Trigger \/ Unlock \/ Continue
    /\ UNCHANGED metroVars

MetroNext ==
    \/ MetroCall
    \/ Bang
    \/ BangReturn
    \/ ThreadStep
    \/ (Start \/ Quit \/ Tick) /\ UNCHANGED metroVars

MetroSpec == MetroInit /\ [][MetroNext]_<<vars, metroVars>>

\* As in Worker: main starts the thread, the thread is scheduled, a bang
\* returns and time passes.  No command has to be given.
MetroFairSpec ==
    /\ MetroSpec
    /\ WF_<<vars, metroVars>>(Start /\ UNCHANGED metroVars)
    /\ WF_<<vars, metroVars>>(ThreadStep \/ Bang \/ BangReturn)
    /\ WF_<<vars, metroVars>>(Tick /\ UNCHANGED metroVars)

-----------------------------------------------------------------------------
MetroTypeOK ==
    /\ TypeOK
    /\ run \in [Node -> BOOLEAN]
    /\ beat \in [Node -> Nat]
    /\ tick \in [Node -> Time]
    /\ banged \in BOOLEAN
    /\ banged => pc = "trigger"

\* Metro.cpp:102 "Metronome that sends bangs at regular intervals": a bang
\* comes one beat after the one before it, in logical time, however late the
\* thread woke and whatever other metros did in between.
Regular ==
    [][Bang /\ run[event.node] =>
          current_time = tick[event.node] + IntervalOf(beat[event.node])
      ]_<<vars, metroVars>>

\* A metro that runs has its next beat in the queue whenever another thread
\* can look, unless the planet is quitting or the beat is after the bound.
BeatPending ==
    LockFree /\ should_run =>
        \A m \in alive :
            run[m] /\ tick[m] + IntervalOf(beat[m]) <= MaxTime =>
                \E e \in Queued : e.node = m

\* A metro that runs bangs again, is stopped or changes its tempo.
KeepsBanging ==
    \A m \in Node, t \in Time :
        (run[m] /\ should_run /\ tick[m] = t
                /\ t + IntervalOf(beat[m]) <= MaxTime)
            ~> ~(run[m] /\ should_run /\ tick[m] = t
                        /\ t + IntervalOf(beat[m]) <= MaxTime)
=============================================================================
