---------------------------- MODULE WorkerProofs ----------------------------
(***************************************************************************)
(* Theorems about the worker, for every set of nodes, addresses and        *)
(* intervals, every bound of the clock, with and without feedback.         *)
(***************************************************************************)
EXTENDS Worker, ListProofs

-----------------------------------------------------------------------------
(* The inductive invariant.                                                *)

\* A node is in the loop list once: UnloopMe and Destroy remove one entry.
LoopedOnce ==
    \A i, j \in DOMAIN looped : looped[i] = looped[j] => i = j

\* The logical time runs behind the time of the round only while pop_events
\* works through the queue, and never behind the latest event triggered.
TimesOrdered ==
    /\ last <= current_time
    /\ current_time <= real_time
    /\ real_time <= clock
    /\ pc \notin {"popping", "trigger"} => current_time = real_time

\* Nothing in the queue is older than what has been triggered.
QueueAfterLast == \A i \in DOMAIN queue : queue[i].when >= last

\* During a bang the logical time is the time the event asked for.
TriggerTimes ==
    pc = "trigger" => current_time = event.when /\ last = event.when

IInv ==
    /\ TypeOK
    /\ QueueOrdered
    /\ NothingOverdue
    /\ NoDanglingNode
    /\ LoopedOnce
    /\ TimesOrdered
    /\ QueueAfterLast
    /\ TriggerTimes

-----------------------------------------------------------------------------
(* The operations on the queue.                                            *)

\* What is known of an event: its fields, and that its time is a natural.
LEMMA EventFields ==
    \A e \in Event : /\ e.id \in EventId
                     /\ e.node \in Node
                     /\ e.when \in Time
                     /\ e.when \in Nat
BY MaxTimeAssumption DEF Event, Time

LEMMA QueueElements ==
    ASSUME NEW q \in Seq(Event)
    PROVE  /\ Len(q) \in Nat
           /\ DOMAIN q = 1..Len(q)
           /\ \A i \in 1..Len(q) : q[i] \in Event /\ q[i].when \in Nat
BY EventFields, ElementOfSeq, LenProperties

\* Where push_container puts an event: after everything that is not later,
\* before the first event that is.
LEMMA EventInsertionPoint ==
    ASSUME NEW q \in Seq(Event), NEW e \in Event
    PROVE  LET p == InsertionPoint(q, e, EventOrder)
           IN  /\ p \in 1..Len(q) + 1
               /\ \A j \in 1..p - 1 : q[j].when <= e.when
               /\ p <= Len(q) => q[p].when > e.when
<1> DEFINE p == InsertionPoint(q, e, EventOrder)
<1>1. /\ Len(q) \in Nat
      /\ e.when \in Int
      /\ \A i \in 1..Len(q) : q[i] \in Event /\ q[i].when \in Int
  BY EventFields, QueueElements
<1>2. /\ p \in 1..Len(q) + 1
      /\ \A j \in 1..p - 1 : <<e, q[j]>> \in EventOrder
      /\ p <= Len(q) => <<e, q[p]>> \notin EventOrder
  BY InsertionPointProperties
<1>3. \A i \in 1..Len(q) : <<e, q[i]>> \in EventOrder <=> q[i].when <= e.when
  BY <1>1 DEF EventOrder, NotEarlier
<1> HIDE DEF p
<1>4. /\ \A j \in 1..p - 1 : j \in 1..Len(q)
      /\ p <= Len(q) => p \in 1..Len(q)
  BY <1>1, <1>2
<1>5. \A j \in 1..p - 1 : q[j].when <= e.when
  BY <1>2, <1>3, <1>4
<1>6. p <= Len(q) => q[p].when > e.when
  BY <1>1, <1>2, <1>3, <1>4
<1>7. QED
  BY <1>2, <1>5, <1>6 DEF p

\* r is q with e inserted at the place p its time calls for.
Inserted(q, e, r, p) ==
    /\ r = InsertAt(q, p, e)
    /\ Len(r) = Len(q) + 1
    /\ \A k \in 1..Len(q) + 1 :
          r[k] = IF k < p THEN q[k] ELSE IF k = p THEN e ELSE q[k - 1]
    /\ \A j \in 1..p - 1 : q[j].when <= e.when
    /\ p <= Len(q) => q[p].when > e.when

\* register_event either leaves the queue alone or inserts an event that is
\* after the logical time at the place its time calls for.
LEMMA RegisterEventProperties ==
    ASSUME NEW q \in Seq(Event), NEW e \in Event, current_time \in Time,
           NEW r, r = RegisterEvent(q, e)
    PROVE  /\ r \in Seq(Event)
           /\ \/ r = q
              \/ /\ e.when > current_time
                 /\ \E p \in 1..Len(q) + 1 : Inserted(q, e, r, p)
<1>1. CASE r = q
  BY <1>1
<1>2. CASE r # q
  <2> DEFINE p == InsertionPoint(q, e, EventOrder)
  <2>1. ~Missed(e) /\ r = InsertAt(q, p, e)
    BY <1>2 DEF RegisterEvent, Push
  <2>2. e.when > current_time
    BY <2>1, MaxTimeAssumption DEF Missed, Event, Time
  <2>3. /\ p \in 1..Len(q) + 1
        /\ \A j \in 1..p - 1 : q[j].when <= e.when
        /\ p <= Len(q) => q[p].when > e.when
    BY EventInsertionPoint
  <2> HIDE DEF p
  <2>4. /\ InsertAt(q, p, e) \in Seq(Event)
        /\ Len(InsertAt(q, p, e)) = Len(q) + 1
        /\ \A k \in 1..Len(q) + 1 :
              InsertAt(q, p, e)[k] =
                 IF k < p THEN q[k] ELSE IF k = p THEN e ELSE q[k - 1]
    <3>1. p \in 1..Len(q) + 1
      BY <2>3
    <3>2. QED
      BY <3>1, InsertAtProperties
  <2>5. Inserted(q, e, r, p)
    BY <2>1, <2>3, <2>4, Zenon DEF Inserted
  <2>6. r \in Seq(Event)
    BY <2>1, <2>4
  <2>7. QED
    BY <2>2, <2>3, <2>5, <2>6
<1>3. QED
  BY <1>1, <1>2

\* What free_events_for leaves: the events of other nodes, all of them, in
\* the order they had.  h maps a position of the result to the position the
\* event had before.
KeepsOthers(q, r, n) ==
    /\ r \in Seq(Event)
    /\ \E h \in [1..Len(r) -> 1..Len(q)] :
          /\ \A i, j \in 1..Len(r) : i < j => h[i] < h[j]
          /\ \A k \in 1..Len(r) : r[k] = q[h[k]] /\ r[k].node # n
          /\ \A i \in 1..Len(q) : q[i].node # n => \E k \in 1..Len(r) : h[k] = i

LEMMA FreeEventsForProperties ==
    ASSUME NEW q \in Seq(Event), NEW n
    PROVE  KeepsOthers(q, FreeEventsFor(q, n), n)
<1> DEFINE gone == {e \in ToSet(q) : e.node = n}
           r == Without(q, gone)
<1>1. FreeEventsFor(q, n) = r
  BY DEF FreeEventsFor
<1>2. r \in Seq(Event) /\ \A i \in 1..Len(q) : q[i] \in ToSet(q)
  BY WithoutElements, ElementsOf
<1>3. PICK h : Embeds(h, r, Len(r), q, Len(q), gone)
  BY WithoutSurvivors DEF Survivors
<1>4. \A i \in 1..Len(q) : q[i] \notin gone <=> q[i].node # n
  BY <1>2
<1> HIDE DEF r, gone
<1>5. \A k \in 1..Len(r) : h[k] \in 1..Len(q) /\ r[k] = q[h[k]] /\ r[k].node # n
  BY <1>3, <1>4 DEF Embeds
<1>6. /\ h \in [1..Len(r) -> 1..Len(q)]
      /\ \A i, j \in 1..Len(r) : i < j => h[i] < h[j]
      /\ \A i \in 1..Len(q) : q[i].node # n => \E k \in 1..Len(r) : h[k] = i
  BY <1>3, <1>4 DEF Embeds
<1>7. KeepsOthers(q, r, n)
  BY <1>2, <1>5, <1>6 DEF KeepsOthers
<1>8. QED
  BY <1>1, <1>7

\* The two operations on the queue keep it in order.  Ordered is QueueOrdered
\* of a queue that is not yet the value of the variable.
Ordered(q) ==
    \A i, j \in DOMAIN q : i < j => /\ q[i].when <= q[j].when
                                    /\ q[i].id # q[j].id

LEMMA InsertionKeepsOrder ==
    ASSUME NEW q \in Seq(Event), NEW e \in Event, NEW r \in Seq(Event),
           Ordered(q),
           \A i \in 1..Len(q) : q[i].id # e.id,
           NEW p \in 1..Len(q) + 1, Inserted(q, e, r, p)
    PROVE  Ordered(r)
<1> USE DEF Inserted
<1>1. /\ Len(q) \in Nat
      /\ DOMAIN q = 1..Len(q)
      /\ DOMAIN r = 1..Len(q) + 1
      /\ e.when \in Nat
      /\ \A i \in 1..Len(q) : q[i].when \in Nat
  BY EventFields, QueueElements
<1>2. \A i \in 1..Len(q) : p <= i => q[i].when > e.when
  <2> SUFFICES ASSUME NEW i \in 1..Len(q), p <= i
               PROVE  q[i].when > e.when
    OBVIOUS
  <2>1. p \in 1..Len(q) /\ q[p].when > e.when
    BY <1>1
  <2>2. CASE p = i
    BY <2>1, <2>2
  <2>3. CASE p < i
    <3>1. q[p].when <= q[i].when
      BY <1>1, <2>1, <2>3 DEF Ordered
    <3>2. QED
      BY <1>1, <2>1, <3>1
  <2>4. QED
    BY <1>1, <2>2, <2>3
<1>3. SUFFICES ASSUME NEW i \in 1..Len(q) + 1, NEW j \in 1..Len(q) + 1, i < j
               PROVE  r[i].when <= r[j].when /\ r[i].id # r[j].id
  BY <1>1 DEF Ordered
<1>4. /\ i < p => i \in 1..Len(q) /\ r[i] = q[i]
      /\ i = p => r[i] = e
      /\ i > p => i - 1 \in 1..Len(q) /\ r[i] = q[i - 1]
  BY <1>1
<1>5. /\ j < p => j \in 1..Len(q) /\ r[j] = q[j]
      /\ j = p => r[j] = e
      /\ j > p => j - 1 \in 1..Len(q) /\ r[j] = q[j - 1]
  BY <1>1
<1>6. CASE j < p
  <2>1. i < p
    BY <1>1, <1>3, <1>6
  <2>2. QED
    BY <1>1, <1>3, <1>4, <1>5, <1>6, <2>1 DEF Ordered
<1>7. CASE j = p
  <2>1. i < p /\ i \in 1..p - 1
    BY <1>1, <1>3, <1>7
  <2>2. QED
    BY <1>1, <1>4, <1>5, <1>7, <2>1
<1>8. CASE j > p /\ i = p
  <2>1. /\ j - 1 \in 1..Len(q) /\ p <= j - 1
        /\ r[i] = e /\ r[j] = q[j - 1]
    BY <1>4, <1>5, <1>8
  <2>2. q[j - 1].when > e.when /\ q[j - 1].id # e.id
    BY <1>2, <2>1
  <2>3. e.when \in Nat /\ q[j - 1].when \in Nat
    BY <1>1, <2>1
  <2>4. QED
    BY <2>1, <2>2, <2>3
<1>9. CASE j > p /\ i < p
  <2>1. /\ i \in 1..Len(q) /\ j - 1 \in 1..Len(q) /\ i < j - 1
        /\ r[i] = q[i] /\ r[j] = q[j - 1]
    BY <1>4, <1>5, <1>9
  <2>2. q[i].when <= q[j - 1].when /\ q[i].id # q[j - 1].id
    BY <1>1, <2>1 DEF Ordered
  <2>3. QED
    BY <2>1, <2>2
<1>10. CASE j > p /\ i > p
  <2>1. /\ i - 1 \in 1..Len(q) /\ j - 1 \in 1..Len(q) /\ i - 1 < j - 1
        /\ r[i] = q[i - 1] /\ r[j] = q[j - 1]
    BY <1>3, <1>4, <1>5, <1>10
  <2>2. q[i - 1].when <= q[j - 1].when /\ q[i - 1].id # q[j - 1].id
    BY <1>1, <2>1 DEF Ordered
  <2>3. QED
    BY <2>1, <2>2
<1>11. QED
  BY <1>6, <1>7, <1>8, <1>9, <1>10

LEMMA SurvivorsKeepOrder ==
    ASSUME NEW q \in Seq(Event), Ordered(q), NEW n, NEW r,
           KeepsOthers(q, r, n)
    PROVE  /\ r \in Seq(Event)
           /\ Ordered(r)
           /\ \A k \in DOMAIN r : r[k].node # n /\ \E i \in DOMAIN q : r[k] = q[i]
<1>1. PICK h \in [1..Len(r) -> 1..Len(q)] :
         /\ \A i, j \in 1..Len(r) : i < j => h[i] < h[j]
         /\ \A k \in 1..Len(r) : r[k] = q[h[k]] /\ r[k].node # n
  BY DEF KeepsOthers
<1>2. r \in Seq(Event)
  BY DEF KeepsOthers
<1>3. DOMAIN q = 1..Len(q) /\ DOMAIN r = 1..Len(r)
  BY <1>2, QueueElements
<1>4. \A k \in 1..Len(r) : h[k] \in 1..Len(q)
  BY <1>1
<1>5. Ordered(r)
  BY <1>1, <1>3, <1>4 DEF Ordered
<1>6. QED
  BY <1>1, <1>2, <1>3, <1>4, <1>5

-----------------------------------------------------------------------------
(* The invariant is inductive: one lemma per kind of step.                 *)

LEMMA InitEstablishes == Init => IInv
<1> SUFFICES ASSUME Init PROVE IInv
  OBVIOUS
<1>1. /\ queue = <<>> /\ queue \in Seq(Event) /\ DOMAIN queue = {}
      /\ looped = <<>> /\ looped \in Seq(Node) /\ DOMAIN looped = {}
  BY DEF Init
<1>2. TypeOK
  <2>1. 0 \in Time /\ 0 \in Nat
    BY MaxTimeAssumption DEF Time
  <2>2. alive \in SUBSET Node /\ event \in Event \cup {NoEvent}
    BY DEF Init
  <2>3. (event # NoEvent) <=> (pc = "trigger")
    BY DEF Init
  <2>4. QED
    BY <1>1, <2>1, <2>2, <2>3 DEF Init, TypeOK
<1>3. QueueOrdered /\ NothingOverdue /\ QueueAfterLast
  BY <1>1 DEF QueueOrdered, NothingOverdue, QueueAfterLast
<1>4. NoDanglingNode /\ LoopedOnce
  BY <1>1 DEF Init, NoDanglingNode, LoopedOnce
<1>5. TimesOrdered /\ TriggerTimes
  BY DEF Init, TimesOrdered, TriggerTimes
<1>6. QED
  BY <1>2, <1>3, <1>4, <1>5 DEF IInv

\* bang_me_in: an insertion, or nothing.
LEMMA BangMeInPreserves ==
    ASSUME IInv, NEW n \in Node, NEW d \in Interval, NEW f \in BOOLEAN,
           BangMeIn(n, d, f)
    PROVE  IInv'
<1> USE DEF IInv
<1>1. PICK id \in EventId \ UsedId :
        queue' = RegisterEvent(queue,
                    [id |-> id, node |-> n,
                     when |-> current_time + d, forced |-> f])
  BY DEF BangMeIn
<1> DEFINE e == [id |-> id, node |-> n, when |-> current_time + d, forced |-> f]
<1>2. e \in Event /\ e.node = n /\ e.id = id /\ n \in alive
  BY IntervalAssumption, MaxTimeAssumption
     DEF BangMeIn, CanCall, Event, Time, TypeOK
<1>3. UNCHANGED <<clock, current_time, real_time, pc, event, turn, looped,
                  should_run, alive, last>>
  BY DEF BangMeIn, timeVars, threadVars
<1> HIDE DEF e
<1>4. queue' = RegisterEvent(queue, e)
  BY <1>1 DEF e
<1>5. queue \in Seq(Event) /\ current_time \in Time
  BY DEF TypeOK
<1>6. CASE queue' = queue
  BY <1>3, <1>6
     DEF TypeOK, QueueOrdered, NothingOverdue, NoDanglingNode, LoopedOnce,
         TimesOrdered, QueueAfterLast, TriggerTimes, LockFree
<1>7. CASE queue' # queue
  <2>1. /\ queue' \in Seq(Event)
        /\ e.when > current_time
        /\ \E p \in 1..Len(queue) + 1 : Inserted(queue, e, queue', p)
    BY <1>2, <1>4, <1>5, <1>7, RegisterEventProperties
  <2>2. PICK p \in 1..Len(queue) + 1 : Inserted(queue, e, queue', p)
    BY <2>1
  <2>3. /\ Len(queue) \in Nat
        /\ DOMAIN queue = 1..Len(queue)
        /\ DOMAIN queue' = 1..Len(queue) + 1
    BY <1>5, <2>1, <2>2, QueueElements DEF Inserted
  <2>4. \A k \in DOMAIN queue' : queue'[k] = e \/ \E i \in DOMAIN queue : queue'[k] = queue[i]
    BY <2>2, <2>3 DEF Inserted
  <2>5. \A i \in 1..Len(queue) : queue[i].id # e.id
    BY <1>2, <2>3 DEF UsedId, Queued, ToSet
  <2>6. Ordered(queue')
    <3>1. Ordered(queue)
      BY DEF QueueOrdered, Ordered
    <3>2. QED
      BY <1>2, <1>5, <2>1, <2>2, <2>5, <3>1, InsertionKeepsOrder
  <2>7. QueueOrdered' /\ TypeOK'
    BY <1>3, <2>1, <2>6 DEF QueueOrdered, Ordered, TypeOK
  <2>8. NothingOverdue' /\ QueueAfterLast' /\ TimesOrdered' /\ TriggerTimes'
    <3>1. e.when >= last
      BY <1>2, <2>1, EventFields, MaxTimeAssumption DEF TimesOrdered, TypeOK, Time
    <3>2. QED
      BY <1>3, <2>1, <2>4, <3>1
         DEF NothingOverdue, LockFree, QueueAfterLast, TimesOrdered, TriggerTimes
  <2>9. NoDanglingNode' /\ LoopedOnce'
    BY <1>2, <1>3, <2>4 DEF NoDanglingNode, LoopedOnce
  <2>10. QED
    BY <2>7, <2>8, <2>9
<1>8. QED
  BY <1>6, <1>7

\* Taking the events of a node out of the queue: what is left is a part of
\* what was there, none of it for that node.
LEMMA FreeEventsPreserves ==
    ASSUME IInv, NEW n, queue' = FreeEventsFor(queue, n),
           UNCHANGED <<clock, current_time, real_time, pc, event, last>>
    PROVE  /\ queue' \in Seq(Event)
           /\ QueueOrdered' /\ NothingOverdue' /\ QueueAfterLast'
           /\ TimesOrdered' /\ TriggerTimes'
           /\ \A k \in DOMAIN queue' :
                 queue'[k].node # n /\ \E i \in DOMAIN queue : queue'[k] = queue[i]
<1>1. queue \in Seq(Event) /\ Ordered(queue)
  BY DEF IInv, TypeOK, QueueOrdered, Ordered
<1>2. KeepsOthers(queue, queue', n)
  BY <1>1, FreeEventsForProperties
<1>3. /\ queue' \in Seq(Event)
      /\ Ordered(queue')
      /\ \A k \in DOMAIN queue' :
            queue'[k].node # n /\ \E i \in DOMAIN queue : queue'[k] = queue[i]
  BY <1>1, <1>2, SurvivorsKeepOrder
<1>4. QueueOrdered'
  BY <1>3 DEF QueueOrdered, Ordered
<1>5. NothingOverdue' /\ QueueAfterLast'
  BY <1>3 DEF IInv, NothingOverdue, LockFree, QueueAfterLast
<1>6. TimesOrdered' /\ TriggerTimes'
  BY DEF IInv, TimesOrdered, TriggerTimes
<1>7. QED
  BY <1>3, <1>4, <1>5, <1>6

LEMMA RemoveMyEventsPreserves ==
    ASSUME IInv, NEW n \in Node, RemoveMyEvents(n)
    PROVE  IInv'
<1>1. UNCHANGED <<clock, current_time, real_time, pc, event, turn, looped,
                  should_run, alive, last>>
  BY DEF RemoveMyEvents, timeVars, threadVars
<1>2. /\ queue' \in Seq(Event)
      /\ QueueOrdered' /\ NothingOverdue' /\ QueueAfterLast'
      /\ TimesOrdered' /\ TriggerTimes'
      /\ \A k \in DOMAIN queue' : \E i \in DOMAIN queue : queue'[k] = queue[i]
  BY <1>1, FreeEventsPreserves DEF RemoveMyEvents
<1>3. TypeOK' /\ LoopedOnce' /\ NoDanglingNode'
  BY <1>1, <1>2 DEF IInv, TypeOK, LoopedOnce, NoDanglingNode
<1>4. QED
  BY <1>2, <1>3 DEF IInv

\* free_looped_node: the node was in the list once, so it is gone.
LEMMA WithoutLoopedProperties ==
    ASSUME IInv, NEW n, WithoutLooped(n)
    PROVE  /\ looped' \in Seq(Node)
           /\ LoopedOnce'
           /\ \A k \in DOMAIN looped' :
                 looped'[k] # n /\ \E i \in DOMAIN looped : looped'[k] = looped[i]
<1>1. /\ looped \in Seq(Node)
      /\ LoopedOnce
      /\ Len(looped) \in Nat
      /\ DOMAIN looped = 1..Len(looped)
  BY LenProperties DEF IInv, TypeOK
<1>2. CASE ~Contains(looped, n)
  BY <1>1, <1>2 DEF WithoutLooped, Contains, LoopedOnce
<1>3. CASE Contains(looped, n)
  <2>1. PICK i \in 1..Len(looped) : looped[i] = n /\ looped' = RemoveAt(looped, i)
    BY <1>1, <1>3 DEF WithoutLooped
  <2>2. /\ looped' \in Seq(Node)
        /\ Len(looped') = Len(looped) - 1
        /\ \A k \in 1..Len(looped) - 1 :
              looped'[k] = IF k < i THEN looped[k] ELSE looped[k + 1]
    BY <1>1, <2>1, RemoveAtProperties
  <2>3. DOMAIN looped' = 1..Len(looped) - 1
    BY <2>2, LenProperties
  <2> DEFINE was(k) == IF k < i THEN k ELSE k + 1
  <2>4. \A k \in 1..Len(looped) - 1 :
           was(k) \in 1..Len(looped) /\ was(k) # i
    BY <1>1
  <2>5. \A k \in 1..Len(looped) - 1 : looped'[k] = looped[was(k)]
    BY <2>2
  <2>6. \A j, k \in 1..Len(looped) - 1 : was(j) = was(k) => j = k
    BY <1>1
  <2> HIDE DEF was
  <2>7. LoopedOnce'
    BY <1>1, <2>3, <2>4, <2>5, <2>6 DEF LoopedOnce
  <2>8. \A k \in DOMAIN looped' :
           looped'[k] # n /\ \E j \in DOMAIN looped : looped'[k] = looped[j]
    BY <1>1, <2>1, <2>3, <2>4, <2>5 DEF LoopedOnce
  <2>9. QED
    BY <2>2, <2>7, <2>8
<1>4. QED
  BY <1>2, <1>3

LEMMA LoopCallsPreserve ==
    ASSUME IInv, NEW n \in Node, LoopMe(n) \/ UnloopMe(n)
    PROVE  IInv'
<1>1. UNCHANGED <<clock, current_time, real_time, pc, queue, event, turn,
                  should_run, alive, last>>
  BY DEF LoopMe, UnloopMe, timeVars, threadVars
<1>2. /\ QueueOrdered' /\ NothingOverdue' /\ QueueAfterLast'
      /\ TimesOrdered' /\ TriggerTimes'
  BY <1>1 DEF IInv, QueueOrdered, NothingOverdue, LockFree, QueueAfterLast,
              TimesOrdered, TriggerTimes
<1>3. /\ looped' \in Seq(Node)
      /\ LoopedOnce'
      /\ \A k \in DOMAIN looped' : looped'[k] \in alive
  <2>1. CASE LoopMe(n)
    <3>1. /\ looped \in Seq(Node)
          /\ DOMAIN looped = 1..Len(looped)
          /\ Len(looped) \in Nat
      BY LenProperties DEF IInv, TypeOK
    <3>2. looped' = Append(looped, n) /\ ~Contains(looped, n) /\ n \in alive
      BY <2>1 DEF LoopMe, CanCall
    <3>3. /\ looped' \in Seq(Node)
          /\ Len(looped') = Len(looped) + 1
          /\ \A i \in 1..Len(looped) : looped'[i] = looped[i]
          /\ looped'[Len(looped) + 1] = n
      BY <3>1, <3>2, AppendProperties
    <3>4. DOMAIN looped' = 1..Len(looped) + 1
      BY <3>3, LenProperties
    <3>5. LoopedOnce'
      BY <3>1, <3>2, <3>3, <3>4 DEF IInv, LoopedOnce, Contains
    <3>6. \A k \in DOMAIN looped' : looped'[k] \in alive
      BY <3>1, <3>2, <3>3, <3>4 DEF IInv, NoDanglingNode
    <3>7. QED
      BY <3>3, <3>5, <3>6
  <2>2. CASE UnloopMe(n)
    BY <2>2, WithoutLoopedProperties DEF UnloopMe, IInv, NoDanglingNode
  <2>3. QED
    BY <2>1, <2>2
<1>4. TypeOK' /\ NoDanglingNode'
  BY <1>1, <1>3 DEF IInv, TypeOK, NoDanglingNode
<1>5. QED
  BY <1>2, <1>3, <1>4 DEF IInv

\* ~Node: nothing that stays behind is for the node that goes.
LEMMA DestroyPreserves ==
    ASSUME IInv, NEW n \in Node, Destroy(n)
    PROVE  IInv'
<1>1. /\ UNCHANGED <<clock, current_time, real_time, pc, event, turn,
                     should_run, last>>
      /\ alive' = alive \ {n}
      /\ WithoutLooped(n)
      /\ queue' = FreeEventsFor(queue, n)
      /\ pc = "trigger" => n # event.node
  BY DEF Destroy, timeVars, threadVars
<1>2. /\ queue' \in Seq(Event)
      /\ QueueOrdered' /\ NothingOverdue' /\ QueueAfterLast'
      /\ TimesOrdered' /\ TriggerTimes'
      /\ \A k \in DOMAIN queue' :
            queue'[k].node # n /\ \E i \in DOMAIN queue : queue'[k] = queue[i]
  BY <1>1, FreeEventsPreserves
<1>3. /\ looped' \in Seq(Node)
      /\ LoopedOnce'
      /\ \A k \in DOMAIN looped' :
            looped'[k] # n /\ \E i \in DOMAIN looped : looped'[k] = looped[i]
  BY <1>1, WithoutLoopedProperties
<1>4. TypeOK'
  BY <1>1, <1>2, <1>3 DEF IInv, TypeOK
<1>5. NoDanglingNode'
  BY <1>1, <1>2, <1>3 DEF IInv, NoDanglingNode
<1>6. QED
  BY <1>2, <1>3, <1>4, <1>5 DEF IInv

\* Steps that touch neither the queue nor the loop list nor a node.
LEMMA ControlPreserves ==
    ASSUME IInv, Start \/ Wake \/ LoopBang \/ LoopBangReturn \/ LoopDone
                 \/ Continue \/ Quit \/ Tick
    PROVE  IInv'
<1>1. UNCHANGED <<queue, event, looped, alive, last>>
  BY DEF Start, Wake, LoopBang, LoopBangReturn, LoopDone, Continue, Quit, Tick,
         threadVars, timeVars
<1>2. QueueOrdered' /\ QueueAfterLast' /\ LoopedOnce'
  BY <1>1 DEF IInv, QueueOrdered, QueueAfterLast, LoopedOnce
<1>3. TypeOK'
  <2>1. clock' \in Time /\ current_time' \in Time /\ real_time' \in Time
    BY MaxTimeAssumption
       DEF IInv, TypeOK, Time, Start, Wake, LoopBang, LoopBangReturn, LoopDone,
           Continue, Quit, Tick, timeVars
  <2>2. /\ pc' \in {"off", "sleep", "looping", "bang", "popping", "trigger",
                    "unlocked", "ended"}
        /\ (pc' = "trigger") <=> (pc = "trigger")
    BY DEF IInv, TypeOK, Start, Wake, LoopBang, LoopBangReturn, LoopDone,
           Continue, Quit, Tick, threadVars
  <2>3. turn' \in Nat
    BY DEF IInv, TypeOK, Start, Wake, LoopBang, LoopBangReturn, LoopDone,
           Continue, Quit, Tick, threadVars
  <2>4. should_run' \in BOOLEAN
    BY DEF IInv, TypeOK, Start, Wake, LoopBang, LoopBangReturn, LoopDone,
           Continue, Quit, Tick
  <2>5. QED
    BY <1>1, <2>1, <2>2, <2>3, <2>4 DEF IInv, TypeOK
<1>4. TimesOrdered'
  <2>1. clock \in Int /\ current_time \in Int /\ real_time \in Int /\ last \in Int
    BY MaxTimeAssumption DEF IInv, TypeOK, Time
  <2>2. QED
    BY <1>1, <2>1
       DEF IInv, TimesOrdered, Start, Wake, LoopBang, LoopBangReturn,
           LoopDone, Continue, Quit, Tick, timeVars, threadVars
<1>5. TriggerTimes' /\ NoDanglingNode'
  BY <1>1 DEF IInv, TypeOK, TriggerTimes, NoDanglingNode, Start, Wake,
              LoopBang, LoopBangReturn, LoopDone, Continue, Quit, Tick,
              timeVars, threadVars
<1>6. NothingOverdue'
  <2>1. LockFree' => LockFree /\ UNCHANGED current_time
    BY DEF LockFree, Start, Wake, LoopBang, LoopBangReturn, LoopDone, Continue,
           Quit, Tick, timeVars, threadVars
  <2>2. QED
    BY <1>1, <2>1 DEF IInv, NothingOverdue
<1>7. QED
  BY <1>2, <1>3, <1>4, <1>5, <1>6 DEF IInv

LEMMA TriggerPreserves ==
    ASSUME IInv, Trigger
    PROVE  IInv'
<1>1. /\ UNCHANGED <<clock, real_time, queue, looped, turn, should_run, alive>>
      /\ pc' = "trigger"
      /\ event' = Head(queue)
      /\ current_time' = event'.when
      /\ last' = event'.when
      /\ pc = "popping"
  BY DEF Trigger
<1>2. /\ queue \in Seq(Event)
      /\ Len(queue) \in Nat
      /\ DOMAIN queue = 1..Len(queue)
      /\ \A i \in DOMAIN queue : queue[i] \in Event /\ queue[i].when \in Nat
  BY QueueElements DEF IInv, TypeOK
<1>3. /\ 1 \in DOMAIN queue
      /\ event' = queue[1]
      /\ event' \in Event
      /\ event'.when \in Time
      /\ event'.when \in Nat
      /\ event'.when <= real_time
  <2>1. queue # <<>> /\ real_time >= Head(queue).when
    BY DEF Trigger, HeadIsDue
  <2>2. 1 \in DOMAIN queue /\ Head(queue) = queue[1]
    BY <1>2, <2>1, EmptySeq
  <2>3. real_time \in Nat
    BY MaxTimeAssumption DEF IInv, TypeOK, Time
  <2>4. event' \in Event
    BY <1>1, <1>2, <2>2
  <2>5. QED
    BY <1>1, <2>1, <2>2, <2>3, <2>4, EventFields
<1>4. event' # NoEvent
  BY <1>3, NoEventAssumption
<1>5. TypeOK'
  BY <1>1, <1>3, <1>4 DEF IInv, TypeOK
<1>6. QueueOrdered' /\ LoopedOnce' /\ NothingOverdue'
  BY <1>1 DEF IInv, QueueOrdered, LoopedOnce, NothingOverdue, LockFree
<1>7. TimesOrdered' /\ TriggerTimes'
  <2>1. real_time <= clock
    BY DEF IInv, TimesOrdered
  <2>2. event'.when <= event'.when
    BY <1>3
  <2>3. QED
    BY <1>1, <1>3, <2>1, <2>2 DEF TimesOrdered, TriggerTimes
<1>8. QueueAfterLast'
  <2> SUFFICES ASSUME NEW i \in DOMAIN queue
               PROVE  queue[i].when >= event'.when
    BY <1>1 DEF QueueAfterLast
  <2>1. CASE i = 1
    BY <1>2, <1>3, <2>1
  <2>2. CASE i # 1
    BY <1>2, <1>3, <2>2 DEF IInv, QueueOrdered
  <2>3. QED
    BY <2>1, <2>2
<1>9. NoDanglingNode'
  BY <1>1, <1>3 DEF IInv, NoDanglingNode
<1>10. QED
  BY <1>5, <1>6, <1>7, <1>8, <1>9 DEF IInv

LEMMA TriggerReturnPreserves ==
    ASSUME IInv, TriggerReturn
    PROVE  IInv'
<1>1. /\ UNCHANGED <<clock, current_time, real_time, looped, turn, should_run,
                     alive, last>>
      /\ pc = "trigger"
      /\ pc' = "popping"
      /\ event' = NoEvent
      /\ queue' = Pop(queue)
  BY DEF TriggerReturn, timeVars
<1>2. /\ queue \in Seq(Event)
      /\ Len(queue) \in Nat
      /\ DOMAIN queue = 1..Len(queue)
  BY QueueElements DEF IInv, TypeOK
<1>3. /\ queue' \in Seq(Event)
      /\ \/ queue' = queue
         \/ /\ DOMAIN queue' = 1..Len(queue) - 1
            /\ \A i \in 1..Len(queue) - 1 : queue'[i] = queue[i + 1]
  <2>1. CASE queue = <<>>
    BY <1>1, <1>2, <2>1 DEF Pop
  <2>2. CASE queue # <<>>
    <3>1. /\ Tail(queue) \in Seq(Event)
          /\ Len(Tail(queue)) = Len(queue) - 1
          /\ \A i \in 1..Len(Tail(queue)) : Tail(queue)[i] = queue[i + 1]
      BY <1>2, <2>2, HeadTailProperties
    <3>2. queue' = Tail(queue)
      BY <1>1, <2>2 DEF Pop
    <3>3. QED
      BY <3>1, <3>2, LenProperties
  <2>3. QED
    BY <2>1, <2>2
<1>4. QueueOrdered'
  <2>1. CASE queue' = queue
    BY <2>1 DEF IInv, QueueOrdered
  <2>2. CASE queue' # queue
    <3> SUFFICES ASSUME NEW i \in DOMAIN queue', NEW j \in DOMAIN queue', i < j
                 PROVE  /\ queue'[i].when <= queue'[j].when
                        /\ queue'[i].id # queue'[j].id
      BY DEF QueueOrdered
    <3>1. /\ i + 1 \in DOMAIN queue /\ j + 1 \in DOMAIN queue /\ i + 1 < j + 1
          /\ queue'[i] = queue[i + 1] /\ queue'[j] = queue[j + 1]
      BY <1>2, <1>3, <2>2
    <3>2. QED
      BY <3>1 DEF IInv, QueueOrdered
  <2>3. QED
    BY <2>1, <2>2
<1>5. \A k \in DOMAIN queue' : \E i \in DOMAIN queue : queue'[k] = queue[i]
  BY <1>2, <1>3
<1>6. TypeOK'
  BY <1>1, <1>3 DEF IInv, TypeOK
<1>7. NothingOverdue' /\ QueueAfterLast' /\ TriggerTimes' /\ LoopedOnce'
  BY <1>1, <1>5 DEF IInv, NothingOverdue, LockFree, QueueAfterLast,
                    TriggerTimes, LoopedOnce
<1>8. TimesOrdered' /\ NoDanglingNode'
  BY <1>1, <1>5 DEF IInv, TimesOrdered, NoDanglingNode
<1>9. QED
  BY <1>4, <1>6, <1>7, <1>8 DEF IInv

\* The end of a round: the head is not due, so nothing behind it is.
LEMMA UnlockPreserves ==
    ASSUME IInv, Unlock
    PROVE  IInv'
<1>1. /\ UNCHANGED <<clock, real_time, queue, event, looped, turn, should_run,
                     alive, last>>
      /\ pc = "popping"
      /\ pc' = "unlocked"
      /\ current_time' = real_time
      /\ ~HeadIsDue
  BY DEF Unlock
<1>2. /\ queue \in Seq(Event)
      /\ Len(queue) \in Nat
      /\ DOMAIN queue = 1..Len(queue)
      /\ \A i \in DOMAIN queue : queue[i].when \in Nat
  BY QueueElements DEF IInv, TypeOK
<1>3. real_time \in Nat /\ last \in Nat /\ current_time \in Nat /\ clock \in Nat
  BY MaxTimeAssumption DEF IInv, TypeOK, Time
<1>4. NothingOverdue'
  <2> SUFFICES ASSUME NEW i \in DOMAIN queue
               PROVE  queue[i].when > real_time
    BY <1>1 DEF NothingOverdue
  <2>1. 1 \in DOMAIN queue /\ queue # <<>> /\ Head(queue) = queue[1]
    BY <1>2, EmptySeq
  <2>2. queue[1].when > real_time
    BY <1>1, <1>2, <1>3, <2>1 DEF HeadIsDue
  <2>3. CASE i = 1
    BY <2>2, <2>3
  <2>4. CASE i # 1
    <3>1. queue[1].when <= queue[i].when
      BY <1>2, <2>1, <2>4 DEF IInv, QueueOrdered
    <3>2. QED
      BY <1>2, <1>3, <2>1, <2>2, <3>1
  <2>5. QED
    BY <2>3, <2>4
<1>5. TypeOK' /\ QueueOrdered' /\ LoopedOnce' /\ QueueAfterLast'
  BY <1>1 DEF IInv, TypeOK, QueueOrdered, LoopedOnce, QueueAfterLast
<1>6. TimesOrdered' /\ TriggerTimes' /\ NoDanglingNode'
  BY <1>1, <1>3 DEF IInv, TimesOrdered, TriggerTimes, NoDanglingNode
<1>7. QED
  BY <1>4, <1>5, <1>6 DEF IInv

LEMMA NextPreserves == IInv /\ [Next]_vars => IInv'
<1> SUFFICES ASSUME IInv, [Next]_vars PROVE IInv'
  OBVIOUS
<1>1. CASE Call
  <2>1. ASSUME NEW n \in Node, NEW d \in Interval, NEW f \in BOOLEAN,
               BangMeIn(n, d, f)
        PROVE  IInv'
    BY <2>1, BangMeInPreserves
  <2>2. ASSUME NEW n \in Node, RemoveMyEvents(n)
        PROVE  IInv'
    BY <2>2, RemoveMyEventsPreserves
  <2>3. ASSUME NEW n \in Node, LoopMe(n) \/ UnloopMe(n)
        PROVE  IInv'
    BY <2>3, LoopCallsPreserve
  <2>4. ASSUME NEW n \in Node, Destroy(n)
        PROVE  IInv'
    BY <2>4, DestroyPreserves
  <2>5. CASE Quit
    BY <2>5, ControlPreserves
  <2>6. QED
    BY <1>1, <2>1, <2>2, <2>3, <2>4, <2>5 DEF Call
<1>2. CASE Start \/ Tick
  BY <1>2, ControlPreserves
<1>3. CASE Round
  BY <1>3, ControlPreserves, TriggerPreserves, TriggerReturnPreserves,
     UnlockPreserves DEF Round
<1>4. CASE UNCHANGED vars
  BY <1>4 DEF vars, IInv, TypeOK, QueueOrdered, NothingOverdue, LockFree,
              NoDanglingNode, LoopedOnce, TimesOrdered, QueueAfterLast,
              TriggerTimes
<1>5. QED
  BY <1>1, <1>2, <1>3, <1>4 DEF Next

-----------------------------------------------------------------------------
(* Theorems.                                                               *)

\* Every reachable state of the worker satisfies the inductive invariant.
THEOREM Invariance == Spec => []IInv
<1>1. Init => IInv
  BY InitEstablishes
<1>2. IInv /\ [Next]_vars => IInv'
  BY NextPreserves
<1>3. QED
  BY <1>1, <1>2, PTL DEF Spec

\* The variables of the worker keep their types, and an event is being
\* triggered exactly while the thread is inside its bang.
THEOREM TypeCorrect == Spec => []TypeOK
<1>1. IInv => TypeOK
  BY DEF IInv
<1>2. QED
  BY <1>1, Invariance, PTL

\* ordered_list.h:186: the event queue is sorted and holds an event once.
THEOREM QueueAlwaysOrdered == Spec => []QueueOrdered
<1>1. IInv => QueueOrdered
  BY DEF IInv
<1>2. QED
  BY <1>1, Invariance, PTL

\* Between two rounds no event of the queue is due: pop_events drained what
\* was, and register_event refused what would be.
THEOREM RoundsDrainTheQueue == Spec => []NothingOverdue
<1>1. IInv => NothingOverdue
  BY DEF IInv
<1>2. QED
  BY <1>1, Invariance, PTL

\* node.cpp:36: no pointer to a destroyed node stays in the worker.
THEOREM NoDanglingPointer == Spec => []NoDanglingNode
<1>1. IInv => NoDanglingNode
  BY DEF IInv
<1>2. QED
  BY <1>1, Invariance, PTL

\* Events are triggered in order of time, within a round and across rounds.
THEOREM TriggersAreOrdered == Spec => TriggersInOrder
<1>1. IInv /\ [Next]_vars => [last' >= last]_vars
  <2> SUFFICES ASSUME IInv, Next PROVE last' >= last
    BY DEF vars
  <2>1. last \in Nat
    BY MaxTimeAssumption DEF IInv, TypeOK, Time
  <2>2. CASE Trigger
    <3>1. queue # <<>> /\ queue \in Seq(Event) /\ last' = Head(queue).when
      BY <2>2 DEF Trigger, HeadIsDue, IInv, TypeOK
    <3>2. 1 \in DOMAIN queue /\ Head(queue) = queue[1]
      BY <3>1, EmptySeq, QueueElements
    <3>3. QED
      BY <3>1, <3>2 DEF IInv, QueueAfterLast
  <2>3. CASE ~Trigger
    <3>1. last' = last
      BY <2>3 DEF Next, Call, Round, BangMeIn, RemoveMyEvents, LoopMe, UnloopMe,
                  Destroy, Quit, Start, Wake, LoopBang, LoopBangReturn,
                  LoopDone, TriggerReturn, Unlock, Continue, Tick
    <3>2. QED
      BY <2>1, <3>1
  <2>4. QED
    BY <2>2, <2>3
<1>2. QED
  BY <1>1, Invariance, PTL DEF Spec, TriggersInOrder

-----------------------------------------------------------------------------
(* Patches without feedback: no event is dropped.  pop_events pops the     *)
(* head of the queue after the bang, so the event it triggered has to be   *)
(* still there.                                                            *)

HeadIsRunning == pc = "trigger" => queue # <<>> /\ Head(queue) = event

LEMMA HeadOfEvents ==
    ASSUME NEW q \in Seq(Event)
    PROVE  (q # <<>>) <=> 1 \in DOMAIN q
BY EmptySeq, QueueElements

\* An event at the head stays there when the events of another node go.
LEMMA FreeEventsKeepsHead ==
    ASSUME NEW q \in Seq(Event), q # <<>>, NEW n, Head(q).node # n
    PROVE  /\ FreeEventsFor(q, n) # <<>>
           /\ Head(FreeEventsFor(q, n)) = Head(q)
<1> DEFINE r == FreeEventsFor(q, n)
<1>1. KeepsOthers(q, r, n)
  BY FreeEventsForProperties
<1> HIDE DEF r
<1>2. /\ r \in Seq(Event)
      /\ DOMAIN r = 1..Len(r) /\ Len(r) \in Nat
      /\ DOMAIN q = 1..Len(q) /\ Len(q) \in Nat
      /\ 1 \in 1..Len(q)
      /\ Head(q) = q[1]
  BY <1>1, QueueElements, HeadOfEvents DEF KeepsOthers
<1>3. PICK h \in [1..Len(r) -> 1..Len(q)] :
         /\ \A i, j \in 1..Len(r) : i < j => h[i] < h[j]
         /\ \A k \in 1..Len(r) : r[k] = q[h[k]]
         /\ \A i \in 1..Len(q) : q[i].node # n => \E k \in 1..Len(r) : h[k] = i
  BY <1>1 DEF KeepsOthers
<1>4. PICK k \in 1..Len(r) : h[k] = 1
  BY <1>2, <1>3
<1>5. k = 1
  <2> SUFFICES ASSUME k # 1 PROVE FALSE
    OBVIOUS
  <2>1. 1 \in 1..Len(r) /\ 1 < k
    BY <1>2, <1>4
  <2>2. h[1] < h[k] /\ h[1] \in 1..Len(q)
    BY <1>3, <2>1
  <2>3. QED
    BY <1>2, <1>4, <2>2
<1>6. r[1] = q[1] /\ 1 \in DOMAIN r
  BY <1>2, <1>3, <1>4, <1>5
<1>7. r # <<>> /\ Head(r) = r[1]
  BY <1>2, <1>6, HeadOfEvents
<1>8. QED
  BY <1>2, <1>6, <1>7 DEF r

LEMMA HeadPreserved ==
    ASSUME SelfCancel = FALSE, IInv, HeadIsRunning, [Next]_vars
    PROVE  HeadIsRunning'
<1>1. queue \in Seq(Event) /\ current_time \in Time /\ current_time \in Nat
  BY MaxTimeAssumption DEF IInv, TypeOK, Time
<1>2. CASE Call
  <2> SUFFICES ASSUME pc' = "trigger"
               PROVE  queue' # <<>> /\ Head(queue') = event'
    BY DEF HeadIsRunning
  <2>1. UNCHANGED <<pc, event, current_time>>
    BY <1>2 DEF Call, BangMeIn, RemoveMyEvents, LoopMe, UnloopMe, Destroy, Quit,
                timeVars, threadVars
  <2>2. pc = "trigger" /\ queue # <<>> /\ Head(queue) = event
    BY <2>1 DEF HeadIsRunning
  <2>3. event.when = current_time
    BY <2>2 DEF IInv, TriggerTimes
  <2>4. ASSUME NEW n \in Node, NEW d \in Interval, NEW f \in BOOLEAN,
               BangMeIn(n, d, f)
        PROVE  queue' # <<>> /\ Head(queue') = event
    <3>1. PICK e \in Event : queue' = RegisterEvent(queue, e)
      <4>1. PICK id \in EventId :
              queue' = RegisterEvent(queue,
                          [id |-> id, node |-> n,
                           when |-> current_time + d, forced |-> f])
        BY <2>4 DEF BangMeIn
      <4>2. [id |-> id, node |-> n, when |-> current_time + d, forced |-> f]
               \in Event
        BY <1>1, <2>4, IntervalAssumption, MaxTimeAssumption
           DEF BangMeIn, Event, Time
      <4>3. QED
        BY <4>1, <4>2
    <3>2. CASE queue' = queue
      BY <2>2, <3>2
    <3>3. CASE queue' # queue
      <4>1. queue' \in Seq(Event) /\ e.when > current_time
        BY <1>1, <3>1, <3>3, RegisterEventProperties
      <4>2. PICK p \in 1..Len(queue) + 1 : Inserted(queue, e, queue', p)
        BY <1>1, <3>1, <3>3, RegisterEventProperties
      <4>3. 1 \in DOMAIN queue /\ Head(queue) = queue[1] /\ Len(queue) \in Nat
            /\ DOMAIN queue = 1..Len(queue)
        BY <1>1, <2>2, HeadOfEvents, QueueElements
      <4>4. p # 1
        BY <1>1, <2>2, <2>3, <3>1, <4>1, <4>2, <4>3, EventFields DEF Inserted
      <4>5. queue'[1] = queue[1]
        BY <4>2, <4>3, <4>4 DEF Inserted
      <4>6. 1 \in DOMAIN queue'
        BY <4>1, <4>2, <4>3, QueueElements DEF Inserted
      <4>7. QED
        BY <2>2, <4>1, <4>3, <4>5, <4>6, HeadOfEvents
    <3>4. QED
      BY <3>2, <3>3
  <2>5. ASSUME NEW n \in Node, RemoveMyEvents(n) \/ Destroy(n)
        PROVE  queue' # <<>> /\ Head(queue') = event
    <3>1. n # event.node /\ queue' = FreeEventsFor(queue, n)
      BY <2>2, <2>5 DEF RemoveMyEvents, Destroy, MayCancel
    <3>2. QED
      BY <1>1, <2>2, <3>1, FreeEventsKeepsHead
  <2>6. CASE UNCHANGED queue
    BY <2>1, <2>2, <2>6
  <2>7. QED
    BY <1>2, <2>1, <2>4, <2>5, <2>6 DEF Call, LoopMe, UnloopMe, Quit
<1>3. CASE Trigger
  BY <1>3 DEF Trigger, HeadIsDue, HeadIsRunning
<1>4. CASE ~Trigger /\ ~Call
  <2>1. pc' = "trigger" => pc = "trigger" /\ UNCHANGED <<queue, event>>
    BY <1>4 DEF Next, Round, Start, Tick, Wake, LoopBang, LoopBangReturn,
                LoopDone, TriggerReturn, Unlock, Continue, vars, threadVars
  <2>2. QED
    BY <2>1 DEF HeadIsRunning
<1>5. QED
  BY <1>2, <1>3, <1>4

\* Which events a step takes out of the queue.
LEMMA DroppedByStep ==
    ASSUME IInv, HeadIsRunning, Next, NEW e \in Queued \ Queued'
    PROVE  \/ TriggerReturn /\ e = event
           \/ RemoveMyEvents(e.node)
           \/ Destroy(e.node)
<1>1. /\ queue \in Seq(Event) /\ current_time \in Time
      /\ Len(queue) \in Nat /\ DOMAIN queue = 1..Len(queue)
  BY QueueElements DEF IInv, TypeOK
<1>2. PICK i \in 1..Len(queue) : queue[i] = e
  BY <1>1 DEF Queued, ToSet
<1>3. queue' # queue /\ \A k \in DOMAIN queue' : queue'[k] # e
  BY DEF Queued, ToSet
<1>4. ASSUME NEW n \in Node, NEW d \in Interval, NEW f \in BOOLEAN,
             BangMeIn(n, d, f)
      PROVE  FALSE
  <2>1. PICK x \in Event : queue' = RegisterEvent(queue, x)
    <3>1. PICK id \in EventId :
            queue' = RegisterEvent(queue,
                        [id |-> id, node |-> n,
                         when |-> current_time + d, forced |-> f])
      BY <1>4 DEF BangMeIn
    <3>2. [id |-> id, node |-> n, when |-> current_time + d, forced |-> f]
             \in Event
      BY <1>1, <1>4, IntervalAssumption, MaxTimeAssumption
         DEF BangMeIn, Event, Time
    <3>3. QED
      BY <3>1, <3>2
  <2>2. PICK p \in 1..Len(queue) + 1 : Inserted(queue, x, queue', p)
    BY <1>1, <1>3, <2>1, RegisterEventProperties
  <2>3. queue' \in Seq(Event)
    BY <1>1, <2>1, RegisterEventProperties
  <2>4. DOMAIN queue' = 1..Len(queue) + 1
    BY <2>2, <2>3, QueueElements DEF Inserted
  <2>5. CASE i < p
    BY <1>1, <1>2, <1>3, <2>2, <2>4, <2>5 DEF Inserted
  <2>6. CASE i >= p
    <3>1. i + 1 \in 1..Len(queue) + 1 /\ (i + 1) - 1 = i /\ ~(i + 1 < p)
          /\ i + 1 # p
      BY <1>1, <2>6
    <3>2. queue'[i + 1] = queue[i]
      BY <2>2, <3>1 DEF Inserted
    <3>3. QED
      BY <1>2, <1>3, <2>4, <3>1, <3>2
  <2>7. QED
    BY <1>1, <2>5, <2>6
<1>5. ASSUME NEW n \in Node, RemoveMyEvents(n) \/ Destroy(n)
      PROVE  e.node = n
  <2>1. queue' = FreeEventsFor(queue, n)
    BY <1>5 DEF RemoveMyEvents, Destroy
  <2>2. KeepsOthers(queue, queue', n)
    BY <1>1, <2>1, FreeEventsForProperties
  <2>3. queue' \in Seq(Event) /\ DOMAIN queue' = 1..Len(queue')
    BY <2>2, QueueElements DEF KeepsOthers
  <2>4. ASSUME queue[i].node # n PROVE FALSE
    <3>1. PICK h \in [1..Len(queue') -> 1..Len(queue)] :
            /\ \A k \in 1..Len(queue') : queue'[k] = queue[h[k]]
            /\ \A j \in 1..Len(queue) :
                  queue[j].node # n => \E k \in 1..Len(queue') : h[k] = j
      BY <2>2 DEF KeepsOthers
    <3>2. PICK k \in 1..Len(queue') : h[k] = i
      BY <2>4, <3>1
    <3>3. QED
      BY <1>2, <1>3, <2>3, <3>1, <3>2
  <2>5. QED
    BY <1>2, <2>4
<1>6. CASE TriggerReturn
  <2>1. queue # <<>> /\ Head(queue) = event /\ queue' = Tail(queue)
    BY <1>1, <1>2, <1>6 DEF TriggerReturn, HeadIsRunning, Pop
  <2>2. /\ queue' \in Seq(Event)
        /\ Len(queue') = Len(queue) - 1
        /\ \A j \in 1..Len(queue') : queue'[j] = queue[j + 1]
    BY <1>1, <2>1, HeadTailProperties
  <2>3. CASE i = 1
    BY <1>1, <1>2, <1>6, <2>1, <2>3, HeadOfEvents
  <2>4. CASE i # 1
    <3>1. i - 1 \in 1..Len(queue') /\ (i - 1) + 1 = i
      BY <1>1, <2>2, <2>4
    <3>2. i - 1 \in DOMAIN queue' /\ queue'[i - 1] = e
      BY <1>2, <2>2, <3>1, QueueElements
    <3>3. QED
      BY <1>3, <3>2
  <2>5. QED
    BY <2>3, <2>4
<1>7. QED
  <2>1. \/ \E n \in Node, d \in Interval, f \in BOOLEAN : BangMeIn(n, d, f)
        \/ \E n \in Node : RemoveMyEvents(n) \/ Destroy(n)
        \/ TriggerReturn
    BY <1>3 DEF Next, Call, Round, LoopMe, UnloopMe, Quit, Start, Wake, LoopBang,
                LoopBangReturn, LoopDone, Trigger, Unlock, Continue, Tick
  <2>2. QED
    BY <1>4, <1>5, <1>6, <2>1

\* worker.h:152: as long as no bang reaches back into its own node, an event
\* leaves the queue only by being triggered, or because its node removed its
\* events or died.  With feedback the property is false (run feedback).
THEOREM NothingDropped ==
    ASSUME SelfCancel = FALSE
    PROVE  Spec => NoEventDropped
<1>1. Init => HeadIsRunning
  BY DEF Init, HeadIsRunning
<1>2. IInv /\ HeadIsRunning /\ [Next]_vars => HeadIsRunning'
  BY HeadPreserved
<1>3. IInv /\ HeadIsRunning /\ [Next]_vars
        => [\A e \in Queued \ Queued' :
              \/ TriggerReturn /\ e = event
              \/ RemoveMyEvents(e.node)
              \/ Destroy(e.node)]_vars
  BY DroppedByStep
<1>4. QED
  BY <1>1, <1>2, <1>3, Invariance, PTL DEF Spec, NoEventDropped

-----------------------------------------------------------------------------
(* Patches without feedback: the worker keeps the calendar.                *)

\* The events that are not on the page of t while x is triggered.
Off(t, x) == {e \in Event : e.when # t \/ e = x}

\* The pages of a queue that is not yet the value of the variable.
PagesOf(q, x) == [t \in Time |-> Without(q, Off(t, x))]

LEMMA PageIs ==
    ASSUME NEW q \in Seq(Event), NEW x
    PROVE  [t \in Time |-> Without(q, {e \in ToSet(q) : e.when # t \/ e = x})]
              = PagesOf(q, x)
<1>1. ASSUME NEW t \in Time
      PROVE  Without(q, {e \in ToSet(q) : e.when # t \/ e = x}) = Without(q, Off(t, x))
  <2> DEFINE gone == {e \in ToSet(q) : e.when # t \/ e = x}
  <2>1. \A e \in ToSet(q) : e \in gone <=> e \in Off(t, x)
    BY ElementsOf DEF Off
  <2> HIDE DEF gone
  <2>2. Without(q, gone) = Without(q, Off(t, x))
    BY <2>1, WithoutAgree
  <2>3. QED
    BY <2>2 DEF gone
<1>2. QED
  BY <1>1 DEF PagesOf

LEMMA PageNow == queue \in Seq(Event) => Page = PagesOf(queue, event)
BY PageIs DEF Page, Queued

LEMMA PageNext == queue' \in Seq(Event) => Page' = PagesOf(queue', event')
BY PageIs DEF Page, Queued

LEMMA PageOfEmpty == \A x : PagesOf(<<>>, x) = [t \in Time |-> <<>>]
BY WithoutEmpty DEF PagesOf

\* The calendar's walk is the worker's.
LEMMA SameWithout == \A list, gone : Agenda!Without(list, gone) = Without(list, gone)
BY DEF Agenda!Without, Without

LEMMA InitCalendar == Init => Agenda!CalendarInit
<1> SUFFICES ASSUME Init PROVE Agenda!CalendarInit
  OBVIOUS
<1>1. queue = <<>> /\ queue \in Seq(Event) /\ event = NoEvent /\ last = 0
  BY DEF Init
<1>2. QED
  BY <1>1, PageNow, PageOfEmpty DEF Agenda!CalendarInit

\* The pages before and after the head of the queue is set apart.
LEMMA PagesOfHead ==
    ASSUME NEW q \in Seq(Event), Ordered(q), q # <<>>, NEW t \in Time
    PROVE  /\ Head(q) \in Event /\ Tail(q) \in Seq(Event)
           /\ Without(Tail(q), Off(t, NoEvent)) \in Seq(Event)
           /\ Without(q, Off(t, Head(q))) = Without(Tail(q), Off(t, NoEvent))
           /\ Without(q, Off(t, NoEvent)) =
                 IF Head(q).when = t
                 THEN <<Head(q)>> \o Without(Tail(q), Off(t, NoEvent))
                 ELSE Without(Tail(q), Off(t, NoEvent))
<1>1. /\ Head(q) \in Event /\ Tail(q) \in Seq(Event)
      /\ Len(Tail(q)) = Len(q) - 1
      /\ \A i \in 1..Len(Tail(q)) : Tail(q)[i] = q[i + 1]
  BY HeadTailProperties
<1>2. /\ Len(q) \in Nat /\ DOMAIN q = 1..Len(q) /\ 1 \in DOMAIN q
      /\ Head(q) = q[1]
  BY QueueElements, HeadOfEvents
<1>3. Head(q) \notin ToSet(Tail(q))
  <2>0. ToSet(Tail(q)) = {Tail(q)[i] : i \in 1..Len(Tail(q))}
    BY <1>1, ElementsOf
  <2> SUFFICES ASSUME NEW i \in 1..Len(Tail(q)), Tail(q)[i] = Head(q)
               PROVE  FALSE
    BY <2>0
  <2>1. i + 1 \in DOMAIN q /\ 1 < i + 1 /\ q[i + 1] = q[1]
    BY <1>1, <1>2
  <2>2. QED
    BY <2>1, <1>2 DEF Ordered
<1>4. Without(Tail(q), Off(t, Head(q))) = Without(Tail(q), Off(t, NoEvent))
  <2>1. ToSet(Tail(q)) \subseteq Event
    BY <1>1, ElementsOf
  <2>2. \A e \in ToSet(Tail(q)) : e \in Off(t, Head(q)) <=> e \in Off(t, NoEvent)
    BY <2>1, <1>3, NoEventAssumption DEF Off
  <2>3. QED
    BY <2>2, <1>1, WithoutAgree
<1>5. Head(q) \in Off(t, Head(q)) /\ (Head(q) \in Off(t, NoEvent) <=> Head(q).when # t)
  BY <1>1, NoEventAssumption DEF Off
<1>6. \A gone : /\ Without(Tail(q), gone) \in Seq(Event)
                /\ Without(q, gone) = IF Head(q) \in gone THEN Without(Tail(q), gone)
                                      ELSE <<Head(q)>> \o Without(Tail(q), gone)
  BY WithoutHead
<1>7. QED
  BY <1>1, <1>4, <1>5, <1>6

\* bang_me_in writes an event at the end of its page, or does nothing.
LEMMA BangMeInAccepts ==
    ASSUME IInv, NEW n \in Node, NEW d \in Interval, NEW f \in BOOLEAN,
           BangMeIn(n, d, f), queue' # queue
    PROVE  \E e \in Event : Agenda!Accept(e)
<1>1. PICK id \in EventId \ UsedId :
        queue' = RegisterEvent(queue,
                    [id |-> id, node |-> n,
                     when |-> current_time + d, forced |-> f])
  BY DEF BangMeIn
<1> DEFINE e == [id |-> id, node |-> n, when |-> current_time + d, forced |-> f]
<1>2. e \in Event /\ e.id = id
  BY IntervalAssumption, MaxTimeAssumption DEF IInv, BangMeIn, CanCall, Event, Time, TypeOK
<1>3. UNCHANGED <<event, last>>
  BY DEF BangMeIn, timeVars, threadVars
<1> HIDE DEF e
<1>4. queue' = RegisterEvent(queue, e)
  BY <1>1 DEF e
<1>5. queue \in Seq(Event) /\ current_time \in Time /\ Ordered(queue)
  BY DEF IInv, TypeOK, QueueOrdered, Ordered
<1>6. queue' \in Seq(Event) /\ e.when > current_time
  BY <1>2, <1>4, <1>5, RegisterEventProperties
<1>7. PICK p \in 1..Len(queue) + 1 : Inserted(queue, e, queue', p)
  BY <1>2, <1>4, <1>5, RegisterEventProperties
<1>8. e.when \in Time /\ e.when > last
  BY <1>2, <1>6, EventFields, MaxTimeAssumption DEF IInv, TypeOK, TimesOrdered, Time
<1>9. e # event
  <2>1. event # NoEvent => e.id # event.id
    BY <1>2 DEF UsedId
  <2>2. QED
    BY <2>1, <1>2, NoEventAssumption
<1>10. ASSUME NEW t \in Time
       PROVE  Without(queue', Off(t, event)) =
                 IF t = e.when THEN Append(Without(queue, Off(t, event)), e)
                 ELSE Without(queue, Off(t, event))
  <2> DEFINE gone == Off(t, event)
             y == SubSeq(queue, p, Len(queue))
             a == Without(SubSeq(queue, 1, p - 1), gone)
             b == Without(y, gone)
  <2>1. e \in gone <=> t # e.when
    BY <1>2, <1>9 DEF Off
  <2>2. queue' = InsertAt(queue, p, e)
    BY <1>7 DEF Inserted
  <2> HIDE DEF gone
  <2>3. /\ a \in Seq(Event) /\ b \in Seq(Event)
        /\ Without(queue, gone) = a \o b
        /\ Without(queue', gone) = IF e \in gone THEN a \o b ELSE Append(a, e) \o b
    <3>1. /\ queue \in Seq(Event) /\ p \in 1..Len(queue) + 1
          /\ e \in Event
      BY <1>2, <1>5
    <3>2. InsertedWalk(Event, queue, InsertAt(queue, p, e), e, gone,
                       Without(SubSeq(queue, 1, p - 1), gone),
                       Without(SubSeq(queue, p, Len(queue)), gone))
      BY <3>1, WithoutInsert
    <3>3. QED
      BY <3>2, <2>2 DEF InsertedWalk
  <2>4. CASE t # e.when
    BY <2>1, <2>3, <2>4 DEF gone
  <2>5. CASE t = e.when
    <3>1. \A j \in p..Len(queue) : queue[j] \in Event /\ queue[j].when > e.when
      <4> SUFFICES ASSUME NEW j \in p..Len(queue)
                   PROVE  queue[j] \in Event /\ queue[j].when > e.when
        OBVIOUS
      <4>1. /\ Len(queue) \in Nat /\ DOMAIN queue = 1..Len(queue)
            /\ \A i \in 1..Len(queue) : queue[i] \in Event /\ queue[i].when \in Nat
            /\ e.when \in Nat
        BY <1>2, <1>5, QueueElements, EventFields
      <4>2. j \in 1..Len(queue) /\ p \in 1..Len(queue)
        BY <4>1
      <4>3. queue[p].when > e.when
        BY <4>1, <4>2, <1>7 DEF Inserted
      <4>4. queue[p].when <= queue[j].when
        BY <4>1, <4>2, <1>5 DEF Ordered
      <4>5. QED
        BY <4>1, <4>2, <4>3, <4>4
    <3>2. y \in Seq(Event) /\ \A x \in ToSet(y) : x \in Event /\ x.when > e.when
      <4>1. Len(queue) \in Nat /\ p \in Int
        BY <1>5, QueueElements
      <4>2. /\ y \in Seq(Event)
            /\ Len(y) = IF p <= Len(queue) THEN Len(queue) - p + 1 ELSE 0
            /\ \A i \in 1..Len(queue) - p + 1 : y[i] = queue[p + i - 1]
        BY <3>1, <4>1, SubSeqProperties
      <4>3. ASSUME NEW i \in 1..Len(y)
            PROVE  y[i] \in Event /\ y[i].when > e.when
        <5>1. p + i - 1 \in p..Len(queue) /\ i \in 1..Len(queue) - p + 1
          BY <4>1, <4>2
        <5>2. QED
          BY <5>1, <4>2, <3>1
      <4> HIDE DEF y
      <4>4. QED
        BY <4>2, <4>3, ElementsOf
    <3>3. ToSet(y) \subseteq gone
      BY <3>2, <2>5, <1>2, EventFields DEF gone, Off
    <3> HIDE DEF y
    <3>4. b = <<>>
      BY <3>2, <3>3, WithoutNoneOrAll
    <3> HIDE DEF a, b
    <3>5. Append(a, e) \in Seq(Event)
      BY <2>3, <1>2, AppendProperties
    <3>6. a \o b = a /\ Append(a, e) \o b = Append(a, e)
      BY <2>3, <3>4, <3>5, ConcatEmptySeq
    <3>7. QED
      BY <2>1, <2>3, <2>5, <3>6 DEF gone
  <2>6. QED
    BY <2>4, <2>5
<1>11. Page = PagesOf(queue, event) /\ Page' = PagesOf(queue', event)
  BY <1>3, <1>5, <1>6, PageNow, PageNext
<1>12. Page' = [Page EXCEPT ![e.when] = Append(@, e)]
  BY <1>8, <1>10, <1>11 DEF PagesOf
<1>13. QED
  BY <1>2, <1>3, <1>8, <1>12 DEF Agenda!Accept

\* remove_my_events and ~Node tear the events of the node off every page.
LEMMA FreeEventsCancels ==
    ASSUME IInv, NEW n \in Node, queue # <<>>,
           queue' = FreeEventsFor(queue, n), UNCHANGED <<event, last>>
    PROVE  \E e \in Event : Agenda!Cancel(e.node)
<1> DEFINE Mine == {e \in Event : e.node = n}
<1>1. queue \in Seq(Event) /\ Head(queue) \in Event
  BY HeadTailProperties DEF IInv, TypeOK
<1>2. queue' = Without(queue, Mine) /\ queue' \in Seq(Event)
  <2>1. \A e \in ToSet(queue) : e \in {d \in ToSet(queue) : d.node = n} <=> e \in Mine
    BY <1>1, ElementsOf
  <2> DEFINE gone == {d \in ToSet(queue) : d.node = n}
  <2> HIDE DEF Mine, gone
  <2>2. Without(queue, gone) = Without(queue, Mine)
    BY <1>1, <2>1, WithoutAgree DEF gone
  <2>3. queue' = Without(queue, gone)
    BY DEF FreeEventsFor, gone
  <2>4. QED
    BY <2>2, <2>3, <1>1, WithoutElements
<1>3. Page = PagesOf(queue, event) /\ Page' = PagesOf(queue', event)
  BY <1>1, <1>2, PageNow, PageNext
<1>4. ASSUME NEW t \in Time
      PROVE  Without(queue', Off(t, event)) =
                Without(Without(queue, Off(t, event)),
                        {e \in ToSet(Without(queue, Off(t, event))) : e.node = n})
  <2> DEFINE off == Off(t, event)
             p == Without(queue, off)
             gone == {e \in ToSet(p) : e.node = n}
  <2> HIDE DEF off, Mine
  <2>1. p \in Seq(Event)
    BY <1>1, WithoutElements
  <2>2. Without(p, Mine) = Without(p, gone)
    <3>1. \A e \in ToSet(p) : e \in Mine <=> e \in gone
      BY <2>1, ElementsOf DEF Mine
    <3> HIDE DEF p, gone
    <3>2. QED
      BY <2>1, <3>1, WithoutAgree
  <2>3. Without(p, Mine) = Without(queue, off \cup Mine)
    BY <1>1, WithoutTwice
  <2>4. Without(queue', off) = Without(queue, Mine \cup off)
    BY <1>1, <1>2, WithoutTwice
  <2>5. off \cup Mine = Mine \cup off
    OBVIOUS
  <2>6. QED
    BY <2>2, <2>3, <2>4, <2>5 DEF off
<1>5. Page' = [t \in Time |->
                 Without(Page[t], {e \in ToSet(Page[t]) : e.node = n})]
  BY <1>3, <1>4 DEF PagesOf
<1>6. PICK e \in Event : e.node = n
  <2>1. [Head(queue) EXCEPT !.node = n] \in Event
    BY <1>1 DEF Event
  <2>2. QED
    BY <2>1, <1>1 DEF Event
<1>7. Agenda!Cancel(e.node)
  <2>1. \A list : Agenda!ToSet(list) = ToSet(list)
    BY DEF Agenda!ToSet, ToSet
  <2>2. QED
    BY <2>1, <1>5, <1>6, SameWithout DEF Agenda!Cancel
<1>8. QED
  BY <1>7

\* pop_events opens the first page that is not empty, and takes its first event.
LEMMA TriggerRuns ==
    ASSUME IInv, Trigger
    PROVE  \E t \in Time : Agenda!Run(t)
<1> DEFINE h == Head(queue)
<1>1. /\ queue \in Seq(Event) /\ queue # <<>> /\ Ordered(queue)
      /\ event = NoEvent
      /\ UNCHANGED queue /\ event' = h /\ last' = h.when
      /\ h \in Event /\ h.when \in Time
  BY HeadTailProperties, EventFields
     DEF IInv, TypeOK, QueueOrdered, Ordered, Trigger, HeadIsDue
<1>2. Page = PagesOf(queue, NoEvent) /\ Page' = PagesOf(queue, h)
  BY <1>1, PageNow, PageNext
<1> DEFINE rest(t) == Without(Tail(queue), Off(t, NoEvent))
<1>3. \A t \in Time : /\ rest(t) \in Seq(Event)
                      /\ Page'[t] = rest(t)
                      /\ Page[t] = IF h.when = t THEN <<h>> \o rest(t) ELSE rest(t)
  BY <1>1, <1>2, PagesOfHead DEF PagesOf
<1> HIDE DEF rest
<1>4. /\ Page[h.when] # <<>>
      /\ Head(Page[h.when]) = h
      /\ Tail(Page[h.when]) = rest(h.when)
  <2>1. Page[h.when] = <<h>> \o rest(h.when) /\ rest(h.when) \in Seq(Event)
    BY <1>1, <1>3
  <2> HIDE DEF h
  <2>2. QED
    BY <2>1, <1>1, HeadFirst
<1>5. Page' = [Page EXCEPT ![h.when] = Tail(@)]
  BY <1>1, <1>2, <1>3, <1>4 DEF PagesOf
<1>6. ASSUME NEW u \in Time, u < h.when PROVE Page[u] = <<>>
  <2>1. ToSet(queue) \subseteq Off(u, NoEvent)
    <3> SUFFICES ASSUME NEW i \in 1..Len(queue)
                 PROVE  queue[i] \in Off(u, NoEvent)
      BY <1>1, ElementsOf
    <3>1. /\ Len(queue) \in Nat /\ DOMAIN queue = 1..Len(queue)
          /\ queue[i] \in Event /\ queue[i].when \in Nat
          /\ h = queue[1] /\ h.when \in Nat /\ u \in Nat
      BY <1>1, QueueElements, EventFields, MaxTimeAssumption DEF Time
    <3>2. i = 1 \/ h.when <= queue[i].when
      BY <1>1, <3>1 DEF Ordered
    <3>3. queue[i].when # u
      BY <1>6, <3>1, <3>2
    <3>4. QED
      BY <3>1, <3>3 DEF Off
  <2>2. Without(queue, Off(u, NoEvent)) = <<>>
    BY <1>1, <2>1, WithoutNoneOrAll
  <2>3. QED
    BY <2>2, <1>2 DEF PagesOf
<1>7. QED
  BY <1>1, <1>4, <1>5, <1>6 DEF Agenda!Run

\* When the bang returns, the event that ran is the one that is popped.
LEMMA TriggerReturnFinishes ==
    ASSUME IInv, HeadIsRunning, TriggerReturn
    PROVE  Agenda!Finish
<1>1. /\ queue \in Seq(Event) /\ Ordered(queue)
      /\ queue # <<>> /\ Head(queue) = event
      /\ event \in Event /\ event # NoEvent
      /\ queue' = Tail(queue) /\ queue' \in Seq(Event)
      /\ event' = NoEvent /\ last' = last
  BY HeadTailProperties, NoEventAssumption
     DEF IInv, TypeOK, QueueOrdered, Ordered, HeadIsRunning, TriggerReturn, Pop
<1>2. Page = PagesOf(queue, event) /\ Page' = PagesOf(queue', NoEvent)
  BY <1>1, PageNow, PageNext
<1>3. \A t \in Time : Page'[t] = Page[t]
  BY <1>1, <1>2, PagesOfHead DEF PagesOf
<1>4. Page' = Page
  BY <1>2, <1>3 DEF PagesOf
<1>5. QED
  BY <1>1, <1>4 DEF Agenda!Finish

LEMMA StepOfCalendar ==
    ASSUME IInv, HeadIsRunning, [Next]_vars
    PROVE  [Agenda!CalendarNext]_(Agenda!calendarVars)
<1>1. CASE UNCHANGED <<queue, event, last>>
  <2>1. queue \in Seq(Event) /\ queue' \in Seq(Event)
    BY <1>1 DEF IInv, TypeOK
  <2>2. UNCHANGED Page
    BY <2>1, <1>1, PageNow, PageNext
  <2>3. QED
    BY <2>2, <1>1 DEF Agenda!calendarVars
<1>2. ASSUME NEW n \in Node, NEW d \in Interval, NEW f \in BOOLEAN,
             BangMeIn(n, d, f)
      PROVE  [Agenda!CalendarNext]_(Agenda!calendarVars)
  <2>1. CASE queue' = queue
    BY <1>1, <1>2, <2>1 DEF BangMeIn, threadVars
  <2>2. CASE queue' # queue
    BY <1>2, <2>2, BangMeInAccepts DEF Agenda!CalendarNext
  <2>3. QED
    BY <2>1, <2>2
<1>3. ASSUME NEW n \in Node, RemoveMyEvents(n) \/ Destroy(n)
      PROVE  [Agenda!CalendarNext]_(Agenda!calendarVars)
  <2>1. queue' = FreeEventsFor(queue, n) /\ UNCHANGED <<event, last>>
    BY <1>3 DEF RemoveMyEvents, Destroy, threadVars
  <2>2. CASE queue = <<>>
    BY <1>1, <2>1, <2>2, WithoutEmpty DEF FreeEventsFor
  <2>3. CASE queue # <<>>
    BY <2>1, <2>3, FreeEventsCancels DEF Agenda!CalendarNext
  <2>4. QED
    BY <2>2, <2>3
<1>4. CASE Trigger
  BY <1>4, TriggerRuns DEF Agenda!CalendarNext
<1>5. CASE TriggerReturn
  BY <1>5, TriggerReturnFinishes DEF Agenda!CalendarNext
<1>6. \/ \E n \in Node, d \in Interval, f \in BOOLEAN : BangMeIn(n, d, f)
      \/ \E n \in Node : RemoveMyEvents(n) \/ Destroy(n)
      \/ Trigger \/ TriggerReturn
      \/ UNCHANGED <<queue, event, last>>
  BY DEF Next, Call, Round, LoopMe, UnloopMe, Quit, Start, Wake, LoopBang,
         LoopBangReturn, LoopDone, Unlock, Continue, Tick, vars, threadVars
<1>7. QED
  BY <1>1, <1>2, <1>3, <1>4, <1>5, <1>6

\* event.h and worker.h:152: with the sorted list, the clock it compares with
\* and the calls that reach into it from a bang, the worker serves its nodes
\* like a calendar: every instant has its page, events run in the order of the
\* pages and on a page in their order of arrival, and nothing else moves them.
THEOREM WorkerImplementsCalendar ==
    ASSUME SelfCancel = FALSE
    PROVE  Spec => ImplementsCalendar
<1>1. Init => Agenda!CalendarInit /\ HeadIsRunning
  BY InitCalendar DEF Init, HeadIsRunning
<1>2. IInv /\ HeadIsRunning /\ [Next]_vars => HeadIsRunning'
  BY HeadPreserved
<1>3. IInv /\ HeadIsRunning /\ [Next]_vars
         => [Agenda!CalendarNext]_(Agenda!calendarVars)
  BY StepOfCalendar
<1>4. QED
  BY <1>1, <1>2, <1>3, Invariance, PTL
     DEF Spec, ImplementsCalendar, Agenda!CalendarSpec

-----------------------------------------------------------------------------
(* Queues that are not, or not yet, the value of the variable.  The methods *)
(* of the objects on a worker take several steps on the queue in one call.  *)

\* The operations as changes of the set of queued events.
LEMMA RegisteredEvents ==
    ASSUME NEW q \in Seq(Event), NEW e \in Event
    PROVE  ToSet(RegisterEvent(q, e)) =
              IF ~Missed(e) /\ (should_run \/ e.forced)
              THEN ToSet(q) \cup {e} ELSE ToSet(q)
<1> DEFINE p == InsertionPoint(q, e, EventOrder)
           r == InsertAt(q, p, e)
<1>1. CASE Contains(q, e)
  BY <1>1, ElementsOf DEF RegisterEvent, Push
<1>2. CASE ~Contains(q, e)
  <2>1. /\ Len(q) \in Nat
        /\ ToSet(q) = {q[i] : i \in 1..Len(q)}
    BY ElementsOf
  <2>2. p \in 1..Len(q) + 1
    BY EventInsertionPoint
  <2> HIDE DEF p
  <2>3. /\ r \in Seq(Event)
        /\ Len(r) = Len(q) + 1
        /\ \A k \in 1..Len(q) + 1 :
              r[k] = IF k < p THEN q[k] ELSE IF k = p THEN e ELSE q[k - 1]
    BY <2>2, InsertAtProperties
  <2>4. ToSet(r) = {r[i] : i \in 1..Len(q) + 1}
    BY <2>3, ElementsOf
  <2> HIDE DEF r
  <2>5. ASSUME NEW k \in 1..Len(q) + 1 PROVE r[k] \in ToSet(q) \cup {e}
    <3>1. /\ k < p => k \in 1..Len(q)
          /\ k > p => k - 1 \in 1..Len(q)
      BY <2>1, <2>2
    <3>2. QED
      BY <2>1, <2>2, <2>3, <3>1
  <2>6. e \in ToSet(r)
    BY <2>2, <2>3, <2>4
  <2>7. ASSUME NEW i \in 1..Len(q) PROVE q[i] \in ToSet(r)
    <3>1. i < p => i \in 1..Len(q) + 1 /\ r[i] = q[i]
      BY <2>1, <2>3
    <3>2. i >= p => i + 1 \in 1..Len(q) + 1 /\ r[i + 1] = q[i]
      BY <2>1, <2>2, <2>3
    <3>3. i < p \/ i >= p
      BY <2>1, <2>2
    <3>4. QED
      BY <2>4, <3>1, <3>2, <3>3
  <2>8. ToSet(r) = ToSet(q) \cup {e}
    BY <2>1, <2>4, <2>5, <2>6, <2>7
  <2>9. QED
    BY <1>2, <2>8 DEF RegisterEvent, Push, r, p
<1>3. QED
  BY <1>1, <1>2

LEMMA FreedEvents ==
    ASSUME NEW q \in Seq(Event), NEW n
    PROVE  ToSet(FreeEventsFor(q, n)) = {e \in ToSet(q) : e.node # n}
<1> DEFINE gone == {e \in ToSet(q) : e.node = n}
<1>1. ToSet(Without(q, gone)) = ToSet(q) \ gone
  <2> HIDE DEF gone
  <2>1. QED
    BY WithoutElements
<1>2. QED
  BY <1>1 DEF FreeEventsFor

LEMMA PoppedEvents ==
    ASSUME NEW q \in Seq(Event), Ordered(q)
    PROVE  /\ Pop(q) \in Seq(Event)
           /\ Ordered(Pop(q))
           /\ q = <<>> => ToSet(Pop(q)) = {}
           /\ q # <<>> => /\ Head(q) = q[1] /\ 1 \in DOMAIN q
                          /\ ToSet(Pop(q)) = ToSet(q) \ {q[1]}
                          /\ \A e \in ToSet(Pop(q)) : e.id # q[1].id
<1>1. /\ Len(q) \in Nat /\ DOMAIN q = 1..Len(q)
      /\ ToSet(q) = {q[i] : i \in 1..Len(q)}
  BY ElementsOf
<1>2. CASE q = <<>>
  BY <1>2, EmptyElements DEF Pop
<1>3. CASE q # <<>>
  <2> DEFINE r == Tail(q)
  <2>1. /\ r \in Seq(Event)
        /\ Len(r) = Len(q) - 1
        /\ \A i \in 1..Len(r) : r[i] = q[i + 1]
        /\ Head(q) = q[1] /\ 1 \in 1..Len(q)
    BY <1>1, <1>3, HeadTailProperties, HeadOfEvents
  <2>2. DOMAIN r = 1..Len(q) - 1 /\ ToSet(r) = {r[i] : i \in 1..Len(q) - 1}
    BY <2>1, ElementsOf
  <2> HIDE DEF r
  <2>3. \A i \in 1..Len(q) - 1 : /\ i + 1 \in 1..Len(q) /\ 1 < i + 1
                                 /\ r[i] = q[i + 1] /\ r[i].id # q[1].id
    <3>1. \A i \in 1..Len(q) - 1 : /\ i + 1 \in 1..Len(q) /\ 1 < i + 1
                                   /\ r[i] = q[i + 1]
      BY <1>1, <2>1
    <3>2. \A j \in 1..Len(q) : 1 < j => q[1].id # q[j].id
      BY <1>1, <2>1 DEF Ordered
    <3>3. QED
      BY <3>1, <3>2
  <2>4. \A i \in 1..Len(q) : i = 1 \/ (i - 1 \in 1..Len(q) - 1 /\ r[i - 1] = q[i])
    BY <1>1, <2>1
  <2>5. ToSet(r) = ToSet(q) \ {q[1]}
    BY <1>1, <2>2, <2>3, <2>4
  <2>6. Ordered(r)
    <3> SUFFICES ASSUME NEW i \in 1..Len(q) - 1, NEW j \in 1..Len(q) - 1, i < j
                 PROVE  r[i].when <= r[j].when /\ r[i].id # r[j].id
      BY <2>2 DEF Ordered
    <3>1. i + 1 \in DOMAIN q /\ j + 1 \in DOMAIN q /\ i + 1 < j + 1
      BY <1>1
    <3>2. QED
      BY <2>3, <3>1 DEF Ordered
  <2>7. \A e \in ToSet(r) : e.id # q[1].id
    BY <2>2, <2>3
  <2>8. Pop(q) = r
    BY <1>3 DEF Pop, r
  <2>9. 1 \in DOMAIN q /\ Head(q) = q[1]
    BY <1>1, <2>1
  <2>10. QED
    BY <1>3, <2>1, <2>5, <2>6, <2>7, <2>8, <2>9
<1>4. QED
  BY <1>2, <1>3

\* While e runs nothing is put in front of it: if it is in the queue at all, it
\* is the head.
AtMostHead(q, e) == \A i \in DOMAIN q : q[i] = e => i = 1

RunningFirst == pc = "trigger" => AtMostHead(queue, event)

\* Without feedback it stays in the queue until the bang returns.
StillThere == pc = "trigger" => event \in Queued

\* A queue that is in order and fits the rest of the state when the nodes of
\* living are alive.
Fits(q, living) ==
    /\ q \in Seq(Event)
    /\ Ordered(q)
    /\ \A e \in ToSet(q) : /\ e.when >= last
                           /\ LockFree => e.when > current_time
                           /\ e.node \in living
    /\ pc = "trigger" => AtMostHead(q, event)

LEMMA QueueFits ==
    ASSUME IInv, RunningFirst
    PROVE  Fits(queue, alive)
<1>1. queue \in Seq(Event) /\ Ordered(queue)
  BY DEF IInv, TypeOK, QueueOrdered, Ordered
<1>2. \A e \in ToSet(queue) : \E i \in DOMAIN queue : e = queue[i]
  BY DEF ToSet
<1>3. QED
  BY <1>1, <1>2 DEF IInv, NothingOverdue, NoDanglingNode, QueueAfterLast,
                    Fits, RunningFirst

LEMMA RegisterFits ==
    ASSUME IInv, NEW q, NEW living, Fits(q, living),
           NEW e \in Event, e.node \in living, e # event,
           \A f \in ToSet(q) : f.id # e.id
    PROVE  Fits(RegisterEvent(q, e), living)
<1> DEFINE r == RegisterEvent(q, e)
<1>1. q \in Seq(Event) /\ Ordered(q) /\ current_time \in Time
  BY DEF Fits, IInv, TypeOK
<1>2. CASE r = q
  BY <1>2
<1>3. CASE r # q
  <2>1. r \in Seq(Event) /\ e.when > current_time
    BY <1>1, <1>3, RegisterEventProperties
  <2>2. PICK p \in 1..Len(q) + 1 : Inserted(q, e, r, p)
    BY <1>1, <1>3, RegisterEventProperties
  <2>3. /\ Len(q) \in Nat /\ DOMAIN q = 1..Len(q)
        /\ \A i \in 1..Len(q) : q[i] \in Event /\ q[i].when \in Nat
        /\ \A i \in 1..Len(q) : q[i] \in ToSet(q)
    BY <1>1, QueueElements, ElementsOf
  <2> HIDE DEF r
  <2>4. Ordered(r)
    BY <1>1, <2>1, <2>2, <2>3, InsertionKeepsOrder
  <2>5. ToSet(r) \subseteq ToSet(q) \cup {e}
    BY <1>1, RegisteredEvents DEF r
  <2>6. e.when >= last
    BY <2>1, EventFields, MaxTimeAssumption DEF IInv, TimesOrdered, TypeOK, Time
  <2>7. ASSUME pc = "trigger" PROVE AtMostHead(r, event)
    <3> SUFFICES ASSUME NEW i \in 1..Len(q) + 1, r[i] = event PROVE i = 1
      BY <2>1, <2>2, QueueElements DEF AtMostHead, Inserted
    <3>1. AtMostHead(q, event)
      BY <2>7 DEF Fits
    <3>2. i # p
      BY <2>2 DEF Inserted
    <3>3. CASE i < p
      <4>1. i \in 1..Len(q) /\ q[i] = event
        BY <2>2, <2>3, <3>3 DEF Inserted
      <4>2. QED
        BY <2>3, <3>1, <4>1 DEF AtMostHead
    <3>4. CASE i > p
      <4>1. i - 1 \in 1..Len(q) /\ q[i - 1] = event
        BY <2>2, <2>3, <3>4 DEF Inserted
      <4>2. i - 1 = 1
        BY <2>3, <3>1, <4>1 DEF AtMostHead
      <4>3. p = 1 /\ p <= Len(q) /\ q[p] = event
        BY <2>3, <3>4, <4>1, <4>2
      <4>4. event.when > e.when /\ event.when = current_time
        BY <2>2, <2>7, <4>3 DEF Inserted, IInv, TriggerTimes
      <4>5. current_time \in Nat /\ e.when \in Nat
        BY <1>1, EventFields, MaxTimeAssumption DEF Time
      <4>6. QED
        BY <2>1, <4>4, <4>5
    <3>5. QED
      BY <2>3, <3>2, <3>3, <3>4
  <2>8. Fits(r, living)
    BY <2>1, <2>4, <2>5, <2>6, <2>7 DEF Fits
  <2>9. QED
    BY <2>8 DEF r
<1>4. QED
  BY <1>2, <1>3

LEMMA FreeFits ==
    ASSUME NEW q, NEW living, Fits(q, living), NEW n
    PROVE  Fits(FreeEventsFor(q, n), living \ {n})
<1> DEFINE r == FreeEventsFor(q, n)
<1>1. q \in Seq(Event) /\ Ordered(q)
  BY DEF Fits
<1>2. KeepsOthers(q, r, n)
  BY <1>1, FreeEventsForProperties
<1>3. ToSet(r) = {e \in ToSet(q) : e.node # n}
  BY <1>1, FreedEvents
<1> HIDE DEF r
<1>4. r \in Seq(Event) /\ Ordered(r)
  BY <1>1, <1>2, SurvivorsKeepOrder
<1>5. ASSUME pc = "trigger" PROVE AtMostHead(r, event)
  <2>1. PICK h \in [1..Len(r) -> 1..Len(q)] :
           /\ \A i, j \in 1..Len(r) : i < j => h[i] < h[j]
           /\ \A k \in 1..Len(r) : r[k] = q[h[k]]
    BY <1>2 DEF KeepsOthers
  <2>2. /\ DOMAIN r = 1..Len(r) /\ Len(r) \in Nat
        /\ DOMAIN q = 1..Len(q) /\ Len(q) \in Nat
    BY <1>1, <1>4, QueueElements
  <2> SUFFICES ASSUME NEW i \in 1..Len(r), r[i] = event, i # 1 PROVE FALSE
    BY <2>2 DEF AtMostHead
  <2>3. 1 \in 1..Len(r) /\ 1 < i
    BY <2>2
  <2>4. h[1] < h[i] /\ h[1] \in 1..Len(q) /\ h[i] \in 1..Len(q)
    BY <2>1, <2>3
  <2>5. h[i] = 1
    BY <1>5, <2>1, <2>2, <2>4 DEF Fits, AtMostHead
  <2>6. QED
    BY <2>4, <2>5
<1>6. Fits(r, living \ {n})
  BY <1>3, <1>4, <1>5 DEF Fits
<1>7. QED
  BY <1>6 DEF r

LEMMA PopFits ==
    ASSUME NEW living, Fits(queue, living), pc = "trigger"
    PROVE  /\ Fits(Pop(queue), living)
           /\ event \notin ToSet(Pop(queue))
<1> DEFINE r == Pop(queue)
<1>1. queue \in Seq(Event) /\ Ordered(queue)
  BY DEF Fits
<1>2. /\ r \in Seq(Event)
      /\ Ordered(r)
      /\ ToSet(r) \subseteq ToSet(queue)
      /\ queue # <<>> => queue[1] \notin ToSet(r)
      /\ queue = <<>> => ToSet(r) = {}
  BY <1>1, PoppedEvents
<1> HIDE DEF r
<1>3. event \notin ToSet(r)
  <2>1. ASSUME event \in ToSet(queue) PROVE queue # <<>> /\ event = queue[1]
    <3>1. PICK i \in DOMAIN queue : queue[i] = event
      BY <2>1 DEF ToSet
    <3>2. i = 1
      BY <3>1 DEF Fits, AtMostHead
    <3>3. QED
      BY <1>1, <3>1, <3>2, HeadOfEvents
  <2>2. QED
    BY <1>2, <2>1
<1>4. AtMostHead(r, event)
  BY <1>3 DEF AtMostHead, ToSet
<1>5. Fits(r, living)
  BY <1>2, <1>4 DEF Fits
<1>6. QED
  BY <1>3, <1>5 DEF r

\* A call that leaves a queue that fits keeps the invariant, and so does the
\* end of a bang.
LEMMA FittingCall ==
    ASSUME IInv, alive' \in SUBSET Node, Fits(queue', alive'),
           UNCHANGED <<clock, current_time, real_time, pc, event, turn, looped,
                       should_run, last>>,
           pc = "trigger" => event.node \in alive',
           \A i \in DOMAIN looped : looped[i] \in alive'
    PROVE  IInv' /\ RunningFirst'
<1>1. /\ queue' \in Seq(Event) /\ Ordered(queue')
      /\ \A i \in DOMAIN queue' : queue'[i] \in ToSet(queue')
  BY DEF Fits, ToSet
<1>2. TypeOK'
  BY <1>1 DEF IInv, TypeOK
<1>3. QueueOrdered' /\ NothingOverdue' /\ QueueAfterLast'
  BY <1>1 DEF Fits, QueueOrdered, Ordered, NothingOverdue, LockFree, QueueAfterLast
<1>4. NoDanglingNode'
  BY <1>1 DEF Fits, NoDanglingNode
<1>5. LoopedOnce' /\ TimesOrdered' /\ TriggerTimes'
  BY DEF IInv, LoopedOnce, TimesOrdered, TriggerTimes
<1>6. RunningFirst'
  BY DEF Fits, RunningFirst
<1>7. QED
  BY <1>2, <1>3, <1>4, <1>5, <1>6 DEF IInv

LEMMA FittingReturn ==
    ASSUME IInv, Fits(queue', alive), pc = "trigger", pc' = "popping",
           event' = NoEvent,
           UNCHANGED <<clock, current_time, real_time, turn, looped, should_run,
                       alive, last>>
    PROVE  IInv' /\ RunningFirst'
<1>1. /\ queue' \in Seq(Event) /\ Ordered(queue')
      /\ \A i \in DOMAIN queue' : queue'[i] \in ToSet(queue')
  BY DEF Fits, ToSet
<1>2. TypeOK'
  BY <1>1 DEF IInv, TypeOK
<1>3. QueueOrdered' /\ NothingOverdue' /\ QueueAfterLast'
  BY <1>1 DEF Fits, QueueOrdered, Ordered, NothingOverdue, LockFree, QueueAfterLast
<1>4. NoDanglingNode'
  BY <1>1 DEF IInv, Fits, NoDanglingNode
<1>5. LoopedOnce' /\ TimesOrdered' /\ TriggerTimes'
  BY DEF IInv, LoopedOnce, TimesOrdered, TriggerTimes
<1>6. RunningFirst'
  BY DEF RunningFirst
<1>7. QED
  BY <1>2, <1>3, <1>4, <1>5, <1>6 DEF IInv

\* The steps of the thread that do not touch the queue.
LEMMA ThreadKeepsRunningFirst ==
    ASSUME IInv, RunningFirst,
           \/ Start \/ Wake \/ LoopDone \/ Trigger \/ Unlock \/ Continue \/ Quit \/ Tick
    PROVE  IInv' /\ RunningFirst'
<1>1. IInv'
  BY ControlPreserves, TriggerPreserves, UnlockPreserves
<1>2. CASE Trigger
  <2>1. /\ queue \in Seq(Event) /\ queue # <<>> /\ UNCHANGED queue
        /\ event' = Head(queue) /\ QueueOrdered
    BY <1>2 DEF IInv, TypeOK, Trigger, HeadIsDue
  <2>2. /\ event' = queue[1] /\ 1 \in DOMAIN queue
        /\ DOMAIN queue = 1..Len(queue) /\ Len(queue) \in Nat
    BY <2>1, HeadOfEvents, QueueElements
  <2>3. \A i \in DOMAIN queue : i # 1 => queue[i] # queue[1]
    BY <2>1, <2>2 DEF QueueOrdered
  <2>4. QED
    BY <1>1, <2>1, <2>2, <2>3 DEF RunningFirst, AtMostHead
<1>3. CASE ~Trigger
  <2>1. UNCHANGED queue /\ (pc' = "trigger" => pc = "trigger" /\ UNCHANGED event)
    BY <1>3 DEF Start, Wake, LoopDone, Unlock, Continue, Quit, Tick, threadVars
  <2>2. QED
    BY <1>1, <2>1 DEF RunningFirst
<1>4. QED
  BY <1>2, <1>3
=============================================================================
