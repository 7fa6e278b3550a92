--------------------------- MODULE MidiOutProofs ---------------------------
(***************************************************************************)
(* Theorems about the MIDI outputs: for any outputs, players, ports, notes, *)
(* lengths and waits, any number of addresses for events and any bound of   *)
(* the clock, a note that sounds has its note off in the queue.             *)
(***************************************************************************)
EXTENDS MidiOut, WorkerProofs, FiniteSetTheorems

-----------------------------------------------------------------------------
(* The inductive invariant.                                                *)

\* An event of an output comes with the message that it will send.
MessagesThere == \A e \in Queued : e.node \in Out => message[e.id] \in Message

\* The bang of an output that sends a delayed note finds an address for its
\* note off.
AddressLeft ==
    Queued # {} /\ ~(pc = "trigger" /\ event.node \notin Out)
        => \E id \in EventId : id \notin UsedId

\* A note that sounds is on a port that the next message of its output reaches.
NotesReached ==
    \A note \in sounding : note[1] \in alive => note[2] \in Reached(note[1])

MidiInv ==
    /\ IInv /\ RunningFirst /\ StillThere
    /\ MidiTypeOK
    /\ MessagesThere
    /\ AddressLeft
    /\ NotesReached
    /\ NoteOffPending

-----------------------------------------------------------------------------
(* Addresses, messages, ports.                                             *)

LEMMA FreeIdIs ==
    ASSUME \E id \in EventId : id \notin UsedId
    PROVE  FreeId \in EventId /\ FreeId \notin UsedId
BY DEF FreeId

LEMMA RoomIs ==
    ASSUME Room
    PROVE  /\ \E id \in EventId : id \notin UsedId
           /\ pc # "trigger" => \A x : \E id \in EventId : id \notin UsedId /\ id # x
<1> DEFINE S == EventId \ UsedId
<1>1. Cardinality(S) > (IF pc = "trigger" THEN 0 ELSE 1)
  BY DEF Room
<1>2. S # {}
  BY <1>1, FS_EmptySet
<1>3. ASSUME pc # "trigger", NEW x, \A id \in S : id = x PROVE FALSE
  <2>1. S = {x}
    BY <1>2, <1>3
  <2> HIDE DEF S
  <2>2. Cardinality(S) = 1
    BY <2>1, FS_Singleton
  <2>3. QED
    BY <1>1, <1>3, <2>2
<1>4. QED
  BY <1>2, <1>3

LEMMA MessageFields ==
    \A msg \in Message : /\ msg.type \in {"on", "off"}
                         /\ msg.pitch \in Pitch
                         /\ msg.length \in Nat
                         /\ OnToOff(msg) \in Message
                         /\ OnToOff(msg).type = "off"
                         /\ OnToOff(msg).pitch = msg.pitch
BY LengthAssumption DEF Message, OnToOff

\* A new parameter disturbs none of those that are waited for.
LEMMA RecordedIs ==
    ASSUME MidiTypeOK, NEW id \in EventId, id \notin UsedId,
           NEW msg \in Message, UsedId \subseteq EventId
    PROVE  /\ Recorded(id, msg) \in [EventId -> Message \cup {NoMessage}]
           /\ Recorded(id, msg)[id] = msg
           /\ \A i \in UsedId : Recorded(id, msg)[i] = message[i]
BY DEF Recorded, MidiTypeOK

LEMMA UsedIds ==
    ASSUME IInv
    PROVE  /\ UsedId \subseteq EventId
           /\ Queued \subseteq Event
           /\ \A e \in Queued : e.id \in UsedId /\ e.id \in EventId
           /\ \A e \in Queued : e.node \in alive
           /\ \A e, f \in Queued : e.id = f.id => e = f
           /\ pc = "trigger" => /\ event \in Event /\ event.id \in UsedId
                                /\ event.node \in alive
<1>1. queue \in Seq(Event) /\ event \in Event \cup {NoEvent}
  BY DEF IInv, TypeOK
<1>2. /\ Queued \subseteq Event
      /\ Queued = {queue[i] : i \in 1..Len(queue)}
      /\ DOMAIN queue = 1..Len(queue) /\ Len(queue) \in Nat
  BY <1>1, ElementsOf DEF Queued
<1>3. UsedId \subseteq EventId
  BY <1>1, <1>2, EventFields DEF UsedId
<1>4. \A e \in Queued : e.id \in UsedId
  BY DEF UsedId
<1>5. \A e \in Queued : e.node \in alive
  BY <1>2 DEF IInv, NoDanglingNode
<1>6. pc = "trigger" => event # NoEvent
  BY DEF IInv, TypeOK
<1>7. pc = "trigger" => event.node \in alive
  BY DEF IInv, NoDanglingNode
<1>8. pc = "trigger" => event \in Event /\ event.id \in UsedId
  BY <1>1, <1>6 DEF UsedId
<1>9. ASSUME NEW i \in 1..Len(queue), NEW j \in 1..Len(queue), queue[i].id = queue[j].id
      PROVE  i = j
  <2>1. ~(i < j) /\ ~(j < i)
    BY <1>2, <1>9 DEF IInv, QueueOrdered
  <2>2. QED
    BY <1>2, <2>1
<1>10. \A e, f \in Queued : e.id = f.id => e = f
  BY <1>2, <1>9
<1>11. QED
  BY <1>2, <1>3, <1>4, <1>5, <1>7, <1>8, <1>10, EventFields

\* What an output reaches: its virtual port when there is one, and the port it
\* is connected to.
LEMMA ReachedIs ==
    ASSUME MidiTypeOK, NEW m \in Out
    PROVE  /\ Reached(m) \subseteq Port \cup {Virtual}
           /\ Virtual \in Reached(m) <=> endpoint[m]
           /\ \A d \in Port : d \in Reached(m) <=> connected[m] = d
BY PortAssumption DEF Reached, MidiTypeOK

-----------------------------------------------------------------------------
(* Sending.                                                                *)

\* Is msg a note that gets a note off?
Ending(msg) == msg.type = "on" /\ msg.length > 0

\* bang(msg): q is the queue, or the queue without its head.
LEMMA PlayEffect ==
    ASSUME MidiInv, NEW m \in Out, m \in alive, NEW msg \in Message,
           NEW q, Fits(q, alive), ToSet(q) \subseteq Queued, Play(m, msg, q),
           \E id \in EventId : id \notin UsedId
    PROVE  /\ Fits(queue', alive)
           /\ message' \in [EventId -> Message \cup {NoMessage}]
           /\ \A id \in UsedId : message'[id] = message[id]
           /\ ToSet(q) \subseteq Queued'
           /\ \A e \in Queued' \ ToSet(q) :
                 /\ e.id = FreeId
                 /\ message'[e.id] \in Message
           /\ Ending(msg) =>
                 \E e \in Queued' : /\ e.node = m
                                    /\ message'[e.id].type = "off"
                                    /\ message'[e.id].pitch = msg.pitch
<1> USE DEF MidiInv
<1>1. UsedId \subseteq EventId /\ \A e \in Queued : e.id \in UsedId
  BY UsedIds
<1>2. CASE ~Ending(msg)
  <2>1. queue' = q /\ message' = message
    BY <1>2 DEF Play, Ending
  <2>2. Queued' = ToSet(q)
    BY <2>1 DEF Queued
  <2>3. QED
    BY <1>2, <2>1, <2>2 DEF MidiTypeOK
<1>3. CASE Ending(msg)
  <2> DEFINE e == NoteOff(m, msg, FreeId)
  <2>1. /\ current_time + msg.length <= MaxTime
        /\ queue' = RegisterEvent(q, e)
        /\ message' = Recorded(FreeId, OnToOff(msg))
    BY <1>3 DEF Play, Ending
  <2>2. FreeId \in EventId /\ FreeId \notin UsedId
    BY FreeIdIs
  <2>3. /\ current_time \in Nat /\ MaxTime \in Nat /\ msg.length \in Nat
        /\ msg.length > 0
    BY <1>3, MessageFields, MaxTimeAssumption DEF IInv, TypeOK, Time, Ending
  <2>4. m \in Node
    BY OutAssumption
  <2>5. /\ e \in Event /\ e.node = m /\ e.id = FreeId /\ e.forced = TRUE
        /\ e.when > current_time
    BY <2>1, <2>2, <2>3, <2>4 DEF NoteOff, Event, Time
  <2> HIDE DEF e
  <2>6. e # event /\ \A f \in ToSet(q) : f.id # e.id
    <3>1. event # NoEvent => event.id \in UsedId
      BY DEF UsedId
    <3>2. QED
      BY <1>1, <2>2, <2>5, <3>1, NoEventAssumption
  <2>7. Fits(queue', alive)
    BY <2>1, <2>5, <2>6, RegisterFits
  <2>8. Queued' = ToSet(q) \cup {e}
    <3>1. ~Missed(e)
      BY <2>3, <2>5, EventFields DEF Missed
    <3>2. q \in Seq(Event)
      BY DEF Fits
    <3>3. ToSet(RegisterEvent(q, e)) = ToSet(q) \cup {e}
      BY <2>5, <3>1, <3>2, RegisteredEvents
    <3>4. QED
      BY <2>1, <3>3 DEF Queued
  <2>9. /\ message' \in [EventId -> Message \cup {NoMessage}]
        /\ message'[FreeId] = OnToOff(msg)
        /\ \A id \in UsedId : message'[id] = message[id]
    BY <1>1, <2>1, <2>2, MessageFields, RecordedIs
  <2>10. QED
    BY <2>5, <2>7, <2>8, <2>9, MessageFields
<1>4. QED
  BY <1>2, <1>3

\* A note on starts to sound where the message goes; a note off ends the notes of
\* its pitch, all of them, because they are within reach.
LEMMA SentIs ==
    ASSUME MidiInv, NEW m \in Out, m \in alive, NEW msg \in Message
    PROVE  /\ Sent(m, msg) \subseteq Out \X (Port \cup {Virtual}) \X Pitch
           /\ \A note \in Sent(m, msg) :
                 \/ note \in sounding
                 \/ /\ Ending(msg) /\ note[1] = m /\ note[3] = msg.pitch
                    /\ note[2] \in Reached(m)
           /\ msg.type = "off" =>
                 \A note \in Sent(m, msg) : note[1] = m => note[3] # msg.pitch
<1> USE DEF MidiInv
<1>1. sounding \subseteq Out \X (Port \cup {Virtual}) \X Pitch
  BY DEF MidiTypeOK
<1>2. Reached(m) \subseteq Port \cup {Virtual} /\ msg.pitch \in Pitch
  BY ReachedIs, MessageFields
<1> DEFINE notes == {<<m, d, msg.pitch>> : d \in Reached(m)}
<1>3. notes \subseteq Out \X (Port \cup {Virtual}) \X Pitch
  BY <1>2
<1>4. \A note \in notes : /\ note[1] = m /\ note[3] = msg.pitch
                          /\ note[2] \in Reached(m)
  OBVIOUS
<1>5. \A note \in sounding : note[1] = m /\ note[3] = msg.pitch => note \in notes
  <2> SUFFICES ASSUME NEW note \in sounding, note[1] = m, note[3] = msg.pitch
               PROVE  note \in notes
    OBVIOUS
  <2>1. note = <<note[1], note[2], note[3]>>
    BY <1>1
  <2>2. note[2] \in Reached(m)
    BY DEF NotesReached
  <2>3. QED
    BY <2>1, <2>2
<1>6. Sent(m, msg) = IF msg.type = "off" THEN sounding \ notes
                     ELSE IF msg.length > 0 THEN sounding \cup notes
                     ELSE sounding
  BY DEF Sent
<1> HIDE DEF notes
<1>7. CASE msg.type = "off"
  BY <1>1, <1>5, <1>6, <1>7
<1>8. CASE msg.type = "on" /\ msg.length > 0
  BY <1>1, <1>3, <1>4, <1>6, <1>8 DEF Ending
<1>9. CASE msg.type = "on" /\ ~(msg.length > 0)
  BY <1>1, <1>6, <1>9
<1>10. QED
  BY <1>7, <1>8, <1>9, MessageFields

\* The ports do not change while a message is sent.
LEMMA SentReached ==
    ASSUME MidiInv, NEW m \in Out, m \in alive, NEW msg \in Message,
           sounding' = Sent(m, msg), UNCHANGED <<alive, portVars>>
    PROVE  NotesReached'
<1>1. \A k : Reached(k)' = Reached(k)
  BY DEF Reached, portVars
<1>2. QED
  BY <1>1, SentIs DEF MidiInv, NotesReached

\* What all calls of the outputs have in common.
Untouched == UNCHANGED <<clock, current_time, real_time, pc, event, turn, looped,
                         should_run, last>>

LEMMA CallKeepsWorker ==
    ASSUME MidiInv, Untouched, UNCHANGED alive, Fits(queue', alive)
    PROVE  IInv' /\ RunningFirst'
<1>1. /\ alive' \in SUBSET Node /\ Fits(queue', alive')
      /\ pc = "trigger" => event.node \in alive'
      /\ \A i \in DOMAIN looped : looped[i] \in alive'
  BY DEF MidiInv, IInv, TypeOK, NoDanglingNode
<1>2. QED
  BY <1>1, FittingCall DEF MidiInv, Untouched

\* An event more: the invariants on the set of events.
LEMMA OneEventMore ==
    ASSUME MidiInv, Untouched, NEW id, id \in EventId \/ Queued' = Queued,
           id \notin UsedId, Queued \subseteq Queued',
           \A e \in Queued' \ Queued : e.id = id,
           Room, ~OutIsBanged
    PROVE  StillThere' /\ AddressLeft'
<1> USE DEF MidiInv
<1>1. StillThere'
  BY DEF StillThere, Untouched
<1>2. AddressLeft'
  <2>1. CASE pc = "trigger"
    BY <2>1 DEF AddressLeft, OutIsBanged, Untouched
  <2>2. CASE pc # "trigger"
    <3>1. PICK left \in EventId : left \notin UsedId /\ left # id
      BY <2>2, RoomIs
    <3>2. event = NoEvent /\ event' = NoEvent
      BY <2>2 DEF IInv, TypeOK, Untouched
    <3>3. \A e \in Queued : e.id # left
      BY <3>1 DEF UsedId
    <3>4. left \notin UsedId'
      BY <3>1, <3>2, <3>3 DEF UsedId
    <3>5. QED
      BY <3>4 DEF AddressLeft
  <2>3. QED
    BY <2>1, <2>2
<1>3. QED
  BY <1>1, <1>2

LEMMA SendNotePreserves ==
    ASSUME MidiInv, NEW m \in Out, NEW pitch \in Pitch, NEW length \in Length,
           SendNote(m, pitch, length)
    PROVE  MidiInv'
<1> USE DEF MidiInv
<1> DEFINE msg == [type |-> "on", pitch |-> pitch, length |-> length]
<1>1. /\ Untouched /\ UNCHANGED <<alive, portVars>>
      /\ m \in alive /\ Room /\ ~OutIsBanged /\ Play(m, msg, queue)
  BY DEF SendNote, CallOut, CanCall, Untouched, timeVars, threadVars
<1>2. msg \in Message
  BY DEF Message
<1>3. Fits(queue, alive) /\ ToSet(queue) = Queued
  BY QueueFits DEF Queued
<1>4. \E id \in EventId : id \notin UsedId
  BY <1>1, RoomIs
<1> HIDE DEF msg
<1>5. /\ Fits(queue', alive)
      /\ message' \in [EventId -> Message \cup {NoMessage}]
      /\ \A id \in UsedId : message'[id] = message[id]
      /\ Queued \subseteq Queued'
      /\ \A e \in Queued' \ Queued : e.id = FreeId /\ message'[e.id] \in Message
      /\ Ending(msg) =>
            \E e \in Queued' : /\ e.node = m
                               /\ message'[e.id].type = "off"
                               /\ message'[e.id].pitch = msg.pitch
  BY <1>1, <1>2, <1>3, <1>4, PlayEffect
<1>6. \A e \in Queued : e.id \in UsedId
  BY UsedIds
<1>7. IInv' /\ RunningFirst'
  BY <1>1, <1>5, CallKeepsWorker
<1>8. StillThere' /\ AddressLeft'
  BY <1>1, <1>4, <1>5, FreeIdIs, OneEventMore
<1>9. MessagesThere'
  BY <1>5, <1>6 DEF MessagesThere
<1>10. sounding' = Sent(m, msg)
  BY <1>1 DEF Play
<1>11. NotesReached'
  BY <1>1, <1>2, <1>10, SentReached
<1>12. NoteOffPending'
  <2> SUFFICES ASSUME NEW note \in sounding', note[1] \in alive
               PROVE  \E e \in Queued' : /\ e.node = note[1]
                                         /\ message'[e.id].type = "off"
                                         /\ message'[e.id].pitch = note[3]
    BY <1>1 DEF NoteOffPending
  <2>1. CASE note \in sounding
    BY <1>5, <1>6, <2>1 DEF NoteOffPending
  <2>2. CASE note \notin sounding
    <3>1. Ending(msg) /\ note[1] = m /\ note[3] = msg.pitch
      BY <1>1, <1>2, <1>10, <2>2, SentIs
    <3>2. QED
      BY <1>5, <3>1
  <2>3. QED
    BY <2>1, <2>2
<1>13. MidiTypeOK'
  <2>1. \A k : Reached(k)' = Reached(k)
    BY <1>1 DEF Reached, portVars
  <2>2. sounding' \subseteq Out \X (Port \cup {Virtual}) \X Pitch
    BY <1>1, <1>2, <1>10, SentIs
  <2>3. QED
    BY <1>1, <1>5, <1>7, <2>1, <2>2 DEF MidiTypeOK, IInv, portVars
<1>14. QED
  BY <1>7, <1>8, <1>9, <1>11, <1>12, <1>13

\* An event is registered and nothing is sent.
LEMMA EventAdded ==
    ASSUME MidiInv, Untouched, UNCHANGED <<alive, portVars, sounding>>,
           Fits(queue', alive), Room, ~OutIsBanged,
           NEW id \in EventId, id \notin UsedId,
           Queued \subseteq Queued',
           \A e \in Queued' \ Queued :
              e.id = id /\ (e.node \in Out => message'[id] \in Message),
           message' \in [EventId -> Message \cup {NoMessage}],
           \A i \in UsedId : message'[i] = message[i]
    PROVE  MidiInv'
<1> USE DEF MidiInv
<1>1. \A e \in Queued : e.id \in UsedId
  BY UsedIds
<1>2. IInv' /\ RunningFirst'
  BY CallKeepsWorker
<1>3. StillThere' /\ AddressLeft'
  BY OneEventMore
<1>4. MessagesThere'
  BY <1>1 DEF MessagesThere
<1>5. \A k : Reached(k)' = Reached(k)
  BY DEF Reached, portVars
<1>6. NotesReached'
  BY <1>5 DEF NotesReached
<1>7. NoteOffPending'
  BY <1>1 DEF NoteOffPending
<1>8. MidiTypeOK'
  BY <1>2, <1>5 DEF MidiTypeOK, IInv, portVars
<1>9. QED
  BY <1>2, <1>3, <1>4, <1>6, <1>7, <1>8

LEMMA SendLaterPreserves ==
    ASSUME MidiInv, NEW m \in Out, NEW pitch \in Pitch, NEW wait \in Wait,
           NEW length \in Length, SendLater(m, pitch, wait, length)
    PROVE  MidiInv'
<1> USE DEF MidiInv
<1> DEFINE msg == [type |-> "on", pitch |-> pitch, length |-> length]
           e == [id     |-> FreeId,
                 node   |-> m,
                 when   |-> current_time + (current_time + wait),
                 forced |-> FALSE]
<1>1. /\ Untouched /\ UNCHANGED <<alive, portVars, sounding>>
      /\ m \in alive /\ Room /\ ~OutIsBanged
      /\ current_time + current_time + wait + length <= MaxTime
      /\ queue' = RegisterEvent(queue, e)
      /\ message' = Recorded(FreeId, msg)
  BY DEF SendLater, CallOut, CanCall, Untouched, timeVars, threadVars
<1>2. msg \in Message
  BY DEF Message
<1>3. FreeId \in EventId /\ FreeId \notin UsedId
  BY <1>1, RoomIs, FreeIdIs
<1>4. /\ current_time \in Nat /\ MaxTime \in Nat /\ wait \in Nat /\ length \in Nat
      /\ m \in Node
  BY MaxTimeAssumption, LengthAssumption, OutAssumption DEF IInv, TypeOK, Time
<1>5. e \in Event /\ e.node = m /\ e.id = FreeId
  BY <1>1, <1>3, <1>4 DEF Event, Time
<1> HIDE DEF msg, e
<1>6. UsedId \subseteq EventId /\ \A f \in Queued : f.id \in UsedId
  BY UsedIds
<1>7. e # event /\ \A f \in Queued : f.id # e.id
  <2>1. event # NoEvent => event.id \in UsedId
    BY DEF UsedId
  <2>2. QED
    BY <1>3, <1>5, <1>6, <2>1, NoEventAssumption
<1>8. Fits(queue, alive) /\ ToSet(queue) = Queued
  BY QueueFits DEF Queued
<1>9. Fits(queue', alive)
  BY <1>1, <1>5, <1>7, <1>8, RegisterFits
<1>10. Queued \subseteq Queued' /\ Queued' \subseteq Queued \cup {e}
  BY <1>1, <1>5, <1>8, RegisteredEvents DEF Queued, Fits
<1>11. /\ message' \in [EventId -> Message \cup {NoMessage}]
       /\ message'[FreeId] = msg
       /\ \A i \in UsedId : message'[i] = message[i]
  BY <1>1, <1>2, <1>3, <1>6, RecordedIs
<1>12. \A f \in Queued' \ Queued :
          f.id = FreeId /\ (f.node \in Out => message'[FreeId] \in Message)
  BY <1>2, <1>5, <1>10, <1>11
<1>13. QED
  BY <1>1, <1>3, <1>9, <1>10, <1>11, <1>12, EventAdded

LEMMA PlayerCallPreserves ==
    ASSUME MidiInv, PlayerCall
    PROVE  MidiInv'
<1> USE DEF MidiInv
<1>1. PICK n \in Player, d \in Interval :
         /\ Room /\ ~OutIsBanged
         /\ BangMeIn(n, d, FALSE)
         /\ UNCHANGED midiVars
  BY DEF PlayerCall
<1>2. PICK id \in EventId \ UsedId :
         queue' = RegisterEvent(queue, [id |-> id, node |-> n,
                                        when |-> current_time + d, forced |-> FALSE])
  BY <1>1 DEF BangMeIn
<1> DEFINE e == [id |-> id, node |-> n, when |-> current_time + d, forced |-> FALSE]
<1>3. /\ Untouched /\ UNCHANGED <<alive, portVars, sounding, message>>
      /\ n \in alive /\ current_time + d <= MaxTime /\ n \in Node /\ n \notin Out
  BY <1>1 DEF BangMeIn, CanCall, Untouched, timeVars, threadVars, midiVars,
              portVars, Player
<1>4. current_time \in Nat /\ MaxTime \in Nat /\ d \in Nat
  BY MaxTimeAssumption, IntervalAssumption DEF IInv, TypeOK, Time
<1>5. e \in Event /\ e.node = n /\ e.id = id
  BY <1>3, <1>4 DEF Event, Time
<1>6. queue' = RegisterEvent(queue, e)
  BY <1>2
<1> HIDE DEF e
<1>7. \A f \in Queued : f.id \in UsedId
  BY UsedIds
<1>8. e # event /\ \A f \in Queued : f.id # e.id
  <2>1. event # NoEvent => event.id \in UsedId
    BY DEF UsedId
  <2>2. QED
    BY <1>5, <1>7, <2>1, NoEventAssumption
<1>9. Fits(queue, alive) /\ ToSet(queue) = Queued
  BY QueueFits DEF Queued
<1>10. Fits(queue', alive)
  BY <1>3, <1>5, <1>6, <1>8, <1>9, RegisterFits
<1>11. Queued \subseteq Queued' /\ Queued' \subseteq Queued \cup {e}
  BY <1>5, <1>6, <1>9, RegisteredEvents DEF Queued, Fits
<1>12. /\ \A f \in Queued' \ Queued :
             f.id = id /\ (f.node \in Out => message'[id] \in Message)
       /\ message' \in [EventId -> Message \cup {NoMessage}]
       /\ \A i \in UsedId : message'[i] = message[i]
  BY <1>3, <1>5, <1>11 DEF MidiTypeOK
<1>13. QED
  BY <1>1, <1>3, <1>10, <1>11, <1>12, EventAdded

-----------------------------------------------------------------------------
(* Triggering.                                                             *)

\* What is popped after a bang is the event that was triggered.
LEMMA RunningPopped ==
    ASSUME MidiInv, pc = "trigger"
    PROVE  /\ Fits(Pop(queue), alive)
           /\ ToSet(Pop(queue)) = Queued \ {event}
           /\ \A e \in Queued : e.id = event.id => e = event
<1> USE DEF MidiInv
<1>1. queue \in Seq(Event) /\ Ordered(queue) /\ Fits(queue, alive)
  BY QueueFits DEF Fits
<1>2. Fits(Pop(queue), alive)
  BY <1>1, PopFits
<1>3. queue # <<>> /\ event = queue[1]
  <2>1. PICK i \in DOMAIN queue : queue[i] = event
    BY DEF StillThere, Queued, ToSet
  <2>2. i = 1
    BY <2>1 DEF RunningFirst, AtMostHead
  <2>3. QED
    BY <1>1, <2>1, <2>2, HeadOfEvents
<1>4. ToSet(Pop(queue)) = Queued \ {event}
  BY <1>1, <1>3, PoppedEvents DEF Queued
<1>5. QED
  BY <1>2, <1>4, UsedIds DEF StillThere

\* The address of the event that was triggered is free again.
LEMMA AddressBack ==
    ASSUME MidiInv, pc = "trigger", event' = NoEvent,
           \A e \in Queued' : e.id # event.id
    PROVE  AddressLeft'
<1>1. event.id \in EventId
  BY UsedIds DEF MidiInv
<1>2. event.id \notin UsedId'
  BY DEF UsedId
<1>3. QED
  BY <1>1, <1>2 DEF AddressLeft

LEMMA DeliverPreserves ==
    ASSUME MidiInv, Deliver
    PROVE  MidiInv'
<1> USE DEF MidiInv
<1> DEFINE m == event.node
           msg == message[event.id]
           q == Pop(queue)
<1>1. /\ pc = "trigger" /\ pc' = "popping" /\ event' = NoEvent /\ m \in Out
      /\ Play(m, msg, q)
      /\ UNCHANGED <<clock, current_time, real_time, turn, looped, should_run,
                     alive, last, portVars>>
  BY DEF Deliver, OutIsBanged, timeVars
<1>2. /\ event \in Queued /\ m \in alive
      /\ msg \in Message /\ event.id \in UsedId
  BY <1>1, UsedIds DEF StillThere, MessagesThere
<1>3. /\ Fits(q, alive)
      /\ ToSet(q) = Queued \ {event}
      /\ \A e \in Queued : e.id = event.id => e = event
  BY <1>1, RunningPopped
<1>4. \E id \in EventId : id \notin UsedId
  BY <1>1, <1>2 DEF AddressLeft
<1> HIDE DEF m, msg, q
<1>5. /\ Fits(queue', alive)
      /\ message' \in [EventId -> Message \cup {NoMessage}]
      /\ \A id \in UsedId : message'[id] = message[id]
      /\ Queued \ {event} \subseteq Queued'
      /\ \A e \in Queued' \ (Queued \ {event}) :
            e.id = FreeId /\ message'[e.id] \in Message
      /\ Ending(msg) =>
            \E e \in Queued' : /\ e.node = m
                               /\ message'[e.id].type = "off"
                               /\ message'[e.id].pitch = msg.pitch
  <2>1. ToSet(q) \subseteq Queued
    BY <1>3
  <2>2. /\ Fits(queue', alive)
        /\ message' \in [EventId -> Message \cup {NoMessage}]
        /\ \A id \in UsedId : message'[id] = message[id]
        /\ ToSet(q) \subseteq Queued'
        /\ \A e \in Queued' \ ToSet(q) : e.id = FreeId /\ message'[e.id] \in Message
        /\ Ending(msg) =>
              \E e \in Queued' : /\ e.node = m
                                 /\ message'[e.id].type = "off"
                                 /\ message'[e.id].pitch = msg.pitch
    BY <1>1, <1>2, <1>3, <1>4, <2>1, PlayEffect
  <2>3. QED
    BY <1>3, <2>2
<1>6. FreeId \notin UsedId
  BY <1>4, FreeIdIs
<1>7. \A e \in Queued : e.id \in UsedId
  BY UsedIds
<1>8. IInv' /\ RunningFirst'
  BY <1>1, <1>5, FittingReturn
<1>9. StillThere'
  BY <1>1 DEF StillThere
<1>10. AddressLeft'
  <2>1. \A e \in Queued' : e.id # event.id
    BY <1>2, <1>3, <1>5, <1>6
  <2>2. QED
    BY <1>1, <2>1, AddressBack
<1>11. MessagesThere'
  BY <1>5, <1>7 DEF MessagesThere
<1>12. sounding' = Sent(m, msg)
  BY <1>1 DEF Play
<1>13. NotesReached'
  BY <1>1, <1>2, <1>12, SentReached
<1>14. NoteOffPending'
  <2> SUFFICES ASSUME NEW note \in sounding', note[1] \in alive
               PROVE  \E e \in Queued' : /\ e.node = note[1]
                                         /\ message'[e.id].type = "off"
                                         /\ message'[e.id].pitch = note[3]
    BY <1>1 DEF NoteOffPending
  <2>1. CASE note \in sounding
    <3>1. PICK e \in Queued : /\ e.node = note[1]
                              /\ message[e.id].type = "off"
                              /\ message[e.id].pitch = note[3]
      BY <2>1 DEF NoteOffPending
    <3>2. e # event
      <4>1. SUFFICES ASSUME e = event PROVE FALSE
        OBVIOUS
      <4>2. note[1] = m /\ msg.type = "off" /\ msg.pitch = note[3]
        BY <3>1, <4>1 DEF m, msg
      <4>3. QED
        BY <1>1, <1>2, <1>12, <4>2, SentIs
    <3>3. e \in Queued' /\ message'[e.id] = message[e.id]
      BY <1>5, <1>7, <3>2
    <3>4. QED
      BY <3>1, <3>3
  <2>2. CASE note \notin sounding
    <3>1. Ending(msg) /\ note[1] = m /\ note[3] = msg.pitch
      BY <1>1, <1>2, <1>12, <2>2, SentIs
    <3>2. QED
      BY <1>5, <3>1
  <2>3. QED
    BY <2>1, <2>2
<1>15. MidiTypeOK'
  <2>1. \A k : Reached(k)' = Reached(k)
    BY <1>1 DEF Reached, portVars
  <2>2. sounding' \subseteq Out \X (Port \cup {Virtual}) \X Pitch
    BY <1>1, <1>2, <1>12, SentIs
  <2>3. QED
    BY <1>1, <1>5, <1>8, <2>1, <2>2 DEF MidiTypeOK, IInv, portVars
<1>16. QED
  BY <1>8, <1>9, <1>10, <1>11, <1>13, <1>14, <1>15

LEMMA PlayerReturnPreserves ==
    ASSUME MidiInv, PlayerReturn
    PROVE  MidiInv'
<1> USE DEF MidiInv
<1>1. /\ pc = "trigger" /\ pc' = "popping" /\ event' = NoEvent
      /\ event.node \notin Out
      /\ queue' = Pop(queue)
      /\ UNCHANGED <<clock, current_time, real_time, turn, looped, should_run,
                     alive, last, is_ok, connected, endpoint, message, sounding>>
  BY DEF PlayerReturn, TriggerReturn, timeVars, Player, midiVars
<1>2. /\ Fits(queue', alive)
      /\ Queued' = Queued \ {event}
      /\ \A e \in Queued' : e.id # event.id
  BY <1>1, RunningPopped DEF Queued
<1>3. IInv' /\ RunningFirst'
  BY <1>1, <1>2, FittingReturn
<1>4. StillThere'
  BY <1>1 DEF StillThere
<1>5. AddressLeft'
  BY <1>1, <1>2, AddressBack
<1>6. MessagesThere'
  BY <1>1, <1>2 DEF MessagesThere
<1>7. \A k : Reached(k)' = Reached(k)
  BY <1>1 DEF Reached
<1>8. NotesReached' /\ MidiTypeOK'
  BY <1>1, <1>3, <1>7 DEF NotesReached, MidiTypeOK, IInv
<1>9. NoteOffPending'
  <2> SUFFICES ASSUME NEW note \in sounding, note[1] \in alive
               PROVE  \E e \in Queued' : /\ e.node = note[1]
                                         /\ message[e.id].type = "off"
                                         /\ message[e.id].pitch = note[3]
    BY <1>1 DEF NoteOffPending
  <2>1. PICK e \in Queued : /\ e.node = note[1]
                            /\ message[e.id].type = "off"
                            /\ message[e.id].pitch = note[3]
    BY DEF NoteOffPending
  <2>2. note[1] \in Out
    BY DEF MidiTypeOK
  <2>3. e # event
    BY <1>1, <2>1, <2>2
  <2>4. QED
    BY <1>2, <2>1, <2>3
<1>10. QED
  BY <1>3, <1>4, <1>5, <1>6, <1>8, <1>9

-----------------------------------------------------------------------------
(* Ports.                                                                  *)

\* A port is closed, and perhaps another one opened: what is left of the notes of
\* the output is on its virtual port, which stays.
LEMMA PortChanged ==
    ASSUME MidiInv, NEW m \in Out, UNCHANGED <<vars, message>>,
           is_ok' \in [Out -> BOOLEAN],
           connected' \in [Out -> Port \cup {NoPort}],
           endpoint' \in [Out -> BOOLEAN],
           \A k \in Out : k # m => /\ is_ok'[k] = is_ok[k]
                                   /\ connected'[k] = connected[k]
                                   /\ endpoint'[k] = endpoint[k],
           endpoint[m] => endpoint'[m],
           is_ok'[m] => endpoint'[m] \/ connected'[m] # NoPort,
           sounding' = sounding \ Left(m)
    PROVE  MidiInv'
<1> USE DEF MidiInv
<1>1. IInv' /\ RunningFirst' /\ StillThere'
  <2>1. UNCHANGED <<pc, queue, event>>
    BY DEF vars
  <2>2. IInv'
    BY NextPreserves
  <2>3. QED
    BY <2>1, <2>2 DEF RunningFirst, StillThere, Queued
<1>2. UNCHANGED <<queue, event, pc, alive>>
  BY DEF vars
<1>3. Queued' = Queued /\ UsedId' = UsedId
  BY <1>2 DEF Queued, UsedId
<1>4. MessagesThere' /\ AddressLeft'
  BY <1>2, <1>3 DEF MessagesThere, AddressLeft
<1>5. NoteOffPending'
  BY <1>2, <1>3 DEF NoteOffPending
<1>6. /\ \A k \in Out : k # m => Reached(k)' = Reached(k)
      /\ endpoint'[m] => Virtual \in Reached(m)'
      /\ connected'[m] # NoPort => connected'[m] \in Reached(m)'
  BY DEF Reached
<1>7. sounding' \subseteq Out \X (Port \cup {Virtual}) \X Pitch
  BY DEF MidiTypeOK
<1>8. NotesReached'
  <2> SUFFICES ASSUME NEW note \in sounding', note[1] \in alive
               PROVE  note[2] \in Reached(note[1])'
    BY <1>2 DEF NotesReached
  <2>1. note \in sounding /\ note[1] \in Out /\ note[2] \in Port \cup {Virtual}
    BY <1>7
  <2>2. note[2] \in Reached(note[1])
    BY <2>1 DEF NotesReached
  <2>3. CASE note[1] # m
    BY <1>6, <2>1, <2>2, <2>3
  <2>4. CASE note[1] = m
    <3>1. note[2] = Virtual
      BY <2>1, <2>4 DEF Left
    <3>2. endpoint[m]
      BY <2>2, <2>4, <3>1, ReachedIs
    <3>3. QED
      BY <1>6, <2>4, <3>1, <3>2
  <2>5. QED
    BY <2>3, <2>4
<1>9. \A k \in Out : is_ok'[k] => Reached(k)' # {}
  <2> SUFFICES ASSUME NEW k \in Out, is_ok'[k] PROVE Reached(k)' # {}
    OBVIOUS
  <2>1. CASE k = m
    BY <1>6, <2>1
  <2>2. CASE k # m
    BY <1>6, <2>2 DEF MidiTypeOK
  <2>3. QED
    BY <2>1, <2>2
<1>10. MidiTypeOK'
  BY <1>1, <1>7, <1>9 DEF MidiTypeOK, IInv
<1>11. QED
  BY <1>1, <1>4, <1>5, <1>8, <1>10

LEMMA OpenPortPreserves ==
    ASSUME MidiInv, NEW m \in Out, NEW d \in Port \cup {Virtual}, OpenPort(m, d)
    PROVE  MidiInv'
<1>1. /\ is_ok \in [Out -> BOOLEAN] /\ endpoint \in [Out -> BOOLEAN]
      /\ connected \in [Out -> Port \cup {NoPort}]
  BY DEF MidiInv, MidiTypeOK
<1>2. /\ UNCHANGED <<vars, message>>
      /\ is_ok' = [is_ok EXCEPT ![m] = TRUE]
      /\ connected' = [connected EXCEPT ![m] = IF d = Virtual THEN NoPort ELSE d]
      /\ endpoint' = [endpoint EXCEPT ![m] = endpoint[m] \/ d = Virtual]
      /\ sounding' = sounding \ Left(m)
  BY DEF OpenPort
<1>3. /\ is_ok' \in [Out -> BOOLEAN] /\ endpoint' \in [Out -> BOOLEAN]
      /\ connected' \in [Out -> Port \cup {NoPort}]
      /\ \A k \in Out : k # m => /\ is_ok'[k] = is_ok[k]
                                 /\ connected'[k] = connected[k]
                                 /\ endpoint'[k] = endpoint[k]
  BY <1>1, <1>2
<1>4. endpoint'[m] <=> (endpoint[m] \/ d = Virtual)
  BY <1>1, <1>2
<1>5. d # Virtual => connected'[m] # NoPort
  BY <1>1, <1>2, PortAssumption
<1>6. QED
  BY <1>2, <1>3, <1>4, <1>5, PortChanged

LEMMA OpenPortFailsPreserves ==
    ASSUME MidiInv, NEW m \in Out, OpenPortFails(m)
    PROVE  MidiInv'
<1>1. /\ is_ok \in [Out -> BOOLEAN] /\ endpoint \in [Out -> BOOLEAN]
      /\ connected \in [Out -> Port \cup {NoPort}]
  BY DEF MidiInv, MidiTypeOK
<1>2. /\ UNCHANGED <<vars, message, endpoint>>
      /\ is_ok' = [is_ok EXCEPT ![m] = FALSE]
      /\ connected' = [connected EXCEPT ![m] = NoPort]
      /\ sounding' = sounding \ Left(m)
  BY DEF OpenPortFails
<1>3. /\ is_ok' \in [Out -> BOOLEAN] /\ endpoint' \in [Out -> BOOLEAN]
      /\ connected' \in [Out -> Port \cup {NoPort}]
      /\ \A k \in Out : k # m => /\ is_ok'[k] = is_ok[k]
                                 /\ connected'[k] = connected[k]
                                 /\ endpoint'[k] = endpoint[k]
      /\ ~is_ok'[m] /\ endpoint'[m] = endpoint[m]
  BY <1>1, <1>2
<1>4. QED
  BY <1>2, <1>3, PortChanged

\* An output that is deleted takes its events along, and no others.
LEMMA DestroyOutPreserves ==
    ASSUME MidiInv, NEW m \in Out, DestroyOut(m)
    PROVE  MidiInv'
<1> USE DEF MidiInv
<1>1. /\ Destroy(m) /\ LockFree /\ m \in Node
      /\ queue' = FreeEventsFor(queue, m)
      /\ alive' = alive \ {m}
      /\ UNCHANGED <<pc, event, message, sounding>>
      /\ is_ok' = [is_ok EXCEPT ![m] = FALSE]
      /\ connected' = [connected EXCEPT ![m] = NoPort]
      /\ endpoint' = [endpoint EXCEPT ![m] = FALSE]
  BY OutAssumption DEF DestroyOut, Destroy, threadVars
<1>2. Queued' = {e \in Queued : e.node # m}
  BY <1>1, FreedEvents DEF IInv, TypeOK, Queued
<1>3. IInv'
  BY <1>1, DestroyPreserves
<1>4. RunningFirst' /\ StillThere'
  BY <1>1 DEF RunningFirst, StillThere, LockFree
<1>5. AddressLeft'
  <2>1. UsedId' \subseteq UsedId
    BY <1>1, <1>2 DEF UsedId
  <2>2. QED
    BY <1>1, <1>2, <2>1 DEF AddressLeft
<1>6. MessagesThere'
  BY <1>1, <1>2 DEF MessagesThere
<1>7. /\ is_ok \in [Out -> BOOLEAN] /\ endpoint \in [Out -> BOOLEAN]
      /\ connected \in [Out -> Port \cup {NoPort}]
      /\ sounding \subseteq Out \X (Port \cup {Virtual}) \X Pitch
  BY DEF MidiTypeOK
<1>8. /\ is_ok' \in [Out -> BOOLEAN] /\ endpoint' \in [Out -> BOOLEAN]
      /\ connected' \in [Out -> Port \cup {NoPort}]
      /\ ~is_ok'[m]
      /\ \A k \in Out : k # m => /\ is_ok'[k] = is_ok[k]
                                 /\ connected'[k] = connected[k]
                                 /\ endpoint'[k] = endpoint[k]
  BY <1>1, <1>7
<1>9. \A k \in Out : k # m => Reached(k)' = Reached(k)
  BY <1>8 DEF Reached
<1>10. NotesReached'
  BY <1>1, <1>7, <1>9 DEF NotesReached
<1>11. NoteOffPending'
  BY <1>1, <1>2 DEF NoteOffPending
<1>12. MidiTypeOK'
  BY <1>1, <1>3, <1>7, <1>8, <1>9 DEF MidiTypeOK, IInv
<1>13. QED
  BY <1>3, <1>4, <1>5, <1>6, <1>10, <1>11, <1>12

-----------------------------------------------------------------------------
(* The other steps, and the theorems.                                      *)

LEMMA ThreadPreserves ==
    ASSUME MidiInv, MidiThread \/ ((Start \/ (Quit /\ ~OutIsBanged) \/ Tick)
                                   /\ UNCHANGED midiVars)
    PROVE  MidiInv'
<1> USE DEF MidiInv
<1>1. /\ Start \/ Wake \/ LoopDone \/ Trigger \/ Unlock \/ Continue \/ Quit \/ Tick
      /\ UNCHANGED <<is_ok, connected, endpoint, message, sounding>>
  BY DEF MidiThread, midiVars
<1>2. IInv' /\ RunningFirst'
  BY <1>1, ThreadKeepsRunningFirst
<1>3. /\ UNCHANGED <<queue, alive>>
      /\ \/ Trigger
         \/ UNCHANGED event /\ (pc' = "trigger" <=> pc = "trigger")
  BY <1>1 DEF Start, Wake, LoopDone, Trigger, Unlock, Continue, Quit, Tick,
              threadVars, IInv, TypeOK
<1>4. Queued' = Queued
  BY <1>3 DEF Queued
<1>5. StillThere' /\ AddressLeft'
  <2>1. CASE Trigger
    <3>1. /\ queue \in Seq(Event) /\ queue # <<>> /\ event' = Head(queue)
          /\ pc = "popping" /\ event = NoEvent
      BY <2>1 DEF IInv, TypeOK, Trigger, HeadIsDue
    <3>2. event' = queue[1] /\ 1 \in DOMAIN queue
      BY <3>1, HeadOfEvents
    <3>3. event' \in Queued
      BY <3>2 DEF Queued, ToSet
    <3>4. UsedId' = UsedId
      BY <1>4, <3>1, <3>3 DEF UsedId
    <3>5. QED
      BY <1>4, <3>1, <3>3, <3>4 DEF StillThere, AddressLeft
  <2>2. CASE UNCHANGED event /\ (pc' = "trigger" <=> pc = "trigger")
    BY <1>4, <2>2 DEF StillThere, AddressLeft, UsedId
  <2>3. QED
    BY <1>3, <2>1, <2>2
<1>6. \A k : Reached(k)' = Reached(k)
  BY <1>1 DEF Reached
<1>7. NotesReached' /\ NoteOffPending' /\ MessagesThere'
  BY <1>1, <1>3, <1>4, <1>6 DEF NotesReached, NoteOffPending, MessagesThere
<1>8. MidiTypeOK'
  BY <1>1, <1>2, <1>6 DEF MidiTypeOK, IInv
<1>9. QED
  BY <1>2, <1>5, <1>7, <1>8

LEMMA MidiInitEstablishes == MidiInit => MidiInv
<1> SUFFICES ASSUME MidiInit PROVE MidiInv
  OBVIOUS
<1>1. IInv
  BY InitEstablishes DEF MidiInit
<1>2. pc = "off" /\ queue = <<>>
  BY DEF MidiInit, Init
<1>3. Queued = {}
  BY <1>2, EmptyElements DEF Queued
<1>4. RunningFirst /\ StillThere
  BY <1>2 DEF RunningFirst, StillThere
<1>5. MessagesThere /\ AddressLeft
  BY <1>3 DEF MessagesThere, AddressLeft
<1>6. NotesReached /\ NoteOffPending
  BY DEF MidiInit, NotesReached, NoteOffPending
<1>7. MidiTypeOK
  <2>1. /\ is_ok \in [Out -> BOOLEAN] /\ endpoint = is_ok
        /\ connected \in [Out -> Port \cup {NoPort}]
        /\ message \in [EventId -> Message \cup {NoMessage}]
        /\ sounding = {}
    BY DEF MidiInit
  <2>2. \A m \in Out : is_ok[m] => Reached(m) # {}
    BY <2>1 DEF Reached
  <2>3. QED
    BY <1>1, <2>1, <2>2 DEF MidiTypeOK, IInv
<1>8. QED
  BY <1>1, <1>4, <1>5, <1>6, <1>7 DEF MidiInv

LEMMA MidiNextPreserves == MidiInv /\ [MidiNext]_<<vars, midiVars>> => MidiInv'
<1> SUFFICES ASSUME MidiInv, [MidiNext]_<<vars, midiVars>> PROVE MidiInv'
  OBVIOUS
<1>1. CASE MidiCall
  BY <1>1, SendNotePreserves, SendLaterPreserves, OpenPortPreserves,
     OpenPortFailsPreserves, DestroyOutPreserves DEF MidiCall
<1>2. CASE PlayerCall
  BY <1>2, PlayerCallPreserves
<1>3. CASE Deliver
  BY <1>3, DeliverPreserves
<1>4. CASE PlayerReturn
  BY <1>4, PlayerReturnPreserves
<1>5. CASE MidiThread \/ ((Start \/ (Quit /\ ~OutIsBanged) \/ Tick)
                          /\ UNCHANGED midiVars)
  BY <1>5, ThreadPreserves
<1>6. CASE UNCHANGED <<vars, midiVars>>
  <2>1. /\ UNCHANGED <<queue, event, pc, alive, is_ok, connected, endpoint, message,
                       sounding>>
        /\ IInv'
    BY <1>6, NextPreserves DEF vars, midiVars, MidiInv
  <2>2. Queued' = Queued /\ UsedId' = UsedId
    BY <2>1 DEF Queued, UsedId
  <2>3. \A k : Reached(k)' = Reached(k)
    BY <2>1 DEF Reached
  <2>4. RunningFirst' /\ StillThere' /\ MessagesThere' /\ AddressLeft'
    BY <2>1, <2>2 DEF MidiInv, RunningFirst, StillThere, MessagesThere, AddressLeft
  <2>5. NotesReached' /\ NoteOffPending' /\ MidiTypeOK'
    BY <2>1, <2>2, <2>3 DEF MidiInv, NotesReached, NoteOffPending, MidiTypeOK, IInv
  <2>6. QED
    BY <2>1, <2>4, <2>5 DEF MidiInv
<1>7. QED
  BY <1>1, <1>2, <1>3, <1>4, <1>5, <1>6 DEF MidiNext

\* Every state that outputs and players can reach satisfies the invariant.
THEOREM MidiInvariance == MidiSpec => []MidiInv
<1>1. MidiInit => MidiInv
  BY MidiInitEstablishes
<1>2. MidiInv /\ [MidiNext]_<<vars, midiVars>> => MidiInv'
  BY MidiNextPreserves
<1>3. QED
  BY <1>1, <1>2, PTL DEF MidiSpec

\* The fields of the outputs keep their types, the message of every event of an
\* output is one, and an output that counts as open has a port it reaches.
THEOREM MidiTypeCorrect == MidiSpec => []MidiTypeOK
<1>1. MidiInv => MidiTypeOK
  BY DEF MidiInv
<1>2. QED
  BY <1>1, MidiInvariance, PTL

\* MidiOut.cpp:73: a note that sounds has its note off in the queue, however notes
\* of a pitch overlap, whether ports change or fail, and after quit() as well.
THEOREM NoteOffAlwaysPending == MidiSpec => []NoteOffPending
<1>1. MidiInv => NoteOffPending
  BY DEF MidiInv
<1>2. QED
  BY <1>1, MidiInvariance, PTL
=============================================================================
