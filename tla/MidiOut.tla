------------------------------- MODULE MidiOut -------------------------------
(***************************************************************************)
(* MIDI outputs (lib_objects/midi/MidiOut.cpp) on a worker, with what they *)
(* use of RtMidi: a note with a length is sent as a note on, and an event  *)
(* that may not be refused is registered to send its note off.  The other  *)
(* nodes of the worker are players, which send notes from their bangs.     *)
(***************************************************************************)
EXTENDS Worker

CONSTANTS Out,          \* the MidiOut nodes; the others play
          Port,         \* ports of other programs
          Virtual,      \* the port that RtMidi makes for an output
          Pitch,        \* notes, a channel and a key each
          Wait, Length, \* in ms
          NoPort,       \* not connected
          NoMessage     \* of an event without parameter, or no event

ASSUME OutAssumption == Out \subseteq Node
ASSUME LengthAssumption == Wait \subseteq Nat /\ Length \subseteq Nat
ASSUME PortAssumption == Virtual \notin Port /\ NoPort \notin Port \cup {Virtual}

Message == [type : {"on", "off"}, pitch : Pitch, length : Length]

VARIABLES is_ok,        \* is_ok_ of every output
          connected,    \* the port RtMidi is connected to
          endpoint,     \* has RtMidi made its virtual port?
          message,      \* parameter of the event at each address
          sounding      \* history: <<output, port, pitch>> with a length that
                        \* was sent on and not off, to a port never left since

portVars == <<is_ok, connected, endpoint>>
midiVars == <<is_ok, connected, endpoint, message, sounding>>

-----------------------------------------------------------------------------
(* RtMidi.                                                                 *)

\* Where sendMessage sends: the virtual port once it exists, whatever was
\* opened or failed to open after it, and the port connected to.
Reached(m) == (IF endpoint[m] THEN {Virtual} ELSE {})
              \cup ({connected[m]} \ {NoPort})

\* The notes that sound after a message is sent.
Sent(m, msg) ==
    LET notes == {<<m, d, msg.pitch>> : d \in Reached(m)}
    IN  IF msg.type = "off" THEN sounding \ notes
        ELSE IF msg.length > 0 THEN sounding \cup notes
        ELSE sounding

\* Notes on a port that is closed are out of reach.
Left(m) == {note \in sounding : note[1] = m /\ note[2] \in Port}

-----------------------------------------------------------------------------
(* Notes.                                                                  *)

\* Mutant: the note off is an event like others.
NoteOffUnforced(m, msg, id) ==
    [id |-> id, node |-> m, when |-> current_time + msg.length, forced |-> FALSE]

NoteOff(m, msg, id) ==
    [id |-> id, node |-> m, when |-> current_time + msg.length, forced |-> TRUE]

\* Mutant: note_on_to_off() is forgotten.
KeptOn(msg) == msg

\* note_on_to_off()
OnToOff(msg) == [msg EXCEPT !.type = "off"]

\* Addresses are interchangeable; nothing is known of what is at a free one.
FreeId == CHOOSE id \in EventId : id \notin UsedId
Recorded(id, msg) ==
    [i \in EventId |-> IF i = id THEN msg
                       ELSE IF i \in UsedId THEN message[i] ELSE NoMessage]

\* bang(msg): send, and register the note off of a note with a length.  q is
\* the queue, without the event that is being triggered when there is one.
Play(m, msg, q) ==
    /\ sounding' = Sent(m, msg)
    /\ IF msg.type = "on" /\ msg.length > 0
       THEN /\ current_time + msg.length <= MaxTime
            /\ queue' = RegisterEvent(q, NoteOff(m, msg, FreeId))
            /\ message' = Recorded(FreeId, OnToOff(msg))
       ELSE queue' = q /\ UNCHANGED message

\* Bound: calls leave an address for the next event; the bang of a player
\* gives its own back.
Room == Cardinality(EventId \ UsedId) > (IF pc = "trigger" THEN 0 ELSE 1)

\* The bang of an output calls nothing.
OutIsBanged == pc = "trigger" /\ event.node \in Out

\* A note comes from outside or from the patch behind the bang of a player.
CallOut(m) ==
    /\ m \in Out
    /\ CanCall(m)
    /\ ~OutIsBanged

\* midi(val) without wait
SendNote(m, pitch, length) ==
    /\ CallOut(m)
    /\ is_ok[m]
    /\ Room
    /\ Play(m, [type |-> "on", pitch |-> pitch, length |-> length], queue)
    /\ UNCHANGED <<timeVars, threadVars, looped, should_run, alive, last, portVars>>

\* midi(val) with wait.  The interval that bang_me_in gets is a time already:
\* the present one is added twice.
SendLater(m, pitch, wait, length) ==
    /\ CallOut(m)
    /\ is_ok[m]
    /\ wait > 0
    /\ current_time + current_time + wait + length <= MaxTime
    /\ Room
    /\ queue' = RegisterEvent(queue,
                   [id     |-> FreeId,
                    node   |-> m,
                    when   |-> current_time + (current_time + wait),
                    forced |-> FALSE])
    /\ message' = Recorded(FreeId, [type |-> "on", pitch |-> pitch, length |-> length])
    /\ UNCHANGED <<timeVars, threadVars, looped, should_run, alive, last,
                   portVars, sounding>>

\* The event of an output is triggered and popped: what bang() registers is
\* after the present time, so after the event it pops.
Deliver ==
    /\ OutIsBanged
    /\ pc' = "popping"
    /\ event' = NoEvent
    /\ Play(event.node, message[event.id], Pop(queue))
    /\ UNCHANGED <<timeVars, looped, turn, should_run, alive, last, portVars>>

-----------------------------------------------------------------------------
(* Ports.                                                                  *)

\* open_port(d): close, then connect or, for the virtual port, make it once.
OpenPort(m, d) ==
    /\ CallOut(m)
    /\ is_ok' = [is_ok EXCEPT ![m] = TRUE]
    /\ connected' = [connected EXCEPT ![m] = IF d = Virtual THEN NoPort ELSE d]
    /\ endpoint' = [endpoint EXCEPT ![m] = @ \/ d = Virtual]
    /\ sounding' = sounding \ Left(m)
    /\ UNCHANGED <<vars, message>>

\* Mutant: set_is_ok(false) comes after the port is opened.
FailsStillOk(m) ==
    /\ CallOut(m)
    /\ connected' = [connected EXCEPT ![m] = NoPort]
    /\ sounding' = sounding \ Left(m)
    /\ UNCHANGED <<vars, is_ok, endpoint, message>>

\* open_port(d) when RtMidi throws: the old port is closed all the same.
OpenPortFails(m) ==
    /\ CallOut(m)
    /\ is_ok' = [is_ok EXCEPT ![m] = FALSE]
    /\ connected' = [connected EXCEPT ![m] = NoPort]
    /\ sounding' = sounding \ Left(m)
    /\ UNCHANGED <<vars, endpoint, message>>

\* ~MidiOut() deletes the RtMidiOut, then ~Node() triggers the note offs that
\* it frees; by then their virtual bang() is the empty one of Node.
DestroyOut(m) ==
    /\ m \in Out
    /\ LockFree
    /\ Destroy(m)
    /\ is_ok' = [is_ok EXCEPT ![m] = FALSE]
    /\ connected' = [connected EXCEPT ![m] = NoPort]
    /\ endpoint' = [endpoint EXCEPT ![m] = FALSE]
    /\ UNCHANGED <<message, sounding>>

-----------------------------------------------------------------------------
\* init() has opened the virtual port of every output, or failed to.
MidiInit ==
    /\ Init
    /\ is_ok \in [Out -> BOOLEAN]
    /\ endpoint = is_ok
    /\ connected = [m \in Out |-> NoPort]
    /\ message = [id \in EventId |-> NoMessage]
    /\ sounding = {}

\* The players: other nodes that ask for bangs.
Player == Node \ Out

MidiCall ==
    \E m \in Out :
        \/ \E pitch \in Pitch, length \in Length :
               \/ SendNote(m, pitch, length)
               \/ \E wait \in Wait : SendLater(m, pitch, wait, length)
        \/ \E d \in Port \cup {Virtual} : OpenPort(m, d)
        \/ OpenPortFails(m)
        \/ DestroyOut(m)

PlayerCall == \E n \in Player, d \in Interval :
                 /\ Room /\ ~OutIsBanged
                 /\ BangMeIn(n, d, FALSE)
                 /\ UNCHANGED midiVars

PlayerReturn ==
    /\ pc = "trigger" /\ event.node \in Player
    /\ TriggerReturn
    /\ UNCHANGED midiVars

MidiThread ==
    /\ Wake \/ LoopDone \/ Trigger \/ Unlock \/ Continue
    /\ UNCHANGED midiVars

MidiNext ==
    \/ MidiCall
    \/ PlayerCall
    \/ Deliver
    \/ PlayerReturn
    \/ MidiThread
    \/ (Start \/ (Quit /\ ~OutIsBanged) \/ Tick) /\ UNCHANGED midiVars

MidiSpec == MidiInit /\ [][MidiNext]_<<vars, midiVars>>

\* As in Worker.
MidiFairSpec ==
    /\ MidiSpec
    /\ WF_<<vars, midiVars>>(Start /\ UNCHANGED midiVars)
    /\ WF_<<vars, midiVars>>(MidiThread \/ Deliver \/ PlayerReturn)
    /\ WF_<<vars, midiVars>>(Tick /\ UNCHANGED midiVars)

-----------------------------------------------------------------------------
(* Properties.                                                             *)

MidiTypeOK ==
    /\ TypeOK
    /\ is_ok \in [Out -> BOOLEAN]
    /\ connected \in [Out -> Port \cup {NoPort}]
    /\ endpoint \in [Out -> BOOLEAN]
    /\ message \in [EventId -> Message \cup {NoMessage}]
    /\ sounding \subseteq Out \X (Port \cup {Virtual}) \X Pitch
    /\ \A m \in Out : is_ok[m] => Reached(m) # {}

\* "internal use to send NoteOff" (MidiOut.cpp:73): a note that sounds has its
\* note off in the queue, also when notes of a pitch overlap, ports change or
\* fail, and the planet is quitting.
NoteOffPending ==
    \A note \in sounding :
        note[1] \in alive =>
            \E e \in Queued : /\ e.node = note[1]
                              /\ message[e.id].type = "off"
                              /\ message[e.id].pitch = note[3]

\* A note ends while the worker runs.
NotesEnd ==
    \A note \in Out \X (Port \cup {Virtual}) \X Pitch :
        (note \in sounding /\ note[1] \in alive)
            ~> (note \notin sounding \/ note[1] \notin alive \/ pc = "ended")

\* node.cpp:37 "some events have to be triggered before the node dies (note
\* off)": a node that is gone leaves no note behind.
SilentWhenGone == \A note \in sounding : note[1] \in alive
=============================================================================
