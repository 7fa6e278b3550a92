SPECIFICATION MidiFairSpec
CONSTANTS
    out = out
    player = player
    Node = {out, player}
    Out = {out}
    EventId = {e1, e2, e3}
    MaxTime = 3
    Interval <- MCInterval
    SelfCancel = FALSE
    NoEvent = NoEvent
    Port = {synth}
    Virtual = virtual
    NoPort = NoPort
    NoMessage = NoMessage
    Pitch = {c3}
    Wait <- MCWait
    Length <- MCLength
INVARIANTS
    MidiTypeOK
    NoteOffPending
PROPERTIES
    NotesEnd
CHECK_DEADLOCK FALSE
