----------------------------- MODULE MCMidiOut -----------------------------
EXTENDS MidiOut

CONSTANTS out, player

\* The player bangs after one ms.
MCInterval == {1}

\* Notes that end and notes that do not.
MCLength == {0, 2}

MCWait == {1}
=============================================================================
