------------------------------ MODULE MCMetro ------------------------------
EXTENDS Metro, TLC

\* 1, 1.5 -> 1 and 3 ms; the default is 2 ms.
MCBeat == {110, 150, 300}

\* A tempo that is not positive, next to an ordinary one.
MCBeatOrZero == {0, 300}

\* A tempo faster than one beat in a millisecond, next to an ordinary one.
MCBeatOrFast == {50, 300}

MCNoInterval == {}

Symmetry == Permutations(Node)
=============================================================================
