-------------------------------- MODULE Lists --------------------------------
(***************************************************************************)
(* The walk that many of the lists of rubyk take: over all the objects of  *)
(* a list, front first, to take out those that are concerned.              *)
(***************************************************************************)
EXTENDS Integers, Sequences, SequencesExt

\* What is left of a list when the objects of gone are taken out: the others,
\* in the order they had.  (A recursive function, because TLAPS cannot expand
\* SelectSeq.)
Without(list, gone) ==
    LET kept[i \in 0..Len(list)] ==
            IF i = 0 THEN <<>>
            ELSE IF list[i] \in gone THEN kept[i - 1]
            ELSE Append(kept[i - 1], list[i])
    IN  kept[Len(list)]
=============================================================================
