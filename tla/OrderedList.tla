----------------------------- MODULE OrderedList -----------------------------
(***************************************************************************)
(* The pointer specialisation OrderedList<T*> of core/ordered_list.h as    *)
(* operators on sequences: the linked list behind the sentinel head is the *)
(* sequence of the objects it points to, front first.                      *)
(*                                                                         *)
(* The C++ template compares two objects with T::operator>=; here that is  *)
(* the relation atLeast, a set of pairs of objects.  The worker gives the  *)
(* due time of its events, a slot the position of the slots it is linked   *)
(* to.                                                                     *)
(***************************************************************************)
EXTENDS Lists, FiniteSetsExt

\* Mutant: every object is put at the back.
AppendAlways(list, object, atLeast) == Len(list) + 1

\* push_container walks past every element the new object is >= to and stops
\* at the first one it is not: where atLeast is reflexive, equal elements keep
\* their order of arrival; where it is not, the latest comes first.
InsertionPoint(list, object, atLeast) ==
    Min({i \in 1..Len(list) + 1 :
            i <= Len(list) => <<object, list[i]>> \notin atLeast})

\* An object that is already in the list is not stored twice.
Push(list, object, atLeast) ==
    IF Contains(list, object)
    THEN list
    ELSE InsertAt(list, InsertionPoint(list, object, atLeast), object)

\* Mutant: the walk starts behind the first element.
PopNotLast(list) == IF Len(list) < 2 THEN list ELSE Tail(list)

\* pop() drops whatever is at the front, and nothing when the list is empty.
Pop(list) == IF list = <<>> THEN list ELSE Tail(list)

\* remove(object): the one container that holds the object, if there is one.
RemoveObject(list, object) == RemoveFirst(list, object)

\* Mutant: the last element of the old list is forgotten.
SortAllButLast(list, atLeast) ==
    LET sorted[i \in 0..Len(list)] ==
            IF i = 0 THEN <<>>
            ELSE Push(sorted[i - 1], list[i], atLeast)
    IN  IF Len(list) < 2 THEN list ELSE sorted[Len(list) - 1]

\* sort() empties the list and pushes its elements again, front first.
\* (A recursive function rather than a fold, which TLAPS cannot expand.)
Sort(list, atLeast) ==
    LET sorted[i \in 0..Len(list)] ==
            IF i = 0 THEN <<>>
            ELSE Push(sorted[i - 1], list[i], atLeast)
    IN  sorted[Len(list)]
=============================================================================
