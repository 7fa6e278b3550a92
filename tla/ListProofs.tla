----------------------------- MODULE ListProofs -----------------------------
(***************************************************************************)
(* Facts about the lists of this project that its proofs cite by name:     *)
(* induction over the positions of a list and over lists, where the        *)
(* elements are after an insertion or a removal, what a walk over a list   *)
(* leaves of it, and what the operations of an ordered list do to its      *)
(* elements and to their order, for any objects and any operator>=.        *)
(***************************************************************************)
EXTENDS OrderedList, SequenceTheorems, WellFoundedInduction, TLAPS

\* The lists over S that hold exactly the objects of E, each once.
ListOf(S, E) == {r \in Seq(S) : ToSet(r) = E /\ IsInjective(r)}

\* No object stands in front of one that it is "at least" (and would have
\* been pushed behind).
Settled(list, atLeast) ==
    \A j, k \in DOMAIN list : j < k => <<list[j], list[k]>> \notin atLeast

\* What operator>= needs for that: being in front or level is transitive.
WeakOrder(atLeast, S) ==
    /\ \A x, y \in S : <<x, y>> \in atLeast => <<y, x>> \notin atLeast
    /\ \A x, y, z \in S :
          <<x, y>> \notin atLeast /\ <<y, z>> \notin atLeast
             => <<x, z>> \notin atLeast

-----------------------------------------------------------------------------
(* Recursion and induction over the positions of a list.                   *)

\* Every inhabited set of naturals has a least element.
LEMMA LeastNat ==
    ASSUME NEW T, T \subseteq Nat, T # {}
    PROVE  \E m \in T : \A k \in T : m <= k
<1>1. PICK m \in T : \A k \in T : ~(<<k, m>> \in OpToRel(<, Nat))
  BY NatLessThanWellFounded, WFMin
<1>2. \A k \in T : ~(k < m)
  BY <1>1 DEF OpToRel
<1>3. QED
  BY <1>2

\* Min, as the community modules define it, is that least element.
LEMMA MinOfNats ==
    ASSUME NEW T, T \subseteq Nat, T # {}
    PROVE  Min(T) \in T /\ \A k \in T : Min(T) <= k
BY LeastNat DEF Min

\* What holds of 0 and of every position after one it holds of.
LEMMA UpTo ==
    ASSUME NEW n \in Nat, NEW G, 0 \in G, \A m \in 1..n : m - 1 \in G => m \in G
    PROVE  0..n \subseteq G
<1> DEFINE T == 0..n \ G
<1> SUFFICES ASSUME T # {} PROVE FALSE
  OBVIOUS
<1>1. PICK m \in T : \A k \in T : m <= k
  <2>1. T \subseteq Nat
    OBVIOUS
  <2> HIDE DEF T
  <2>2. QED
    BY <2>1, LeastNat
<1>2. m \in 1..n /\ m - 1 \in 0..n
  BY <1>1
<1>3. m - 1 \in G
  BY <1>1, <1>2
<1>4. QED
  BY <1>1, <1>2, <1>3

\* g starts with base and goes on by the steps of step.
Recursion(g, n, T, base, step) ==
    /\ g \in [0..n -> T]
    /\ g[0] = base
    /\ \A i \in 1..n : g[i] = step[i][g[i - 1]]

\* A function defined by its first value and its steps exists.
LEMMA RecursionExists ==
    ASSUME NEW n \in Nat, NEW T, NEW base \in T, NEW step \in [1..n -> [T -> T]]
    PROVE  \E g : Recursion(g, n, T, base, step)
<1> DEFINE Good(m) == \E g \in [0..m -> T] :
                         g[0] = base /\ \A i \in 1..m : g[i] = step[i][g[i - 1]]
           G == {m \in 0..n : Good(m)}
<1>1. 0 \in G
  <2> DEFINE g == [i \in 0..0 |-> base]
  <2>1. g \in [0..0 -> T] /\ g[0] = base
    OBVIOUS
  <2>2. \A i \in 1..0 : g[i] = step[i][g[i - 1]]
    OBVIOUS
  <2> HIDE DEF g
  <2>3. Good(0)
    BY <2>1, <2>2
  <2>4. QED
    BY <2>3
<1>2. ASSUME NEW m \in 1..n, m - 1 \in G PROVE m \in G
  <2>1. PICK g \in [0..m - 1 -> T] :
           g[0] = base /\ \A i \in 1..m - 1 : g[i] = step[i][g[i - 1]]
    BY <1>2
  <2> DEFINE h == [i \in 0..m |-> IF i = m THEN step[m][g[m - 1]] ELSE g[i]]
  <2>2. m - 1 \in 0..m - 1 /\ m \in Nat /\ m # 0
    OBVIOUS
  <2>3. h \in [0..m -> T]
    <3>1. step[m][g[m - 1]] \in T
      BY <2>2
    <3>2. QED
      BY <3>1
  <2>4. h[0] = base
    BY <2>1, <2>2
  <2>5. ASSUME NEW i \in 1..m PROVE h[i] = step[i][h[i - 1]]
    <3>1. h[i - 1] = g[i - 1]
      BY <2>2
    <3>2. CASE i = m
      BY <3>1, <3>2
    <3>3. CASE i # m
      <4>1. i \in 1..m - 1 /\ h[i] = g[i]
        BY <3>3
      <4>2. QED
        BY <4>1, <3>1, <2>1
    <3>4. QED
      BY <3>2, <3>3
  <2> HIDE DEF h
  <2>6. Good(m)
    BY <2>3, <2>4, <2>5
  <2> HIDE DEF Good
  <2>7. QED
    BY <2>6
<1> HIDE DEF Good
<1>3. 0..n \subseteq G
  <2> HIDE DEF G
  <2>1. QED
    BY <1>1, <1>2, UpTo
<1>4. Good(n)
  BY <1>3
<1>5. QED
  BY <1>4 DEF Good, Recursion

-----------------------------------------------------------------------------
(* Membership.                                                             *)

LEMMA ElementsOf ==
    ASSUME NEW S, NEW s \in Seq(S)
    PROVE  /\ Len(s) \in Nat
           /\ DOMAIN s = 1..Len(s)
           /\ \A i \in 1..Len(s) : s[i] \in S
           /\ ToSet(s) \subseteq S
           /\ ToSet(s) = {s[i] : i \in 1..Len(s)}
           /\ \A e : Contains(s, e) <=> e \in ToSet(s)
<1>1. /\ Len(s) \in Nat /\ DOMAIN s = 1..Len(s)
      /\ \A i \in 1..Len(s) : s[i] \in S
  BY ElementOfSeq, LenProperties
<1>2. QED
  BY <1>1 DEF ToSet, Contains

-----------------------------------------------------------------------------
(* One element more or less.                                               *)

\* The elements before the point of insertion keep their place, the others
\* move by one (ordered_list.h, push_container).
LEMMA InsertAtProperties ==
    ASSUME NEW S, NEW s \in Seq(S), NEW i \in 1..Len(s) + 1, NEW e \in S
    PROVE  /\ InsertAt(s, i, e) \in Seq(S)
           /\ Len(InsertAt(s, i, e)) = Len(s) + 1
           /\ \A k \in 1..Len(s) + 1 :
                 InsertAt(s, i, e)[k] =
                    IF k < i THEN s[k] ELSE IF k = i THEN e ELSE s[k - 1]
<1> DEFINE a == SubSeq(s, 1, i - 1)
           b == SubSeq(s, i, Len(s))
           c == a \o <<e>>
<1>1. /\ Len(s) \in Nat /\ i \in Int /\ i - 1 \in Int
      /\ \A j \in 1..Len(s) : s[j] \in S
  BY ElementOfSeq, LenProperties
<1>2. /\ a \in Seq(S)
      /\ Len(a) = i - 1
      /\ \A j \in 1..i - 1 : a[j] = s[j]
  <2>1. \A j \in 1 .. i - 1 : s[j] \in S
    BY <1>1
  <2>2. QED
    BY <2>1, <1>1, SubSeqProperties
<1>3. /\ b \in Seq(S)
      /\ Len(b) = Len(s) - i + 1
      /\ \A j \in 1..Len(s) - i + 1 : b[j] = s[i + j - 1]
  <2>1. \A j \in i .. Len(s) : s[j] \in S
    BY <1>1
  <2>2. QED
    BY <2>1, <1>1, SubSeqProperties
<1>4. <<e>> \in Seq(S) /\ Len(<<e>>) = 1 /\ <<e>>[1] = e
  OBVIOUS
<1> HIDE DEF a, b
<1>5. /\ c \in Seq(S) /\ Len(c) = i
      /\ \A j \in 1..i : c[j] = IF j <= i - 1 THEN s[j] ELSE e
  BY <1>1, <1>2, <1>4, ConcatProperties
<1> HIDE DEF c
<1>6. /\ c \o b \in Seq(S)
      /\ Len(c \o b) = Len(s) + 1
      /\ \A j \in 1..Len(s) + 1 :
            (c \o b)[j] = IF j <= i THEN c[j] ELSE b[j - i]
  BY <1>1, <1>3, <1>5, ConcatProperties
<1>7. ASSUME NEW k \in 1..Len(s) + 1
      PROVE  (c \o b)[k] =
                IF k < i THEN s[k] ELSE IF k = i THEN e ELSE s[k - 1]
  <2>1. CASE k <= i
    <3>1. (c \o b)[k] = c[k]
      BY <2>1, <1>6
    <3>2. QED
      BY <3>1, <2>1, <1>1, <1>5
  <2>2. CASE k > i
    <3>1. (c \o b)[k] = b[k - i]
      BY <2>2, <1>1, <1>6
    <3>2. k - i \in 1..Len(s) - i + 1 /\ i + (k - i) - 1 = k - 1
      BY <2>2, <1>1
    <3>3. QED
      BY <3>1, <3>2, <2>2, <1>1, <1>3
  <2>3. k <= i \/ k > i
    BY <1>1
  <2>4. QED
    BY <2>1, <2>2, <2>3
<1>8. InsertAt(s, i, e) = c \o b
  BY DEF InsertAt, a, b, c
<1>9. QED
  BY <1>6, <1>7, <1>8

\* The elements after the one removed move by one (deque::erase).
LEMMA RemoveAtProperties ==
    ASSUME NEW S, NEW s \in Seq(S), NEW i \in 1..Len(s)
    PROVE  /\ RemoveAt(s, i) \in Seq(S)
           /\ Len(RemoveAt(s, i)) = Len(s) - 1
           /\ \A k \in 1..Len(s) - 1 :
                 RemoveAt(s, i)[k] = IF k < i THEN s[k] ELSE s[k + 1]
<1> DEFINE a == SubSeq(s, 1, i - 1)
           b == SubSeq(s, i + 1, Len(s))
<1>1. /\ Len(s) \in Nat /\ i \in Int /\ i - 1 \in Int /\ i + 1 \in Int
      /\ \A j \in 1..Len(s) : s[j] \in S
  BY ElementOfSeq, LenProperties
<1>2. /\ a \in Seq(S)
      /\ Len(a) = i - 1
      /\ \A j \in 1..i - 1 : a[j] = s[j]
  <2>1. \A j \in 1 .. i - 1 : s[j] \in S
    BY <1>1
  <2>2. QED
    BY <2>1, <1>1, SubSeqProperties
<1>3. /\ b \in Seq(S)
      /\ Len(b) = Len(s) - i
      /\ \A j \in 1..Len(s) - i : b[j] = s[i + j]
  <2>1. \A j \in i + 1 .. Len(s) : s[j] \in S
    BY <1>1
  <2>2. QED
    BY <2>1, <1>1, SubSeqProperties
<1> HIDE DEF a, b
<1>4. /\ a \o b \in Seq(S)
      /\ Len(a \o b) = Len(s) - 1
      /\ \A j \in 1..Len(s) - 1 :
            (a \o b)[j] = IF j <= i - 1 THEN a[j] ELSE b[j - (i - 1)]
  BY <1>1, <1>2, <1>3, ConcatProperties
<1>5. ASSUME NEW k \in 1..Len(s) - 1
      PROVE  (a \o b)[k] = IF k < i THEN s[k] ELSE s[k + 1]
  <2>1. CASE k < i
    BY <2>1, <1>1, <1>2, <1>4
  <2>2. CASE k >= i
    <3>1. (a \o b)[k] = b[k - (i - 1)]
      BY <2>2, <1>1, <1>4
    <3>2. k - (i - 1) \in 1..Len(s) - i /\ i + (k - (i - 1)) = k + 1
      BY <2>2, <1>1
    <3>3. QED
      BY <3>1, <3>2, <2>2, <1>1, <1>3
  <2>3. k < i \/ k >= i
    BY <1>1
  <2>4. QED
    BY <2>1, <2>2, <2>3
<1>6. RemoveAt(s, i) = a \o b
  BY DEF RemoveAt, a, b
<1>7. QED
  BY <1>4, <1>5, <1>6

-----------------------------------------------------------------------------
(* Lists as built from the empty one by adding elements at the back.       *)

\* What holds of the empty list and stays when an element is added holds of
\* every list.
LEMMA ListInduction ==
    ASSUME NEW S, NEW G, <<>> \in G,
           \A s \in Seq(S), x \in S : s \in G => Append(s, x) \in G
    PROVE  Seq(S) \subseteq G
<1> SUFFICES ASSUME NEW r \in Seq(S) PROVE r \in G
  OBVIOUS
<1> DEFINE n == Len(r)
           Good(m) == \A s \in Seq(S) : Len(s) = m => s \in G
           H == {m \in 0..n : Good(m)}
<1>1. n \in Nat
  BY LenProperties
<1>2. Good(0)
  BY EmptySeq
<1>3. ASSUME NEW m \in 1..n, Good(m - 1) PROVE Good(m)
  <2> SUFFICES ASSUME NEW s \in Seq(S), Len(s) = m PROVE s \in G
    OBVIOUS
  <2>1. s # <<>>
    BY EmptySeq
  <2>2. PICK q \in Seq(S), x \in S : s = Append(q, x)
    BY <2>1, SequenceEmptyOrAppend
  <2>3. Len(q) = m - 1
    BY <2>2, AppendProperties, LenProperties
  <2>4. QED
    BY <2>2, <2>3, <1>3
<1> HIDE DEF Good, n
<1>4. 0..n \subseteq H
  <2>1. 0 \in H /\ \A m \in 1..n : m - 1 \in H => m \in H
    BY <1>1, <1>2, <1>3
  <2> HIDE DEF H
  <2>2. QED
    BY <1>1, <2>1, UpTo
<1>5. Good(n)
  BY <1>1, <1>4
<1>6. QED
  BY <1>5 DEF Good, n

\* Adding an element, as far as the set of the elements can tell.
LEMMA ElementsOfAppend ==
    ASSUME NEW S, NEW s \in Seq(S), NEW x \in S
    PROVE  /\ Append(s, x) \in Seq(S)
           /\ ToSet(Append(s, x)) = ToSet(s) \cup {x}
<1>1. /\ Len(s) \in Nat
      /\ Append(s, x) \in Seq(S)
      /\ Len(Append(s, x)) = Len(s) + 1
      /\ \A i \in 1..Len(s) : Append(s, x)[i] = s[i]
      /\ Append(s, x)[Len(s) + 1] = x
  BY AppendProperties, LenProperties
<1>2. /\ ToSet(s) = {s[i] : i \in 1..Len(s)}
      /\ ToSet(Append(s, x)) = {Append(s, x)[i] : i \in 1..Len(s) + 1}
  BY <1>1, ElementsOf
<1>3. \A i : i \in 1..Len(s) + 1 <=> i \in 1..Len(s) \/ i = Len(s) + 1
  BY <1>1
<1>4. QED
  BY <1>1, <1>2, <1>3

LEMMA EmptyElements ==
    ASSUME NEW S
    PROVE  <<>> \in Seq(S) /\ ToSet(<<>>) = {}
<1>1. <<>> \in Seq(S) /\ DOMAIN <<>> = {}
  OBVIOUS
<1>2. QED
  BY <1>1 DEF ToSet

\* An element in front of a list is its head.
LEMMA HeadFirst ==
    ASSUME NEW S, NEW x \in S, NEW s \in Seq(S)
    PROVE  /\ <<x>> \o s # <<>>
           /\ Head(<<x>> \o s) = x
           /\ Tail(<<x>> \o s) = s
<1> DEFINE one == <<x>>
           r == one \o s
<1>1. one \in Seq(S) /\ Len(one) = 1 /\ one[1] = x
  OBVIOUS
<1> HIDE DEF one
<1>2. /\ Len(s) \in Nat /\ r \in Seq(S) /\ Len(r) = 1 + Len(s)
      /\ r[1] = x
      /\ \A i \in 1..Len(s) : r[i + 1] = s[i]
  <2>1. Len(s) \in Nat
    BY LenProperties
  <2>2. /\ r \in Seq(S)
        /\ Len(r) = Len(one) + Len(s)
        /\ \A i \in 1..Len(one) + Len(s) :
              r[i] = IF i <= Len(one) THEN one[i] ELSE s[i - Len(one)]
    BY <1>1, ConcatProperties
  <2>3. \A i \in 1..Len(s) : i + 1 \in 1..1 + Len(s) /\ ~(i + 1 <= 1) /\ (i + 1) - 1 = i
    BY <2>1
  <2>4. 1 \in 1..1 + Len(s)
    BY <2>1
  <2> HIDE DEF r
  <2>5. QED
    BY <1>1, <2>1, <2>2, <2>3, <2>4
<1> HIDE DEF r
<1>3. r # <<>>
  BY <1>2, EmptySeq
<1>4. /\ Head(r) = r[1] /\ Tail(r) \in Seq(S)
      /\ Len(Tail(r)) = Len(s)
      /\ \A i \in 1..Len(s) : Tail(r)[i] = r[i + 1]
  BY <1>2, <1>3, HeadTailProperties
<1>5. Tail(r) = s
  BY <1>2, <1>4, SeqEqual
<1>6. QED
  BY <1>2, <1>3, <1>4, <1>5 DEF r, one

\* Adding an element to the second of two lists adds it to both in a row.
LEMMA ConcatAppend ==
    ASSUME NEW S, NEW s \in Seq(S), NEW r \in Seq(S), NEW x \in S
    PROVE  s \o Append(r, x) = Append(s \o r, x)
<1>1. <<x>> \in Seq(S) /\ s \o r \in Seq(S)
  BY ConcatProperties
<1>2. Append(r, x) = r \o <<x>> /\ Append(s \o r, x) = (s \o r) \o <<x>>
  BY <1>1, AppendIsConcat
<1>3. QED
  BY <1>1, <1>2, ConcatAssociative

-----------------------------------------------------------------------------
(* What a walk over a list leaves of it.                                   *)

\* g[m] is what is left of the first m elements.
WalkOver(g, S, list, gone) ==
    /\ g \in [0..Len(list) -> Seq(S)]
    /\ g[0] = <<>>
    /\ \A m \in 1..Len(list) :
          g[m] = IF list[m] \in gone THEN g[m - 1] ELSE Append(g[m - 1], list[m])

\* Without, as the loop that goes over the list.
LEMMA WithoutLoop ==
    ASSUME NEW S, NEW list \in Seq(S), NEW gone
    PROVE  \E g : WalkOver(g, S, list, gone) /\ Without(list, gone) = g[Len(list)]
<1> DEFINE n == Len(list)
           kept[i \in 0..n] == IF i = 0 THEN <<>>
                               ELSE IF list[i] \in gone THEN kept[i - 1]
                               ELSE Append(kept[i - 1], list[i])
           step == [i \in 1..n |-> [l \in Seq(S) |->
                      IF list[i] \in gone THEN l ELSE Append(l, list[i])]]
<1>1. n \in Nat /\ \A i \in 1..n : list[i] \in S
  BY ElementsOf
<1>2. step \in [1..n -> [Seq(S) -> Seq(S)]]
  <2>1. \A i \in 1..n, l \in Seq(S) : Append(l, list[i]) \in Seq(S)
    BY <1>1, AppendProperties
  <2>2. QED
    BY <2>1
<1>3. \A i \in 1..n, l \in Seq(S) :
         step[i][l] = IF list[i] \in gone THEN l ELSE Append(l, list[i])
  OBVIOUS
<1> HIDE DEF step, n
<1>4. PICK g \in [0..n -> Seq(S)] :
         g[0] = <<>> /\ \A i \in 1..n : g[i] = step[i][g[i - 1]]
  <2>1. <<>> \in Seq(S)
    OBVIOUS
  <2>2. \E g : Recursion(g, n, Seq(S), <<>>, step)
    BY <2>1, <1>1, <1>2, RecursionExists
  <2>3. QED
    BY <2>2 DEF Recursion
<1>5. \A i \in 1..n : g[i] = IF list[i] \in gone THEN g[i - 1]
                             ELSE Append(g[i - 1], list[i])
  <2>1. \A i \in 1..n : g[i - 1] \in Seq(S)
    BY <1>1
  <2>2. QED
    BY <2>1, <1>3, <1>4
<1>6. g = [i \in 0..n |-> IF i = 0 THEN <<>>
                          ELSE IF list[i] \in gone THEN g[i - 1]
                          ELSE Append(g[i - 1], list[i])]
  <2>1. \A i \in 0..n : i = 0 \/ i \in 1..n
    BY <1>1
  <2>2. \A i \in 0..n : g[i] = IF i = 0 THEN <<>>
                               ELSE IF list[i] \in gone THEN g[i - 1]
                               ELSE Append(g[i - 1], list[i])
    BY <2>1, <1>4, <1>5
  <2>3. QED
    BY <2>2
<1>7. kept = [i \in 0..n |-> IF i = 0 THEN <<>>
                             ELSE IF list[i] \in gone THEN kept[i - 1]
                             ELSE Append(kept[i - 1], list[i])]
  BY <1>6
<1>8. /\ kept[0] = <<>>
      /\ \A m \in 1..n : kept[m] = IF list[m] \in gone THEN kept[m - 1]
                                   ELSE Append(kept[m - 1], list[m])
  <2> HIDE DEF kept
  <2>1. 0 \in 0..n /\ \A m \in 1..n : m \in 0..n /\ m # 0
    BY <1>1
  <2>2. QED
    BY <2>1, <1>7
<1>9. Without(list, gone) = kept[n]
  BY DEF Without, n
<1> HIDE DEF kept
<1> DEFINE G == {m \in 0..n : kept[m] = g[m]}
<1>10. 0..n \subseteq G
  <2>1. 0 \in G
    BY <1>1, <1>4, <1>8
  <2>2. ASSUME NEW m \in 1..n, m - 1 \in G PROVE m \in G
    <3>1. m \in 0..n /\ kept[m - 1] = g[m - 1]
      BY <2>2, <1>1
    <3>2. kept[m] = g[m]
      BY <3>1, <1>5, <1>8
    <3>3. QED
      BY <3>1, <3>2
  <2> HIDE DEF G
  <2>3. QED
    BY <2>1, <2>2, <1>1, UpTo
<1>11. Without(list, gone) = g[n]
  BY <1>1, <1>9, <1>10
<1>12. WalkOver(g, S, list, gone)
  BY <1>4, <1>5 DEF WalkOver, n
<1>13. QED
  BY <1>11, <1>12 DEF n

LEMMA WithoutEmpty == \A gone : Without(<<>>, gone) = <<>>
<1> SUFFICES ASSUME NEW gone PROVE Without(<<>>, gone) = <<>>
  OBVIOUS
<1>1. <<>> \in Seq({}) /\ Len(<<>>) = 0
  OBVIOUS
<1>2. PICK g : WalkOver(g, {}, <<>>, gone) /\ Without(<<>>, gone) = g[Len(<<>>)]
  BY <1>1, WithoutLoop
<1>3. QED
  BY <1>1, <1>2 DEF WalkOver

LEMMA WithoutAppend ==
    ASSUME NEW S, NEW s \in Seq(S), NEW x \in S, NEW gone
    PROVE  Without(Append(s, x), gone) =
              IF x \in gone THEN Without(s, gone) ELSE Append(Without(s, gone), x)
<1> DEFINE n == Len(s)
           r == Append(s, x)
<1>1. /\ n \in Nat /\ r \in Seq(S) /\ Len(r) = n + 1
      /\ \A i \in 1..n : r[i] = s[i]
      /\ r[n + 1] = x
  BY AppendProperties, LenProperties
<1> HIDE DEF n, r
<1>2. PICK g : WalkOver(g, S, s, gone) /\ Without(s, gone) = g[n]
  BY WithoutLoop DEF n
<1>3. PICK h : WalkOver(h, S, r, gone) /\ Without(r, gone) = h[n + 1]
  BY <1>1, WithoutLoop
<1>4. /\ g[0] = <<>> /\ h[0] = <<>>
      /\ \A m \in 1..n : g[m] = IF s[m] \in gone THEN g[m - 1]
                                ELSE Append(g[m - 1], s[m])
      /\ \A m \in 1..n + 1 : h[m] = IF r[m] \in gone THEN h[m - 1]
                                    ELSE Append(h[m - 1], r[m])
  BY <1>1, <1>2, <1>3 DEF WalkOver, n
<1> DEFINE G == {m \in 0..n : h[m] = g[m]}
<1>5. 0..n \subseteq G
  <2>1. 0 \in G
    BY <1>1, <1>4
  <2>2. ASSUME NEW m \in 1..n, m - 1 \in G PROVE m \in G
    <3>1. m \in 1..n + 1 /\ m \in 0..n /\ r[m] = s[m] /\ h[m - 1] = g[m - 1]
      BY <2>2, <1>1
    <3>2. h[m] = g[m]
      BY <3>1, <1>4
    <3>3. QED
      BY <3>1, <3>2
  <2> HIDE DEF G
  <2>3. QED
    BY <2>1, <2>2, <1>1, UpTo
<1>6. h[n] = g[n] /\ n + 1 \in 1..n + 1 /\ n + 1 - 1 = n
  BY <1>1, <1>5
<1>7. h[n + 1] = IF x \in gone THEN h[n] ELSE Append(h[n], x)
  BY <1>1, <1>4, <1>6
<1>8. QED
  BY <1>2, <1>3, <1>6, <1>7 DEF r

\* What is left is a list, of the elements that are not gone.
LEMMA WithoutElements ==
    ASSUME NEW S, NEW s \in Seq(S), NEW gone
    PROVE  /\ Without(s, gone) \in Seq(S)
           /\ ToSet(Without(s, gone)) = ToSet(s) \ gone
<1> DEFINE Good(r) == /\ Without(r, gone) \in Seq(S)
                      /\ ToSet(Without(r, gone)) = ToSet(r) \ gone
           G == {r \in Seq(S) : Good(r)}
<1>1. <<>> \in G
  BY EmptyElements, WithoutEmpty
<1>2. ASSUME NEW r \in Seq(S), NEW x \in S, r \in G PROVE Append(r, x) \in G
  <2>1. Append(r, x) \in Seq(S) /\ ToSet(Append(r, x)) = ToSet(r) \cup {x}
    BY ElementsOfAppend
  <2>2. CASE x \in gone
    <3>1. Without(Append(r, x), gone) = Without(r, gone)
      BY <2>2, WithoutAppend
    <3>2. QED
      BY <3>1, <2>1, <2>2, <1>2
  <2>3. CASE x \notin gone
    <3>1. Without(Append(r, x), gone) = Append(Without(r, gone), x)
      BY <2>3, WithoutAppend
    <3>2. ToSet(Append(Without(r, gone), x)) = ToSet(Without(r, gone)) \cup {x}
          /\ Append(Without(r, gone), x) \in Seq(S)
      BY <1>2, ElementsOfAppend
    <3>3. QED
      BY <3>1, <3>2, <2>1, <2>3, <1>2
  <2>4. QED
    BY <2>2, <2>3
<1>3. Seq(S) \subseteq G
  <2> HIDE DEF G
  <2>1. QED
    BY <1>1, <1>2, ListInduction
<1>4. QED
  BY <1>3

\* Only the elements of the list matter.
LEMMA WithoutAgree ==
    ASSUME NEW S, NEW s \in Seq(S), NEW gone, NEW away,
           \A e \in ToSet(s) : e \in gone <=> e \in away
    PROVE  Without(s, gone) = Without(s, away)
<1> DEFINE Agree(r) == \A e \in ToSet(r) : e \in gone <=> e \in away
           G == {r \in Seq(S) : Agree(r) => Without(r, gone) = Without(r, away)}
<1>1. <<>> \in G
  BY EmptyElements, WithoutEmpty
<1>2. ASSUME NEW r \in Seq(S), NEW x \in S, r \in G PROVE Append(r, x) \in G
  <2>1. Append(r, x) \in Seq(S) /\ ToSet(Append(r, x)) = ToSet(r) \cup {x}
    BY ElementsOfAppend
  <2> SUFFICES ASSUME Agree(Append(r, x))
               PROVE  Without(Append(r, x), gone) = Without(Append(r, x), away)
    BY <2>1
  <2>2. Without(r, gone) = Without(r, away) /\ (x \in gone <=> x \in away)
    BY <2>1, <1>2
  <2>3. /\ Without(Append(r, x), gone) =
              IF x \in gone THEN Without(r, gone) ELSE Append(Without(r, gone), x)
        /\ Without(Append(r, x), away) =
              IF x \in away THEN Without(r, away) ELSE Append(Without(r, away), x)
    BY WithoutAppend
  <2>4. QED
    BY <2>2, <2>3
<1>3. Seq(S) \subseteq G
  <2> HIDE DEF G
  <2>1. QED
    BY <1>1, <1>2, ListInduction
<1>4. QED
  BY <1>3

\* Nothing goes of a list without such elements, all of a list of them.
LEMMA WithoutNoneOrAll ==
    ASSUME NEW S, NEW s \in Seq(S), NEW gone
    PROVE  /\ ToSet(s) \cap gone = {} => Without(s, gone) = s
           /\ ToSet(s) \subseteq gone => Without(s, gone) = <<>>
<1> DEFINE G == {r \in Seq(S) :
                   /\ ToSet(r) \cap gone = {} => Without(r, gone) = r
                   /\ ToSet(r) \subseteq gone => Without(r, gone) = <<>>}
<1>1. <<>> \in G
  BY EmptyElements, WithoutEmpty
<1>2. ASSUME NEW r \in Seq(S), NEW x \in S, r \in G PROVE Append(r, x) \in G
  <2>1. Append(r, x) \in Seq(S) /\ ToSet(Append(r, x)) = ToSet(r) \cup {x}
    BY ElementsOfAppend
  <2>2. Without(Append(r, x), gone) =
           IF x \in gone THEN Without(r, gone) ELSE Append(Without(r, gone), x)
    BY WithoutAppend
  <2>3. QED
    BY <2>1, <2>2, <1>2
<1>3. Seq(S) \subseteq G
  <2> HIDE DEF G
  <2>1. QED
    BY <1>1, <1>2, ListInduction
<1>4. QED
  BY <1>3

\* Two walks take out what one takes out that is after both.
LEMMA WithoutTwice ==
    ASSUME NEW S, NEW s \in Seq(S), NEW gone, NEW away
    PROVE  Without(Without(s, gone), away) = Without(s, gone \cup away)
<1> DEFINE both == gone \cup away
           Good(r) == Without(Without(r, gone), away) = Without(r, both)
           G == {r \in Seq(S) : Good(r)}
<1>1. <<>> \in G
  BY EmptyElements, WithoutEmpty
<1>2. ASSUME NEW r \in Seq(S), NEW x \in S, r \in G PROVE Append(r, x) \in G
  <2>1. Append(r, x) \in Seq(S) /\ Without(r, gone) \in Seq(S)
    BY AppendProperties, WithoutElements
  <2>2. Without(Append(r, x), both) =
           IF x \in both THEN Without(r, both) ELSE Append(Without(r, both), x)
    BY WithoutAppend
  <2>3. CASE x \in gone
    <3>1. Without(Append(r, x), gone) = Without(r, gone)
      BY <2>3, WithoutAppend
    <3>2. QED
      BY <3>1, <2>1, <2>2, <2>3, <1>2
  <2>4. CASE x \notin gone
    <3>1. Without(Append(r, x), gone) = Append(Without(r, gone), x)
      BY <2>4, WithoutAppend
    <3>2. Without(Append(Without(r, gone), x), away) =
             IF x \in away THEN Without(Without(r, gone), away)
             ELSE Append(Without(Without(r, gone), away), x)
      BY <2>1, WithoutAppend
    <3>3. QED
      BY <3>1, <3>2, <2>1, <2>2, <2>4, <1>2
  <2>5. QED
    BY <2>3, <2>4
<1>3. Seq(S) \subseteq G
  <2> HIDE DEF G
  <2>1. QED
    BY <1>1, <1>2, ListInduction
<1>4. QED
  BY <1>3

\* A walk over two lists in a row is a walk over each.
LEMMA WithoutConcat ==
    ASSUME NEW S, NEW s \in Seq(S), NEW t \in Seq(S), NEW gone
    PROVE  Without(s \o t, gone) = Without(s, gone) \o Without(t, gone)
<1> DEFINE a == Without(s, gone)
           Good(r) == Without(s \o r, gone) = a \o Without(r, gone)
           G == {r \in Seq(S) : Good(r)}
<1>1. a \in Seq(S)
  BY WithoutElements
<1>2. <<>> \in G
  <2>1. s \o <<>> = s /\ a \o <<>> = a /\ <<>> \in Seq(S)
    BY <1>1, ConcatEmptySeq
  <2>2. QED
    BY <2>1, WithoutEmpty
<1> HIDE DEF a
<1>3. ASSUME NEW r \in Seq(S), NEW x \in S, r \in G PROVE Append(r, x) \in G
  <2>1. /\ Append(r, x) \in Seq(S) /\ s \o r \in Seq(S)
        /\ s \o Append(r, x) = Append(s \o r, x)
    BY AppendProperties, ConcatProperties, ConcatAppend
  <2>2. Without(s \o Append(r, x), gone) =
           IF x \in gone THEN Without(s \o r, gone)
           ELSE Append(Without(s \o r, gone), x)
    <3> DEFINE q == s \o r
    <3>1. q \in Seq(S)
      BY <2>1
    <3> HIDE DEF q
    <3>2. Without(Append(q, x), gone) =
             IF x \in gone THEN Without(q, gone) ELSE Append(Without(q, gone), x)
      BY <3>1, WithoutAppend
    <3>3. QED
      BY <3>2, <2>1 DEF q
  <2>3. Without(Append(r, x), gone) =
           IF x \in gone THEN Without(r, gone) ELSE Append(Without(r, gone), x)
    BY WithoutAppend
  <2>4. /\ Without(r, gone) \in Seq(S)
        /\ a \o Append(Without(r, gone), x) = Append(a \o Without(r, gone), x)
    BY <1>1, WithoutElements, ConcatAppend
  <2>5. QED
    BY <2>1, <2>2, <2>3, <2>4, <1>3
<1>4. Seq(S) \subseteq G
  <2> HIDE DEF G
  <2>1. QED
    BY <1>2, <1>3, ListInduction
<1>5. QED
  BY <1>4 DEF a

\* h maps the positions of r, which is m long, to those of q, which is n long:
\* r consists of the elements of q that are not gone, in the order they had.
Embeds(h, r, m, q, n, gone) ==
    /\ h \in [1..m -> 1..n]
    /\ \A i, j \in 1..m : i < j => h[i] < h[j]
    /\ \A k \in 1..m : r[k] = q[h[k]] /\ r[k] \notin gone
    /\ \A i \in 1..n : q[i] \notin gone => \E k \in 1..m : h[k] = i

Survivors(q, r, gone) == \E h : Embeds(h, r, Len(r), q, Len(q), gone)

LEMMA WithoutSurvivors ==
    ASSUME NEW S, NEW q \in Seq(S), NEW gone
    PROVE  Survivors(q, Without(q, gone), gone)
<1> DEFINE G == {p \in Seq(S) : Survivors(p, Without(p, gone), gone)}
<1>1. <<>> \in G
  <2>1. [i \in {} |-> 0] \in [1..0 -> 1..0]
    OBVIOUS
  <2>2. <<>> \in Seq(S) /\ Len(<<>>) = 0
    OBVIOUS
  <2>3. Survivors(<<>>, <<>>, gone)
    BY <2>1, <2>2 DEF Survivors, Embeds
  <2>4. QED
    BY <2>2, <2>3, WithoutEmpty
<1>2. ASSUME NEW p \in Seq(S), NEW x \in S, p \in G PROVE Append(p, x) \in G
  <2> DEFINE r == Without(p, gone)
             l == Len(r)
             m == Len(p)
             p1 == Append(p, x)
             r1 == Append(r, x)
  <2>1. r \in Seq(S) /\ l \in Nat /\ m \in Nat
    BY WithoutElements, LenProperties
  <2>2. /\ p1 \in Seq(S) /\ Len(p1) = m + 1 /\ p1[m + 1] = x
        /\ \A i \in 1..m : p1[i] = p[i]
    BY AppendProperties
  <2>3. PICK h \in [1..l -> 1..m] :
          /\ \A i, j \in 1..l : i < j => h[i] < h[j]
          /\ \A k \in 1..l : r[k] = p[h[k]] /\ r[k] \notin gone
          /\ \A i \in 1..m : p[i] \notin gone => \E k \in 1..l : h[k] = i
    BY <1>2 DEF Survivors, Embeds
  <2>4. Without(p1, gone) = IF x \in gone THEN r ELSE r1
    BY WithoutAppend
  <2>5. /\ r1 \in Seq(S) /\ Len(r1) = l + 1 /\ r1[l + 1] = x
        /\ \A k \in 1..l : r1[k] = r[k]
    BY <2>1, AppendProperties
  <2>6. \A i : i \in 1..m + 1 <=> i \in 1..m \/ i = m + 1
    BY <2>1
  <2>7. \A k : k \in 1..l + 1 <=> k \in 1..l \/ k = l + 1
    BY <2>1
  <2> HIDE DEF r, l, m, p1, r1
  <2>8. CASE x \in gone
    <3>1. h \in [1..l -> 1..m + 1]
      BY <2>6
    <3>2. \A k \in 1..l : r[k] = p1[h[k]] /\ r[k] \notin gone
      BY <2>2, <2>3
    <3>3. \A i \in 1..m + 1 : p1[i] \notin gone => \E k \in 1..l : h[k] = i
      BY <2>2, <2>3, <2>6, <2>8
    <3>4. Embeds(h, r, l, p1, m + 1, gone)
      BY <2>3, <3>1, <3>2, <3>3 DEF Embeds
    <3>5. QED
      BY <2>2, <2>4, <2>8, <3>4 DEF Survivors, p1, l
  <2>9. CASE x \notin gone
    <3> DEFINE g == [k \in 1..l + 1 |-> IF k = l + 1 THEN m + 1 ELSE h[k]]
    <3>1. g \in [1..l + 1 -> 1..m + 1]
      BY <2>1, <2>6, <2>7
    <3>2. /\ \A k \in 1..l : g[k] = h[k] /\ h[k] \in 1..m
          /\ g[l + 1] = m + 1
      BY <2>1, <2>7
    <3> HIDE DEF g
    <3>3. \A i, j \in 1..l + 1 : i < j => g[i] < g[j]
      <4> SUFFICES ASSUME NEW i \in 1..l + 1, NEW j \in 1..l + 1, i < j
                   PROVE  g[i] < g[j]
        OBVIOUS
      <4>1. i \in 1..l
        BY <2>1
      <4>2. CASE j = l + 1
        BY <3>2, <4>1, <4>2, <2>1
      <4>3. CASE j # l + 1
        BY <3>2, <4>1, <4>3, <2>3, <2>7
      <4>4. QED
        BY <4>2, <4>3
    <3>4. \A k \in 1..l + 1 : r1[k] = p1[g[k]] /\ r1[k] \notin gone
      <4>1. \A k \in 1..l : r1[k] = p1[g[k]] /\ r1[k] \notin gone
        BY <3>2, <2>2, <2>3, <2>5
      <4>2. r1[l + 1] = p1[g[l + 1]] /\ r1[l + 1] \notin gone
        BY <3>2, <2>2, <2>5, <2>9
      <4>3. QED
        BY <4>1, <4>2, <2>7
    <3>5. \A i \in 1..m + 1 : p1[i] \notin gone => \E k \in 1..l + 1 : g[k] = i
      BY <3>2, <2>2, <2>3, <2>6, <2>7
    <3>6. Embeds(g, r1, l + 1, p1, m + 1, gone)
      BY <3>1, <3>3, <3>4, <3>5 DEF Embeds
    <3>7. QED
      BY <2>2, <2>4, <2>5, <2>9, <3>6 DEF Survivors, p1
  <2>10. QED
    BY <2>8, <2>9
<1>3. Seq(S) \subseteq G
  <2> HIDE DEF G
  <2>1. QED
    BY <1>1, <1>2, ListInduction
<1>4. QED
  BY <1>3

\* What is left of a list without repetitions has none, and no element of it
\* has moved past another.
LEMMA WithoutOrdered ==
    ASSUME NEW S, NEW E, NEW list \in ListOf(S, E), NEW gone, NEW atLeast
    PROVE  /\ Without(list, gone) \in ListOf(S, E \ gone)
           /\ Settled(list, atLeast) => Settled(Without(list, gone), atLeast)
<1> DEFINE r == Without(list, gone)
<1>1. /\ list \in Seq(S) /\ ToSet(list) = E /\ IsInjective(list)
      /\ DOMAIN list = 1..Len(list) /\ Len(list) \in Nat
  BY ElementsOf DEF ListOf
<1>2. /\ r \in Seq(S) /\ ToSet(r) = E \ gone
      /\ DOMAIN r = 1..Len(r) /\ Len(r) \in Nat
  BY <1>1, WithoutElements, LenProperties
<1>3. PICK h \in [1..Len(r) -> 1..Len(list)] :
         /\ \A i, j \in 1..Len(r) : i < j => h[i] < h[j]
         /\ \A k \in 1..Len(r) : r[k] = list[h[k]]
  BY <1>1, WithoutSurvivors DEF Survivors, Embeds
<1> HIDE DEF r
<1>4. \A i, j \in 1..Len(r) : i < j => r[i] # r[j]
  <2> SUFFICES ASSUME NEW i \in 1..Len(r), NEW j \in 1..Len(r), i < j
               PROVE  r[i] # r[j]
    OBVIOUS
  <2>1. h[i] < h[j] /\ h[i] \in 1..Len(list) /\ h[j] \in 1..Len(list)
    BY <1>3
  <2>2. h[i] # h[j]
    BY <2>1
  <2>3. QED
    BY <2>1, <2>2, <1>1, <1>3 DEF IsInjective
<1>5. IsInjective(r)
  <2> SUFFICES ASSUME NEW i \in 1..Len(r), NEW j \in 1..Len(r), r[i] = r[j]
               PROVE  i = j
    BY <1>2 DEF IsInjective
  <2>1. i < j \/ i = j \/ j < i
    BY <1>2
  <2>2. QED
    BY <2>1, <1>4
<1>6. Settled(list, atLeast) => Settled(r, atLeast)
  BY <1>1, <1>2, <1>3 DEF Settled
<1>7. QED
  BY <1>2, <1>5, <1>6 DEF ListOf, r

\* A walk leaves a and b of the two parts of s, and a, e and b of r.
InsertedWalk(S, s, r, e, gone, a, b) ==
    /\ a \in Seq(S) /\ b \in Seq(S)
    /\ Without(s, gone) = a \o b
    /\ Without(r, gone) = IF e \in gone THEN a \o b ELSE Append(a, e) \o b

\* A walk over a list that an element was inserted into.
LEMMA WithoutInsert ==
    ASSUME NEW S, NEW s \in Seq(S), NEW i \in 1..Len(s) + 1, NEW e \in S, NEW gone
    PROVE  InsertedWalk(S, s, InsertAt(s, i, e), e, gone,
                        Without(SubSeq(s, 1, i - 1), gone),
                        Without(SubSeq(s, i, Len(s)), gone))
<1> DEFINE x == SubSeq(s, 1, i - 1)
           y == SubSeq(s, i, Len(s))
<1>1. /\ Len(s) \in Nat /\ i \in Int /\ i - 1 \in Int
      /\ \A j \in 1..Len(s) : s[j] \in S
  BY ElementsOf
<1>2. x \in Seq(S)
  <2>1. \A j \in 1..i - 1 : s[j] \in S
    BY <1>1
  <2>2. QED
    BY <2>1, <1>1, SubSeqProperties
<1>3. y \in Seq(S)
  <2>1. \A j \in i..Len(s) : s[j] \in S
    BY <1>1
  <2>2. QED
    BY <2>1, <1>1, SubSeqProperties
<1>4. s = x \o y
  <2>1. CASE Len(s) = 0
    <3>1. s = <<>> /\ x = <<>> /\ y = <<>>
      BY <2>1, <1>1, EmptySeq, SubSeqEmpty
    <3>2. QED
      BY <3>1
  <2>2. CASE Len(s) # 0
    <3> DEFINE k == i - 1
    <3>1. /\ 1 \in 1..Len(s) + 1 /\ k \in 1 - 1..Len(s) /\ Len(s) \in k..Len(s)
          /\ k + 1 = i
      BY <2>2, <1>1
    <3> HIDE DEF k
    <3>2. SubSeq(s, 1, k) \o SubSeq(s, k + 1, Len(s)) = SubSeq(s, 1, Len(s))
      BY <3>1, ConcatAdjacentSubSeq
    <3>3. SubSeq(s, 1, Len(s)) = s
      BY SubSeqFull
    <3>4. QED
      BY <3>1, <3>2, <3>3 DEF k
  <2>3. QED
    BY <2>1, <2>2
<1>5. InsertAt(s, i, e) = Append(x, e) \o y
  BY <1>2, AppendIsConcat DEF InsertAt
<1> DEFINE z == Append(x, e)
<1> HIDE DEF x, y
<1>6. /\ Without(x, gone) \in Seq(S) /\ Without(y, gone) \in Seq(S)
      /\ z \in Seq(S)
  BY <1>2, <1>3, WithoutElements, AppendProperties
<1>7. Without(z, gone) =
         IF e \in gone THEN Without(x, gone) ELSE Append(Without(x, gone), e)
  BY <1>2, WithoutAppend
<1> HIDE DEF z
<1>8. /\ Without(x \o y, gone) = Without(x, gone) \o Without(y, gone)
      /\ Without(z \o y, gone) = Without(z, gone) \o Without(y, gone)
  <2>1. \A u, v \in Seq(S) :
           Without(u \o v, gone) = Without(u, gone) \o Without(v, gone)
    BY WithoutConcat
  <2>2. QED
    BY <2>1, <1>2, <1>3, <1>6
<1>9. InsertAt(s, i, e) = z \o y
  BY <1>5 DEF z
<1>10. QED
  BY <1>4, <1>6, <1>7, <1>8, <1>9 DEF x, y, InsertedWalk

\* A walk sees the head first.
LEMMA WithoutHead ==
    ASSUME NEW S, NEW s \in Seq(S), s # <<>>, NEW gone
    PROVE  LET rest == Without(Tail(s), gone)
           IN  /\ rest \in Seq(S)
               /\ Without(s, gone) =
                     IF Head(s) \in gone THEN rest ELSE <<Head(s)>> \o rest
<1>1. Head(s) \in S /\ Tail(s) \in Seq(S)
  BY HeadTailProperties
<1>2. s = <<Head(s)>> \o Tail(s)
  <2>1. Len(s) \in Nat \ {0}
    BY EmptySeq
  <2>2. SubSeq(s, 1, Len(s)) = <<s[1]>> \o SubSeq(s, 1 + 1, Len(s))
    BY <2>1, SubSeqRecursiveFirst
  <2>3. Head(s) = s[1]
    BY <2>1, HeadTailOfSubSeq, SubSeqFull
  <2>4. QED
    BY <2>2, <2>3, SubSeqFull, TailIsSubSeq
<1> DEFINE h == Head(s)
           t == Tail(s)
           one == <<h>>
           nil == <<>>
<1>3. /\ one = Append(nil, h) /\ nil \in Seq(S) /\ h \in S /\ t \in Seq(S)
      /\ one \in Seq(S)
  BY <1>1
<1>4. Without(nil, gone) = nil
  BY WithoutEmpty
<1> HIDE DEF h, t, one, nil
<1>5. Without(one, gone) = IF h \in gone THEN nil ELSE Append(nil, h)
  BY <1>3, <1>4, WithoutAppend
<1>6. Without(one \o t, gone) = Without(one, gone) \o Without(t, gone)
  <2>1. \A u, v \in Seq(S) :
           Without(u \o v, gone) = Without(u, gone) \o Without(v, gone)
    BY WithoutConcat
  <2>2. QED
    BY <2>1, <1>3
<1>7. Without(t, gone) \in Seq(S) /\ nil \o Without(t, gone) = Without(t, gone)
  BY <1>3, WithoutElements, ConcatEmptySeq DEF nil
<1>8. s = one \o t
  BY <1>2 DEF one, h, t
<1>9. Without(s, gone) = IF h \in gone THEN Without(t, gone)
                         ELSE one \o Without(t, gone)
  BY <1>3, <1>5, <1>6, <1>7, <1>8
<1>10. QED
  BY <1>7, <1>9 DEF h, t, one

-----------------------------------------------------------------------------
(* push_container and push.                                                *)

LEMMA InsertionPointProperties ==
    ASSUME NEW S, NEW list \in Seq(S), NEW object \in S, NEW atLeast
    PROVE  LET p == InsertionPoint(list, object, atLeast)
           IN  /\ p \in 1..Len(list) + 1
               /\ \A j \in 1..p - 1 : <<object, list[j]>> \in atLeast
               /\ p <= Len(list) => <<object, list[p]>> \notin atLeast
<1> DEFINE T == {i \in 1..Len(list) + 1 :
                    i <= Len(list) => <<object, list[i]>> \notin atLeast}
<1>1. Len(list) \in Nat
  BY ElementsOf
<1>2. T \subseteq Nat /\ Len(list) + 1 \in T
  BY <1>1
<1>3. Min(T) \in T /\ \A k \in T : Min(T) <= k
  <2> HIDE DEF T
  <2>1. QED
    BY <1>2, MinOfNats
<1>4. InsertionPoint(list, object, atLeast) = Min(T)
  BY DEF InsertionPoint
<1> DEFINE p == Min(T)
<1>5. p \in 1..Len(list) + 1 /\ (p <= Len(list) => <<object, list[p]>> \notin atLeast)
  BY <1>3
<1>6. ASSUME NEW j \in 1..p - 1, <<object, list[j]>> \notin atLeast PROVE FALSE
  <2>1. j \in T
    BY <1>1, <1>5, <1>6
  <2>2. p <= j
    BY <1>3, <2>1
  <2>3. QED
    BY <2>2, <1>1, <1>5
<1> HIDE DEF p
<1>7. QED
  BY <1>4, <1>5, <1>6 DEF p

LEMMA PushNew ==
    ASSUME NEW S, NEW list \in Seq(S), NEW object \in S, NEW atLeast,
           object \notin ToSet(list)
    PROVE  LET r == Push(list, object, atLeast)
               p == InsertionPoint(list, object, atLeast)
           IN  /\ r \in Seq(S)
               /\ Len(r) = Len(list) + 1
               /\ \A k \in 1..Len(list) + 1 :
                     r[k] = IF k < p THEN list[k]
                            ELSE IF k = p THEN object ELSE list[k - 1]
<1>1. Push(list, object, atLeast)
         = InsertAt(list, InsertionPoint(list, object, atLeast), object)
  BY ElementsOf DEF Push
<1> DEFINE q == InsertionPoint(list, object, atLeast)
<1>2. q \in 1..Len(list) + 1
  BY InsertionPointProperties
<1> HIDE DEF q
<1>3. LET r == InsertAt(list, q, object)
      IN  /\ r \in Seq(S)
          /\ Len(r) = Len(list) + 1
          /\ \A k \in 1..Len(list) + 1 :
                r[k] = IF k < q THEN list[k]
                       ELSE IF k = q THEN object ELSE list[k - 1]
  BY <1>2, InsertAtProperties
<1>4. QED
  BY <1>1, <1>3 DEF q

\* push() adds the object, once.
LEMMA PushElements ==
    ASSUME NEW S, NEW E, NEW list \in ListOf(S, E), NEW object \in S, NEW atLeast
    PROVE  Push(list, object, atLeast) \in ListOf(S, E \cup {object})
<1>1. list \in Seq(S) /\ ToSet(list) = E /\ IsInjective(list)
  BY DEF ListOf
<1>2. CASE object \in E
  BY <1>1, <1>2, ElementsOf DEF Push, ListOf
<1>3. CASE object \notin E
  <2> DEFINE r == Push(list, object, atLeast)
             p == InsertionPoint(list, object, atLeast)
             n == Len(list)
  <2>1. /\ n \in Nat /\ DOMAIN list = 1..n /\ ToSet(list) = {list[i] : i \in 1..n}
    BY <1>1, ElementsOf
  <2>2. p \in 1..n + 1
    BY <1>1, InsertionPointProperties
  <2>3. /\ r \in Seq(S) /\ Len(r) = n + 1
        /\ \A k \in 1..n + 1 :
              r[k] = IF k < p THEN list[k] ELSE IF k = p THEN object ELSE list[k - 1]
    BY <1>1, <1>3, PushNew
  <2>4. DOMAIN r = 1..n + 1 /\ ToSet(r) = {r[i] : i \in 1..Len(r)}
    BY <2>3, ElementsOf
  <2> HIDE DEF r, p, n
  <2>5. ToSet(r) = E \cup {object}
    <3>1. ASSUME NEW k \in 1..n + 1 PROVE r[k] \in E \cup {object}
      <4>1. k < p => k \in 1..n
        BY <2>1, <2>2
      <4>2. k > p => k - 1 \in 1..n
        BY <2>1, <2>2
      <4>3. k < p \/ k = p \/ k > p
        BY <2>1, <2>2
      <4>4. QED
        BY <4>1, <4>2, <4>3, <2>1, <2>2, <2>3, <1>1
    <3>2. ASSUME NEW i \in 1..n PROVE \E k \in 1..n + 1 : r[k] = list[i]
      <4>1. CASE i < p
        BY <4>1, <2>1, <2>3
      <4>2. CASE i >= p
        <5>1. i + 1 \in 1..n + 1 /\ i + 1 > p /\ i + 1 - 1 = i
          BY <4>2, <2>1, <2>2
        <5>2. r[i + 1] = list[i]
          BY <5>1, <2>2, <2>3
        <5>3. QED
          BY <5>1, <5>2
      <4>3. QED
        BY <4>1, <4>2, <2>1, <2>2
    <3>3. r[p] = object
      BY <2>1, <2>2, <2>3
    <3>4. QED
      BY <3>1, <3>2, <3>3, <1>1, <2>1, <2>2, <2>3, <2>4
  <2>6. IsInjective(r)
    <3> SUFFICES ASSUME NEW j \in 1..n + 1, NEW k \in 1..n + 1, j < k
                 PROVE  r[j] # r[k]
      BY <2>1, <2>4 DEF IsInjective
    <3>1. \A x \in 1..n : list[x] # object
      BY <1>1, <1>3, <2>1
    <3>2. \A x, y \in 1..n : list[x] = list[y] => x = y
      BY <1>1, <2>1 DEF IsInjective
    <3>3. /\ j < p => j \in 1..n /\ r[j] = list[j]
          /\ k < p => k \in 1..n /\ r[k] = list[k]
          /\ j > p => j - 1 \in 1..n /\ r[j] = list[j - 1]
          /\ k > p => k - 1 \in 1..n /\ r[k] = list[k - 1]
      BY <2>1, <2>2, <2>3
    <3>4. (j = p => r[j] = object) /\ (k = p => r[k] = object)
      BY <2>3
    <3>5. QED
      BY <3>1, <3>2, <3>3, <3>4, <2>1, <2>2
  <2>7. QED
    BY <2>3, <2>5, <2>6 DEF ListOf, r
<1>4. QED
  BY <1>2, <1>3

\* push() into a settled list leaves it settled.
LEMMA PushSettles ==
    ASSUME NEW S, NEW list \in Seq(S), NEW object \in S, NEW atLeast,
           WeakOrder(atLeast, S), Settled(list, atLeast)
    PROVE  Settled(Push(list, object, atLeast), atLeast)
<1>1. CASE object \in ToSet(list)
  BY <1>1, ElementsOf DEF Push
<1>2. CASE object \notin ToSet(list)
  <2> DEFINE r == Push(list, object, atLeast)
             p == InsertionPoint(list, object, atLeast)
             n == Len(list)
  <2>1. n \in Nat /\ DOMAIN list = 1..n /\ \A i \in 1..n : list[i] \in S
    BY ElementsOf
  <2>2. /\ p \in 1..n + 1
        /\ \A j \in 1..p - 1 : <<object, list[j]>> \in atLeast
        /\ p <= n => <<object, list[p]>> \notin atLeast
    BY InsertionPointProperties
  <2>3. /\ r \in Seq(S) /\ Len(r) = n + 1
        /\ \A k \in 1..n + 1 :
              r[k] = IF k < p THEN list[k] ELSE IF k = p THEN object ELSE list[k - 1]
    BY <1>2, PushNew
  <2>4. DOMAIN r = 1..n + 1
    BY <2>3, ElementsOf
  <2> HIDE DEF r, p, n
  <2>5. \A x, y \in 1..n : x < y => <<list[x], list[y]>> \notin atLeast
    BY <2>1 DEF Settled
  <2>6. \A x \in 1..n : x < p => <<list[x], object>> \notin atLeast
    <3>1. \A x \in 1..n : x < p => <<object, list[x]>> \in atLeast
      BY <2>1, <2>2
    <3>2. QED
      BY <3>1, <2>1 DEF WeakOrder
  <2>7. \A x \in 1..n : x >= p => <<object, list[x]>> \notin atLeast
    <3> SUFFICES ASSUME NEW x \in 1..n, x >= p
                 PROVE  <<object, list[x]>> \notin atLeast
      OBVIOUS
    <3>1. p \in 1..n /\ <<object, list[p]>> \notin atLeast
      BY <2>1, <2>2
    <3>2. x = p \/ <<list[p], list[x]>> \notin atLeast
      BY <3>1, <2>5, <2>2, <2>1
    <3>3. QED
      BY <3>1, <3>2, <2>1 DEF WeakOrder
  <2>8. ASSUME NEW j \in 1..n + 1, NEW k \in 1..n + 1, j < k
        PROVE  <<r[j], r[k]>> \notin atLeast
    <3>1. /\ j < p => j \in 1..n /\ r[j] = list[j]
          /\ k < p => k \in 1..n /\ r[k] = list[k]
          /\ j > p => j - 1 \in 1..n /\ r[j] = list[j - 1]
          /\ k > p => k - 1 \in 1..n /\ r[k] = list[k - 1]
      BY <2>1, <2>2, <2>3
    <3>2. (j = p => r[j] = object) /\ (k = p => r[k] = object)
      BY <2>3
    <3>3. CASE k < p
      BY <3>1, <3>3, <2>5, <2>8, <2>1, <2>2
    <3>4. CASE k = p
      BY <3>1, <3>2, <3>4, <2>6, <2>8, <2>1, <2>2
    <3>5. CASE k > p /\ j = p
      <4>1. k - 1 \in 1..n /\ k - 1 >= p
        BY <3>1, <3>5, <2>2, <2>1
      <4>2. QED
        BY <4>1, <3>1, <3>2, <3>5, <2>7
    <3>6. CASE k > p /\ j < p
      <4>1. k - 1 \in 1..n /\ j < k - 1
        BY <3>1, <3>6, <2>2, <2>1
      <4>2. QED
        BY <4>1, <3>1, <3>6, <2>5
    <3>7. CASE k > p /\ j > p
      <4>1. k - 1 \in 1..n /\ j - 1 \in 1..n /\ j - 1 < k - 1
        BY <3>1, <3>7, <2>8, <2>2, <2>1
      <4>2. QED
        BY <4>1, <3>1, <3>7, <2>5
    <3>8. QED
      BY <3>3, <3>4, <3>5, <3>6, <3>7, <2>1, <2>2
  <2>9. QED
    BY <2>4, <2>8 DEF Settled, r
<1>3. QED
  BY <1>1, <1>2

-----------------------------------------------------------------------------
(* sort().                                                                 *)

\* sort() loses nothing and leaves the list settled, whatever it was.
LEMMA SortElements ==
    ASSUME NEW S, NEW list \in Seq(S), NEW atLeast
    PROVE  /\ Sort(list, atLeast) \in ListOf(S, ToSet(list))
           /\ WeakOrder(atLeast, S) => Settled(Sort(list, atLeast), atLeast)
<1> DEFINE n == Len(list)
           sorted[i \in 0..n] == IF i = 0 THEN <<>>
                                 ELSE Push(sorted[i - 1], list[i], atLeast)
           step == [i \in 1..n |-> [l \in Seq(S) |->
                      IF l \in Seq(S) /\ Push(l, list[i], atLeast) \in Seq(S)
                      THEN Push(l, list[i], atLeast) ELSE <<>>]]
<1>1. /\ n \in Nat /\ \A i \in 1..n : list[i] \in S
      /\ ToSet(list) = {list[i] : i \in 1..n}
  BY ElementsOf
<1>2. ASSUME NEW i \in 1..n, NEW l \in Seq(S)
      PROVE  Push(l, list[i], atLeast) \in Seq(S)
  <2>1. CASE list[i] \in ToSet(l)
    BY <2>1, ElementsOf DEF Push
  <2>2. CASE list[i] \notin ToSet(l)
    BY <2>2, <1>1, PushNew
  <2>3. QED
    BY <2>1, <2>2
<1>3. step \in [1..n -> [Seq(S) -> Seq(S)]]
  OBVIOUS
<1>4. \A i \in 1..n, l \in Seq(S) : step[i][l] = Push(l, list[i], atLeast)
  BY <1>2
<1> HIDE DEF step, n
<1>5. PICK g \in [0..n -> Seq(S)] :
         g[0] = <<>> /\ \A i \in 1..n : g[i] = step[i][g[i - 1]]
  <2>1. <<>> \in Seq(S)
    OBVIOUS
  <2>2. \E g : Recursion(g, n, Seq(S), <<>>, step)
    BY <2>1, <1>1, <1>3, RecursionExists
  <2>3. QED
    BY <2>2 DEF Recursion
<1>6. \A i \in 1..n : g[i] = Push(g[i - 1], list[i], atLeast)
  <2>1. \A i \in 1..n : i - 1 \in 0..n
    BY <1>1
  <2>2. \A i \in 1..n : g[i - 1] \in Seq(S)
    BY <2>1
  <2>3. QED
    BY <2>2, <1>4, <1>5
<1>7. g = [i \in 0..n |-> IF i = 0 THEN <<>>
                          ELSE Push(g[i - 1], list[i], atLeast)]
  <2>1. \A i \in 0..n : i = 0 \/ i \in 1..n
    BY <1>1
  <2>2. \A i \in 0..n : g[i] = IF i = 0 THEN <<>>
                               ELSE Push(g[i - 1], list[i], atLeast)
    BY <2>1, <1>5, <1>6
  <2>3. QED
    BY <2>2
<1>8. sorted = [i \in 0..n |-> IF i = 0 THEN <<>>
                               ELSE Push(sorted[i - 1], list[i], atLeast)]
  BY <1>7
<1>9. /\ sorted[0] = <<>>
      /\ \A m \in 1..n : sorted[m] = Push(sorted[m - 1], list[m], atLeast)
  <2> HIDE DEF sorted
  <2>1. 0 \in 0..n /\ \A m \in 1..n : m \in 0..n /\ m # 0
    BY <1>1
  <2>2. QED
    BY <2>1, <1>8
<1>10. Sort(list, atLeast) = sorted[n]
  BY DEF Sort, n
<1> HIDE DEF sorted
<1> DEFINE Good(m) ==
             /\ sorted[m] \in ListOf(S, {list[i] : i \in 1..m})
             /\ WeakOrder(atLeast, S) => Settled(sorted[m], atLeast)
           G == {m \in 0..n : Good(m)}
<1>11. 0 \in G
  <2>1. <<>> \in Seq(S) /\ ToSet(<<>>) = {} /\ IsInjective(<<>>)
        /\ Settled(<<>>, atLeast)
    <3>1. <<>> \in Seq(S) /\ DOMAIN <<>> = {}
      OBVIOUS
    <3>2. QED
      BY <3>1 DEF ToSet, IsInjective, Settled
  <2>2. {list[i] : i \in 1..0} = {}
    OBVIOUS
  <2>3. QED
    <3>1. Good(0)
      BY <2>1, <2>2, <1>9 DEF ListOf
    <3> HIDE DEF Good
    <3>2. QED
      BY <3>1, <1>1
<1>12. ASSUME NEW m \in 1..n, m - 1 \in G PROVE m \in G
  <2>1. Good(m - 1)
    BY <1>12
  <2> DEFINE E == {list[i] : i \in 1..m - 1}
             l == sorted[m - 1]
  <2>2. l \in ListOf(S, E) /\ l \in Seq(S)
    BY <2>1 DEF ListOf
  <2>3. {list[i] : i \in 1..m} = E \cup {list[m]}
    <3>1. \A i : i \in 1..m <=> (i \in 1..m - 1 \/ i = m)
      BY <1>1
    <3>2. QED
      BY <3>1
  <2>4. list[m] \in S /\ sorted[m] = Push(l, list[m], atLeast)
    BY <1>1, <1>9
  <2>5. WeakOrder(atLeast, S) => Settled(l, atLeast)
    BY <2>1
  <2> HIDE DEF E, l
  <2>6. sorted[m] \in ListOf(S, E \cup {list[m]})
    BY <2>2, <2>4, PushElements
  <2>7. WeakOrder(atLeast, S) => Settled(sorted[m], atLeast)
    BY <2>2, <2>4, <2>5, PushSettles
  <2>8. m \in 0..n
    BY <1>1
  <2>9. QED
    BY <2>3, <2>6, <2>7, <2>8
<1> HIDE DEF Good
<1>13. 0..n \subseteq G
  <2> HIDE DEF G
  <2>1. QED
    BY <1>1, <1>11, <1>12, UpTo
<1>14. Good(n)
  BY <1>1, <1>13
<1>15. QED
  BY <1>1, <1>10, <1>14 DEF Good

-----------------------------------------------------------------------------
(* remove().                                                               *)

\* remove() takes the object out and moves no other past another.
LEMMA RemoveElements ==
    ASSUME NEW S, NEW E, NEW list \in ListOf(S, E), NEW object, NEW atLeast
    PROVE  /\ RemoveObject(list, object) \in ListOf(S, E \ {object})
           /\ Settled(list, atLeast) => Settled(RemoveObject(list, object), atLeast)
<1> DEFINE n == Len(list)
           T == {i \in 1..n : list[i] = object}
           r == RemoveObject(list, object)
<1>1. /\ list \in Seq(S) /\ ToSet(list) = E /\ IsInjective(list)
      /\ n \in Nat /\ DOMAIN list = 1..n /\ E = {list[i] : i \in 1..n}
  BY ElementsOf DEF ListOf
<1>2. CASE T = {}
  <2>1. r = list
    BY <1>2 DEF RemoveObject, RemoveFirst
  <2>2. E \ {object} = E
    BY <1>1, <1>2
  <2>3. QED
    BY <2>1, <2>2
<1>3. CASE T # {}
  <2>1. Min(T) \in T
    <3>1. T \subseteq Nat
      OBVIOUS
    <3> HIDE DEF T
    <3>2. QED
      BY <3>1, <1>3, MinOfNats
  <2> DEFINE p == Min(T)
  <2>2. r = RemoveAt(list, p)
    BY <1>3 DEF RemoveObject, RemoveFirst, SelectInSeq
  <2>3. p \in 1..n /\ list[p] = object
    BY <2>1
  <2> HIDE DEF p, T
  <2>4. /\ r \in Seq(S) /\ Len(r) = n - 1
        /\ \A k \in 1..n - 1 : r[k] = IF k < p THEN list[k] ELSE list[k + 1]
    BY <2>2, <2>3, <1>1, RemoveAtProperties
  <2> HIDE DEF r, n
  <2>5. DOMAIN r = 1..n - 1 /\ ToSet(r) = {r[i] : i \in 1..n - 1}
    BY <2>4, ElementsOf
  <2>6. \A x, y \in 1..n : list[x] = list[y] => x = y
    BY <1>1 DEF IsInjective
  <2> DEFINE h == [k \in 1..n - 1 |-> IF k < p THEN k ELSE k + 1]
  <2>7. \A k \in 1..n - 1 : h[k] \in 1..n /\ h[k] # p /\ r[k] = list[h[k]]
    BY <1>1, <2>3, <2>4
  <2>8. \A j, k \in 1..n - 1 : j < k => h[j] < h[k]
    BY <1>1, <2>3
  <2>9. \A i \in 1..n : i # p => \E k \in 1..n - 1 : h[k] = i
    <3> SUFFICES ASSUME NEW i \in 1..n, i # p PROVE \E k \in 1..n - 1 : h[k] = i
      OBVIOUS
    <3>1. CASE i < p
      <4>1. i \in 1..n - 1 /\ h[i] = i
        BY <3>1, <1>1, <2>3
      <4>2. QED
        BY <4>1
    <3>2. CASE i > p
      <4>1. i - 1 \in 1..n - 1 /\ h[i - 1] = i
        BY <3>2, <1>1, <2>3
      <4>2. QED
        BY <4>1
    <3>3. QED
      BY <3>1, <3>2, <1>1, <2>3
  <2> HIDE DEF h
  <2>10. ToSet(r) = E \ {object}
    <3>1. ASSUME NEW k \in 1..n - 1 PROVE r[k] \in E \ {object}
      BY <2>3, <2>6, <2>7, <1>1
    <3>2. ASSUME NEW e \in E \ {object} PROVE \E k \in 1..n - 1 : r[k] = e
      <4>1. PICK i \in 1..n : list[i] = e
        BY <1>1
      <4>2. i # p
        BY <4>1, <2>3
      <4>3. QED
        BY <4>1, <4>2, <2>7, <2>9
    <3>3. QED
      BY <3>1, <3>2, <2>5
  <2>11. IsInjective(r)
    <3> SUFFICES ASSUME NEW j \in 1..n - 1, NEW k \in 1..n - 1, j < k
                 PROVE  r[j] # r[k]
      BY <1>1, <2>5 DEF IsInjective
    <3>1. h[j] < h[k] /\ h[j] \in 1..n /\ h[k] \in 1..n
      BY <2>7, <2>8
    <3>2. QED
      BY <3>1, <2>6, <2>7, <1>1
  <2>12. Settled(list, atLeast) => Settled(r, atLeast)
    BY <2>5, <2>7, <2>8, <1>1 DEF Settled
  <2>13. QED
    BY <2>4, <2>10, <2>11, <2>12 DEF ListOf, r
<1>4. QED
  BY <1>2, <1>3

-----------------------------------------------------------------------------
(* Lists in general.                                                       *)

\* The empty list.
LEMMA EmptyList ==
    ASSUME NEW S
    PROVE  /\ <<>> \in ListOf(S, {})
           /\ \A atLeast : Settled(<<>>, atLeast)
<1>1. <<>> \in Seq(S) /\ DOMAIN <<>> = {}
  OBVIOUS
<1>2. QED
  BY <1>1 DEF ListOf, ToSet, IsInjective, Settled

\* A list over S is one over any set that its objects are in.
LEMMA ListRetyped ==
    ASSUME NEW S, NEW E, NEW T, NEW list \in ListOf(S, E), E \subseteq T
    PROVE  list \in ListOf(T, E)
<1>1. /\ list \in Seq(S) /\ ToSet(list) = E /\ IsInjective(list)
      /\ Len(list) \in Nat /\ DOMAIN list = 1..Len(list)
  BY ElementsOf DEF ListOf
<1>2. /\ \A i \in 1..Len(list) : list[i] \in T
      /\ list = [i \in 1..Len(list) |-> list[i]]
  <2>1. \A i \in 1..Len(list) : list[i] \in T
    BY <1>1 DEF ToSet
  <2>2. list \in [1..Len(list) -> S]
    BY <1>1, LenProperties
  <2>3. QED
    BY <2>1, <2>2
<1>3. list \in Seq(T)
  <2>1. list \in [1..Len(list) -> T]
    BY <1>2
  <2>2. QED
    BY <1>1, <2>1, SeqDef
<1>4. QED
  BY <1>1, <1>3 DEF ListOf

\* An object that is not in a list may be put at its end.
LEMMA AppendElements ==
    ASSUME NEW S, NEW E, NEW list \in ListOf(S, E), NEW x \in S, x \notin E
    PROVE  /\ Append(list, x) \in ListOf(S, E \cup {x})
           /\ \A atLeast :
                 Settled(list, atLeast) /\ (\A e \in E : <<e, x>> \notin atLeast)
                    => Settled(Append(list, x), atLeast)
<1> DEFINE n == Len(list)
           r == Append(list, x)
<1>1. /\ list \in Seq(S) /\ ToSet(list) = E /\ IsInjective(list)
      /\ n \in Nat /\ DOMAIN list = 1..n /\ E = {list[i] : i \in 1..n}
  BY ElementsOf DEF ListOf
<1>2. /\ r \in Seq(S) /\ Len(r) = n + 1 /\ r[n + 1] = x
      /\ \A i \in 1..n : r[i] = list[i]
  BY <1>1, AppendProperties
<1>3. DOMAIN r = 1..n + 1 /\ ToSet(r) = {r[i] : i \in 1..n + 1}
  BY <1>2, ElementsOf
<1> HIDE DEF r, n
<1>4. \A i : i \in 1..n + 1 <=> i \in 1..n \/ i = n + 1
  BY <1>1
<1>5. ToSet(r) = E \cup {x}
  BY <1>1, <1>2, <1>3, <1>4
<1>6. IsInjective(r)
  BY <1>1, <1>2, <1>3, <1>4 DEF IsInjective
<1>7. ASSUME NEW atLeast, Settled(list, atLeast),
             \A e \in E : <<e, x>> \notin atLeast
      PROVE  Settled(r, atLeast)
  <2> SUFFICES ASSUME NEW j \in 1..n + 1, NEW k \in 1..n + 1, j < k
               PROVE  <<r[j], r[k]>> \notin atLeast
    BY <1>3 DEF Settled
  <2>1. j \in 1..n /\ r[j] = list[j] /\ list[j] \in E
    BY <1>1, <1>2
  <2>2. CASE k \in 1..n
    BY <2>1, <2>2, <1>1, <1>2, <1>7 DEF Settled
  <2>3. CASE k = n + 1
    BY <2>1, <2>3, <1>2, <1>7
  <2>4. QED
    BY <2>2, <2>3, <1>4
<1>8. QED
  BY <1>2, <1>5, <1>6, <1>7 DEF ListOf, r

\* Taking out the first of possibly many equal objects.
LEMMA RemoveFirstElements ==
    ASSUME NEW S, NEW list \in Seq(S), NEW object
    PROVE  LET r == RemoveFirst(list, object)
           IN  /\ r \in Seq(S)
               /\ ToSet(r) \subseteq ToSet(list)
               /\ ToSet(list) \ {object} \subseteq ToSet(r)
<1> DEFINE n == Len(list)
           T == {i \in 1..n : list[i] = object}
           r == RemoveFirst(list, object)
<1>1. n \in Nat /\ DOMAIN list = 1..n /\ ToSet(list) = {list[i] : i \in 1..n}
  BY ElementsOf
<1>2. CASE T = {}
  BY <1>1, <1>2 DEF RemoveFirst
<1>3. CASE T # {}
  <2>1. Min(T) \in T
    <3>1. T \subseteq Nat
      OBVIOUS
    <3> HIDE DEF T
    <3>2. QED
      BY <3>1, <1>3, MinOfNats
  <2> DEFINE p == Min(T)
  <2>2. r = RemoveAt(list, p)
    BY <1>1, <1>3 DEF RemoveFirst, SelectInSeq
  <2>3. p \in 1..n /\ list[p] = object
    BY <2>1
  <2> HIDE DEF p, T
  <2>4. /\ r \in Seq(S) /\ Len(r) = n - 1
        /\ \A k \in 1..n - 1 : r[k] = IF k < p THEN list[k] ELSE list[k + 1]
    BY <2>2, <2>3, <1>1, RemoveAtProperties
  <2> HIDE DEF r, n
  <2>5. ToSet(r) = {r[i] : i \in 1..n - 1}
    BY <2>4, ElementsOf
  <2>6. \A k \in 1..n - 1 : k \in 1..n /\ k + 1 \in 1..n
    BY <1>1
  <2>7. ToSet(r) \subseteq ToSet(list)
    BY <1>1, <2>4, <2>5, <2>6
  <2>8. ASSUME NEW i \in 1..n, list[i] # object PROVE list[i] \in ToSet(r)
    <3>1. CASE i < p
      <4>1. i \in 1..n - 1 /\ r[i] = list[i]
        BY <3>1, <1>1, <2>3, <2>4
      <4>2. QED
        BY <4>1, <2>5
    <3>2. CASE i > p
      <4>1. i - 1 \in 1..n - 1 /\ ~(i - 1 < p) /\ (i - 1) + 1 = i
        BY <3>2, <1>1, <2>3
      <4>2. r[i - 1] = list[i]
        BY <4>1, <2>4
      <4>3. QED
        BY <4>1, <4>2, <2>5
    <3>3. QED
      BY <3>1, <3>2, <2>3, <2>8
  <2>9. QED
    BY <1>1, <2>4, <2>7, <2>8 DEF r
<1>4. QED
  BY <1>2, <1>3

\* A new object at the end.
LEMMA AppendNew ==
    ASSUME NEW S, NEW E, NEW list \in ListOf(S, E), NEW object \in S, object \notin E
    PROVE  Append(list, object) \in ListOf(S, E \cup {object})
<1> DEFINE n == Len(list)
           r == Append(list, object)
<1>1. /\ list \in Seq(S) /\ ToSet(list) = E /\ IsInjective(list)
      /\ n \in Nat /\ DOMAIN list = 1..n /\ E = {list[i] : i \in 1..n}
  BY ElementsOf DEF ListOf
<1>2. r \in Seq(S) /\ ToSet(r) = E \cup {object}
  BY <1>1, ElementsOfAppend
<1>3. /\ Len(r) = n + 1
      /\ \A i \in 1..n : r[i] = list[i]
      /\ r[n + 1] = object
  BY <1>1, AppendProperties
<1> HIDE DEF n, r
<1>4. DOMAIN r = 1..n + 1
  BY <1>2, <1>3, ElementsOf
<1>5. \A i \in 1..n + 1 : i \in 1..n \/ i = n + 1
  BY <1>1
<1>6. IsInjective(r)
  BY <1>1, <1>3, <1>4, <1>5 DEF IsInjective
<1>7. QED
  BY <1>2, <1>6 DEF ListOf, r
=============================================================================
