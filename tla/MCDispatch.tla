----------------------------- MODULE MCDispatch -----------------------------
EXTENDS Dispatch, TLC

CONSTANTS n1, n2, n3

\* n1 has outlets only, n2 two inlets, n3 one of each.
MCInletCount == [n \in Node |-> CASE n = n1 -> 0 [] n = n2 -> 2 [] n = n3 -> 1]
MCOutletCount == [n \in Node |-> 1]

out(n) == [node |-> n, kind |-> "out", rank |-> 0]
in(n, k) == [node |-> n, kind |-> "in", rank |-> k]

\* A fork with two ways to n3, one of them through n2; a cycle of n3 alone
\* (longer cycles recurse in the same way).
MCCompatible == {<<out(n1), in(n2, 0)>>, <<out(n1), in(n2, 1)>>,
                 <<out(n1), in(n3, 0)>>, <<out(n2), in(n3, 0)>>,
                 <<out(n3), in(n3, 0)>>}
=============================================================================
