------------------------------ MODULE MCWorker ------------------------------
EXTENDS Worker, TLC

MCInterval == {0, 1, 2}

\* Nodes and addresses are interchangeable: no action names one of them.
Symmetry == Permutations(Node) \cup Permutations(EventId)
=============================================================================
