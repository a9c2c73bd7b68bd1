-------------------------------- MODULE MCClient -------------------------------
EXTENDS ClientLifecycle, TLC

\* Nothing tells the servers apart.
Symmetry == Permutations(Servers)

\* The form is only read by Connect, so an edit made while a client or an attempt exists can
\* as well be made when both are gone: none of the properties tells the difference.
EditsWait == running /\ running' /\ (client \/ connecting) => UNCHANGED fields

\* A lost route stands in the way of the same route only: one at a time is enough.
FewLost == Cardinality(lost_routes) <= 1
=============================================================================
