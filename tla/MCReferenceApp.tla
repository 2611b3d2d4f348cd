---------------------------- MODULE MCReferenceApp -----------------------------
(* The drivers TLC checks ReferenceApp under, and its symmetry.              *)
EXTENDS ReferenceApp, TLC

\* Two checkouts and two overlapping deliveries, or a checkout and three
\* deliveries one at a time, as the verifier's driver sends them.
Overlapping == [serial |-> FALSE, checkouts |-> 2, webhooks |-> 2]
Serial == [serial |-> TRUE, checkouts |-> 1, webhooks |-> 3]

BothDrivers == {Overlapping, Serial}
OverlappingDriver == {Overlapping}
SerialDriver == {Serial}

Symmetric == Permutations(Checkouts) \cup Permutations(Webhooks)
=============================================================================
