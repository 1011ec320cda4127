----------------------- MODULE MCAggregateRepository -----------------------
(* Instances of AggregateRepository for TLC. *)
EXTENDS AggregateRepository, TLC

CONSTANTS c1, c2, c3

TwoClients == {c1, c2}

ThreeClients == {c1, c2, c3}

\* The requests are interchangeable in the safety runs; the run that
\* checks liveness uses no symmetry.
ClientSymmetry == Permutations(Clients)
=============================================================================
