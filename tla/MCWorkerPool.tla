---------------------------- MODULE MCWorkerPool ----------------------------
(* Instances of WorkerPool for TLC: two repositories, one with a protected *)
(* branch and an urgent pull request, one with a single pull request; and, *)
(* for the liveness run with a delivery, the first repository alone.       *)
EXTENDS WorkerPool, TLC

CONSTANTS r1, r2, main, urgent, pull

MCRepo == {r1, r2}
MCHead == {main, urgent, pull}
MCHeadRepo == (main :> r1) @@ (urgent :> r1) @@ (pull :> r2)

OneRepo == {r1}
OneRepoHeadRepo == [h \in MCHead |-> r1]

\* Sound for the safety runs: workers are told apart by nothing.
WorkerSymmetry == Permutations(Worker)
=============================================================================
