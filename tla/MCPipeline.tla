----------------------------- MODULE MCPipeline -----------------------------
(* An instance of Pipeline for TLC: a pull request with a matrix job and a *)
(* periodic job in its first stage and a job in its second one, and a head *)
(* that shares the matrix job, with another value, and does not build it.  *)
EXTENDS Pipeline, TLC

CONSTANTS a, b, matrix, nightly, deploy

MCSpec ==
    (a :> (matrix :> {1} @@ nightly :> {1} @@ deploy :> {1})) @@
    (b :> (matrix :> {2} @@ nightly :> {} @@ deploy :> {}))
MCStageOf == matrix :> 1 @@ nightly :> 1 @@ deploy :> 2
MCHere    == a :> {matrix, nightly, deploy} @@ b :> {}
=============================================================================
