--------------------------- MODULE MCResponseCache ---------------------------
(* An instance of ResponseCache for TLC: the daemon, two of whose workers  *)
(* ask for the same resource, and a command whose only use of the cache is *)
(* that of every command, to open it, if it is not, and close it at exit.  *)
EXTENDS ResponseCache, TLC

CONSTANTS daemon, command, w1, w2

MCOf == (w1 :> daemon) @@ (w2 :> daemon)
=============================================================================
