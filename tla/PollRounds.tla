----------------------------- MODULE PollRounds -----------------------------
(***************************************************************************)
(* What the bot promises of its polling loop (procedures.poll), whatever   *)
(* the queue and the workers do.  A round announces tasks, tasks spawn     *)
(* other tasks, and every one of them finishes; the loop rests only once   *)
(* no task of the round is left, and nothing of a round is started while   *)
(* it rests.  Webhook tasks come and go at any time.                       *)
(***************************************************************************)
CONSTANTS Root,         \* tasks a round announces: one per repository
          RoundTask,    \* every task of a round, the roots included
          Delivery,     \* tasks of webhook deliveries
          Children(_)   \* tasks a task may spawn

VARIABLES outstanding,  \* tasks queued or running
          resting       \* the loop is between two rounds

abstractVars == <<outstanding, resting>>

Init == outstanding = {} /\ resting = TRUE

\* The delay is over: another round.
Resume ==
    /\ resting
    /\ resting' = FALSE
    /\ UNCHANGED outstanding

\* The loop queues the poller of a repository.
Announce(t) ==
    /\ ~resting
    /\ t \notin outstanding
    /\ outstanding' = outstanding \cup {t}
    /\ UNCHANGED resting

\* A task queues another one, while it is itself outstanding.
Spawn(t, c) ==
    /\ t \in outstanding
    /\ c \in Children(t) \ outstanding
    /\ outstanding' = outstanding \cup {c}
    /\ UNCHANGED resting

\* A webhook delivery queues a task.
Deliver(t) ==
    /\ t \notin outstanding
    /\ outstanding' = outstanding \cup {t}
    /\ UNCHANGED resting

\* A task ends, whatever its result.
Finish(t) ==
    /\ t \in outstanding
    /\ outstanding' = outstanding \ {t}
    /\ UNCHANGED resting

\* The loop stops waiting: none of the round's tasks is outstanding.
Rest ==
    /\ ~resting
    /\ outstanding \cap RoundTask = {}
    /\ resting' = TRUE
    /\ UNCHANGED outstanding

Next ==
    \/ Resume
    \/ \E t \in Root : Announce(t)
    \/ \E t \in RoundTask : \E c \in Children(t) : Spawn(t, c)
    \/ \E t \in Delivery : Deliver(t)
    \/ \E t \in RoundTask \cup Delivery : Finish(t)
    \/ Rest

Spec == Init /\ [][Next]_abstractVars
=============================================================================
