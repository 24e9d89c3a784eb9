----------------------------- MODULE WorkerPool -----------------------------
(***************************************************************************)
(* The worker pool of jenkins-epo (workers.py), the tasks it runs          *)
(* (tasks.py) and the loop that feeds it (procedures.poll, or print_heads  *)
(* for the list-heads command).                                            *)
(*                                                                         *)
(* The loop queues one RepositoryPollerTask per repository, which queues a *)
(* QueuerTask, which queues one task per head.  The three kinds go through *)
(* one bounded priority queue, from inside the workers that also empty it. *)
(* Webhook deliveries queue head tasks too.  The loop then joins the queue *)
(* before it sleeps and starts over.                                       *)
(***************************************************************************)
EXTENDS Integers, FiniteSets

CONSTANTS Repo,        \* repositories of the REPOSITORIES setting
          Head,        \* protected branches and pull requests
          HeadRepo,    \* [Head -> Repo]
          Branch,      \* the heads that are protected branches
          Urgent,      \* the pull requests whose title starts with [URGENT]
          Hook,        \* webhook deliveries, finitely many
          Worker,      \* SETTINGS.CONCURRENCY workers
          Capacity,    \* maxsize of the queue
          EagerCount,  \* the queue of compat.py, for Python before 3.4.4
          Serving,     \* TRUE: the bot command; FALSE: list-heads
          NoTask, Exited  \* model values: what a worker without a task holds

ASSUME SetsAssumption ==
    /\ IsFiniteSet(Repo) /\ IsFiniteSet(Head) /\ IsFiniteSet(Hook)
    /\ IsFiniteSet(Worker)
    /\ HeadRepo \in [Head -> Repo]
    /\ Branch \subseteq Head
    /\ Urgent \subseteq Head \ Branch

ASSUME CapacityAssumption == Capacity \in Nat \ {0}

ASSUME ModeAssumption ==
    /\ EagerCount \in BOOLEAN /\ Serving \in BOOLEAN
    /\ ~Serving => Hook = {}      \* no web server runs beside list-heads

-----------------------------------------------------------------------------
(* Tasks                                                                   *)

PollerTask(r) == [kind |-> "poller", of |-> r]
QueuerTask(r) == [kind |-> "queuer", of |-> r]
HeadTask(h)   == [kind |-> "head", of |-> h]
HookTask(k)   == [kind |-> "hook", of |-> k]

RoundTask == [kind : {"poller", "queuer"}, of : Repo] \cup [kind : {"head"}, of : Head]
Delivery  == [kind : {"hook"}, of : Hook]
Task      == RoundTask \cup Delivery

ASSUME IdleAssumption == NoTask \notin Task /\ Exited \notin Task /\ NoTask # Exited

\* Tasks compare by their priority tuples: '10-webhook', then '50-poll' with
\* the sort key of the head (not urgent, 100 or 200), then '99-poll'.
Rank(t) ==
    CASE t.kind = "hook" -> 0
      [] t.kind = "head" /\ t.of \in Urgent -> 1
      [] t.kind = "head" /\ t.of \in Branch -> 2
      [] t.kind = "head" /\ t.of \notin Urgent \cup Branch -> 3
      [] OTHER -> 4

HeadsOf(r) == {h \in Head : HeadRepo[h] = r}

\* What a task may enqueue while it runs.
Children(t) ==
    CASE t.kind = "poller" -> {QueuerTask(t.of)}
      [] t.kind = "queuer" -> {HeadTask(h) : h \in HeadsOf(t.of)}
      [] t.kind \in {"head", "hook"} -> {}

-----------------------------------------------------------------------------
VARIABLES
    future,      \* [Task -> state of the task, a Future]; "blocked" while its
                 \* enqueuer waits in queue.put
    unfinished,  \* the counter that queue.join waits on
    job,         \* [Worker -> the task it runs, NoTask in queue.get, or Exited]
    stage,       \* [Worker -> where the body of its task is, "call" if none]
    todo,        \* [Worker -> what its body still has to enqueue, {} if none]
    phase,       \* the polling loop
    pollset,     \* repositories this round still has to announce
    registered,  \* keys of the REPOSITORIES dict
    listed       \* history: heads the queuers of this round got from GitHub

queueVars == <<future, unfinished>>
workVars  == <<job, stage, todo>>
loopVars  == <<phase, pollset>>
vars      == <<future, unfinished, job, stage, todo, phase, pollset, registered, listed>>

Ended == {"finished", "failed", "cancelled"}

Queued      == {t \in Task : future[t] = "queued"}
Running     == {t \in Task : future[t] = "running"}
Blocked     == {t \in Task : future[t] = "blocked"}
Outstanding == Queued \cup Running
Full        == Cardinality(Queued) >= Capacity

\* The body of w is suspended in queue.put.
Waiting(w) == job[w] \in Task /\ Children(job[w]) \cap Blocked # {}

Init ==
    /\ future = [t \in Task |-> "new"]
    /\ unfinished = 0
    /\ job = [w \in Worker |-> NoTask]
    /\ stage = [w \in Worker |-> "call"]
    /\ todo = [w \in Worker |-> {}]
    /\ phase = "resting"
    /\ pollset = {}
    /\ registered = {}
    /\ listed = {}

-----------------------------------------------------------------------------
(* WorkerPool.enqueue: queue.put inserts the item, or waits for room.  The *)
(* queue of compat.py counts the item before it waits.                     *)

\* Faulty variant: a put_nowait whose QueueFull is ignored.
PutDrops(t) ==
    IF Full
    THEN UNCHANGED queueVars
    ELSE /\ future' = [future EXCEPT ![t] = "queued"]
         /\ unfinished' = unfinished + 1

Put(t) ==
    IF Full
    THEN /\ future' = [future EXCEPT ![t] = "blocked"]
         /\ unfinished' = IF EagerCount THEN unfinished + 1 ELSE unfinished
    ELSE /\ future' = [future EXCEPT ![t] = "queued"]
         /\ unfinished' = unfinished + 1

\* Faulty variant: the item that waited is inserted without being counted.
PutResumesUncounted(t) ==
    /\ future[t] = "blocked"
    /\ ~Full
    /\ future' = [future EXCEPT ![t] = "queued"]
    /\ UNCHANGED <<unfinished, workVars, loopVars, registered, listed>>

\* A get made room: the waiting put inserts its item.
PutResumes(t) ==
    /\ future[t] = "blocked"
    /\ ~Full
    /\ future' = [future EXCEPT ![t] = "queued"]
    /\ unfinished' = IF EagerCount THEN unfinished ELSE unfinished + 1
    /\ UNCHANGED <<workVars, loopVars, registered, listed>>

-----------------------------------------------------------------------------
(* WorkerPool.worker                                                       *)

\* item = yield from self.queue.get(), then loop.create_task(item()).
Get(w, t) ==
    /\ job[w] = NoTask
    /\ t \in Queued
    /\ \A u \in Queued : Rank(t) <= Rank(u)
    /\ job' = [job EXCEPT ![w] = t]
    /\ future' = [future EXCEPT ![t] = "running"]
    /\ UNCHANGED <<unfinished, stage, todo, loopVars, registered, listed>>

\* Faulty variant: task_done is called on success only, not in a finally.
TaskDoneOnSuccess(w, outcome) ==
    /\ future' = [future EXCEPT ![job[w]] = outcome]
    /\ unfinished' = IF outcome = "finished" THEN unfinished - 1 ELSE unfinished
    /\ phase' = IF phase = "joining" /\ unfinished' = 0 THEN "woken" ELSE phase
    /\ job' = [job EXCEPT ![w] = NoTask]
    /\ stage' = [stage EXCEPT ![w] = "call"]
    /\ UNCHANGED <<todo, pollset, registered, listed>>

\* Faulty variant: the worker does not catch the CancelledError of its task.
TaskDoneDies(w, outcome) ==
    /\ future' = [future EXCEPT ![job[w]] = outcome]
    /\ unfinished' = unfinished - 1
    /\ phase' = IF phase = "joining" /\ unfinished' = 0 THEN "woken" ELSE phase
    /\ job' = [job EXCEPT ![w] = IF outcome = "cancelled" THEN Exited ELSE NoTask]
    /\ stage' = [stage EXCEPT ![w] = "call"]
    /\ UNCHANGED <<todo, pollset, registered, listed>>

\* The body of the task of w ended: its future gets the outcome, the finally
\* clause calls task_done, which wakes a join when the counter reaches zero,
\* and w is back in queue.get.
TaskDone(w, outcome) ==
    /\ future' = [future EXCEPT ![job[w]] = outcome]
    /\ unfinished' = unfinished - 1
    /\ phase' = IF phase = "joining" /\ unfinished' = 0 THEN "woken" ELSE phase
    /\ job' = [job EXCEPT ![w] = NoTask]
    /\ stage' = [stage EXCEPT ![w] = "call"]
    /\ UNCHANGED <<todo, pollset, registered, listed>>

Runs(w, kind, where) ==
    job[w] \in Task /\ job[w].kind = kind /\ stage[w] = where /\ ~Waiting(w)

\* RepositoryPollerTask.__call__ knows the repository, or looks it up.
PollerCalled(w) ==
    /\ Runs(w, "poller", "call")
    /\ registered' = registered \cup {job[w].of}
    /\ stage' = [stage EXCEPT ![w] = "last"]
    /\ todo' = [todo EXCEPT ![w] = {QueuerTask(job[w].of)}]
    /\ UNCHANGED <<queueVars, job, loopVars, listed>>

\* Repository.from_name raised.
LookupFails(w) ==
    /\ Runs(w, "poller", "call")
    /\ job[w].of \notin registered
    /\ TaskDone(w, "failed")

\* QueuerTask.__call__ got a page of heads, and keeps those that the HEADS
\* setting selects: the protected branches first, then, once they are queued,
\* the pull requests.
Lists(w, heads) ==
    /\ todo' = [todo EXCEPT ![w] = {HeadTask(h) : h \in heads}]
    /\ listed' = listed \cup heads
    /\ UNCHANGED <<queueVars, job, loopVars, registered>>

QueuerListsBranches(w) ==
    /\ Runs(w, "queuer", "call")
    /\ stage' = [stage EXCEPT ![w] = "branches"]
    /\ \E heads \in SUBSET (HeadsOf(job[w].of) \cap Branch) : Lists(w, heads)

QueuerListsPulls(w) ==
    /\ Runs(w, "queuer", "branches")
    /\ todo[w] = {}
    /\ stage' = [stage EXCEPT ![w] = "last"]
    /\ \E heads \in SUBSET (HeadsOf(job[w].of) \ Branch) : Lists(w, heads)

\* A fetch raised, or the lazy walk through a page did, on an entry it cannot
\* read (a pull request whose fork is gone): what comes after is not queued.
ListFails(w) ==
    /\ \E where \in {"call", "branches", "last"} : Runs(w, "queuer", where)
    /\ todo[w] = {}
    /\ TaskDone(w, "failed")

\* WORKERS.enqueue from inside a task: one item at a time.
Enqueue(w) ==
    /\ job[w] \in Task
    /\ ~Waiting(w)
    /\ \E t \in todo[w] :
        /\ todo' = [todo EXCEPT ![w] = @ \ {t}]
        /\ Put(t)
    /\ UNCHANGED <<job, stage, loopVars, registered, listed>>

\* The body of a poller or a queuer returns after its last put.
BodyReturns(w) ==
    /\ Runs(w, "poller", "last") \/ Runs(w, "queuer", "last")
    /\ todo[w] = {}
    /\ TaskDone(w, "finished")

\* A head was processed: process_url returned, raised, or was cancelled by a
\* later process_url on the same URL.
HeadProcessed(w) ==
    /\ Runs(w, "head", "call") \/ Runs(w, "hook", "call")
    /\ \E outcome \in Ended : TaskDone(w, outcome)

-----------------------------------------------------------------------------
(* procedures.poll, procedures.print_heads and the list-heads command      *)

\* for qualname in REPOSITORIES: the keys of the dict, the setting if none.
\* The Task objects of a round are new.
StartRound ==
    /\ phase = "resting"
    /\ phase' = "polling"
    /\ pollset' = IF registered = {} THEN Repo ELSE registered
    /\ future' = [t \in Task |-> IF t \in RoundTask THEN "new" ELSE future[t]]
    /\ listed' = {}
    /\ UNCHANGED <<unfinished, workVars, registered>>

Announce ==
    /\ phase = "polling"
    /\ \A r \in Repo : future[PollerTask(r)] # "blocked"
    /\ \E r \in pollset :
        /\ pollset' = pollset \ {r}
        /\ Put(PollerTask(r))
    /\ UNCHANGED <<phase, workVars, registered, listed>>

\* Faulty variant: wait for an empty queue instead of a zero counter.
JoinOnEmptyQueue ==
    /\ phase = "polling"
    /\ pollset = {}
    /\ \A r \in Repo : future[PollerTask(r)] # "blocked"
    /\ phase' = IF Queued # {} THEN "joining" ELSE "woken"
    /\ UNCHANGED <<queueVars, workVars, pollset, registered, listed>>

\* Faulty variant: no join, only the delay.
JoinSkipped ==
    /\ phase = "polling"
    /\ pollset = {}
    /\ \A r \in Repo : future[PollerTask(r)] # "blocked"
    /\ phase' = "woken"
    /\ UNCHANGED <<queueVars, workVars, pollset, registered, listed>>

\* queue.join() waits only when something is unfinished.
Join ==
    /\ phase = "polling"
    /\ pollset = {}
    /\ \A r \in Repo : future[PollerTask(r)] # "blocked"
    /\ phase' = IF unfinished > 0 THEN "joining" ELSE "woken"
    /\ UNCHANGED <<queueVars, workVars, pollset, registered, listed>>

\* The loop resumes in a later turn of the event loop: more may be queued
\* by then.
JoinReturns ==
    /\ phase = "woken"
    /\ phase' = IF Serving THEN "resting" ELSE "terminate"
    /\ UNCHANGED <<queueVars, workVars, pollset, registered, listed>>

\* WorkerPool.terminate cancels the workers.  One that waits in queue.get
\* ends; one that runs a task catches the CancelledError of that task, and
\* goes back to queue.get.
Terminate ==
    /\ phase = "terminate"
    /\ phase' = "gather"
    /\ job' = [w \in Worker |-> IF job[w] = NoTask THEN Exited ELSE NoTask]
    /\ future' = [t \in Task |-> IF t \in Running THEN "cancelled" ELSE future[t]]
    /\ unfinished' = unfinished - Cardinality(Running)
    /\ stage' = [w \in Worker |-> "call"]
    /\ todo' = [w \in Worker |-> {}]
    /\ UNCHANGED <<pollset, registered, listed>>

Gather ==
    /\ phase = "gather"
    /\ \A w \in Worker : job[w] = Exited
    /\ phase' = "stopped"
    /\ UNCHANGED <<queueVars, workVars, pollset, registered, listed>>

-----------------------------------------------------------------------------
(* web.github_webhook                                                      *)

Deliver(k) ==
    /\ future[HookTask(k)] = "new"
    /\ Put(HookTask(k))
    /\ UNCHANGED <<workVars, loopVars, registered, listed>>

\* Faulty variant: giving up a put calls task_done.
HangUpDone(k) ==
    /\ future[HookTask(k)] = "blocked"
    /\ future' = [future EXCEPT ![HookTask(k)] = "cancelled"]
    /\ unfinished' = unfinished - 1
    /\ UNCHANGED <<workVars, loopVars, registered, listed>>

\* GitHub hangs up while the handler waits in queue.put: the web server
\* cancels the handler and the item is never inserted.
HangUp(k) ==
    /\ future[HookTask(k)] = "blocked"
    /\ future' = [future EXCEPT ![HookTask(k)] = "cancelled"]
    /\ UNCHANGED <<unfinished, workVars, loopVars, registered, listed>>

-----------------------------------------------------------------------------
WorkerStep(w) ==
    \/ \E t \in Task : Get(w, t)
    \/ PollerCalled(w) \/ LookupFails(w)
    \/ QueuerListsBranches(w) \/ QueuerListsPulls(w) \/ ListFails(w)
    \/ Enqueue(w) \/ BodyReturns(w) \/ HeadProcessed(w)

LoopStep == StartRound \/ Announce \/ Join \/ JoinReturns \/ Terminate \/ Gather

Next ==
    \/ \E w \in Worker : WorkerStep(w)
    \/ \E t \in Task : PutResumes(t)
    \/ LoopStep
    \/ \E k \in Hook : Deliver(k) \/ HangUp(k)

Spec == Init /\ [][Next]_vars

\* The event loop runs every coroutine that is ready: a worker whose task can
\* go on, a put that found room, the loop.  GitHub and Jenkins answer, or the
\* request raises.  Nothing says that a delivery comes or that GitHub hangs up.
Fairness ==
    /\ \A w \in Worker : WF_vars(WorkerStep(w))
    /\ \A t \in Task : WF_vars(PutResumes(t))
    /\ WF_vars(LoopStep)

FairSpec == Spec /\ Fairness

-----------------------------------------------------------------------------
(* Properties                                                              *)

TypeOK ==
    /\ future \in [Task -> {"new", "blocked", "queued", "running"} \cup Ended]
    /\ unfinished \in Nat     \* else task_done raises ValueError
    /\ job \in [Worker -> Task \cup {NoTask, Exited}]
    /\ stage \in [Worker -> {"call", "branches", "last"}]
    /\ todo \in [Worker -> SUBSET Task]
    /\ phase \in {"resting", "polling", "joining", "woken",
                  "terminate", "gather", "stopped"}
    /\ pollset \subseteq Repo
    /\ registered \subseteq Repo
    /\ listed \subseteq Head

\* A round ends only when none of its tasks waits for room, is queued or
\* runs: join (procedures.py:44) counts children before it forgets their
\* parent, so the counter cannot touch zero between the two.
JoinBarrier ==
    phase \notin {"polling", "joining"} =>
        \A t \in RoundTask : future[t] \notin {"blocked", "queued", "running"}

\* When a round ends, nothing of it was lost: a repository whose poller
\* succeeded got its queuer run, and each head GitHub listed was processed,
\* even when the queue was full or the listing failed half way.
RoundComplete ==
    phase = "woken" =>
        /\ \A r \in Repo :
            future[PollerTask(r)] = "finished" => future[QueuerTask(r)] \in Ended
        /\ \A h \in listed : future[HeadTask(h)] \in Ended

\* The workers never all wait for room in the queue that only they can empty
\* (workers.py:57 called from tasks.py:44 and tasks.py:80).
NoGridlock == ~ \A w \in Worker : Waiting(w)

\* With the queue of the standard library, the counter of join is what is
\* queued or running, whatever put was given up (workers.py:57, web.py:144).
CountExact == ~EagerCount => unfinished = Cardinality(Outstanding)

\* The loop is not stuck in join (procedures.py:44): every round ends.
JoinEventuallyReturns == phase = "joining" ~> phase = "woken"

\* An accepted webhook delivery ends up processed, however the polling
\* rounds fill the queue (web.py:144).
DeliveryHandled ==
    \A k \in Hook : future[HookTask(k)] = "queued" ~> future[HookTask(k)] \in Ended

\* terminate (workers.py:90-97) returns: it gathers workers that swallow a
\* cancellation received while they run a task, so it depends on the join
\* that comes first (main.py:70-72).
TerminateReturns == phase = "terminate" ~> phase = "stopped"

\* The abstract specification of the polling loop.
Rounds == INSTANCE PollRounds WITH
    Root <- {PollerTask(r) : r \in Repo},
    outstanding <- Outstanding,
    resting <- phase \notin {"polling", "joining", "woken"}

ImplementsRounds == Rounds!Spec
=============================================================================
