----------------------------- MODULE ProcessUrl -----------------------------
(***************************************************************************)
(* procedures.process_url: one coroutine per queued head, at most one of   *)
(* which is meant to work on a URL.  A newcomer finds its predecessor in   *)
(* _task_map and cancels it.  Cancellation is a request: asyncio delivers  *)
(* it at the await where the coroutine is suspended, and forwards it to    *)
(* the children of a gather.  Before Python 3.8 CancelledError is an       *)
(* Exception, and BuilderExtension.process_job_spec handles any Exception  *)
(* raised by job.build as a failed build.                                  *)
(***************************************************************************)
EXTENDS Naturals, FiniteSets

CONSTANTS Run,        \* calls of process_url, each inside a task of its own
          Url,        \* URLs that the HEADS setting selects
          Child,      \* coroutines that an extension gathers, one per job
          Buildable,  \* those that reach job.build
          NoRun       \* model value: no entry in _task_map

ASSUME ProcessAssumption == Buildable \subseteq Child /\ NoRun \notin Run

VARIABLES
    pc,         \* [Run -> await where the run is suspended]
    url,        \* [Run -> its URL, once it is started]
    outcome,    \* [Run -> how it ended]
    cancelReq,  \* runs with a cancellation that is not delivered yet
    task_map,   \* [Url -> the run in _task_map]
    child,      \* [Run -> [Child -> state of the gathered coroutine]]
    swallowed,  \* history: URLs on which a cancellation was lost
    superseded  \* history: runs that a newcomer cancelled

vars == <<pc, url, outcome, cancelReq, task_map, child, swallowed, superseded>>

ChildState == {"off", "call", "build", "report", "done", "failed", "dead"}
Busy       == {"call", "build", "report"}

Live(r)     == pc[r] \notin {"idle", "done"}
Orphans(r)  == pc[r] = "done" /\ \E c \in Child : child[r][c] \in Busy
Broken(r)   == \E c \in Child : child[r][c] \in {"failed", "dead"}

\* Being cancelled: requested, or about to come back from a dead child.
Doomed(r)   == r \in cancelReq \/ (pc[r] = "gather" /\ Broken(r))

Init ==
    /\ pc = [r \in Run |-> "idle"]
    /\ url \in [Run -> Url]
    /\ outcome = [r \in Run |-> "none"]
    /\ cancelReq = {}
    /\ task_map = [u \in Url |-> NoRun]
    /\ child = [r \in Run |-> [c \in Child |-> "off"]]
    /\ swallowed = {}
    /\ superseded = {}

-----------------------------------------------------------------------------
(* Ends of a run.  Only the last lines of process_url delete the entry of  *)
(* _task_map: early returns and exceptions leave it, pointing to a task    *)
(* that is done.                                                           *)

End(r, result) ==
    /\ pc' = [pc EXCEPT ![r] = "done"]
    /\ outcome' = [outcome EXCEPT ![r] = result]
    /\ cancelReq' = cancelReq \ {r}

\* Faulty variant: a finally clause deletes the entry on every way out.
LeavesDeleting(r, result) ==
    /\ End(r, result)
    /\ task_map' = [task_map EXCEPT ![url[r]] = NoRun]
    /\ UNCHANGED <<url, child, swallowed, superseded>>

Leaves(r, result) ==
    /\ End(r, result)
    /\ UNCHANGED <<url, task_map, child, swallowed, superseded>>

\* del _task_map[url] deletes the entry whoever it belongs to.
Cleans(r) ==
    /\ End(r, IF task_map[url[r]] = NoRun THEN "KeyError" ELSE "returned")
    /\ task_map' = [task_map EXCEPT ![url[r]] = NoRun]
    /\ UNCHANGED <<url, child, swallowed, superseded>>

Resumes(r, from) == pc[r] = from /\ r \notin cancelReq

Goes(r, to) ==
    /\ pc' = [pc EXCEPT ![r] = to]
    /\ UNCHANGED <<url, outcome, cancelReq, task_map, child, swallowed, superseded>>

-----------------------------------------------------------------------------
(* The body of process_url                                                 *)

\* The task that r cancels: the one in _task_map, unless it is done.
Predecessor(r) == {p \in Run : task_map[url[r]] = p /\ Live(p)}

\* Faulty variant: the predecessor is left alone.
SupersedesNothing(r) == UNCHANGED <<cancelReq, superseded>>

Supersedes(r) ==
    /\ cancelReq' = cancelReq \cup Predecessor(r)
    /\ superseded' = superseded \cup Predecessor(r)

\* Up to the first await: cancel the predecessor and take its place.
Start(r) ==
    /\ pc[r] = "idle"
    /\ Supersedes(r)
    /\ task_map' = [task_map EXCEPT ![url[r]] = r]
    /\ pc' = [pc EXCEPT ![r] = "throttle"]
    /\ UNCHANGED <<url, outcome, child, swallowed>>

Throttled(r) == Resumes(r, "throttle") /\ (Goes(r, "from_url") \/ Leaves(r, "failed"))

\* No such head, unmanaged repository, or an exception.
HeadFetched(r) ==
    /\ Resumes(r, "from_url")
    /\ Goes(r, "settings") \/ Leaves(r, "returned") \/ Leaves(r, "failed")

\* Write access denied, or an exception.
SettingsLoaded(r) ==
    /\ Resumes(r, "settings")
    /\ Goes(r, "bot") \/ Leaves(r, "returned") \/ Leaves(r, "failed")

\* Bot.run up to an extension that gathers one coroutine per job; or an
\* extension skips the head and Bot.run returns; or something raises.
Gathers(r) ==
    /\ Resumes(r, "bot")
    /\ \/ /\ pc' = [pc EXCEPT ![r] = "gather"]
          /\ child' = [child EXCEPT ![r] = [c \in Child |-> "call"]]
          /\ UNCHANGED <<url, outcome, cancelReq, task_map, swallowed, superseded>>
       \/ Cleans(r)
       \/ Leaves(r, "failed")

\* asyncio.gather is over: every child is done, or one of them raised and the
\* others go on by themselves.
GatherReturns(r) ==
    /\ Resumes(r, "gather")
    /\ \A c \in Child : child[r][c] = "done"
    /\ Goes(r, "last")

\* Faulty variant: the death of a child is not an exception of the gather.
GatherRaisesOnFailure(r) ==
    /\ Resumes(r, "gather")
    /\ \E c \in Child : child[r][c] = "failed"
    /\ Leaves(r, "failed")

GatherRaises(r) ==
    /\ Resumes(r, "gather")
    /\ Broken(r)
    /\ Leaves(r, IF \E c \in Child : child[r][c] = "failed" THEN "failed" ELSE "cancelled")

\* The last extensions, then the end of process_url.
Finishes(r) == Resumes(r, "last") /\ (Cleans(r) \/ Leaves(r, "failed"))

-----------------------------------------------------------------------------
(* Delivery of a cancellation                                              *)

\* At a plain await, or at a gather that is over, CancelledError goes up
\* through process_url.
CancelDelivered(r) ==
    /\ r \in cancelReq
    /\ \/ pc[r] # "gather"
       \/ Broken(r)
       \/ \A c \in Child : child[r][c] = "done"
    /\ Leaves(r, "cancelled")

\* Faulty variant: the children are shielded from the cancellation.
CancelShielded(r) ==
    /\ r \in cancelReq
    /\ pc[r] = "gather" /\ ~Broken(r)
    /\ \E c \in Child : child[r][c] \in Busy
    /\ cancelReq' = cancelReq \ {r}
    /\ UNCHANGED <<pc, url, outcome, task_map, child, swallowed, superseded>>

\* At a gather that is waiting, every unfinished child is cancelled instead:
\* it dies, except in job.build, where the handler takes CancelledError for a
\* build failure and reports it.  If no child dies the run never knows.
CancelForwarded(r) ==
    /\ r \in cancelReq
    /\ pc[r] = "gather" /\ ~Broken(r)
    /\ \E c \in Child : child[r][c] \in Busy
    /\ child' = [child EXCEPT ![r] =
                    [c \in Child |-> CASE @[c] \in {"call", "report"} -> "dead"
                                       [] @[c] = "build" -> "report"
                                       [] OTHER -> @[c]]]
    /\ swallowed' = IF \E c \in Child : child'[r][c] = "dead"
                    THEN swallowed ELSE swallowed \cup {url[r]}
    /\ cancelReq' = cancelReq \ {r}
    /\ UNCHANGED <<pc, url, outcome, task_map, superseded>>

-----------------------------------------------------------------------------
(* BuilderExtension.process_job_spec, for one job                          *)

ChildGoes(r, c, to) ==
    /\ child' = [child EXCEPT ![r][c] = to]
    /\ UNCHANGED <<pc, url, outcome, cancelReq, task_map, swallowed, superseded>>

\* The queue of Jenkins is read and the contexts are set to Queued.
ChildCalled(r, c) ==
    /\ child[r][c] = "call"
    /\ \/ ChildGoes(r, c, IF c \in Buildable THEN "build" ELSE "done")
       \/ ChildGoes(r, c, "failed")

ChildBuilt(r, c) ==
    /\ child[r][c] = "build"
    /\ ChildGoes(r, c, "done") \/ ChildGoes(r, c, "report")

ChildReported(r, c) ==
    /\ child[r][c] = "report"
    /\ ChildGoes(r, c, "done") \/ ChildGoes(r, c, "failed")

-----------------------------------------------------------------------------
Advance(r) ==
    \/ Throttled(r) \/ HeadFetched(r) \/ SettingsLoaded(r)
    \/ Gathers(r) \/ GatherReturns(r) \/ GatherRaises(r) \/ Finishes(r)
    \/ CancelDelivered(r) \/ CancelForwarded(r)

ChildStep(r, c) == ChildCalled(r, c) \/ ChildBuilt(r, c) \/ ChildReported(r, c)

Next ==
    \/ \E r \in Run : Start(r) \/ Advance(r)
    \/ \E r \in Run : \E c \in Child : ChildStep(r, c)

Spec == Init /\ [][Next]_vars

\* Every await ends: GitHub and Jenkins answer or the request raises.
Fairness ==
    /\ \A r \in Run : WF_vars(Advance(r))
    /\ \A r \in Run : \A c \in Child : WF_vars(ChildStep(r, c))

FairSpec == Spec /\ Fairness

-----------------------------------------------------------------------------
(* Properties                                                              *)

TypeOK ==
    /\ pc \in [Run -> {"idle", "throttle", "from_url", "settings", "bot",
                       "gather", "last", "done"}]
    /\ url \in [Run -> Url]
    /\ outcome \in [Run -> {"none", "returned", "failed", "cancelled", "KeyError"}]
    /\ cancelReq \subseteq Run
    /\ task_map \in [Url -> Run \cup {NoRun}]
    /\ child \in [Run -> [Child -> ChildState]]
    /\ swallowed \subseteq Url
    /\ superseded \subseteq Run

\* Nothing but a cancellation lost in job.build (extensions/jenkins.py:101)
\* breaks exclusivity, so that of two runs on a URL one is being cancelled
\* (procedures.py:66-71, test_process_url_exclusive): early returns, exceptions, stale
\* entries of _task_map and other URLs do not.
ExclusiveUntilSwallowed ==
    \A a, b \in Run :
        a # b /\ Live(a) /\ Live(b) /\ url[a] = url[b]
            => Doomed(a) \/ Doomed(b) \/ url[a] \in swallowed

\* The entry that a run deletes last (procedures.py:97) is its own, and is
\* there, as long as no cancellation was lost on its URL.
OwnEntryUntilSwallowed ==
    \A r \in Run :
        /\ Live(r) /\ ~Doomed(r) /\ url[r] \notin swallowed
            => task_map[url[r]] = r
        /\ outcome[r] = "KeyError" => url[r] \in swallowed

\* A superseded run (procedures.py:70) does not get to the end of
\* process_url, so it neither merges nor reports, unless its cancellation is
\* lost.
SupersededNeverReturns ==
    \A r \in superseded :
        outcome[r] \in {"returned", "KeyError"} => url[r] \in swallowed

\* Every run ends, and so do the children it left behind.
RunsEnd == \A r \in Run : Live(r) ~> pc[r] = "done" /\ ~Orphans(r)
=============================================================================
