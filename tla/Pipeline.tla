------------------------------ MODULE Pipeline ------------------------------
(***************************************************************************)
(* The stages of the pipeline of several heads whose jenkins.yml define    *)
(* jobs on one Jenkins: CreateJobsExtension, StagesExtension, the part of  *)
(* Backed and Builder that posts statuses, and the merge at the end.       *)
(*                                                                         *)
(* A job has the set of its values of an axis, one for a job without axes, *)
(* and Jenkins has at most one definition of it, that all heads share.  A  *)
(* context is a job and a value.  A head has one commit here; HeadStatus   *)
(* has the pushes, and the builds, which are reduced to the statuses they  *)
(* post.                                                                   *)
(***************************************************************************)
EXTENDS Integers

CONSTANTS Head,       \* heads
          Job,        \* job names
          Spec,       \* [Head -> [Job -> values in jenkins.yml, {} if absent]]
          Stages,     \* number of stages in STAGES
          StageOf,    \* [Job -> rank of its stage in STAGES]
          Here,       \* [Head -> jobs whose 'branches' match the head]
          Periodic,   \* jobs with a schedule, never queued
          MaxRefresh, \* bound: comments with 'jenkins: refresh-jobs'
          MaxTrouble  \* bound: requests that fail, builds that fail

ASSUME PipelineAssumption ==
    /\ Stages \in Nat /\ StageOf \in [Job -> 1 .. Stages] /\ Periodic \subseteq Job
    /\ DOMAIN Spec = Head /\ DOMAIN Here = Head
    /\ {MaxRefresh, MaxTrouble} \subseteq Nat
    /\ \A h \in Head : DOMAIN Spec[h] = Job /\ Here[h] \subseteq Job

VARIABLES
    def,      \* Jenkins: [Job -> values of its definition, Missing]
    status,   \* GitHub: [Head -> [context -> state]]
    merged,   \* GitHub: heads that were merged
    due,      \* [Head -> jobs of Jenkins older than its last refresh-jobs]
    pc,       \* [Head -> "idle", or the extension of its run]
    green,    \* [Head -> contexts that are a success in current.statuses]
    jobs,     \* [Head -> [Job -> values in current.jobs, Missing]]
    renew,    \* [Head -> jobs older than current.refresh_jobs]
    left,     \* [Head -> coroutines of the extension: jobs to fetch, post, read]
    clash,    \* history: jobs that could not be written, or lost values of a head
    raced,    \* history: heads with a success since their run read the statuses
    refreshes, troubles

vars == <<def, status, merged, due, pc, green, jobs, renew, left, clash, raced,
          refreshes, troubles>>

Missing == {}
Own == [h \in Head |-> {j \in Job : Spec[h][j] # {}}]
Context == [h \in Head |-> UNION {{j} \X Spec[h][j] : j \in Job}]

NoRun(h) ==
    /\ pc' = [pc EXCEPT ![h] = "idle"]
    /\ green' = [green EXCEPT ![h] = {}]
    /\ jobs' = [jobs EXCEPT ![h] = [j \in Job |-> Missing]]
    /\ renew' = [renew EXCEPT ![h] = {}]
    /\ left' = [left EXCEPT ![h] = {}]
    /\ raced' = raced \ {h}

Init ==
    /\ def = [j \in Job |-> Missing]
    /\ status = [h \in Head |-> [c \in Context[h] |-> "none"]]
    /\ merged = {}
    /\ pc = [h \in Head |-> "idle"]
    /\ green = [h \in Head |-> {}]
    /\ jobs = [h \in Head |-> [j \in Job |-> Missing]]
    /\ left = [h \in Head |-> {}]
    /\ due = [h \in Head |-> {}] /\ renew = [h \in Head |-> {}]
    /\ clash = {} /\ raced = {}
    /\ refreshes = 0 /\ troubles = 0

Trouble == troubles < MaxTrouble /\ troubles' = troubles + 1

-----------------------------------------------------------------------------
(* Builds, and periodic jobs, post statuses                                *)

Success(h) == {c \in Context[h] : status[h][c] = "success"}

Succeeds(h, c) ==
    /\ \/ status[h][c] = "pending"
       \/ c[1] \in Periodic /\ status[h][c] = "none" /\ def[c[1]] # Missing
    /\ status' = [status EXCEPT ![h][c] = "success"]
    /\ raced' = IF pc[h] = "idle" THEN raced ELSE raced \cup {h}
    /\ UNCHANGED <<def, merged, due, pc, green, jobs, renew, left, clash, refreshes, troubles>>

Fails(h, c) ==
    /\ status[h][c] = "pending" /\ Trouble
    /\ status' = [status EXCEPT ![h][c] = "failure"]
    /\ UNCHANGED <<def, merged, due, pc, green, jobs, renew, left, clash, raced, refreshes>>

Refresh(h) ==
    /\ refreshes < MaxRefresh /\ h \notin merged
    /\ refreshes' = refreshes + 1
    /\ due' = [due EXCEPT ![h] = {j \in Own[h] : def[j] # Missing}]
    /\ UNCHANGED <<def, status, merged, pc, green, jobs, renew, left, clash, raced, troubles>>

-----------------------------------------------------------------------------
(* CreateJobsExtension                                                     *)

\* Faulty variant: what is reported counts as a success.
RunStartsReported(h) ==
    /\ pc[h] = "idle" /\ h \notin merged
    /\ pc' = [pc EXCEPT ![h] = "fetch"]
    /\ green' = [green EXCEPT ![h] = {c \in Context[h] : status[h][c] # "none"}]
    /\ left' = [left EXCEPT ![h] = Own[h]]
    /\ renew' = [renew EXCEPT ![h] = due[h]]
    /\ UNCHANGED <<def, status, merged, due, jobs, clash, raced, refreshes, troubles>>

\* Bot.run reads the statuses, then the comments.
RunStarts(h) ==
    /\ pc[h] = "idle" /\ h \notin merged
    /\ pc' = [pc EXCEPT ![h] = "fetch"]
    /\ green' = [green EXCEPT ![h] = Success(h)]
    /\ left' = [left EXCEPT ![h] = Own[h]]
    /\ renew' = [renew EXCEPT ![h] = due[h]]
    /\ UNCHANGED <<def, status, merged, due, jobs, clash, raced, refreshes, troubles>>

\* Faulty variant: a job that has all values is not refreshed.
JobFetchedComplete(h, j) ==
    /\ pc[h] = "fetch" /\ j \in left[h]
    /\ jobs' = [jobs EXCEPT ![h][j] = def[j]]
    /\ renew' = IF j \in due[h] /\ ~ Spec[h][j] \subseteq def[j]
                THEN renew ELSE [renew EXCEPT ![h] = @ \ {j}]
    /\ left' = [left EXCEPT ![h] = @ \ {j}]
    /\ UNCHANGED <<def, status, merged, due, pc, green, clash, raced, refreshes, troubles>>

JobFetched(h, j) ==
    /\ pc[h] = "fetch" /\ j \in left[h]
    /\ jobs' = [jobs EXCEPT ![h][j] = def[j]]
    /\ renew' = IF j \in due[h] THEN renew ELSE [renew EXCEPT ![h] = @ \ {j}]
    /\ left' = [left EXCEPT ![h] = @ \ {j}]
    /\ UNCHANGED <<def, status, merged, due, pc, green, clash, raced, refreshes, troubles>>

\* Faulty variant: missing jobs are not created.
ToWriteKnown(h) ==
    {j \in Own[h] : jobs[h][j] # Missing /\ (j \in renew[h] \/ ~ Spec[h][j] \subseteq jobs[h][j])}

\* process_job_specs: what is missing, incomplete or to be refreshed.
ToWrite(h) == {j \in Own[h] : j \in renew[h] \/ ~ Spec[h][j] \subseteq jobs[h][j]}

JobsFetched(h) ==
    /\ pc[h] = "fetch" /\ left[h] = {}
    /\ pc' = [pc EXCEPT ![h] = "post"]
    /\ left' = [left EXCEPT ![h] = {"post"} \X ToWrite(h)]
    /\ UNCHANGED <<def, status, merged, due, green, jobs, renew, clash, raced, refreshes,
                   troubles>>

Done(h, step) == left' = [left EXCEPT ![h] = @ \ {step}]
Then(h, step, next) == left' = [left EXCEPT ![h] = (@ \ {step}) \cup {next}]

\* Faulty variant: the definition of this head replaces the one on Jenkins.
Replaced(h, j) == Spec[h][j]

\* current_job.spec.merge(spec), with the definition that was fetched, unless it
\* is a refresh of a job that has all values.
Written(h, j) == IF Spec[h][j] \subseteq jobs[h][j] THEN Spec[h][j]
                 ELSE jobs[h][j] \cup Spec[h][j]

Taken(h, j) == jobs[h][j] = Missing /\ def[j] # Missing

\* JENKINS.create_job and job.update: a POST.  Jenkins refuses to create a job
\* that another head has created since.
JobPosted(h, j) ==
    /\ pc[h] = "post" /\ <<"post", j>> \in left[h] /\ ~Taken(h, j)
    /\ def' = [def EXCEPT ![j] = Written(h, j)]
    /\ clash' = IF def[j] \subseteq Written(h, j) THEN clash ELSE clash \cup {j}
    /\ due' = [g \in Head |-> due[g] \ {j}]
    /\ Then(h, <<"post", j>>, <<"read", j>>)
    /\ UNCHANGED <<status, merged, pc, green, jobs, renew, raced, refreshes, troubles>>

\* process_error, after one of the two requests: current.jobs stays as it was.
JobFailed(h, j) ==
    /\ pc[h] = "post"
    /\ \E request \in {"post", "read"} :
        /\ <<request, j>> \in left[h]
        /\ \/ request = "post" /\ Taken(h, j) /\ UNCHANGED troubles
           \/ Trouble
        /\ Done(h, <<request, j>>)
    /\ clash' = clash \cup {j}
    /\ UNCHANGED <<def, status, merged, due, pc, green, jobs, renew, raced, refreshes>>

\* aget_job, after the POST; then 'Created!' for a periodic job.
JobReadBack(h, j) ==
    /\ pc[h] = "post" /\ <<"read", j>> \in left[h]
    /\ jobs' = [jobs EXCEPT ![h][j] = def[j]]
    /\ status' = [status EXCEPT ![h] = [c \in Context[h] |->
                    IF c[1] = j /\ j \in Periodic THEN "success" ELSE @[c]]]
    /\ Done(h, <<"read", j>>)
    /\ UNCHANGED <<def, merged, due, pc, green, renew, clash, raced, refreshes, troubles>>

-----------------------------------------------------------------------------
(* StagesExtension and what it leaves to the next ones                     *)

\* job.list_contexts: Jenkins runs the combinations it has.
Listed(h, j) == {j} \X (Spec[h][j] \cap jobs[h][j])

\* Stage.is_complete: missing jobs are passed over, those of other branches not.
IsComplete(h, n) == \A j \in Own[h] : StageOf[j] = n => Listed(h, j) \subseteq green[h]

\* The first stage that is not complete, or else the last one.
IsCurrent(h, n) ==
    /\ \A j \in Own[h] : StageOf[j] < n => IsComplete(h, StageOf[j])
    /\ ~IsComplete(h, n) \/ \A j \in Own[h] : StageOf[j] <= n

\* Faulty variant: the jobs of the stages to come are built too.
JobSpecsFromHere(h) == {j \in Own[h] \cap Here[h] : ~IsComplete(h, StageOf[j])} \ Periodic

JobSpecs(h) == {j \in Own[h] \cap Here[h] : IsCurrent(h, StageOf[j])} \ Periodic

StageChosen(h) ==
    /\ pc[h] = "post" /\ left[h] = {}
    /\ IF \E j \in JobSpecs(h) : jobs[h][j] = Missing
       THEN NoRun(h)              \* KeyError in BackedExtension
       ELSE /\ pc' = [pc EXCEPT ![h] = "build"]
            /\ left' = [left EXCEPT ![h] = JobSpecs(h)]
            /\ UNCHANGED <<green, jobs, renew, raced>>
    /\ UNCHANGED <<def, status, merged, due, clash, refreshes, troubles>>

\* BackedExtension, then BuilderExtension, in short: a context without status
\* gets a pending one.
JobQueued(h, j) ==
    /\ pc[h] = "build" /\ j \in left[h]
    /\ status' = [status EXCEPT ![h] = [c \in Context[h] |->
                    IF c \in Listed(h, j) /\ @[c] = "none" THEN "pending" ELSE @[c]]]
    /\ Done(h, j)
    /\ UNCHANGED <<def, merged, due, pc, green, jobs, renew, clash, raced, refreshes, troubles>>

\* Faulty variant: pending statuses do not hold the merge back.
ReportedDone(h) == {c \in Context[h] : status[h][c] \in {"success", "failure"}}

Reported(h) == {c \in Context[h] : status[h][c] # "none"}

\* MergerExtension on an acknowledged pull request: the combined status is the
\* one of what is reported by then.
RunEnds(h) ==
    /\ pc[h] = "build" /\ left[h] = {}
    /\ merged' = IF Reported(h) # {} /\ Reported(h) \subseteq Success(h)
                 THEN merged \cup {h} ELSE merged
    /\ NoRun(h)
    /\ UNCHANGED <<def, status, due, clash, refreshes, troubles>>

-----------------------------------------------------------------------------
RunStep(h) ==
    \/ RunStarts(h) \/ JobsFetched(h) \/ StageChosen(h) \/ RunEnds(h)
    \/ \E j \in Job :
        \/ JobFetched(h, j) \/ JobPosted(h, j) \/ JobFailed(h, j) \/ JobReadBack(h, j)
        \/ JobQueued(h, j)

Next == \E h \in Head :
    RunStep(h) \/ Refresh(h) \/ \E c \in Context[h] : Succeeds(h, c) \/ Fails(h, c)

Behaviour == Init /\ [][Next]_vars

\* Every head is polled for ever; builds end, periodic jobs run.
Fairness ==
    \A h \in Head :
        WF_vars(RunStep(h)) /\ \A c \in Context[h] : WF_vars(Succeeds(h, c))

FairSpec == Behaviour /\ Fairness

-----------------------------------------------------------------------------
(* Properties                                                              *)

TypeOK ==
    /\ \A j \in Job : def[j] \subseteq UNION {Spec[h][j] : h \in Head}
    /\ \A h \in Head :
        /\ status[h] \in [Context[h] -> {"none", "pending", "success", "failure"}]
        /\ pc[h] \in {"idle", "fetch", "post", "build"}
        /\ green[h] \subseteq Success(h)      \* a success stays
        /\ \A j \in Job : jobs[h][j] # Missing => def[j] # Missing
    /\ merged \subseteq Head /\ raced \subseteq Head /\ clash \subseteq Job
    /\ refreshes \in 0 .. MaxRefresh /\ troubles \in 0 .. MaxTrouble

Earlier(h, j) == {e \in Context[h] : StageOf[e[1]] < StageOf[j]}

\* "No jobs are triggered if the previous stage has a missing or failed build."
\* (doc/yml.rst:94): it takes a job that Jenkins refused, or that another head
\* overwrote or refreshed, to start a stage before the previous ones succeeded
\* (extensions/jenkins.py:387-458).
PipelineOrder ==
    [][\A h \in Head : \A c \in Context[h] :
        status[h][c] = "none" /\ status'[h][c] = "pending" =>
            \A e \in Earlier(h, c[1]) : e \in Success(h) \/ e[1] \in clash]_vars

\* A job of the stage that the run builds nothing for had no success when the run
\* read the statuses, and those that it builds succeeded.
HeldUp(h) ==
    /\ \E c \in Context[h] \ green[h] :
        IsCurrent(h, StageOf[c[1]]) /\ (c[1] \notin Here[h] \/ c[1] \in Periodic)
    /\ \A c \in Context[h] : c[1] \in JobSpecs(h) => c \in Success(h)

\* The combined status knows nothing of the stages to come: a head is merged
\* before they ran only if its stage succeeded between the read of the statuses
\* and the merge, if a job of other branches or a periodic job holds the stage up,
\* or after a clash (extensions/jenkins.py:429-458, core.py:288).
MergedComplete ==
    [][\A h \in merged' \ merged :
        Context[h] \subseteq Success(h) \/ h \in raced \/ HeldUp(h) \/ clash # {}]_vars

\* Heads that write one job at once lose updates, and end up with a definition
\* that has the values of all (extensions/jenkins.py:215-234).
SpecsConverge == <>[](\A h \in Head \ merged : \A j \in Job : Spec[h][j] \subseteq def[j])

\* A refresh is heard, whatever fails or is written meanwhile
\* (extensions/jenkins.py:222-227).
RefreshHeard == \A h \in Head : <>[](due[h] = {} \/ h \in merged)

\* What the comments and the jenkins.yml of all heads ask of Jenkins is done.
JobsSettle == SpecsConverge /\ RefreshHeard

\* Every job is built, and stage after stage succeeds, unless a build failed, or
\* a stage holds a job of other branches, which blocks those after it.
StagesProgress ==
    \A h \in Head :
        \/ <>(h \in merged \/ Context[h] \subseteq Success(h))
        \/ <>(\E c \in Context[h] : status[h][c] = "failure")
        \/ ~ Own[h] \subseteq Here[h]
=============================================================================
