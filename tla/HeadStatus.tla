----------------------------- MODULE HeadStatus -----------------------------
(***************************************************************************)
(* One head (a pull request or a protected branch): the runs of Bot.run    *)
(* on it, one after the other, between the commit statuses on GitHub and   *)
(* the builds on Jenkins.                                                  *)
(*                                                                         *)
(* A run reads the head, its commits, the statuses of the last one and the *)
(* comments; then its extensions run in the order of their stage: unskip,  *)
(* backed, autocancel, jenkins-poll, skip, jenkins-canceller and           *)
(* jenkins-builder.  Each extension gathers one coroutine per job, commit  *)
(* or queued status, and each coroutine suspends at every request.  Pushes,*)
(* comments and Jenkins go on meanwhile.                                   *)
(*                                                                         *)
(* A job has one context, its name (FreestyleJob), and one stage; DRY_RUN, *)
(* builds older than two hours and the limit of 1000 statuses are left     *)
(* out.                                                                    *)
(***************************************************************************)
EXTENDS Integers, FiniteSets

CONSTANTS Job,           \* jobs of jenkins.yml
          Disabled,      \* those disabled on Jenkins
          ByLabel,       \* TRUE: pull request, commits listed by branch name;
                         \* FALSE: protected branch, commits listed by SHA
          AutoCancelOn,  \* the autocancel extension is loaded
          MaxCommit,     \* bound: commits pushed to the head
          MaxComment,    \* bound: comments with an instruction
          MaxBuild,      \* bound: builds Jenkins starts
          MaxTrouble,    \* bound: requests that fail, runs that are abandoned...
          MaxEvent       \* bound: comments and troubles together

ASSUME HeadAssumption ==
    /\ IsFiniteSet(Job) /\ Disabled \subseteq Job
    /\ ByLabel \in BOOLEAN /\ AutoCancelOn \in BOOLEAN
    /\ {MaxCommit, MaxBuild} \subseteq Nat \ {0}
    /\ {MaxComment, MaxTrouble, MaxEvent} \subseteq Nat

VARIABLES
    tip,        \* GitHub: the last commit of the branch
    gh,         \* GitHub: [commit -> [Job -> status]]
    comments,   \* GitHub: number of comments, and the orders they amount to
    items,      \* Jenkins: jobs with an item for this head in the queue
    builds,     \* Jenkins: [number -> build]
    stage,      \* the run: "idle", or what it does
    left,       \* what the extension has not started yet
    head,       \* head.sha
    last,       \* last_commit.sha
    local,      \* last_commit.statuses
    cur,        \* current.statuses
    aliased,    \* the last two are the same dict
    orders,     \* jobs_match and rebuild_failed
    found,      \* [Job -> running builds that Jenkins returned]
    work,       \* cancel_queue and poll_queue
    building,   \* jobs whose coroutine is in job.build
    guessed,    \* history: builds taken for one of head.sha without a SHA1
    overtaken,  \* history: commits pushed during a run
    troubles

github  == <<tip, gh, comments, guessed, overtaken>>
jenkins == <<items, builds>>
run     == <<stage, left, head, last, local, cur, aliased, orders, found, work, building>>
vars    == <<github, jenkins, run, troubles>>

-----------------------------------------------------------------------------
(* Statuses, told apart by state and description, with the build that      *)
(* target_url leads to (0 if none) and the number of comments when it was  *)
(* set, for updated_at.                                                    *)

Queueable  == {"Backed", "Queued"}
Successful == {"success", "Skipped", "Disabled"}
Errored    == {"failure", "aborted", "Cancelled", "QueueFailed"}
Kind       == {"none", "running"} \cup Queueable \cup Successful \cup Errored

Commits  == 1 .. MaxCommit
Builds   == 1 .. MaxBuild
Status   == [kind : Kind, build : 0 .. MaxBuild, at : 0 .. MaxComment]
Missing  == [kind |-> "none", build |-> 0, at |-> 0]

\* Faulty variant: any pending status counts as running.
IsPending(s) == s.kind \in Queueable \cup {"running"}

IsRunning(s) == s.kind = "running"

\* 'Skipped!' is not one of the descriptions that is_rebuildable knows.
IsRebuildable(s) == s.kind \in Errored \cup {"Disabled"}

\* CommitStatus.__eq__ leaves updated_at out.
Same(s, kind, build) == s.kind = kind /\ s.build = build

NoOrder == [skip |-> {}, rebuild |-> 0]

Unstarted == [job |-> "none", sha |-> 0, state |-> "none"]
Started   == {n \in Builds : builds[n].state # "none"}
IsBuilding(n) == builds[n].state \in {"cloning", "running"}

Init ==
    /\ tip = 1
    /\ gh = [c \in Commits |-> [j \in Job |-> Missing]]
    /\ comments = [count |-> 0, skip |-> {}, rebuild |-> 0]
    /\ items = {}
    /\ builds = [n \in Builds |-> Unstarted]
    /\ stage = "idle" /\ left = {}
    /\ head = 0 /\ last = 0
    /\ local = [j \in Job |-> Missing]
    /\ cur = [j \in Job |-> Missing]
    /\ aliased = TRUE
    /\ orders = NoOrder
    /\ found = [j \in Job |-> {}]
    /\ work = {} /\ building = {}
    /\ guessed = {} /\ overtaken = {}
    /\ troubles = 0

Trouble ==
    /\ troubles < MaxTrouble /\ comments.count + troubles < MaxEvent
    /\ troubles' = troubles + 1

-----------------------------------------------------------------------------
(* The world: developers and Jenkins                                       *)

Push ==
    /\ tip < MaxCommit
    /\ tip' = tip + 1
    /\ overtaken' = IF stage = "idle" THEN overtaken ELSE overtaken \cup {tip'}
    /\ UNCHANGED <<gh, comments, guessed, jenkins, run, troubles>>

\* 'jenkins: rebuild', or any mix of 'jenkins: skip' and 'jenkins: jobs'.
Comment ==
    /\ comments.count < MaxComment /\ comments.count + troubles < MaxEvent
    /\ LET n == comments.count + 1 IN
        \/ comments' = [comments EXCEPT !.count = n, !.rebuild = n]
        \/ \E jobs \in SUBSET Job \ {comments.skip} :
            comments' = [comments EXCEPT !.count = n, !.skip = jobs]
    /\ UNCHANGED <<tip, gh, guessed, overtaken, jenkins, run, troubles>>

BuildStarts(j) ==
    /\ j \in items
    /\ items' = items \ {j}
    /\ \E n \in Builds \ Started :
        /\ \A m \in Builds \ Started : n <= m
        /\ builds' = [builds EXCEPT ![n] = [job |-> j, sha |-> 0, state |-> "cloning"]]
    /\ UNCHANGED <<github, run, troubles>>

\* The build asked for a branch: it gets the commit that is last by now.
BuildClones(n) ==
    /\ builds[n].state = "cloning"
    /\ builds' = [builds EXCEPT ![n].sha = tip, ![n].state = "running"]
    /\ UNCHANGED <<github, items, run, troubles>>

BuildEnds(n) ==
    /\ builds[n].state = "running"
    /\ \E result \in {"success", "failure"} :
        builds' = [builds EXCEPT ![n].state = result]
    /\ UNCHANGED <<github, items, run, troubles>>

QueueFlushed ==
    /\ items # {} /\ Trouble
    /\ items' = {}
    /\ UNCHANGED <<github, builds, run>>

JenkinsStep ==
    \/ \E j \in Job : BuildStarts(j)
    \/ \E n \in Builds : BuildClones(n) \/ BuildEnds(n)

-----------------------------------------------------------------------------
(* Commit.maybe_update_status on last_commit, and on another Commit object *)

Set(c, j, kind, build) ==
    gh' = [gh EXCEPT ![c][j] = [kind |-> kind, build |-> build, at |-> comments.count]]

UpdatesLast(j, kind, build) ==
    IF Same(local[j], kind, build)
    THEN UNCHANGED <<gh, local, cur>>
    ELSE /\ Set(last, j, kind, build)
         /\ local' = [local EXCEPT ![j] = gh'[last][j]]
         /\ cur' = IF aliased THEN local' ELSE cur

UpdatesOther(c, j, kind, build) == Set(c, j, kind, build) /\ UNCHANGED <<local, cur>>

-----------------------------------------------------------------------------
(* Bot.run, up to the extensions                                           *)

\* Head.from_url: the payload of the head holds its SHA.
RunStarts ==
    /\ stage = "idle"
    /\ stage' = "commits"
    /\ head' = tip
    /\ UNCHANGED <<github, jenkins, left, last, local, cur, aliased, orders, found,
                   work, building, troubles>>

\* A branch lists its commits from head.sha, a pull request compares labels.
CommitsFetched ==
    /\ stage = "commits"
    /\ stage' = "statuses"
    /\ last' = IF ByLabel THEN tip ELSE head
    /\ UNCHANGED <<github, jenkins, left, head, local, cur, aliased, orders, found,
                   work, building, troubles>>

StatusesFetched ==
    /\ stage = "statuses"
    /\ stage' = "comments"
    /\ local' = gh[last]
    /\ cur' = gh[last]
    /\ aliased' = TRUE
    /\ UNCHANGED <<github, jenkins, left, head, last, orders, found, work, building,
                   troubles>>

CommentsFetched ==
    /\ stage = "comments"
    /\ stage' = "unskip"
    /\ left' = Job
    /\ orders' = [skip |-> comments.skip, rebuild |-> comments.rebuild]
    /\ UNCHANGED <<github, jenkins, head, last, local, cur, aliased, found, work,
                   building, troubles>>

\* Back to the loop; the attributes of the run are dropped.
Drops ==
    /\ stage' = "idle" /\ left' = {}
    /\ head' = 0 /\ last' = 0
    /\ local' = [j \in Job |-> Missing]
    /\ cur' = [j \in Job |-> Missing]
    /\ aliased' = TRUE
    /\ orders' = NoOrder
    /\ found' = [j \in Job |-> {}]
    /\ work' = {} /\ building' = {}
    /\ UNCHANGED <<github, jenkins>>

\* An exception, a SkipHead or a cancellation, at any await.
RunAbandoned == stage # "idle" /\ Trouble /\ Drops

\* The next extension, once every coroutine of this one is done.
ExtensionStarts(from, to, todo) ==
    /\ stage = from
    /\ left = {} /\ building = {}
    /\ stage' = to
    /\ left' = todo
    /\ UNCHANGED <<github, jenkins, head, last, local, cur, aliased, orders, found,
                   work, building, troubles>>

NextExtension ==
    \/ ExtensionStarts("unskip", "backed", Job)
    \/ ExtensionStarts("backed", "autocancel", IF AutoCancelOn THEN 1 .. last ELSE {})
    \/ ExtensionStarts("autocancel", "poll", Job)
    \/ ExtensionStarts("poll", "skip", Job)
    \/ ExtensionStarts("skip", "canceller", {})
    \/ work = {} /\ ExtensionStarts("canceller", "builder", Job)

RunEnds ==
    /\ stage = "builder" /\ left = {} /\ building = {}
    /\ Drops
    /\ UNCHANGED troubles

-----------------------------------------------------------------------------
(* The extensions, one step of one coroutine at a time                     *)

Unskips(j) ==
    /\ stage = "unskip" /\ j \in left
    /\ left' = left \ {j}
    /\ IF j \notin orders.skip /\ cur[j].kind = "Skipped"
       THEN UpdatesLast(j, "Backed", 0)
       ELSE UNCHANGED <<gh, local, cur>>
    /\ UNCHANGED <<tip, comments, guessed, overtaken, jenkins, stage, head, last, aliased, orders, found,
                   work, building, troubles>>

Backs(j) ==
    /\ stage = "backed" /\ j \in left
    /\ left' = left \ {j}
    /\ IF cur[j].kind = "none"
       THEN UpdatesLast(j, "Backed", 0)
       ELSE UNCHANGED <<gh, local, cur>>
    /\ UNCHANGED <<tip, comments, guessed, overtaken, jenkins, stage, head, last, aliased, orders, found,
                   work, building, troubles>>

\* A queued status: the commit (own: the object is last_commit), and whether
\* the build is to be stopped.
Entry(c, j, build, cancel, own) ==
    [sha |-> c, job |-> j, build |-> build, cancel |-> cancel, own |-> own,
     step |-> "read", result |-> Missing]

\* Faulty variant: the running builds of the last commit are queued for cancel.
AutoCancelsAll(c) ==
    /\ stage = "autocancel" /\ c \in left
    /\ left' = left \ {c}
    /\ work' = work \cup {Entry(c, j, gh[c][j].build, TRUE, c = last) :
                              j \in {k \in Job : IsRunning(gh[c][k])}}
    /\ local' = IF c = last THEN gh[c] ELSE local
    /\ aliased' = (aliased /\ c # last)
    /\ UNCHANGED <<github, jenkins, stage, head, last, cur, orders, found, building,
                   troubles>>

\* Faulty variant: only the builds of the older commits are queued.
AutoCancelsOld(c) ==
    /\ stage = "autocancel" /\ c \in left
    /\ left' = left \ {c}
    /\ work' = work \cup {Entry(c, j, gh[c][j].build, TRUE, FALSE) :
                              j \in {k \in Job : c # head /\ IsRunning(gh[c][k])}}
    /\ UNCHANGED <<github, jenkins, stage, head, last, local, cur, aliased, orders,
                   found, building, troubles>>

\* AutoCancelExtension.process_commit.  process_statuses gives the commit a
\* new dict: current.statuses stays with the old one.
AutoCancels(c) ==
    /\ stage = "autocancel" /\ c \in left
    /\ left' = left \ {c}
    /\ \/ /\ work' = work \cup {Entry(c, j, gh[c][j].build, c # head, c = last) :
                                   j \in {k \in Job : IsRunning(gh[c][k])}}
          /\ local' = IF c = last THEN gh[c] ELSE local
          /\ aliased' = (aliased /\ c # last)
       \/ /\ c # head             \* more than an hour old
          /\ UNCHANGED <<work, local, aliased>>
    /\ UNCHANGED <<github, jenkins, stage, head, last, cur, orders, found, building,
                   troubles>>

\* Job.fetch_builds.
PollFetches(j) ==
    /\ stage = "poll" /\ j \in left
    /\ found[j] = {}
    /\ LET running == {n \in Builds : builds[n].job = j /\ IsBuilding(n)} IN
        /\ found' = [found EXCEPT ![j] = {[build |-> n, sha |-> builds[n].sha] : n \in running}]
        /\ left' = IF running = {} THEN left \ {j} ELSE left
    /\ UNCHANGED <<github, jenkins, stage, head, last, local, cur, aliased, orders,
                   work, building, troubles>>

\* The build is one of head.sha, or has no SHA1 yet.
Ours(b) == b.sha \in {0, head}

\* A build of ours presets the status of its context.  Builds come newest first:
\* the last word is with the oldest, unless current.statuses follows the first
\* update, so that the status is not queueable any more.  A build that is not
\* ours is queued for cancel.
PollProcesses(j) ==
    LET ours    == {b \in found[j] : Ours(b)}
        presets == {b.build : b \in {x \in ours :
                        cur[j].kind \in Queueable \cup {"none"} \/ cur[j].build = x.build}}
    IN
    /\ stage = "poll" /\ found[j] # {}
    /\ left' = left \ {j}
    /\ found' = [found EXCEPT ![j] = {}]
    /\ work' = work \cup {Entry(b.sha, j, b.build, TRUE, FALSE) : b \in found[j] \ ours}
    /\ guessed' = guessed \cup {b.build : b \in {x \in ours : x.sha = 0 /\ x.build \in presets}}
    /\ \/ presets = {} /\ UNCHANGED <<gh, local, cur>>
       \/ \E n \in presets :
            /\ \A m \in presets : IF aliased THEN m <= n ELSE n <= m
            /\ UpdatesLast(j, "running", n)
    /\ UNCHANGED <<tip, comments, overtaken, jenkins, stage, head, last, aliased, orders, building,
                   troubles>>

\* Faulty variant: only what is not built yet is skipped.
SkipsPending(j) ==
    /\ stage = "skip" /\ j \in left
    /\ left' = left \ {j}
    /\ IF j \in orders.skip /\ cur[j].kind \in Queueable
       THEN UpdatesLast(j, "Skipped", 0)
       ELSE UNCHANGED <<gh, local, cur>>
    /\ UNCHANGED <<tip, comments, guessed, overtaken, jenkins, stage, head, last, aliased, orders, found,
                   work, building, troubles>>

Skips(j) ==
    /\ stage = "skip" /\ j \in left
    /\ left' = left \ {j}
    /\ IF j \in orders.skip /\ cur[j].kind \notin Successful
       THEN /\ work' = IF IsRunning(cur[j])
                       THEN work \cup {Entry(last, j, cur[j].build, TRUE, TRUE)}
                       ELSE work
            /\ UpdatesLast(j, "Skipped", 0)
       ELSE UNCHANGED <<gh, local, cur, work>>
    /\ UNCHANGED <<tip, comments, guessed, overtaken, jenkins, stage, head, last, aliased, orders, found,
                   building, troubles>>

-----------------------------------------------------------------------------
(* CancellerExtension.poll_build                                           *)

Becomes(e, step, kind, build) ==
    work' = (work \ {e}) \cup
        {[e EXCEPT !.step = step, !.result = [kind |-> kind, build |-> build, at |-> 0]]}

\* Build.from_url answers with the build, or fails.
BuildRead(e) ==
    /\ stage = "canceller" /\ e \in work /\ e.step = "read"
    /\ \/ /\ e.cancel /\ IsBuilding(e.build)
          /\ Becomes(e, "stop", "none", 0)
          /\ UNCHANGED troubles
       \/ /\ ~(e.cancel /\ IsBuilding(e.build))
          /\ Becomes(e, "push",
                     IF IsBuilding(e.build) THEN "running" ELSE builds[e.build].state,
                     e.build)
          /\ UNCHANGED troubles
       \/ Trouble /\ work' = work \ {e}
    /\ UNCHANGED <<github, jenkins, stage, left, head, last, local, cur, aliased,
                   orders, found, building>>

\* build.stop(); then the status to push depends on current.statuses.
BuildStopped(e) ==
    /\ stage = "canceller" /\ e \in work /\ e.step = "stop"
    /\ builds' = IF IsBuilding(e.build)
                 THEN [builds EXCEPT ![e.build].state = "aborted"] ELSE builds
    /\ IF cur[e.job].kind \in Successful
       THEN Becomes(e, "push", cur[e.job].kind, cur[e.job].build)
       ELSE Becomes(e, "push", "Cancelled", e.build)
    /\ UNCHANGED <<github, items, stage, left, head, last, local, cur, aliased,
                   orders, found, building, troubles>>

\* Faulty variant: every result goes to the last commit.
ResultPushedOnLast(e) ==
    /\ stage = "canceller" /\ e \in work /\ e.step = "push"
    /\ work' = work \ {e}
    /\ UpdatesLast(e.job, e.result.kind, e.result.build)
    /\ UNCHANGED <<tip, comments, guessed, overtaken, jenkins, stage, left, head, last, aliased, orders,
                   found, building, troubles>>

\* maybe_update_status on the commit of the build.
ResultPushed(e) ==
    /\ stage = "canceller" /\ e \in work /\ e.step = "push"
    /\ work' = work \ {e}
    /\ IF e.own
       THEN UpdatesLast(e.job, e.result.kind, e.result.build)
       ELSE UpdatesOther(e.sha, e.job, e.result.kind, e.result.build)
    /\ UNCHANGED <<tip, comments, guessed, overtaken, jenkins, stage, left, head, last, aliased, orders,
                   found, building, troubles>>

-----------------------------------------------------------------------------
(* BuilderExtension.process_job_spec                                       *)

\* Faulty variant: every failure is built again, whenever it occurred.
NotBuiltAnyFailure(j) ==
    \/ orders.rebuild > 0 /\ IsRebuildable(local[j])
    \/ local[j].kind \in Queueable \cup {"none"}

\* Faulty variant: failures are never built again.
NotBuiltNoFailure(j) == local[j].kind \in Queueable \cup {"none"}

\* Commit.filter_not_built_contexts.
NotBuilt(j) ==
    IF orders.rebuild > 0 /\ IsRebuildable(local[j])
    THEN local[j].at < orders.rebuild
    ELSE local[j].kind \in Queueable \cup {"none"}

NothingToBuild(j) ==
    /\ stage = "builder" /\ j \in left \ building
    /\ ~NotBuilt(j)
    /\ left' = left \ {j}
    /\ UNCHANGED <<github, jenkins, stage, head, last, local, cur, aliased, orders,
                   found, work, building, troubles>>

\* JENKINS.is_queue_empty answers no: the status waits.
QueueBusy(j) ==
    /\ stage = "builder" /\ j \in left \ building
    /\ NotBuilt(j)
    /\ Trouble
    /\ left' = left \ {j}
    /\ UpdatesLast(j, CASE j \in Disabled -> "Disabled"
                        [] j \notin Disabled /\ cur[j].kind = "Queued" -> "Queued"
                        [] OTHER -> "Backed", 0)
    /\ UNCHANGED <<tip, comments, guessed, overtaken, jenkins, stage, head, last, aliased, orders, found,
                   work, building>>

\* The queue of Jenkins is empty enough.
QueueEmpty(j) ==
    /\ stage = "builder" /\ j \in left \ building
    /\ NotBuilt(j)
    /\ IF j \in Disabled
       THEN /\ UpdatesLast(j, "Disabled", 0)
            /\ left' = left \ {j} /\ UNCHANGED building
       ELSE /\ UpdatesLast(j, "Queued", 0)
            /\ building' = building \cup {j} /\ UNCHANGED left
    /\ UNCHANGED <<tip, comments, guessed, overtaken, jenkins, stage, head, last, aliased, orders, found,
                   work, troubles>>

\* job.build: Jenkins has one item per job and parameters in its queue.
Built(j) ==
    /\ stage = "builder" /\ j \in building
    /\ items' = items \cup {j}
    /\ left' = left \ {j}
    /\ building' = building \ {j}
    /\ UNCHANGED <<github, builds, stage, head, last, local, cur, aliased, orders,
                   found, work, troubles>>

\* job.build raised, before or after Jenkins took the request.
BuildFailed(j) ==
    /\ stage = "builder" /\ j \in building
    /\ Trouble
    /\ items' \in {items, items \cup {j}}
    /\ left' = left \ {j}
    /\ building' = building \ {j}
    /\ UpdatesLast(j, "QueueFailed", 0)
    /\ UNCHANGED <<tip, comments, guessed, overtaken, builds, stage, head, last, aliased, orders, found, work>>

-----------------------------------------------------------------------------
RunStep ==
    \/ RunStarts \/ CommitsFetched \/ StatusesFetched \/ CommentsFetched
    \/ NextExtension \/ RunEnds
    \/ \E j \in Job :
        \/ Unskips(j) \/ Backs(j) \/ PollFetches(j) \/ PollProcesses(j) \/ Skips(j)
        \/ NothingToBuild(j) \/ QueueBusy(j) \/ QueueEmpty(j) \/ Built(j) \/ BuildFailed(j)
    \/ \E c \in Commits : AutoCancels(c)
    \/ \E e \in work : BuildRead(e) \/ BuildStopped(e) \/ ResultPushed(e)

Next == Push \/ Comment \/ JenkinsStep \/ QueueFlushed \/ RunStep \/ RunAbandoned

Spec == Init /\ [][Next]_vars

\* The head is polled for ever (WorkerPool shows that rounds end); Jenkins
\* starts what it queued, and builds clone and end.
Fairness ==
    /\ WF_vars(RunStep)
    /\ \A j \in Job : WF_vars(BuildStarts(j))
    /\ \A n \in Builds : WF_vars(BuildClones(n)) /\ WF_vars(BuildEnds(n))

FairSpec == Spec /\ Fairness

-----------------------------------------------------------------------------
(* Properties                                                              *)

TypeOK ==
    /\ tip \in Commits
    /\ gh \in [Commits -> [Job -> Status]]
    /\ comments \in [count : 0 .. MaxComment, skip : SUBSET Job, rebuild : 0 .. MaxComment]
    /\ items \subseteq Job
    /\ builds \in [Builds -> {Unstarted} \cup
            [job : Job, sha : 0 .. MaxCommit,
             state : {"cloning", "running", "success", "failure", "aborted"}]]
    /\ stage \in {"idle", "commits", "statuses", "comments", "unskip", "backed",
                  "autocancel", "poll", "skip", "canceller", "builder"}
    /\ left \subseteq IF stage = "autocancel" THEN Commits ELSE Job
    /\ head \in 0 .. tip /\ last \in 0 .. tip
    /\ local \in [Job -> Status] /\ cur \in [Job -> Status]
    /\ aliased \in BOOLEAN
    /\ orders \in [skip : SUBSET Job, rebuild : 0 .. MaxComment]
    /\ found \in [Job -> SUBSET [build : Builds, sha : 0 .. MaxCommit]]
    /\ \A e \in work :
        /\ e.sha \in Commits /\ e.job \in Job
        /\ e.build \in Builds      \* a running status leads to a build
        /\ e.step = "push" => e.result.kind \in Kind \ {"none"}
    /\ building \subseteq Job /\ guessed \subseteq Builds
    /\ overtaken \subseteq Commits
    /\ troubles \in 0 .. MaxTrouble

Stopped(n) == IsBuilding(n) /\ builds'[n].state = "aborted"

\* No build of the last commit is stopped unless its job is skipped, there was
\* a push during the run, or the build was taken for one of an older commit
\* when it had no SHA1 yet (core.py:55-63, extensions/jenkins.py:332-352).
CancelsJustified ==
    [][\A n \in Builds : Stopped(n) /\ builds[n].sha = tip =>
        builds[n].job \in orders.skip \/ head # tip \/ n \in guessed]_vars

\* What a commit is said to be, a build of that commit was.
Honest(c, j) ==
    gh[c][j].kind \in {"success", "failure"} =>
        builds[gh[c][j].build] = [job |-> j, sha |-> c, state |-> gh[c][j].kind]

\* The last commit does not show the result of another commit.
TipResultHonest == \A j \in Job : Honest(tip, j)

\* Only a push during a run can make the status of the last commit lie: a build
\* without SHA1, an older run, a cancel or a trouble cannot
\* (extensions/jenkins.py:134-172 and 332-352).
HonestUnlessOvertaken == tip \notin overtaken => TipResultHonest

\* A job with a result on the last commit is not pending again, so not built
\* again, except for a skip that is lifted or races with the result and, after
\* a failure, for a later rebuild instruction (repository.py:342-362).  A push
\* during the run on a pull request may mix up two commits.
ResultKept ==
    [][\A j \in Job :
        /\ tip' = tip
        /\ ByLabel => tip \notin overtaken
        /\ gh[tip][j].kind \in {"success", "failure"}
        /\ gh'[tip][j].kind \in Queueable \cup {"running"}
        => \/ j \in orders.skip
           \/ gh[tip][j].kind = "failure" /\ gh[tip][j].at < orders.rebuild]_vars

\* Once nobody pushes or comments any more, every job of the last commit gets
\* a final status, whatever failed in between; or the builds that run between
\* two polls, which no poll ever sees, use up the bound on builds.
Settles ==
    \/ <>[](\A j \in Job : gh[tip][j].kind \in Successful \cup Errored)
    \/ <>(Started = Builds)

\* A job skipped for good ends up successful, whatever was running
\* (core.py:515-534).
SkipHeard ==
    \A j \in Job : <>[](j \in comments.skip) => <>[](gh[tip][j].kind \in Successful)

\* No failure outlives a later rebuild instruction (repository.py:346-348).
RebuildHeard ==
    \A j \in Job :
        \/ <>[]~(gh[tip][j].kind \in Errored /\ gh[tip][j].at < comments.rebuild)
        \/ <>(Started = Builds)
=============================================================================
