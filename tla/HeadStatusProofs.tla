-------------------------- MODULE HeadStatusProofs --------------------------
(* What the runs on one head guarantee for any number of jobs, commits,      *)
(* builds, comments and troubles: only a push during a run can make the      *)
(* status of the last commit lie, builds of the last commit are stopped for  *)
(* the known reasons only, and a job with a result is not built again.       *)
EXTENDS HeadStatus, TLAPS

-----------------------------------------------------------------------------
(* The inductive invariant, in four layers: what leads where, who speaks of  *)
(* the last commit, what is stopped, and what the run knows of GitHub.       *)

Past   == stage \notin {"idle", "commits"}               \* last is read
Loaded == stage \notin {"idle", "commits", "statuses"}   \* so are its statuses
Final  == {"success", "failure"}

Task == [sha : Commits, job : Job, build : Builds, cancel : BOOLEAN, own : BOOLEAN,
         step : {"read", "stop", "push"}, result : Status]

Typed == TypeOK /\ work \subseteq Task

\* What a run has at which stage.
Placed ==
    /\ stage # "idle" => head # 0
    /\ Past => last # 0 /\ head <= last
    /\ stage = "autocancel" => left \subseteq 1 .. last
    /\ stage \notin {"autocancel", "poll", "skip", "canceller"} => work = {}
    /\ \A j \in Job : found[j] # {} => stage = "poll" /\ j \in left
    /\ \A e \in work : e.own => e.sha = last

\* A build knows its commit once it runs, and that one was pushed before.
Sound(n) ==
    /\ builds[n].sha <= tip
    /\ builds[n].state = "cloning" => builds[n].sha = 0
    /\ builds[n].state \in {"running"} \cup Final => builds[n].sha # 0

Of(n, j) == n \in Builds /\ builds[n].state # "none" /\ builds[n].job = j

\* A status leads to a build of its job, and to one that is over if it is final.
Good(s, j) ==
    s.kind \in {"running"} \cup Final =>
        Of(s.build, j) /\ (s.kind \in Final => ~IsBuilding(s.build))

Known(b, j) == Of(b.build, j) /\ (b.sha # 0 => b.sha = builds[b.build].sha)

\* A queued status too; nothing that was to be cancelled is said to be running.
Follows(e) ==
    /\ Of(e.build, e.job)
    /\ e.step = "push" =>
        /\ e.result.kind \notin {"none"} \cup Queueable
        /\ Good(e.result, e.job)
        /\ e.result.kind = "running" => ~e.cancel /\ e.result.build = e.build

Leads ==
    /\ \A n \in Builds : Sound(n)
    /\ \A c \in Commits, j \in Job : Good(gh[c][j], j)
    /\ \A j \in Job : Good(local[j], j) /\ Good(cur[j], j)
    /\ \A j \in Job : \A b \in found[j] : Known(b, j)
    /\ \A e \in work : Follows(e)

Basic == Typed /\ Placed /\ Leads

-----------------------------------------------------------------------------
(* Constants and types                                                      *)

LEMMA Constants ==
  /\ MaxCommit \in Nat \ {0} /\ MaxBuild \in Nat \ {0}
  /\ MaxComment \in Nat /\ MaxTrouble \in Nat
  /\ Disabled \subseteq Job /\ ByLabel \in BOOLEAN
  BY HeadAssumption

LEMMA Kinds ==
  /\ Queueable \subseteq Kind /\ Successful \subseteq Kind /\ Errored \subseteq Kind
  /\ "none" \in Kind /\ "running" \in Kind /\ "failure" \in Kind /\ "success" \in Kind
  /\ Final \subseteq Kind
  BY DEF Kind, Queueable, Successful, Errored, Final

LEMMA MissingStatus == Missing \in Status /\ Missing.kind = "none"
  BY Constants, Kinds DEF Missing, Status

\* A step of Jenkins: builds move on, and keep their job and their commit.
Grows ==
    /\ builds' \in [Builds -> {Unstarted} \cup
            [job : Job, sha : 0 .. MaxCommit,
             state : {"cloning", "running", "success", "failure", "aborted"}]]
    /\ \A n \in Builds : Sound(n)'
    /\ \A n \in Builds : builds[n].state # "none" =>
        /\ builds'[n].state # "none" /\ builds'[n].job = builds[n].job
        /\ builds[n].sha # 0 => builds'[n].sha = builds[n].sha
        /\ builds[n].sha = 0 => builds'[n].sha \in {0, tip}
        /\ ~IsBuilding(n) => builds'[n] = builds[n]

\* What maybe_update_status may change: one context of one commit.
Writes(c, j, kind, build) ==
    /\ gh' \in [Commits -> [Job -> Status]]
    /\ local' \in [Job -> Status] /\ cur' \in [Job -> Status]
    /\ \A d \in Commits, i \in Job :
        \/ gh'[d][i] = gh[d][i]
        \/ d = c /\ i = j /\ gh'[d][i].kind = kind /\ gh'[d][i].build = build
    /\ \A i \in Job :
        \/ local'[i] = local[i]
        \/ c = last /\ i = j /\ local'[i].kind = kind /\ local'[i].build = build
    /\ \A i \in Job : cur'[i] = cur[i] \/ (aliased /\ cur'[i] = local'[i])

LEMMA UpdateLast ==
  ASSUME Typed, last \in Commits, NEW j \in Job, NEW kind \in Kind, NEW build \in 0 .. MaxBuild,
         UpdatesLast(j, kind, build)
  PROVE  Writes(last, j, kind, build)
<1> DEFINE s == [kind |-> kind, build |-> build, at |-> comments.count]
<1>1. /\ gh \in [Commits -> [Job -> Status]] /\ local \in [Job -> Status]
      /\ cur \in [Job -> Status] /\ aliased \in BOOLEAN
      /\ s \in Status /\ s.kind = kind /\ s.build = build
  BY DEF Typed, TypeOK, Status
<1>2. CASE UNCHANGED <<gh, local, cur>>
  BY <1>1, <1>2 DEF Writes
<1>3. CASE /\ Set(last, j, kind, build)
           /\ local' = [local EXCEPT ![j] = gh'[last][j]]
           /\ cur' = IF aliased THEN local' ELSE cur
  <2>1. gh' = [gh EXCEPT ![last] = [gh[last] EXCEPT ![j] = s]]
    BY <1>3 DEF Set
  <2> HIDE DEF s
  <2>2. gh[last] \in [Job -> Status] /\ [gh[last] EXCEPT ![j] = s] \in [Job -> Status]
    BY <1>1
  <2>3. gh' \in [Commits -> [Job -> Status]] /\ gh'[last] = [gh[last] EXCEPT ![j] = s]
    BY <1>1, <2>1, <2>2
  <2>4. local' = [local EXCEPT ![j] = s]
    BY <1>3, <2>2, <2>3
  <2>5. \A d \in Commits, i \in Job : gh'[d][i] = gh[d][i] \/ (d = last /\ i = j /\ gh'[d][i] = s)
    BY <1>1, <2>1, <2>2, <2>3
  <2>6. local' \in [Job -> Status] /\ \A i \in Job : local'[i] = local[i] \/ (i = j /\ local'[i] = s)
    BY <1>1, <2>4
  <2>7. cur' \in [Job -> Status] /\ \A i \in Job : cur'[i] = cur[i] \/ (aliased /\ cur'[i] = local'[i])
    BY <1>1, <1>3, <2>6
  <2> QED
    BY <1>1, <2>3, <2>5, <2>6, <2>7 DEF Writes
<1> QED
  BY <1>2, <1>3 DEF UpdatesLast

LEMMA UpdateOther ==
  ASSUME Typed, NEW c \in Commits, NEW j \in Job, NEW kind \in Kind,
         NEW build \in 0 .. MaxBuild, UpdatesOther(c, j, kind, build)
  PROVE  Writes(c, j, kind, build)
<1> DEFINE s == [kind |-> kind, build |-> build, at |-> comments.count]
<1>1. /\ gh \in [Commits -> [Job -> Status]] /\ local \in [Job -> Status]
      /\ cur \in [Job -> Status] /\ s \in Status /\ s.kind = kind /\ s.build = build
      /\ UNCHANGED <<local, cur>>
  BY DEF Typed, TypeOK, Status, UpdatesOther
<1>2. gh' = [gh EXCEPT ![c] = [gh[c] EXCEPT ![j] = s]]
  BY DEF UpdatesOther, Set
<1> HIDE DEF s
<1>3. gh[c] \in [Job -> Status] /\ [gh[c] EXCEPT ![j] = s] \in [Job -> Status]
  BY <1>1
<1>4. gh' \in [Commits -> [Job -> Status]] /\ gh'[c] = [gh[c] EXCEPT ![j] = s]
  BY <1>1, <1>2, <1>3
<1>5. \A d \in Commits, i \in Job : gh'[d][i] = gh[d][i] \/ (d = c /\ i = j /\ gh'[d][i] = s)
  BY <1>1, <1>2, <1>3, <1>4
<1> QED
  BY <1>1, <1>4, <1>5 DEF Writes

-----------------------------------------------------------------------------
(* Builds                                                                   *)

LEMMA NoGrowth ==
  ASSUME Basic, UNCHANGED builds, tip' \in Commits, tip' >= tip
  PROVE  Grows
<1>1. tip \in Nat /\ tip' \in Nat /\ \A n \in Builds : builds[n].sha \in Nat
  BY Constants DEF Basic, Typed, TypeOK, Commits, Unstarted
<1>2. \A n \in Builds : Sound(n)'
  BY <1>1 DEF Basic, Leads, Sound
<1> QED
  BY <1>2 DEF Grows, Basic, Typed, TypeOK

LEMMA StillBuilds ==
  ASSUME Basic, UNCHANGED <<tip, builds>>
  PROVE  Grows
<1>1. tip \in Commits /\ tip >= tip
  BY Constants DEF Basic, Typed, TypeOK, Commits
<1> QED
  BY <1>1, NoGrowth

LEMMA JenkinsGrows ==
  ASSUME Basic, JenkinsStep
  PROVE  Grows /\ items' \in SUBSET Job /\ UNCHANGED <<github, run, troubles>>
<1> USE DEF Basic, Typed, TypeOK
<1>0. /\ tip \in Commits /\ tip \in Nat /\ tip <= MaxCommit /\ 0 <= tip
      /\ tip \in 0 .. MaxCommit /\ 0 \in 0 .. MaxCommit
  BY Constants DEF Commits
<1>1. ASSUME NEW j \in Job, BuildStarts(j)
      PROVE  Grows /\ items' \in SUBSET Job /\ UNCHANGED <<github, run, troubles>>
  <2>1. PICK m \in Builds \ Started :
            builds' = [builds EXCEPT ![m] = [job |-> j, sha |-> 0, state |-> "cloning"]]
    BY <1>1 DEF BuildStarts
  <2>3. builds[m].state = "none" /\ m \in Builds
    BY DEF Started
  <2>4. builds' = [builds EXCEPT ![m] = [job |-> j, sha |-> 0, state |-> "cloning"]]
    BY <2>1
  <2>5. UNCHANGED <<github, run, troubles>> /\ items' \in SUBSET Job /\ tip' = tip
    BY <1>1 DEF BuildStarts, github
  <2>6. \A n \in Builds : Sound(n)'
    <3> TAKE n \in Builds
    <3>1. CASE n = m
      BY <3>1, <1>0, <2>3, <2>4, <2>5 DEF Sound, Final
    <3>2. CASE n # m
      BY <3>2, <2>4, <2>5 DEF Sound, Leads
    <3> QED
      BY <3>1, <3>2
  <2>7. \A n \in Builds : builds[n].state # "none" => builds'[n] = builds[n]
    BY <2>3, <2>4
  <2> QED
    BY <1>0, <2>3, <2>4, <2>5, <2>6, <2>7 DEF Grows
<1>2. ASSUME NEW m \in Builds, BuildClones(m)
      PROVE  Grows /\ items' \in SUBSET Job /\ UNCHANGED <<github, run, troubles>>
  <2>1. /\ builds[m].state = "cloning" /\ builds[m].sha = 0 /\ builds[m].job \in Job
    BY <1>2 DEF BuildClones, Leads, Sound, Unstarted
  <2>2. builds' = [builds EXCEPT ![m] = [job |-> builds[m].job, sha |-> tip, state |-> "running"]]
    BY <1>2 DEF BuildClones, Unstarted
  <2>3. UNCHANGED <<github, run, troubles>> /\ items' \in SUBSET Job /\ tip' = tip
    BY <1>2 DEF BuildClones, github
  <2>4. \A n \in Builds : Sound(n)'
    <3> TAKE n \in Builds
    <3>1. CASE n = m
      BY <3>1, <1>0, <2>2, <2>3 DEF Sound, Final, Commits
    <3>2. CASE n # m
      BY <3>2, <2>2, <2>3 DEF Sound, Leads
    <3> QED
      BY <3>1, <3>2
  <2>5. \A n \in Builds : n # m => builds'[n] = builds[n]
    BY <2>2
  <2>6. IsBuilding(m) /\ builds'[m].job = builds[m].job /\ builds'[m].state # "none"
        /\ builds'[m].sha = tip
    BY <2>1, <2>2 DEF IsBuilding
  <2> QED
    BY <1>0, <2>1, <2>2, <2>3, <2>4, <2>5, <2>6 DEF Grows
<1>3. ASSUME NEW m \in Builds, BuildEnds(m)
      PROVE  Grows /\ items' \in SUBSET Job /\ UNCHANGED <<github, run, troubles>>
  <2>1. builds[m].state = "running" /\ builds[m].sha # 0 /\ builds[m].job \in Job
        /\ builds[m].sha \in 0 .. MaxCommit /\ builds[m].sha <= tip
    BY <1>3 DEF BuildEnds, Leads, Sound, Unstarted
  <2>2. PICK result \in {"success", "failure"} :
            builds' = [builds EXCEPT ![m] = [job |-> builds[m].job, sha |-> builds[m].sha,
                                             state |-> result]]
    BY <1>3 DEF BuildEnds, Unstarted
  <2>3. UNCHANGED <<github, run, troubles>> /\ items' \in SUBSET Job /\ tip' = tip
    BY <1>3 DEF BuildEnds, github
  <2>4. \A n \in Builds : Sound(n)'
    <3> TAKE n \in Builds
    <3>1. CASE n = m
      BY <3>1, <2>1, <2>2, <2>3 DEF Sound, Final
    <3>2. CASE n # m
      BY <3>2, <2>2, <2>3 DEF Sound, Leads
    <3> QED
      BY <3>1, <3>2
  <2>5. \A n \in Builds : n # m => builds'[n] = builds[n]
    BY <2>2
  <2>6. IsBuilding(m) /\ builds'[m].job = builds[m].job /\ builds'[m].state # "none"
        /\ builds'[m].sha = builds[m].sha
    BY <2>1, <2>2 DEF IsBuilding
  <2> QED
    BY <2>1, <2>2, <2>3, <2>4, <2>5, <2>6 DEF Grows
<1> QED
  BY <1>1, <1>2, <1>3 DEF JenkinsStep

\* Whatever leads to a build goes on to do so.
LEMMA Growth ==
  ASSUME Typed, Grows
  PROVE  /\ \A n \in Builds, j \in Job : Of(n, j) => Of(n, j)'
         /\ \A s \in Status, j \in Job : Good(s, j) => Good(s, j)'
         /\ \A b \in [build : Builds, sha : 0 .. MaxCommit], j \in Job :
                Known(b, j) => Known(b, j)'
         /\ \A e \in Task : Follows(e) => Follows(e)'
<1>1. \A n \in Builds, j \in Job : Of(n, j) => Of(n, j)'
  BY DEF Grows, Of
<1>2. \A n \in Builds : builds[n].state # "none" /\ ~IsBuilding(n) => ~IsBuilding(n)'
  BY DEF Grows, IsBuilding
<1>3. \A s \in Status, j \in Job : Good(s, j) => Good(s, j)'
  <2> TAKE s \in Status, j \in Job
  <2> QED
    BY <1>1, <1>2 DEF Good, Of
<1>4. \A b \in [build : Builds, sha : 0 .. MaxCommit], j \in Job : Known(b, j) => Known(b, j)'
  BY <1>1 DEF Grows, Known, Of
<1>5. \A e \in Task : Follows(e) => Follows(e)'
  <2> TAKE e \in Task
  <2>1. e.build \in Builds /\ e.job \in Job /\ e.result \in Status
    BY DEF Task
  <2>2. Of(e.build, e.job) => Of(e.build, e.job)'
    BY <1>1, <2>1
  <2>3. Good(e.result, e.job) => Good(e.result, e.job)'
    BY <1>3, <2>1
  <2> QED
    BY <2>2, <2>3 DEF Follows
<1> QED
  BY <1>1, <1>3, <1>4, <1>5

LEMMA LeadsKept ==
  ASSUME Basic, Grows
  PROVE  /\ UNCHANGED gh => \A c \in Commits, j \in Job : Good(gh[c][j], j)'
         /\ UNCHANGED local => \A j \in Job : Good(local[j], j)'
         /\ UNCHANGED cur => \A j \in Job : Good(cur[j], j)'
         /\ UNCHANGED found => \A j \in Job : \A b \in found[j] : Known(b, j)'
         /\ \A e \in work : Follows(e)'
<1> USE DEF Basic, Typed, TypeOK, Leads
<1>1. ASSUME UNCHANGED gh, NEW c \in Commits, NEW j \in Job PROVE Good(gh[c][j], j)'
  <2>1. PICK s \in Status : s = gh[c][j]
    OBVIOUS
  <2>2. Good(s, j)'
    BY <2>1, Growth
  <2> QED
    BY <1>1, <2>1, <2>2 DEF Good
<1>2. ASSUME UNCHANGED local, NEW j \in Job PROVE Good(local[j], j)'
  <2>1. PICK s \in Status : s = local[j]
    OBVIOUS
  <2>2. Good(s, j)'
    BY <2>1, Growth
  <2> QED
    BY <1>2, <2>1, <2>2 DEF Good
<1>3. ASSUME UNCHANGED cur, NEW j \in Job PROVE Good(cur[j], j)'
  <2>1. PICK s \in Status : s = cur[j]
    OBVIOUS
  <2>2. Good(s, j)'
    BY <2>1, Growth
  <2> QED
    BY <1>3, <2>1, <2>2 DEF Good
<1>4. ASSUME UNCHANGED found, NEW j \in Job, NEW b \in found[j] PROVE Known(b, j)'
  <2>1. b \in [build : Builds, sha : 0 .. MaxCommit] /\ Known(b, j)
    OBVIOUS
  <2> QED
    BY <2>1, Growth
<1>5. ASSUME NEW e \in work PROVE Follows(e)'
  <2>1. e \in Task /\ Follows(e)
    OBVIOUS
  <2> QED
    BY <2>1, Growth
<1> QED
  BY <1>1, <1>2, <1>3, <1>4, <1>5

-----------------------------------------------------------------------------
(* Statuses                                                                 *)

\* Most statuses say nothing of a build.
Clean == Kind \ ({"running"} \cup Final)

LEMMA WritesGood ==
  ASSUME Basic, UNCHANGED builds, NEW c \in Commits, NEW j \in Job, NEW kind \in Kind,
         NEW build \in 0 .. MaxBuild, Writes(c, j, kind, build),
         kind \in {"running"} \cup Final =>
             Of(build, j) /\ (kind \in Final => ~IsBuilding(build))
  PROVE  /\ \A d \in Commits, i \in Job : Good(gh[d][i], i)'
         /\ \A i \in Job : Good(local[i], i)' /\ Good(cur[i], i)'
<1>1. \A s \in Status, i \in Job : Good(s, i) <=> Good(s, i)'
  BY DEF Good, Of, IsBuilding
<1>2. \A s \in Status : s.kind = kind /\ s.build = build => Good(s, j)
  BY DEF Good
<1>3. ASSUME NEW d \in Commits, NEW i \in Job PROVE Good(gh[d][i], i)'
  <2>1. PICK s \in Status : s = gh'[d][i]
    BY DEF Writes
  <2>2. Good(s, i)
    BY <1>2, <2>1 DEF Writes, Basic, Leads
  <2> QED
    BY <1>1, <2>1, <2>2 DEF Good
<1>4. ASSUME NEW i \in Job PROVE Good(local[i], i)'
  <2>1. PICK s \in Status : s = local'[i]
    BY DEF Writes
  <2>2. Good(s, i)
    BY <1>2, <2>1 DEF Writes, Basic, Leads
  <2> QED
    BY <1>1, <2>1, <2>2 DEF Good
<1>5. ASSUME NEW i \in Job PROVE Good(cur[i], i)'
  <2>1. PICK s \in Status : s = cur'[i]
    BY DEF Writes
  <2>2. CASE s = cur[i]
    <3>1. Good(s, i)
      BY <2>2 DEF Basic, Leads
    <3> QED
      BY <1>1, <2>1, <3>1 DEF Good
  <2>3. CASE s = local'[i]
    BY <1>4, <2>1, <2>3 DEF Good
  <2> QED
    BY <2>1, <2>2, <2>3 DEF Writes
<1> QED
  BY <1>3, <1>4, <1>5

\* What the steps of a job's coroutine have in common that write such a status,
\* or none.
Quiet(j) ==
    /\ stage \in {"unskip", "backed", "builder"}
    /\ \/ UNCHANGED <<gh, local, cur>>
       \/ \E kind \in Clean : UpdatesLast(j, kind, 0)
    /\ left' \in {left, left \ {j}}
    /\ building' \in {building, building \cup {j}, building \ {j}}
    /\ items' \in {items, items \cup {j}}
    /\ troubles' \in {troubles, troubles + 1} /\ troubles' \in 0 .. MaxTrouble
    /\ UNCHANGED <<tip, comments, guessed, overtaken, builds, stage, head, last, aliased,
                   orders, found, work>>

JobStep(j) ==
    \/ Unskips(j) \/ Backs(j) \/ NothingToBuild(j) \/ QueueBusy(j) \/ QueueEmpty(j)
    \/ Built(j) \/ BuildFailed(j)

LEMMA CleanKinds == {"Backed", "Skipped", "Disabled", "Queued", "QueueFailed", "Cancelled"} \subseteq Clean
  BY DEF Clean, Kind, Final, Queueable, Successful, Errored

LEMMA JobStepsQuiet ==
  ASSUME Typed, NEW j \in Job, JobStep(j)
  PROVE  Quiet(j)
<1> USE CleanKinds
<1>0. troubles \in 0 .. MaxTrouble
      /\ (Trouble => troubles' = troubles + 1 /\ troubles' \in 0 .. MaxTrouble)
  BY Constants DEF Typed, TypeOK, Trouble
<1>1. CASE Unskips(j)
  BY <1>0, <1>1 DEF Unskips, Quiet, jenkins
<1>2. CASE Backs(j)
  BY <1>0, <1>2 DEF Backs, Quiet, jenkins
<1>3. CASE NothingToBuild(j)
  BY <1>0, <1>3 DEF NothingToBuild, Quiet, jenkins, github
<1>4. CASE QueueBusy(j)
  <2>1. PICK kind \in Clean : UpdatesLast(j, kind, 0)
    BY <1>4 DEF QueueBusy
  <2> QED
    BY <1>0, <1>4, <2>1 DEF QueueBusy, Quiet, jenkins
<1>5. CASE QueueEmpty(j)
  BY <1>0, <1>5 DEF QueueEmpty, Quiet, jenkins
<1>6. CASE Built(j)
  BY <1>0, <1>6 DEF Built, Quiet, github
<1>7. CASE BuildFailed(j)
  BY <1>0, <1>7 DEF BuildFailed, Quiet
<1> QED
  BY <1>1, <1>2, <1>3, <1>4, <1>5, <1>6, <1>7 DEF JobStep

LEMMA QuietWrites ==
  ASSUME Basic, NEW j \in Job, Quiet(j)
  PROVE  \E kind \in Clean : Writes(last, j, kind, 0)
<1>1. last \in Commits
  BY Constants DEF Basic, Typed, TypeOK, Placed, Past, Quiet, Commits
<1>2. CASE UNCHANGED <<gh, local, cur>>
  BY <1>1, <1>2, CleanKinds DEF Writes, Basic, Typed, TypeOK
<1>3. ASSUME NEW kind \in Clean, UpdatesLast(j, kind, 0) PROVE Writes(last, j, kind, 0)
  <2>1. kind \in Kind /\ 0 \in 0 .. MaxBuild
    BY Constants DEF Clean
  <2> QED
    BY <1>1, <1>3, <2>1, UpdateLast DEF Basic
<1> QED
  BY <1>2, <1>3 DEF Quiet

LEMMA QuietBasic ==
  ASSUME Basic, NEW j \in Job, Quiet(j)
  PROVE  Basic'
<1>1. PICK kind \in Clean : Writes(last, j, kind, 0)
  BY QuietWrites
<1>2. Grows
  BY StillBuilds DEF Quiet
<1>3. last \in Commits /\ kind \in Kind /\ 0 \in 0 .. MaxBuild /\ kind \notin {"running"} \cup Final
  BY Constants DEF Basic, Typed, TypeOK, Placed, Past, Quiet, Commits, Clean
<1>4. /\ \A d \in Commits, i \in Job : Good(gh[d][i], i)'
      /\ \A i \in Job : Good(local[i], i)' /\ Good(cur[i], i)'
  BY <1>1, <1>3, WritesGood DEF Quiet
<1>5. Typed'
  BY <1>1 DEF Basic, Typed, TypeOK, Quiet, Writes
<1>6. Placed'
  BY DEF Basic, Placed, Past, Quiet
<1>7. Leads'
  BY <1>2, <1>4, LeadsKept DEF Leads, Quiet, Grows
<1> QED
  BY <1>5, <1>6, <1>7 DEF Basic

-----------------------------------------------------------------------------
(* The first layer is inductive                                             *)

LEMMA BasicInit == Init => Basic
<1> SUFFICES ASSUME Init PROVE Basic
  OBVIOUS
<1>1. /\ 1 \in Commits /\ Missing \in Status /\ Missing.kind = "none" /\ 0 \in 0 .. MaxComment
      /\ 0 \in 0 .. MaxTrouble /\ 0 \in 0 .. tip /\ tip = 1
  BY Constants, MissingStatus DEF Init, Commits
<1>2. Typed
  BY <1>1 DEF Init, Typed, TypeOK, NoOrder
<1>3. Placed
  BY DEF Init, Placed, Past
<1>4. Leads
  BY <1>1 DEF Init, Leads, Sound, Good, Unstarted, Final
<1> QED
  BY <1>2, <1>3, <1>4 DEF Basic

\* Developers, Jenkins and its administrators leave the run alone.
World == Push \/ Comment \/ JenkinsStep \/ QueueFlushed

LEMMA WorldBasic ==
  ASSUME Basic, World
  PROVE  Basic' /\ Grows /\ UNCHANGED <<gh, guessed, run>>
<1> USE DEF Basic, Typed, TypeOK
<1>1. /\ Grows /\ UNCHANGED <<gh, guessed, run>>
      /\ tip' \in Commits /\ tip' >= tip /\ tip \in Nat /\ tip' \in Nat
      /\ overtaken' \in SUBSET Commits
      /\ comments' \in [count : 0 .. MaxComment, skip : SUBSET Job, rebuild : 0 .. MaxComment]
      /\ items' \in SUBSET Job /\ troubles' \in 0 .. MaxTrouble
  <2>0. tip \in Commits /\ tip \in Nat
    BY Constants DEF Commits
  <2>1. CASE Push
    <3>1. tip' \in Commits /\ tip' = tip + 1 /\ tip' \in Nat
      BY <2>1, Constants DEF Push, Commits
    <3>2. Grows
      BY <2>0, <2>1, <3>1, NoGrowth DEF Push, jenkins
    <3> QED
      BY <2>0, <2>1, <3>1, <3>2 DEF Push, jenkins
  <2>2. CASE Comment
    <3>0. UNCHANGED <<tip, gh, guessed, overtaken, items, builds, run, troubles>>
      BY <2>2 DEF Comment, jenkins
    <3>1. Grows
      BY <2>0, <3>0, NoGrowth
    <3>4. comments.count \in 0 .. MaxComment /\ comments.count < MaxComment
      BY <2>2 DEF Comment
    <3>5. comments.count + 1 \in 0 .. MaxComment
      BY <3>4, Constants
    <3>2. ASSUME comments' = [comments EXCEPT !.count = comments.count + 1,
                                              !.rebuild = comments.count + 1]
          PROVE  comments' \in [count : 0 .. MaxComment, skip : SUBSET Job, rebuild : 0 .. MaxComment]
      BY <3>2, <3>5
    <3>3. ASSUME NEW jobs \in SUBSET Job,
                 comments' = [comments EXCEPT !.count = comments.count + 1, !.skip = jobs]
          PROVE  comments' \in [count : 0 .. MaxComment, skip : SUBSET Job, rebuild : 0 .. MaxComment]
      BY <3>3, <3>5
    <3>6. comments' \in [count : 0 .. MaxComment, skip : SUBSET Job, rebuild : 0 .. MaxComment]
      BY <2>2, <3>2, <3>3 DEF Comment
    <3> QED
      BY <2>0, <3>0, <3>1, <3>6
  <2>3. CASE JenkinsStep
    <3>1. Grows /\ items' \in SUBSET Job /\ UNCHANGED <<github, run, troubles>>
      <4> HIDE DEF Basic, Typed, TypeOK
      <4> QED
        BY <2>3, JenkinsGrows
    <3> QED
      BY <2>0, <3>1 DEF github
  <2>4. CASE QueueFlushed
    <3>1. Grows
      BY <2>0, <2>4, NoGrowth DEF QueueFlushed, github
    <3> QED
      BY <2>0, <2>4, <3>1, Constants DEF QueueFlushed, github, Trouble
  <2> QED
    BY <2>1, <2>2, <2>3, <2>4 DEF World
<1>2. Typed'
  BY <1>1 DEF run, Grows
<1>3. Placed'
  BY <1>1 DEF Placed, Past, run
<1>4. Leads'
  BY <1>1, LeadsKept DEF Leads, Grows, run
<1> QED
  BY <1>1, <1>2, <1>3, <1>4

LEMMA DropsBasic ==
  ASSUME Basic, Drops, troubles' \in 0 .. MaxTrouble
  PROVE  Basic' /\ Grows
<1> USE DEF Basic, Typed, TypeOK
<1>1. Grows
  BY StillBuilds DEF Drops, github, jenkins
<1>2. UNCHANGED gh /\ tip' = tip /\ tip \in Nat
  BY Constants DEF Drops, github, Commits
<1>3. Typed'
  BY <1>2, Constants, MissingStatus DEF Drops, NoOrder, github, jenkins
<1>4. Placed'
  BY DEF Drops, Placed, Past
<1>5. Leads'
  <2>1. \A j \in Job : local'[j] = Missing /\ cur'[j] = Missing
    BY DEF Drops
  <2>2. \A j \in Job : Good(local[j], j)' /\ Good(cur[j], j)'
    BY <2>1, MissingStatus DEF Good, Final
  <2> QED
    BY <1>1, <1>2, <2>2, LeadsKept DEF Leads, Drops, Grows
<1> QED
  BY <1>1, <1>3, <1>4, <1>5

\* The requests of Bot.run, and the passage from one extension to the next.
Reads == RunStarts \/ CommitsFetched \/ StatusesFetched \/ CommentsFetched \/ NextExtension

LEMMA ReadsBasic ==
  ASSUME Basic, Reads
  PROVE  Basic' /\ Grows
<1> USE DEF Basic, Typed, TypeOK
<1>1. UNCHANGED <<github, jenkins, found, work, building, troubles>>
  BY DEF Reads, RunStarts, CommitsFetched, StatusesFetched, CommentsFetched, NextExtension,
         ExtensionStarts
<1>2. Grows
  BY <1>1, StillBuilds DEF github, jenkins
<1>3. /\ tip \in Nat /\ tip \in 0 .. tip /\ tip # 0 /\ tip' = tip /\ gh' = gh
      /\ comments.skip \in SUBSET Job /\ comments.rebuild \in 0 .. MaxComment
      /\ head \in Nat /\ last \in Nat /\ last <= MaxCommit /\ head <= tip /\ head <= head
  BY <1>1, Constants DEF github, Commits
<1>4. ASSUME UNCHANGED <<local, cur>> PROVE \A j \in Job : Good(local[j], j)' /\ Good(cur[j], j)'
  BY <1>2, <1>4, LeadsKept
<1>5. /\ \A c \in Commits, j \in Job : Good(gh[c][j], j)'
      /\ \A j \in Job : \A b \in found'[j] : Known(b, j)'
      /\ \A e \in work' : Follows(e)'
  BY <1>1, <1>2, <1>3, LeadsKept
<1>6. ASSUME \A j \in Job : Good(local[j], j)' /\ Good(cur[j], j)' PROVE Leads'
  BY <1>2, <1>5, <1>6 DEF Leads, Grows
<1>7. CASE RunStarts
  <2>1. UNCHANGED <<left, last, local, cur, aliased, orders>> /\ stage' = "commits" /\ head' = tip
    BY <1>7 DEF RunStarts
  <2> QED
    BY <1>1, <1>2, <1>3, <1>4, <1>6, <1>7, <2>1 DEF RunStarts, Placed, Past, github, jenkins
<1>8. CASE CommitsFetched
  <2>1. /\ UNCHANGED <<left, head, local, cur, aliased, orders>> /\ stage' = "statuses"
        /\ last' = tip \/ last' = head
    BY <1>8, Constants DEF CommitsFetched
  <2>2. stage # "idle" /\ head # 0
    BY <1>8 DEF CommitsFetched, Placed
  <2> QED
    BY <1>1, <1>2, <1>3, <1>4, <1>6, <1>8, <2>1, <2>2 DEF CommitsFetched, Placed, Past, github, jenkins
<1>9. CASE StatusesFetched
  <2>1. UNCHANGED <<left, head, last, orders>> /\ stage' = "comments" /\ aliased' = TRUE
        /\ local' = gh[last] /\ cur' = gh[last]
    BY <1>9 DEF StatusesFetched
  <2>2. last \in Commits /\ stage = "statuses" /\ left \in SUBSET Job
    BY <1>3, <1>9 DEF StatusesFetched, Placed, Past, Commits
  <2>3. \A j \in Job : Good(local[j], j)' /\ Good(cur[j], j)'
    BY <1>3, <1>5, <2>1, <2>2 DEF Good
  <2> QED
    BY <1>1, <1>2, <1>3, <1>6, <2>1, <2>2, <2>3 DEF Placed, Past, github, jenkins
<1>10. CASE CommentsFetched
  <2>1. UNCHANGED <<head, last, local, cur, aliased>> /\ stage' = "unskip" /\ left' = Job
        /\ orders' = [skip |-> comments.skip, rebuild |-> comments.rebuild] /\ stage = "comments"
    BY <1>10 DEF CommentsFetched
  <2> QED
    BY <1>1, <1>2, <1>3, <1>4, <1>6, <2>1 DEF Placed, Past, github, jenkins
<1>11. ASSUME NEW from \in {"unskip", "backed", "autocancel", "poll", "skip", "canceller"},
              NEW to \in {"backed", "autocancel", "poll", "skip", "canceller", "builder"},
              NEW todo, todo \subseteq IF to = "autocancel" THEN 1 .. last ELSE Job,
              from \in {"autocancel", "poll", "skip", "canceller"} =>
                  to \in {"autocancel", "poll", "skip", "canceller"} \/ work = {},
              ExtensionStarts(from, to, todo)
       PROVE  Basic'
  <2>1. /\ UNCHANGED <<head, last, local, cur, aliased, orders>> /\ stage = from /\ stage' = to
        /\ left' = todo /\ left = {}
    BY <1>11 DEF ExtensionStarts
  <2>2. todo \subseteq IF to = "autocancel" THEN Commits ELSE Job
    <3>1. CASE to = "autocancel"
      <4>1. last \in 0 .. tip /\ tip \in Nat /\ tip <= MaxCommit
        BY Constants DEF Commits
      <4>2. 1 .. last \subseteq 1 .. MaxCommit
        BY <4>1, Constants
      <4> QED
        BY <1>11, <3>1, <4>2 DEF Commits
    <3> QED
      BY <1>11, <3>1
  <2>3. Typed'
    BY <1>1, <1>3, <2>1, <2>2 DEF github, jenkins
  <2>4. Placed'
    BY <1>1, <1>11, <2>1 DEF Placed, Past
  <2> QED
    BY <1>4, <1>6, <2>1, <2>3, <2>4
<1>12. CASE NextExtension
  <2> HIDE DEF Basic, Typed, TypeOK
  <2> SUFFICES Basic'
    BY <1>2
  <2>2. CASE ExtensionStarts("unskip", "backed", Job)
    BY <1>11, <2>2
  <2>3. CASE ExtensionStarts("backed", "autocancel", IF AutoCancelOn THEN 1 .. last ELSE {})
    <3>1. PICK todo \in SUBSET (1 .. last) : ExtensionStarts("backed", "autocancel", todo)
      BY <2>3
    <3> QED
      BY <1>11, <3>1
  <2>4. CASE ExtensionStarts("autocancel", "poll", Job)
    BY <1>11, <2>4
  <2>5. CASE ExtensionStarts("poll", "skip", Job)
    BY <1>11, <2>5
  <2>6. CASE ExtensionStarts("skip", "canceller", {})
    BY <1>11, <2>6
  <2>7. CASE work = {} /\ ExtensionStarts("canceller", "builder", Job)
    BY <1>11, <2>7
  <2> QED
    BY <1>12, <2>2, <2>3, <2>4, <2>5, <2>6, <2>7 DEF NextExtension
<1> QED
  BY <1>2, <1>7, <1>8, <1>9, <1>10, <1>12 DEF Reads

-----------------------------------------------------------------------------
(* What the steps on queued statuses do                                     *)

\* The same status in a later step.
Moves(e, f) ==
    /\ f \in Task
    /\ f.sha = e.sha /\ f.job = e.job /\ f.build = e.build
    /\ f.cancel = e.cancel /\ f.own = e.own

LEMMA BecomesMoves ==
  ASSUME NEW e \in Task, NEW step \in {"stop", "push"}, NEW kind \in Kind,
         NEW build \in 0 .. MaxBuild, Becomes(e, step, kind, build)
  PROVE  \E f \in Task : /\ Moves(e, f) /\ work' = (work \ {e}) \cup {f}
                         /\ f.step = step /\ f.result.kind = kind /\ f.result.build = build
<1> DEFINE r == [kind |-> kind, build |-> build, at |-> 0]
           f == [e EXCEPT !.step = step, !.result = r]
<1>1. r \in Status /\ r.kind = kind /\ r.build = build
  BY Constants DEF Status
<1>2. work' = (work \ {e}) \cup {f}
  BY DEF Becomes
<1> HIDE DEF r
<1>3. f \in Task /\ Moves(e, f) /\ f.step = step /\ f.result = r
  BY <1>1 DEF Task, Moves
<1> HIDE DEF f
<1> QED
  BY <1>1, <1>2, <1>3

LEMMA EntryTask ==
  ASSUME NEW c \in Commits, NEW j \in Job, NEW n \in Builds, NEW cancel \in BOOLEAN,
         NEW own \in BOOLEAN, NEW e, e = Entry(c, j, n, cancel, own)
  PROVE  /\ e \in Task
         /\ e.sha = c /\ e.job = j /\ e.build = n /\ e.cancel = cancel /\ e.own = own
         /\ e.step = "read"
  BY MissingStatus DEF Entry, Task

\* The statuses of a commit that show a running build.
Shown(c) ==
    {Entry(c, j, gh[c][j].build, c # head, c = last) : j \in {k \in Job : IsRunning(gh[c][k])}}

LEMMA ShownTasks ==
  ASSUME Basic, NEW c \in Commits, NEW e \in Shown(c)
  PROVE  /\ e \in Task /\ e.sha = c /\ e.cancel = (c # head) /\ e.own = (c = last)
         /\ e.step = "read" /\ gh[c][e.job].kind = "running" /\ e.build = gh[c][e.job].build
         /\ Of(e.build, e.job) /\ e.build \in Builds
<1>1. PICK j \in Job : /\ gh[c][j].kind = "running"
                       /\ e = Entry(c, j, gh[c][j].build, c # head, c = last)
  BY DEF Shown, IsRunning
<1>2. Of(gh[c][j].build, j) /\ gh[c][j].build \in Builds
  BY <1>1 DEF Basic, Leads, Good, Of
<1>3. PICK n \in Builds : n = gh[c][j].build
  BY <1>2
<1>4. PICK cancel \in BOOLEAN : cancel = (c # head)
  OBVIOUS
<1>5. PICK own \in BOOLEAN : own = (c = last)
  OBVIOUS
<1>6. e = Entry(c, j, n, cancel, own)
  BY <1>1, <1>3, <1>4, <1>5
<1>7. e \in Task /\ e.sha = c /\ e.job = j /\ e.build = n /\ e.cancel = cancel /\ e.own = own
      /\ e.step = "read"
  BY <1>6, EntryTask
<1> QED
  BY <1>1, <1>2, <1>3, <1>4, <1>5, <1>7

LEMMA AutoCancelEffect ==
  ASSUME Basic, NEW c \in Commits, AutoCancels(c)
  PROVE  /\ stage = "autocancel" /\ c \in 1 .. last /\ c \in left /\ left' = left \ {c}
         /\ UNCHANGED <<github, jenkins, stage, head, last, cur, orders, found, building,
                        troubles>>
         /\ \/ /\ work' = work \cup Shown(c)
               /\ local' = IF c = last THEN gh[c] ELSE local
               /\ aliased' = (aliased /\ c # last)
            \/ c # head /\ UNCHANGED <<work, local, aliased>>
  BY DEF AutoCancels, Shown, Basic, Placed

\* A build that Jenkins returned, and that is not one of the head.
Foreign(e, j) ==
    \E b \in found[j] : b.sha \notin {0, head} /\ e = Entry(b.sha, j, b.build, TRUE, FALSE)

LEMMA ForeignTasks ==
  ASSUME Basic, NEW j \in Job, NEW e, Foreign(e, j)
  PROVE  /\ e \in Task /\ e.sha \notin {0, head} /\ e.job = j /\ e.cancel = TRUE
         /\ e.own = FALSE /\ e.step = "read" /\ Of(e.build, j) /\ e.build \in Builds
         /\ builds[e.build].sha = e.sha
<1>1. PICK b \in found[j] : b.sha \notin {0, head} /\ e = Entry(b.sha, j, b.build, TRUE, FALSE)
  BY DEF Foreign
<1>2. /\ b.build \in Builds /\ b.sha \in 0 .. MaxCommit /\ Of(b.build, j)
      /\ b.sha = builds[b.build].sha
  BY <1>1 DEF Basic, Typed, TypeOK, Leads, Known
<1>3. b.sha \in Commits
  BY <1>1, <1>2, Constants DEF Commits
<1>4. PICK c \in Commits : c = b.sha
  BY <1>3
<1>5. PICK n \in Builds : n = b.build
  BY <1>2
<1>6. PICK cancel \in BOOLEAN : cancel = TRUE
  OBVIOUS
<1>7. PICK own \in BOOLEAN : own = FALSE
  OBVIOUS
<1>8. e = Entry(c, j, n, cancel, own)
  BY <1>1, <1>4, <1>5, <1>6, <1>7
<1>9. e \in Task /\ e.sha = c /\ e.job = j /\ e.build = n /\ e.cancel = cancel /\ e.own = own
      /\ e.step = "read"
  BY <1>8, EntryTask
<1>10. c \notin {0, head} /\ Of(n, j) /\ builds[n].sha = c
  BY <1>1, <1>2, <1>4, <1>5
<1> QED
  BY <1>6, <1>7, <1>9, <1>10

\* A running build of the head that presets the status of its job.
Presets(b, j) ==
    /\ Ours(b)
    /\ cur[j].kind \in Queueable \cup {"none"} \/ cur[j].build = b.build

LEMMA PollEffect ==
  ASSUME Basic, NEW j \in Job, PollProcesses(j)
  PROVE  /\ stage = "poll" /\ j \in left /\ left' = left \ {j}
         /\ found' = [found EXCEPT ![j] = {}]
         /\ \A e \in work' : e \in work \/ Foreign(e, j)
         /\ guessed \subseteq guessed' /\ guessed' \subseteq Builds
         /\ \/ UNCHANGED <<gh, local, cur>>
            \/ \E b \in found[j] :
                /\ Presets(b, j) /\ (b.sha = 0 => b.build \in guessed')
                /\ UpdatesLast(j, "running", b.build)
         /\ UNCHANGED <<tip, comments, overtaken, jenkins, stage, head, last, aliased, orders,
                        building, troubles>>
<1> DEFINE ours    == {b \in found[j] : Ours(b)}
           those   == {x \in ours :
                          cur[j].kind \in Queueable \cup {"none"} \/ cur[j].build = x.build}
           presets == {b.build : b \in those}
<1>1. found[j] \in SUBSET [build : Builds, sha : 0 .. MaxCommit]
  BY DEF Basic, Typed, TypeOK
<1>2. /\ stage = "poll" /\ j \in left /\ left' = left \ {j} /\ found' = [found EXCEPT ![j] = {}]
      /\ UNCHANGED <<tip, comments, overtaken, jenkins, stage, head, last, aliased, orders,
                     building, troubles>>
  <2>1. found[j] # {} /\ stage = "poll"
    BY Zenon DEF PollProcesses
  <2>2. left' = left \ {j} /\ found' = [found EXCEPT ![j] = {}]
    BY DEF PollProcesses
  <2>3. UNCHANGED <<tip, comments, overtaken, jenkins, stage, head, last, aliased, orders,
                    building, troubles>>
    BY DEF PollProcesses
  <2> QED
    BY <2>1, <2>2, <2>3 DEF Basic, Placed
<1>3. \A e \in work' : e \in work \/ Foreign(e, j)
  <2>1. work' = work \cup {Entry(b.sha, j, b.build, TRUE, FALSE) : b \in found[j] \ ours}
    BY Zenon DEF PollProcesses
  <2> QED
    BY <2>1 DEF Foreign, Ours
<1>4. guessed' = guessed \cup {b.build : b \in {x \in ours : x.sha = 0 /\ x.build \in presets}}
  BY Zenon DEF PollProcesses
<1>5. guessed \subseteq guessed' /\ guessed' \subseteq Builds
  BY <1>1, <1>4 DEF Basic, Typed, TypeOK
<1>6. \/ UNCHANGED <<gh, local, cur>>
      \/ \E n \in presets : UpdatesLast(j, "running", n)
  BY Zenon DEF PollProcesses
<1>7. ASSUME NEW n \in presets, UpdatesLast(j, "running", n)
      PROVE  \E b \in found[j] : /\ Presets(b, j) /\ (b.sha = 0 => b.build \in guessed')
                                 /\ UpdatesLast(j, "running", b.build)
  <2>1. PICK b \in those : b.build = n
    OBVIOUS
  <2>2. b \in found[j] /\ Presets(b, j) /\ b \in ours
    BY DEF Presets
  <2>3. b.sha = 0 => b.build \in guessed'
    BY <1>4, <2>1, <2>2
  <2>4. UpdatesLast(j, "running", b.build)
    <3> HIDE DEF presets
    <3> QED
      BY <1>7, <2>1
  <2> QED
    BY <2>2, <2>3, <2>4
<1> HIDE DEF presets
<1> QED
  BY <1>2, <1>3, <1>5, <1>6, <1>7

LEMMA SkipEffect ==
  ASSUME Basic, NEW j \in Job, Skips(j)
  PROVE  /\ stage = "skip" /\ left' \in {left, left \ {j}}
         /\ \/ UNCHANGED <<gh, local, cur, work>>
            \/ /\ j \in orders.skip /\ UpdatesLast(j, "Skipped", 0)
               /\ work' = work
            \/ /\ j \in orders.skip /\ UpdatesLast(j, "Skipped", 0)
               /\ cur[j].kind = "running"
               /\ \E f \in Task :
                    /\ work' = work \cup {f}
                    /\ f.sha = last /\ f.job = j /\ f.build = cur[j].build
                    /\ f.cancel = TRUE /\ f.own = TRUE /\ f.step = "read"
                    /\ Of(f.build, j) /\ f.build \in Builds
         /\ UNCHANGED <<tip, comments, guessed, overtaken, jenkins, stage, head, last, aliased,
                        orders, found, building, troubles>>
<1>1. ASSUME IsRunning(cur[j])
      PROVE  \E f \in Task :
                 /\ f = Entry(last, j, cur[j].build, TRUE, TRUE)
                 /\ f.sha = last /\ f.job = j /\ f.build = cur[j].build
                 /\ f.cancel = TRUE /\ f.own = TRUE /\ f.step = "read"
                 /\ Of(f.build, j) /\ f.build \in Builds
  <2>1. Of(cur[j].build, j) /\ cur[j].build \in Builds
    BY <1>1 DEF Basic, Leads, Good, Of, IsRunning
  <2>2. PICK n \in Builds : n = cur[j].build
    BY <2>1
  <2>3. last \in Commits
    BY Constants DEF Skips, Basic, Typed, TypeOK, Placed, Past, Commits
  <2>4. PICK c \in Commits : c = last
    BY <2>3
  <2>5. PICK yes \in BOOLEAN : yes = TRUE
    OBVIOUS
  <2>6. PICK f : f = Entry(c, j, n, yes, yes)
    OBVIOUS
  <2>7. f \in Task /\ f.sha = c /\ f.job = j /\ f.build = n /\ f.cancel = yes /\ f.own = yes
        /\ f.step = "read"
    BY <2>6, EntryTask
  <2> QED
    BY <2>1, <2>2, <2>4, <2>5, <2>6, <2>7
<1> QED
  BY <1>1 DEF Skips, IsRunning

\* What Build.from_url tells: a build to stop, or a status to push.
ReadAs(e, f) ==
    \/ f.step = "stop" /\ e.cancel
    \/ /\ f.step = "push" /\ f.result.build = e.build
       /\ \/ IsBuilding(e.build) /\ ~e.cancel /\ f.result.kind = "running"
          \/ ~IsBuilding(e.build) /\ f.result.kind = builds[e.build].state

LEMMA ReadEffect ==
  ASSUME Basic, NEW e \in work, BuildRead(e)
  PROVE  /\ e \in Task /\ stage = "canceller" /\ troubles' \in 0 .. MaxTrouble
         /\ UNCHANGED <<github, jenkins, stage, left, head, last, local, cur, aliased, orders,
                        found, building>>
         /\ \/ work' = work \ {e}
            \/ \E f \in Task : Moves(e, f) /\ work' = (work \ {e}) \cup {f} /\ ReadAs(e, f)
<1>1. e \in Task /\ e.build \in Builds /\ Of(e.build, e.job) /\ e.cancel \in BOOLEAN
  BY DEF Basic, Typed, Leads, Follows, Task
<1>2. /\ stage = "canceller"
      /\ UNCHANGED <<github, jenkins, stage, left, head, last, local, cur, aliased, orders,
                     found, building>>
  BY DEF BuildRead
<1>3. troubles' \in 0 .. MaxTrouble
  BY Constants DEF BuildRead, Trouble, Basic, Typed, TypeOK
<1>4. e.build \in 0 .. MaxBuild /\ 0 \in 0 .. MaxBuild
  BY <1>1, Constants DEF Builds
<1>5. CASE e.cancel /\ IsBuilding(e.build) /\ Becomes(e, "stop", "none", 0)
  <2>1. \E f \in Task : /\ Moves(e, f) /\ work' = (work \ {e}) \cup {f} /\ f.step = "stop"
    BY <1>1, <1>4, <1>5, Kinds, BecomesMoves
  <2> QED
    BY <1>1, <1>2, <1>3, <1>5, <2>1 DEF ReadAs
<1>6. CASE /\ ~(e.cancel /\ IsBuilding(e.build))
           /\ Becomes(e, "push", IF IsBuilding(e.build) THEN "running"
                                 ELSE builds[e.build].state, e.build)
  <2>1. PICK kind : kind = IF IsBuilding(e.build) THEN "running" ELSE builds[e.build].state
    OBVIOUS
  <2>2. builds[e.build].state \in {"cloning", "running", "success", "failure", "aborted"}
    BY <1>1 DEF Basic, Typed, TypeOK, Of, Unstarted
  <2>3. kind \in Kind
    BY <2>1, <2>2, Kinds DEF IsBuilding, Kind, Errored
  <2>4. PICK n \in 0 .. MaxBuild : n = e.build
    BY <1>4
  <2>5. Becomes(e, "push", kind, n)
    BY <1>6, <2>1, <2>4
  <2>6. \E f \in Task : /\ Moves(e, f) /\ work' = (work \ {e}) \cup {f} /\ f.step = "push"
                        /\ f.result.kind = kind /\ f.result.build = n
    BY <1>1, <2>3, <2>5, BecomesMoves
  <2> QED
    BY <1>1, <1>2, <1>3, <1>6, <2>1, <2>4, <2>6 DEF ReadAs
<1>7. CASE work' = work \ {e}
  BY <1>1, <1>2, <1>3, <1>7
<1> QED
  BY <1>5, <1>6, <1>7 DEF BuildRead

LEMMA StopEffect ==
  ASSUME Basic, NEW e \in work, BuildStopped(e)
  PROVE  /\ e \in Task /\ e.step = "stop" /\ stage = "canceller" /\ Grows
         /\ \A n \in Builds : n # e.build => builds'[n] = builds[n]
         /\ UNCHANGED <<github, items, stage, left, head, last, local, cur, aliased, orders,
                        found, building, troubles>>
         /\ \E f \in Task :
                /\ Moves(e, f) /\ work' = (work \ {e}) \cup {f} /\ f.step = "push"
                /\ \/ /\ f.result.kind = cur[e.job].kind /\ f.result.build = cur[e.job].build
                      /\ cur[e.job].kind \in Successful
                   \/ f.result.kind = "Cancelled"
<1> USE DEF Basic, Typed, TypeOK
<1>1. e \in Task /\ e.build \in Builds /\ e.job \in Job /\ Of(e.build, e.job)
  BY DEF Leads, Follows, Task
<1>2. /\ e.step = "stop" /\ stage = "canceller"
      /\ UNCHANGED <<github, items, stage, left, head, last, local, cur, aliased, orders,
                     found, building, troubles>>
  BY DEF BuildStopped
<1>3. UNCHANGED tip /\ tip \in Commits /\ tip \in Nat
  BY <1>2, Constants DEF github, Commits
<1>4. ASSUME ~IsBuilding(e.build)
      PROVE  Grows /\ \A n \in Builds : n # e.build => builds'[n] = builds[n]
  <2>1. UNCHANGED builds
    BY <1>4 DEF BuildStopped
  <2> QED
    BY <2>1, <1>3, NoGrowth
<1>5. ASSUME IsBuilding(e.build)
      PROVE  Grows /\ \A n \in Builds : n # e.build => builds'[n] = builds[n]
  <2>1. PICK m \in Builds : m = e.build
    BY <1>1
  <2>2. builds[m].job \in Job /\ builds[m].sha \in 0 .. MaxCommit /\ Sound(m)
    BY <1>5, <2>1 DEF Leads, Unstarted, IsBuilding
  <2>8. builds' = [builds EXCEPT ![m].state = "aborted"]
    BY <1>5, <2>1 DEF BuildStopped
  <2>3. builds' = [builds EXCEPT ![m] = [job |-> builds[m].job, sha |-> builds[m].sha,
                                         state |-> "aborted"]]
    <3>1. builds[m] \in [job : Job, sha : 0 .. MaxCommit,
                         state : {"cloning", "running", "success", "failure", "aborted"}]
      BY <1>5, <2>1 DEF Unstarted, IsBuilding
    <3>2. [builds[m] EXCEPT !.state = "aborted"] =
              [job |-> builds[m].job, sha |-> builds[m].sha, state |-> "aborted"]
      BY <3>1
    <3> QED
      BY <2>8, <3>2
  <2>4. \A n \in Builds : n # m => builds'[n] = builds[n]
    BY <2>3
  <2>5. /\ builds'[m].job = builds[m].job /\ builds'[m].sha = builds[m].sha
        /\ builds'[m].state = "aborted" /\ IsBuilding(m)
    BY <1>5, <2>1, <2>3
  <2>6. \A n \in Builds : Sound(n)'
    BY <1>3, <2>2, <2>4, <2>5 DEF Sound, Leads, Final
  <2>7. Grows
    BY <2>2, <2>3, <2>4, <2>5, <2>6 DEF Grows
  <2> QED
    BY <2>1, <2>4, <2>7
<1>6. Grows /\ \A n \in Builds : n # e.build => builds'[n] = builds[n]
  BY <1>4, <1>5
<1>7. \E f \in Task :
          /\ Moves(e, f) /\ work' = (work \ {e}) \cup {f} /\ f.step = "push"
          /\ \/ /\ f.result.kind = cur[e.job].kind /\ f.result.build = cur[e.job].build
                /\ cur[e.job].kind \in Successful
             \/ f.result.kind = "Cancelled"
  <2>1. PICK kind \in Kind, n \in 0 .. MaxBuild :
            /\ Becomes(e, "push", kind, n)
            /\ \/ /\ kind = cur[e.job].kind /\ n = cur[e.job].build
                  /\ cur[e.job].kind \in Successful
               \/ kind = "Cancelled"
    <3>1. cur[e.job].kind \in Kind /\ cur[e.job].build \in 0 .. MaxBuild
      BY <1>1 DEF Status
    <3>2. "Cancelled" \in Kind /\ e.build \in 0 .. MaxBuild
      BY <1>1, Constants DEF Kind, Errored, Builds
    <3> QED
      BY <3>1, <3>2 DEF BuildStopped
  <2>2. \E f \in Task : /\ Moves(e, f) /\ work' = (work \ {e}) \cup {f} /\ f.step = "push"
                        /\ f.result.kind = kind /\ f.result.build = n
    BY <1>1, <2>1, BecomesMoves
  <2> QED
    BY <2>1, <2>2
<1> QED
  BY <1>1, <1>2, <1>6, <1>7

LEMMA PushEffect ==
  ASSUME Basic, NEW e \in work, ResultPushed(e)
  PROVE  /\ e \in Task /\ e.step = "push" /\ stage = "canceller" /\ work' = work \ {e}
         /\ Writes(e.sha, e.job, e.result.kind, e.result.build)
         /\ IF e.own THEN e.sha = last /\ UpdatesLast(e.job, e.result.kind, e.result.build)
                     ELSE UpdatesOther(e.sha, e.job, e.result.kind, e.result.build)
         /\ UNCHANGED <<tip, comments, guessed, overtaken, jenkins, stage, left, head, last,
                        aliased, orders, found, building, troubles>>
<1>1. /\ e \in Task /\ e.job \in Job /\ e.sha \in Commits /\ e.own \in BOOLEAN
      /\ e.result.kind \in Kind /\ e.result.build \in 0 .. MaxBuild
  BY DEF Basic, Typed, Task, Status
<1>2. /\ e.step = "push" /\ stage = "canceller" /\ work' = work \ {e}
      /\ UNCHANGED <<tip, comments, guessed, overtaken, jenkins, stage, left, head, last,
                     aliased, orders, found, building, troubles>>
      /\ IF e.own THEN UpdatesLast(e.job, e.result.kind, e.result.build)
                  ELSE UpdatesOther(e.sha, e.job, e.result.kind, e.result.build)
  BY DEF ResultPushed
<1>3. e.own => e.sha = last
  BY DEF Basic, Placed
<1>4. PICK c \in Commits, j \in Job, kind \in Kind, n \in 0 .. MaxBuild :
          c = e.sha /\ j = e.job /\ kind = e.result.kind /\ n = e.result.build
  BY <1>1
<1>5. Typed
  BY DEF Basic
<1>6. Writes(c, j, kind, n)
  <2>1. CASE e.own
    <3>1. UpdatesLast(j, kind, n) /\ last = c /\ last \in Commits
      BY <1>2, <1>3, <1>4, <2>1
    <3>2. Writes(last, j, kind, n)
      BY <1>5, <3>1, UpdateLast
    <3> QED
      BY <3>1, <3>2
  <2>2. CASE ~e.own
    <3>1. UpdatesOther(c, j, kind, n)
      BY <1>2, <1>4, <2>2
    <3> QED
      BY <1>5, <3>1, UpdateOther
  <2> QED
    BY <2>1, <2>2
<1> QED
  BY <1>1, <1>2, <1>3, <1>4, <1>6

-----------------------------------------------------------------------------
(* The first layer under those steps                                        *)

LEMMA AutoCancelBasic ==
  ASSUME Basic, NEW c \in Commits, AutoCancels(c)
  PROVE  Basic' /\ Grows
<1>1. /\ stage = "autocancel" /\ c \in left /\ left' = left \ {c}
      /\ UNCHANGED <<github, jenkins, stage, head, last, cur, orders, found, building, troubles>>
  BY AutoCancelEffect
<1>2. /\ work' = work \cup Shown(c) \/ work' = work
      /\ local' \in {local, gh[c]}
      /\ aliased' \in BOOLEAN
  BY AutoCancelEffect DEF Basic, Typed, TypeOK
<1>3. Grows
  BY <1>1, StillBuilds DEF github, jenkins
<1>4. \A e \in Shown(c) : e \in Task /\ Of(e.build, e.job) /\ e.step = "read" /\ e.sha = c
                          /\ e.own = (c = last)
  BY ShownTasks
<1>5. \A e \in Shown(c) : Follows(e)'
  BY <1>1, <1>4 DEF Follows, Of, jenkins
<1>6. Typed'
  <2>1. \A e \in work' : e \in Task /\ (e.step = "push" => e.result.kind \in Kind \ {"none"})
    BY <1>2, <1>4 DEF Basic, Typed, TypeOK
  <2>2. \A e \in work' : e.sha \in Commits /\ e.job \in Job /\ e.build \in Builds
    BY <2>1 DEF Task
  <2>3. local' \in [Job -> Status]
    BY <1>2 DEF Basic, Typed, TypeOK
  <2> QED
    BY <1>1, <1>2, <2>1, <2>2, <2>3 DEF Basic, Typed, TypeOK, github, jenkins
<1>7. Placed'
  <2>1. \A e \in work' : e.own => e.sha = last
    BY <1>2, <1>4 DEF Basic, Placed
  <2> QED
    BY <1>1, <2>1 DEF Basic, Placed, Past
<1>8. \A j \in Job : Good(local[j], j)'
  BY <1>1, <1>2 DEF Basic, Leads, Good, Of, IsBuilding, jenkins
<1>9. \A e \in work' : Follows(e)'
  BY <1>2, <1>3, <1>5, LeadsKept
<1>10. Leads'
  BY <1>1, <1>3, <1>8, <1>9, LeadsKept DEF Leads, Grows, github
<1> QED
  BY <1>3, <1>6, <1>7, <1>10 DEF Basic

LEMMA FetchBasic ==
  ASSUME Basic, NEW j \in Job, PollFetches(j)
  PROVE  Basic' /\ Grows
<1> DEFINE running == {n \in Builds : builds[n].job = j /\ IsBuilding(n)}
           those   == {[build |-> n, sha |-> builds[n].sha] : n \in running}
<1>1. /\ stage = "poll" /\ j \in left
      /\ found' = [found EXCEPT ![j] = those] /\ left' = IF running = {} THEN left \ {j} ELSE left
      /\ UNCHANGED <<github, jenkins, stage, head, last, local, cur, aliased, orders, work,
                     building, troubles>>
  BY Zenon DEF PollFetches
<1>2. Grows
  BY <1>1, StillBuilds DEF github, jenkins
<1>3. those \in SUBSET [build : Builds, sha : 0 .. MaxCommit] /\ (running = {} => those = {})
  BY Constants DEF Basic, Typed, TypeOK, Unstarted
<1>4. \A b \in those : Known(b, j)
  BY DEF Known, Of, IsBuilding
<1> HIDE DEF running, those
<1>5. Typed'
  BY <1>1, <1>3 DEF Basic, Typed, TypeOK, github, jenkins
<1>6. \A i \in Job : found'[i] = IF i = j THEN those ELSE found[i]
  BY <1>1 DEF Basic, Typed, TypeOK
<1>7. Placed'
  BY <1>1, <1>3, <1>6 DEF Basic, Placed, Past
<1>8. \A i \in Job : \A b \in found'[i] : Known(b, i)
  BY <1>4, <1>6 DEF Basic, Leads
<1>9. \A i \in Job : \A b \in found'[i] : Known(b, i)'
  BY <1>1, <1>8 DEF Known, Of, jenkins
<1>10. Leads'
  BY <1>1, <1>2, <1>9, LeadsKept DEF Leads, Grows, github
<1> QED
  BY <1>2, <1>5, <1>7, <1>10 DEF Basic

LEMMA PollBasic ==
  ASSUME Basic, NEW j \in Job, PollProcesses(j)
  PROVE  Basic' /\ Grows
<1>1. /\ stage = "poll" /\ j \in left /\ left' = left \ {j}
      /\ found' = [found EXCEPT ![j] = {}]
      /\ \A e \in work' : e \in work \/ Foreign(e, j)
      /\ guessed' \subseteq Builds
      /\ UNCHANGED <<tip, comments, overtaken, jenkins, stage, head, last, aliased, orders,
                     building, troubles>>
  BY PollEffect
<1>2. Grows
  BY <1>1, StillBuilds DEF jenkins
<1>3. last \in Commits
  BY <1>1, Constants DEF Basic, Typed, TypeOK, Placed, Past, Commits
<1> DEFINE StatusesGood ==
      /\ gh' \in [Commits -> [Job -> Status]] /\ local' \in [Job -> Status]
      /\ cur' \in [Job -> Status]
      /\ \A d \in Commits, i \in Job : Good(gh[d][i], i)'
      /\ \A i \in Job : Good(local[i], i)' /\ Good(cur[i], i)'
<1>4. StatusesGood
  <2>1. CASE UNCHANGED <<gh, local, cur>>
    BY <1>2, <2>1, LeadsKept DEF Basic, Typed, TypeOK
  <2>2. ASSUME NEW b \in found[j], UpdatesLast(j, "running", b.build) PROVE StatusesGood
    <3>1. PICK n \in Builds : n = b.build
      BY DEF Basic, Typed, TypeOK
    <3>2. Of(n, j) /\ n \in 0 .. MaxBuild
      BY <3>1, Constants DEF Basic, Leads, Known, Builds
    <3>3. Writes(last, j, "running", n)
      BY <1>3, <2>2, <3>1, <3>2, Kinds, UpdateLast DEF Basic
    <3>4. PICK c \in Commits : c = last
      BY <1>3
    <3>5. "running" \in Kind /\ "running" \notin Final
      BY Kinds DEF Final
    <3>6. Writes(c, j, "running", n)
      BY <3>3, <3>4
    <3>7. /\ \A d \in Commits, i \in Job : Good(gh[d][i], i)'
          /\ \A i \in Job : Good(local[i], i)' /\ Good(cur[i], i)'
      BY <1>1, <3>2, <3>5, <3>6, WritesGood DEF jenkins
    <3> QED
      BY <3>6, <3>7 DEF Writes
  <2> QED
    BY <2>1, <2>2, PollEffect
<1>5. \A e \in work' : e \in Task /\ (e.step = "push" => e.result.kind \in Kind \ {"none"})
                       /\ (e.own => e.sha = last)
  BY <1>1, ForeignTasks DEF Basic, Typed, TypeOK, Placed
<1>6. \A e \in work' : Follows(e)'
  <2> TAKE e \in work'
  <2>1. CASE e \in work
    BY <1>2, <2>1, LeadsKept
  <2>2. CASE Foreign(e, j)
    <3>1. e.step = "read" /\ Of(e.build, j) /\ e.job = j
      BY <2>2, ForeignTasks
    <3> QED
      BY <1>1, <3>1 DEF Follows, Of, jenkins
  <2> QED
    BY <1>1, <2>1, <2>2
<1>7. \A i \in Job : found'[i] = IF i = j THEN {} ELSE found[i]
  BY <1>1 DEF Basic, Typed, TypeOK
<1>8. Typed'
  <2>1. found' \in [Job -> SUBSET [build : Builds, sha : 0 .. MaxCommit]]
    BY <1>1 DEF Basic, Typed, TypeOK
  <2>2. work' \subseteq Task
    BY <1>5
  <2>3. \A e \in work' : e.sha \in Commits /\ e.job \in Job /\ e.build \in Builds
    BY <2>2 DEF Task
  <2> QED
    BY <1>1, <1>4, <1>5, <2>1, <2>2, <2>3 DEF Basic, Typed, TypeOK, jenkins
<1>9. Placed'
  BY <1>1, <1>5, <1>7 DEF Basic, Placed, Past
<1>10. \A i \in Job : \A b \in found'[i] : Known(b, i)'
  <2>1. \A i \in Job : \A b \in found'[i] : Known(b, i)
    BY <1>7 DEF Basic, Leads
  <2> QED
    BY <1>1, <2>1 DEF Known, Of, jenkins
<1>11. Leads'
  BY <1>2, <1>4, <1>6, <1>10 DEF Leads, Grows
<1> QED
  BY <1>2, <1>8, <1>9, <1>11 DEF Basic

LEMMA SkipBasic ==
  ASSUME Basic, NEW j \in Job, Skips(j)
  PROVE  Basic' /\ Grows
<1>1. /\ stage = "skip" /\ left' \in {left, left \ {j}}
      /\ UNCHANGED <<tip, comments, guessed, overtaken, jenkins, stage, head, last, aliased,
                     orders, found, building, troubles>>
  BY SkipEffect
<1>2. Grows
  BY <1>1, StillBuilds DEF jenkins
<1>3. last \in Commits
  BY <1>1, Constants DEF Basic, Typed, TypeOK, Placed, Past, Commits
<1> DEFINE StatusesGood ==
      /\ gh' \in [Commits -> [Job -> Status]] /\ local' \in [Job -> Status]
      /\ cur' \in [Job -> Status]
      /\ \A d \in Commits, i \in Job : Good(gh[d][i], i)'
      /\ \A i \in Job : Good(local[i], i)' /\ Good(cur[i], i)'
<1>4. ASSUME UpdatesLast(j, "Skipped", 0) PROVE StatusesGood
  <2>1. PICK c \in Commits : c = last
    BY <1>3
  <2>2. "Skipped" \in Kind /\ 0 \in 0 .. MaxBuild /\ "Skipped" \notin {"running"} \cup Final
    BY CleanKinds, Constants DEF Clean
  <2>3. Writes(c, j, "Skipped", 0)
    BY <1>3, <1>4, <2>1, <2>2, UpdateLast DEF Basic
  <2>4. /\ \A d \in Commits, i \in Job : Good(gh[d][i], i)'
        /\ \A i \in Job : Good(local[i], i)' /\ Good(cur[i], i)'
    BY <1>1, <2>2, <2>3, WritesGood DEF jenkins
  <2> QED
    BY <2>3, <2>4 DEF Writes
<1>5. StatusesGood
  <2>1. CASE UNCHANGED <<gh, local, cur>>
    BY <1>2, <2>1, LeadsKept DEF Basic, Typed, TypeOK
  <2> QED
    BY <1>4, <2>1, SkipEffect
<1>6. ASSUME NEW e \in work', e \notin work
      PROVE  e \in Task /\ e.step = "read" /\ e.sha = last /\ Of(e.build, e.job)
  <2>1. PICK f \in Task : /\ work' = work \cup {f}
                          /\ f.sha = last /\ f.job = j /\ f.step = "read" /\ Of(f.build, j)
    BY <1>6, SkipEffect
  <2>2. e = f
    BY <1>6, <2>1
  <2> QED
    BY <2>1, <2>2
<1>7. \A e \in work' : Follows(e)'
  <2> TAKE e \in work'
  <2>1. CASE e \in work
    BY <1>2, <2>1, LeadsKept
  <2>2. CASE e \notin work
    BY <1>1, <1>6, <2>2 DEF Follows, Of, jenkins
  <2> QED
    BY <2>1, <2>2
<1>8. Typed'
  <2>1. \A e \in work' : e \in Task /\ (e.step = "push" => e.result.kind \in Kind \ {"none"})
    BY <1>6 DEF Basic, Typed, TypeOK
  <2>2. \A e \in work' : e.sha \in Commits /\ e.job \in Job /\ e.build \in Builds
    BY <2>1 DEF Task
  <2> QED
    BY <1>1, <1>5, <2>1, <2>2 DEF Basic, Typed, TypeOK, jenkins
<1>9. Placed'
  BY <1>1, <1>6 DEF Basic, Placed, Past
<1>10. Leads'
  BY <1>1, <1>2, <1>5, <1>7, LeadsKept DEF Leads, Grows
<1> QED
  BY <1>2, <1>8, <1>9, <1>10 DEF Basic

LEMMA ReadBasic ==
  ASSUME Basic, NEW e \in work, BuildRead(e)
  PROVE  Basic' /\ Grows
<1>1. /\ e \in Task /\ stage = "canceller" /\ troubles' \in 0 .. MaxTrouble
      /\ UNCHANGED <<github, jenkins, stage, left, head, last, local, cur, aliased, orders,
                     found, building>>
  BY ReadEffect
<1>2. Grows
  BY <1>1, StillBuilds DEF github, jenkins
<1>3. ASSUME NEW f \in work', f \notin work
      PROVE  f \in Task /\ Moves(e, f) /\ ReadAs(e, f)
  BY <1>3, ReadEffect
<1>4. Of(e.build, e.job) /\ e.own => e.sha = last
  BY DEF Basic, Leads, Follows, Placed
<1>5. ASSUME NEW f \in work', f \notin work
      PROVE  /\ Of(f.build, f.job)
             /\ f.step = "push" =>
                  /\ f.result.kind \in Kind \ ({"none"} \cup Queueable)
                  /\ Good(f.result, f.job)
                  /\ f.result.kind = "running" => ~f.cancel /\ f.result.build = f.build
  <2>1. Moves(e, f) /\ ReadAs(e, f) /\ Of(e.build, e.job)
    BY <1>3, <1>5 DEF Basic, Leads, Follows
  <2>2. f.build = e.build /\ f.job = e.job /\ f.cancel = e.cancel
    BY <2>1 DEF Moves
  <2>3. builds[e.build].state \in {"cloning", "running", "success", "failure", "aborted"}
    BY <2>1 DEF Basic, Typed, TypeOK, Of, Unstarted
  <2>4. ASSUME f.step = "push"
        PROVE  /\ f.result.kind \in Kind \ ({"none"} \cup Queueable)
               /\ Good(f.result, f.job)
               /\ f.result.kind = "running" => ~f.cancel /\ f.result.build = f.build
    <3>1. /\ f.result.build = e.build
          /\ \/ IsBuilding(e.build) /\ ~e.cancel /\ f.result.kind = "running"
             \/ ~IsBuilding(e.build) /\ f.result.kind = builds[e.build].state
      BY <2>1, <2>4 DEF ReadAs
    <3>2. {"running", "success", "failure", "aborted"} \subseteq Kind \ ({"none"} \cup Queueable)
      BY DEF Kind, Queueable, Successful, Errored
    <3>3. f.result.kind \in {"running", "success", "failure", "aborted"}
      BY <2>3, <3>1 DEF IsBuilding
    <3>4. Good(f.result, f.job)
      BY <2>1, <2>2, <3>1 DEF Good, Final, IsBuilding
    <3> QED
      BY <2>2, <2>3, <3>1, <3>2, <3>3, <3>4 DEF IsBuilding
  <2> QED
    BY <2>1, <2>2, <2>4
<1>6. \A f \in work' : Follows(f)'
  <2> TAKE f \in work'
  <2>1. CASE f \in work
    BY <1>2, <2>1, LeadsKept
  <2>2. CASE f \notin work
    <3>1. Follows(f)
      BY <1>5, <2>2 DEF Follows
    <3> QED
      BY <1>1, <3>1 DEF Follows, Of, Good, IsBuilding, jenkins
  <2> QED
    BY <2>1, <2>2
<1>7. Typed'
  <2>1. \A f \in work' : f \in Task /\ (f.step = "push" => f.result.kind \in Kind \ {"none"})
    BY <1>3, <1>5 DEF Basic, Typed, TypeOK
  <2>2. \A f \in work' : f.sha \in Commits /\ f.job \in Job /\ f.build \in Builds
    BY <2>1 DEF Task
  <2> QED
    BY <1>1, <2>1, <2>2 DEF Basic, Typed, TypeOK, jenkins, github
<1>8. Placed'
  BY <1>1, <1>3 DEF Basic, Placed, Past, Moves
<1>9. Leads'
  BY <1>1, <1>2, <1>6, LeadsKept DEF Leads, Grows, github
<1> QED
  BY <1>2, <1>7, <1>8, <1>9 DEF Basic

LEMMA StopBasic ==
  ASSUME Basic, NEW e \in work, BuildStopped(e)
  PROVE  Basic' /\ Grows
<1>1. /\ e \in Task /\ stage = "canceller" /\ Grows
      /\ UNCHANGED <<github, items, stage, left, head, last, local, cur, aliased, orders,
                     found, building, troubles>>
  BY StopEffect
<1>2. PICK f \in Task :
          /\ Moves(e, f) /\ work' = (work \ {e}) \cup {f} /\ f.step = "push"
          /\ \/ /\ f.result.kind = cur[e.job].kind /\ f.result.build = cur[e.job].build
                /\ cur[e.job].kind \in Successful
             \/ f.result.kind = "Cancelled"
  BY StopEffect
<1>3. /\ Of(e.build, e.job) /\ e.job \in Job /\ f.build = e.build /\ f.job = e.job
      /\ f.result.kind \in Kind \ ({"none", "running"} \cup Queueable) /\ f.result \in Status
      /\ (e.own => e.sha = last) /\ f.own = e.own /\ f.sha = e.sha
  BY <1>1, <1>2 DEF Basic, Leads, Follows, Placed, Task, Moves, Kind, Queueable, Successful, Errored
<1>4. Good(f.result, f.job)
  <2>1. Good(cur[e.job], e.job)
    BY <1>3 DEF Basic, Leads
  <2> QED
    BY <1>2, <1>3, <2>1 DEF Good, Final
<1>5. Follows(f)'
  <2>1. Follows(f)
    BY <1>3, <1>4 DEF Follows
  <2> QED
    BY <1>1, <2>1, Growth DEF Basic
<1>6. \A g \in work' : Follows(g)'
  BY <1>1, <1>2, <1>5, LeadsKept
<1>7. Typed'
  <2>1. \A g \in work' : g \in Task /\ (g.step = "push" => g.result.kind \in Kind \ {"none"})
    BY <1>2, <1>3 DEF Basic, Typed, TypeOK
  <2>2. \A g \in work' : g.sha \in Commits /\ g.job \in Job /\ g.build \in Builds
    BY <2>1 DEF Task
  <2> QED
    BY <1>1, <2>1, <2>2 DEF Basic, Typed, TypeOK, github, Grows
<1>8. Placed'
  BY <1>1, <1>2, <1>3 DEF Basic, Placed, Past
<1>9. Leads'
  BY <1>1, <1>6, LeadsKept DEF Leads, Grows, github
<1> QED
  BY <1>1, <1>7, <1>8, <1>9 DEF Basic

LEMMA PushBasic ==
  ASSUME Basic, NEW e \in work, ResultPushed(e)
  PROVE  Basic' /\ Grows
<1>1. /\ e \in Task /\ e.step = "push" /\ stage = "canceller" /\ work' = work \ {e}
      /\ Writes(e.sha, e.job, e.result.kind, e.result.build)
      /\ UNCHANGED <<tip, comments, guessed, overtaken, jenkins, stage, left, head, last,
                     aliased, orders, found, building, troubles>>
  BY PushEffect
<1>2. Grows
  BY <1>1, StillBuilds DEF jenkins
<1>3. /\ \A d \in Commits, i \in Job : Good(gh[d][i], i)'
      /\ \A i \in Job : Good(local[i], i)' /\ Good(cur[i], i)'
  <2>1. PICK c \in Commits, j \in Job, kind \in Kind, n \in 0 .. MaxBuild :
            c = e.sha /\ j = e.job /\ kind = e.result.kind /\ n = e.result.build
    BY <1>1 DEF Task, Status
  <2>2. Writes(c, j, kind, n)
    BY <1>1, <2>1
  <2>3. kind \in {"running"} \cup Final => Of(n, j) /\ (kind \in Final => ~IsBuilding(n))
    BY <1>1, <2>1 DEF Basic, Leads, Follows, Good
  <2> QED
    BY <1>1, <2>2, <2>3, WritesGood DEF jenkins
<1>4. Typed'
  BY <1>1 DEF Basic, Typed, TypeOK, jenkins, Writes
<1>5. Placed'
  BY <1>1 DEF Basic, Placed, Past
<1>6. Leads'
  BY <1>1, <1>2, <1>3, LeadsKept DEF Leads, Grows
<1> QED
  BY <1>2, <1>4, <1>5, <1>6 DEF Basic

\* The end of a run, whatever ended it.
Ends == Drops /\ troubles' \in 0 .. MaxTrouble

\* The steps of a run that stand for themselves.
LEMMA StepCases ==
  ASSUME Typed, Next
  PROVE  \/ World \/ Reads \/ Ends
         \/ \E j \in Job : Quiet(j) /\ JobStep(j)
         \/ \E j \in Job : PollFetches(j) \/ PollProcesses(j) \/ Skips(j)
         \/ \E c \in Commits : AutoCancels(c)
         \/ \E e \in work : BuildRead(e) \/ BuildStopped(e) \/ ResultPushed(e)
<1>1. troubles \in 0 .. MaxTrouble
  BY DEF Typed, TypeOK
<1>2. RunEnds => Ends
  BY <1>1 DEF RunEnds, Ends
<1>3. RunAbandoned => Ends
  BY <1>1, Constants DEF RunAbandoned, Ends, Trouble
<1>4. \A j \in Job : JobStep(j) => Quiet(j)
  BY JobStepsQuiet
<1>5. CASE RunStep
  <2>1. CASE \E j \in Job :
                \/ Unskips(j) \/ Backs(j) \/ PollFetches(j) \/ PollProcesses(j) \/ Skips(j)
                \/ NothingToBuild(j) \/ QueueBusy(j) \/ QueueEmpty(j) \/ Built(j) \/ BuildFailed(j)
    BY <1>4, <2>1, Zenon DEF JobStep
  <2>2. CASE RunStarts \/ CommitsFetched \/ StatusesFetched \/ CommentsFetched \/ NextExtension
             \/ RunEnds
    BY <1>2, <2>2 DEF Reads
  <2> QED
    BY <1>5, <2>1, <2>2, Zenon DEF RunStep
<1> QED
  BY <1>3, <1>5, Zenon DEF Next, World

LEMMA BasicNext ==
  ASSUME Basic, Next
  PROVE  Basic' /\ Grows
<1>0. Typed
  BY DEF Basic
<1>1. CASE World
  BY <1>1, WorldBasic
<1>2. CASE Reads
  BY <1>2, ReadsBasic
<1>3. CASE Ends
  BY <1>3, DropsBasic DEF Ends
<1>4. ASSUME NEW j \in Job, Quiet(j) PROVE Basic' /\ Grows
  <2>1. Grows
    BY <1>4, StillBuilds DEF Quiet
  <2> QED
    BY <1>4, <2>1, QuietBasic
<1>5. ASSUME NEW j \in Job, PollFetches(j) \/ PollProcesses(j) \/ Skips(j) PROVE Basic' /\ Grows
  BY <1>5, FetchBasic, PollBasic, SkipBasic
<1>6. ASSUME NEW c \in Commits, AutoCancels(c) PROVE Basic' /\ Grows
  BY <1>6, AutoCancelBasic
<1>7. ASSUME NEW e \in work, BuildRead(e) \/ BuildStopped(e) \/ ResultPushed(e)
      PROVE  Basic' /\ Grows
  BY <1>7, ReadBasic, StopBasic, PushBasic
<1> QED
  BY <1>0, <1>1, <1>2, <1>3, <1>4, <1>5, <1>6, <1>7, StepCases

LEMMA BasicStep == Basic /\ [Next]_vars => Basic'
<1> SUFFICES ASSUME Basic, [Next]_vars PROVE Basic'
  OBVIOUS
<1>1. CASE Next
  BY <1>1, BasicNext
<1>2. CASE UNCHANGED vars
  <2>1. /\ UNCHANGED <<tip, gh, comments, guessed, overtaken, items, builds>>
        /\ UNCHANGED <<stage, left, head, last, local, cur, aliased, orders, found, work>>
        /\ UNCHANGED <<building, troubles>>
    BY <1>2 DEF vars, github, jenkins, run
  <2>2. Typed'
    BY <2>1 DEF Basic, Typed, TypeOK
  <2>3. Placed'
    BY <2>1 DEF Basic, Placed, Past
  <2>4. Leads'
    BY <2>1 DEF Basic, Leads, Sound, Good, Of, IsBuilding, Known, Follows
  <2> QED
    BY <2>2, <2>3, <2>4 DEF Basic
<1> QED
  BY <1>1, <1>2

\* The variables of a head keep their types for any number of jobs, commits,
\* builds, comments and troubles.
THEOREM TypeCorrect == Spec => []TypeOK
<1>1. Basic => TypeOK
  BY DEF Basic, Typed
<1> QED
  BY <1>1, BasicInit, BasicStep, PTL DEF Spec

-----------------------------------------------------------------------------
(* Second layer: the statuses of the last commit, unless it was pushed       *)
(* during a run                                                              *)

\* A build that has no commit yet will get the last one.
ForTip(n) == builds[n].sha \in {0, tip}

OfTip(s, j) ==
    /\ s.kind = "running" => ForTip(s.build)
    /\ s.kind \in Final => builds[s.build] = [job |-> j, sha |-> tip, state |-> s.kind]

\* Nothing is said of a commit before it is pushed.
Unspoiled ==
    /\ overtaken \subseteq 1 .. tip
    /\ \A c \in Commits, j \in Job : c > tip => gh[c][j] = Missing
    /\ \A e \in work : e.sha <= tip

InTime ==
    /\ stage # "idle" => head = tip
    /\ Past => last = tip
    /\ \A j \in Job : OfTip(gh[tip][j], j)
    /\ Loaded => \A j \in Job : OfTip(local[j], j) /\ OfTip(cur[j], j)
    /\ \A j \in Job : \A b \in found[j] : b.sha \in {0, tip} => ForTip(b.build)
    /\ \A e \in work : e.sha = tip =>
           ForTip(e.build) /\ (e.step = "push" => OfTip(e.result, e.job))

Truthful == Unspoiled /\ (tip \notin overtaken => InTime)

LEMMA TruthfulInit == Init => Truthful
<1> SUFFICES ASSUME Init PROVE Truthful
  OBVIOUS
<1>1. Missing.kind = "none" /\ 1 \in Commits /\ tip = 1
  BY Constants, MissingStatus DEF Init, Commits
<1>2. \A c \in Commits, j \in Job : gh[c][j] = Missing
  BY DEF Init
<1> QED
  BY <1>1, <1>2 DEF Init, Truthful, Unspoiled, InTime, OfTip, Past, Loaded, Final

\* The last commit, among the statuses.
LEMMA Tip ==
  ASSUME Typed
  PROVE  /\ tip \in Commits /\ tip \in Nat /\ tip >= 1 /\ head \in Nat /\ last \in Nat
         /\ head <= tip /\ last <= tip
         /\ gh[tip] \in [Job -> Status]
  BY Constants DEF Typed, TypeOK, Commits

LEMMA TipKept ==
  ASSUME Basic, Grows, UNCHANGED tip
  PROVE  /\ \A n \in Builds : builds[n].state # "none" /\ ForTip(n) => ForTip(n)'
         /\ \A s \in Status, j \in Job : Good(s, j) /\ OfTip(s, j) => OfTip(s, j)'
<1>1. \A n \in Builds : builds[n].state # "none" /\ ForTip(n) => ForTip(n)'
  BY DEF Grows, ForTip
<1>2. ASSUME NEW s \in Status, NEW j \in Job, Good(s, j), OfTip(s, j) PROVE OfTip(s, j)'
  <2>1. s.kind = "running" => s.build \in Builds /\ builds[s.build].state # "none"
    BY <1>2 DEF Good, Of
  <2>2. s.kind \in Final => /\ s.build \in Builds /\ builds[s.build].state # "none"
                            /\ ~IsBuilding(s.build)
    BY <1>2 DEF Good, Of
  <2>3. s.kind \in Final => builds'[s.build] = builds[s.build]
    BY <2>2 DEF Grows
  <2>4. s.kind = "running" => ForTip(s.build) /\ ForTip(s.build)'
    BY <1>1, <1>2, <2>1 DEF OfTip
  <2> QED
    BY <1>2, <2>3, <2>4 DEF OfTip
<1> QED
  BY <1>1, <1>2

\* The parts of InTime that a step leaves alone.
LEMMA InTimeKept ==
  ASSUME Basic, InTime, Grows, UNCHANGED tip
  PROVE  /\ UNCHANGED gh => \A j \in Job : OfTip(gh[tip][j], j)'
         /\ Loaded /\ UNCHANGED local => \A j \in Job : OfTip(local[j], j)'
         /\ Loaded /\ UNCHANGED cur => \A j \in Job : OfTip(cur[j], j)'
         /\ UNCHANGED found =>
                \A j \in Job : \A b \in found[j] : b.sha \in {0, tip} => ForTip(b.build)'
         /\ \A e \in work : e.sha = tip =>
                ForTip(e.build)' /\ (e.step = "push" => OfTip(e.result, e.job)')
<1> USE DEF Basic, Typed, TypeOK, Leads
<1>1. ASSUME UNCHANGED gh, NEW j \in Job PROVE OfTip(gh[tip][j], j)'
  <2>1. PICK s \in Status : s = gh[tip][j]
    BY Tip
  <2>2. Good(s, j) /\ OfTip(s, j)
    BY <2>1, Tip DEF InTime
  <2>3. OfTip(s, j)'
    BY <2>2, TipKept
  <2> QED
    BY <1>1, <2>1, <2>3 DEF OfTip, ForTip
<1>2. ASSUME Loaded, UNCHANGED local, NEW j \in Job PROVE OfTip(local[j], j)'
  <2>1. PICK s \in Status : s = local[j]
    OBVIOUS
  <2>2. Good(s, j) /\ OfTip(s, j)
    BY <1>2, <2>1 DEF InTime
  <2>3. OfTip(s, j)'
    BY <2>2, TipKept
  <2> QED
    BY <1>2, <2>1, <2>3 DEF OfTip, ForTip
<1>3. ASSUME Loaded, UNCHANGED cur, NEW j \in Job PROVE OfTip(cur[j], j)'
  <2>1. PICK s \in Status : s = cur[j]
    OBVIOUS
  <2>2. Good(s, j) /\ OfTip(s, j)
    BY <1>3, <2>1 DEF InTime
  <2>3. OfTip(s, j)'
    BY <2>2, TipKept
  <2> QED
    BY <1>3, <2>1, <2>3 DEF OfTip, ForTip
<1>4. ASSUME UNCHANGED found, NEW j \in Job, NEW b \in found[j], b.sha \in {0, tip}
      PROVE  ForTip(b.build)'
  <2>1. b.build \in Builds /\ builds[b.build].state # "none" /\ ForTip(b.build)
    BY <1>4 DEF Known, Of, InTime
  <2> QED
    BY <2>1, TipKept
<1>5. ASSUME NEW e \in work, e.sha = tip
      PROVE  ForTip(e.build)' /\ (e.step = "push" => OfTip(e.result, e.job)')
  <2>1. /\ e \in Task /\ Follows(e) /\ ForTip(e.build)
        /\ (e.step = "push" => OfTip(e.result, e.job))
    BY <1>5 DEF InTime
  <2>2. e.build \in Builds /\ builds[e.build].state # "none"
        /\ e.result \in Status /\ e.job \in Job /\ (e.step = "push" => Good(e.result, e.job))
    BY <2>1 DEF Task, Follows, Of
  <2> QED
    BY <2>1, <2>2, TipKept
<1> QED
  BY <1>1, <1>2, <1>3, <1>4, <1>5

LEMMA WorldTruthful ==
  ASSUME Basic, Truthful, World
  PROVE  Truthful'
<1>1. Grows /\ UNCHANGED <<gh, guessed, run>>
  BY WorldBasic
<1>2. tip \in Nat /\ tip \in Commits /\ gh[tip] \in [Job -> Status]
  BY Tip DEF Basic
<1>3. UNCHANGED <<stage, head, last, local, cur, found, work>>
  BY <1>1 DEF run
<1>4. CASE Push
  <2>1. tip' = tip + 1 /\ tip' \in Commits
        /\ overtaken' = IF stage = "idle" THEN overtaken ELSE overtaken \cup {tip'}
    BY <1>2, <1>4, Constants DEF Push, Commits
  <2>2. Unspoiled'
    <3>1. overtaken' \subseteq 1 .. tip'
      BY <1>2, <2>1 DEF Truthful, Unspoiled
    <3>2. \A c \in Commits, j \in Job : c > tip' => gh'[c][j] = Missing
      BY <1>1, <1>2, <2>1, Constants DEF Truthful, Unspoiled, Commits
    <3>3. \A e \in work' : e.sha \in Commits /\ e.sha <= tip
      BY <1>3 DEF Truthful, Unspoiled, Basic, Typed, TypeOK
    <3>4. \A e \in work' : e.sha <= tip'
      BY <1>2, <2>1, <3>3, Constants DEF Commits
    <3> QED
      BY <3>1, <3>2, <3>4 DEF Unspoiled
  <2>3. ASSUME tip' \notin overtaken' PROVE InTime'
    <3>1. stage = "idle"
      BY <2>1, <2>3
    <3>2. work = {} /\ \A j \in Job : found[j] = {}
      BY <3>1 DEF Basic, Placed
    <3>3. \A j \in Job : gh'[tip'][j] = Missing
      BY <1>1, <1>2, <2>1, Constants DEF Truthful, Unspoiled, Commits
    <3>4. \A j \in Job : OfTip(gh[tip][j], j)'
      BY <3>3, MissingStatus DEF OfTip, Final
    <3> QED
      BY <1>3, <3>1, <3>2, <3>4 DEF InTime, Past, Loaded
  <2> QED
    BY <2>2, <2>3 DEF Truthful
<1>5. CASE UNCHANGED <<tip, overtaken>>
  <2>1. Unspoiled'
    BY <1>1, <1>3, <1>5 DEF Truthful, Unspoiled
  <2>2. ASSUME tip \notin overtaken PROVE InTime'
    <3>1. InTime
      BY <2>2 DEF Truthful
    <3> QED
      BY <1>1, <1>3, <1>5, <3>1, InTimeKept DEF InTime, Past, Loaded
  <2> QED
    BY <1>5, <2>1, <2>2 DEF Truthful
<1>6. ~Push => UNCHANGED <<tip, overtaken>>
  BY JenkinsGrows DEF World, Comment, QueueFlushed, github
<1> QED
  BY <1>4, <1>5, <1>6

LEMMA EndsTruthful ==
  ASSUME Basic, Truthful, Ends
  PROVE  Truthful'
<1>1. Grows
  BY DropsBasic DEF Ends
<1>2. /\ UNCHANGED <<tip, gh, overtaken>> /\ stage' = "idle" /\ work' = {}
      /\ found' = [j \in Job |-> {}]
  BY DEF Ends, Drops, github
<1>3. Unspoiled'
  BY <1>2 DEF Truthful, Unspoiled
<1>4. ASSUME InTime PROVE InTime'
  BY <1>1, <1>2, <1>4, InTimeKept DEF InTime, Past, Loaded
<1> QED
  BY <1>2, <1>3, <1>4 DEF Truthful

LEMMA ReadsTruthful ==
  ASSUME Basic, Truthful, Reads
  PROVE  Truthful'
<1>1. Grows
  BY ReadsBasic
<1>2. UNCHANGED <<github, jenkins, found, work>>
  BY DEF Reads, RunStarts, CommitsFetched, StatusesFetched, CommentsFetched, NextExtension,
         ExtensionStarts
<1>3. UNCHANGED <<tip, gh, overtaken, builds, found, work>>
  BY <1>2 DEF github, jenkins
<1>4. Unspoiled'
  BY <1>3 DEF Truthful, Unspoiled
<1>5. ASSUME InTime PROVE InTime'
  <2>1. /\ \A j \in Job : OfTip(gh[tip][j], j)'
        /\ \A j \in Job : \A b \in found'[j] : b.sha \in {0, tip'} => ForTip(b.build)'
        /\ \A e \in work' : e.sha = tip' =>
               ForTip(e.build)' /\ (e.step = "push" => OfTip(e.result, e.job)')
    BY <1>1, <1>3, <1>5, InTimeKept
  <2>2. CASE RunStarts
    BY <2>1, <2>2, <1>3 DEF RunStarts, InTime, Past, Loaded
  <2>3. CASE CommitsFetched
    BY <2>1, <2>3, <1>3, <1>5 DEF CommitsFetched, InTime, Past, Loaded
  <2>4. CASE StatusesFetched
    <3>1. /\ stage = "statuses" /\ stage' = "comments" /\ UNCHANGED <<head, last>>
          /\ local' = gh[last] /\ cur' = gh[last] /\ last = tip
      BY <2>4, <1>5 DEF StatusesFetched, InTime, Past
    <3>2. \A j \in Job : OfTip(local[j], j)' /\ OfTip(cur[j], j)'
      BY <1>3, <2>1, <3>1 DEF OfTip, ForTip
    <3> QED
      BY <1>3, <1>5, <2>1, <3>1, <3>2 DEF InTime, Past, Loaded
  <2>5. CASE CommentsFetched \/ NextExtension
    <3>1. /\ Loaded /\ UNCHANGED <<head, last, local, cur>> /\ stage # "idle" /\ Past
      BY <2>5 DEF CommentsFetched, NextExtension, ExtensionStarts, Loaded, Past
    <3>2. \A j \in Job : OfTip(local[j], j)' /\ OfTip(cur[j], j)'
      BY <1>1, <1>3, <1>5, <3>1, InTimeKept
    <3> QED
      BY <1>3, <1>5, <2>1, <3>1, <3>2 DEF InTime
  <2> QED
    BY <2>2, <2>3, <2>4, <2>5 DEF Reads
<1> QED
  BY <1>3, <1>4, <1>5 DEF Truthful

\* One status more, which says of the last commit what is true.
LEMMA WritesTruthful ==
  ASSUME Basic, Truthful, Loaded, UNCHANGED <<tip, overtaken, builds>>,
         NEW c \in Commits, c <= tip, NEW j \in Job, NEW kind \in Kind,
         NEW build \in 0 .. MaxBuild, Writes(c, j, kind, build),
         tip \notin overtaken /\ c = tip =>
             \A s \in Status : s.kind = kind /\ s.build = build => OfTip(s, j)
  PROVE  /\ \A d \in Commits, i \in Job : d > tip' => gh'[d][i] = Missing
         /\ tip \notin overtaken =>
              /\ \A i \in Job : OfTip(gh[tip][i], i)'
              /\ \A i \in Job : OfTip(local[i], i)' /\ OfTip(cur[i], i)'
<1>0. tip \in Nat /\ tip \in Commits /\ gh[tip] \in [Job -> Status]
  BY Tip DEF Basic
<1>1. \A d \in Commits, i \in Job : d > tip' => gh'[d][i] = Missing
  <2> TAKE d \in Commits, i \in Job
  <2>1. c \in Nat /\ d \in Nat
    BY Constants DEF Commits
  <2>2. CASE d > tip
    <3>1. d # c
      BY <1>0, <2>1, <2>2
    <3> QED
      BY <2>2, <3>1 DEF Writes, Truthful, Unspoiled
  <2> QED
    BY <2>2
<1>2. ASSUME tip \notin overtaken
      PROVE  /\ \A i \in Job : OfTip(gh[tip][i], i)'
             /\ \A i \in Job : OfTip(local[i], i)' /\ OfTip(cur[i], i)'
  <2>1. InTime /\ last = tip
    BY <1>2 DEF Truthful, InTime, Past, Loaded
  <2>2. \A s \in Status, i \in Job : OfTip(s, i) <=> OfTip(s, i)'
    BY DEF OfTip, ForTip
  <2>3. ASSUME NEW i \in Job PROVE OfTip(gh[tip][i], i)'
    <3>1. PICK s \in Status : s = gh'[tip][i]
      BY <1>0 DEF Writes
    <3>2. OfTip(s, i)
      BY <1>0, <1>2, <2>1, <3>1 DEF Writes, InTime
    <3> QED
      BY <2>2, <3>1, <3>2 DEF OfTip, ForTip
  <2>4. ASSUME NEW i \in Job PROVE OfTip(local[i], i)'
    <3>1. PICK s \in Status : s = local'[i]
      BY DEF Writes
    <3>2. OfTip(s, i)
      BY <1>2, <2>1, <3>1 DEF Writes, InTime
    <3> QED
      BY <2>2, <3>1, <3>2 DEF OfTip, ForTip
  <2>5. ASSUME NEW i \in Job PROVE OfTip(cur[i], i)'
    <3>1. PICK s \in Status : s = cur'[i]
      BY DEF Writes
    <3>2. CASE s = cur[i]
      <4>1. OfTip(s, i)
        BY <2>1, <3>2 DEF InTime
      <4> QED
        BY <2>2, <3>1, <4>1 DEF OfTip, ForTip
    <3>3. CASE s = local'[i]
      BY <2>4, <3>1, <3>3 DEF OfTip, ForTip
    <3> QED
      BY <3>1, <3>2, <3>3 DEF Writes
  <2> QED
    BY <2>3, <2>4, <2>5
<1> QED
  BY <1>1, <1>2

LEMMA QuietTruthful ==
  ASSUME Basic, Truthful, NEW j \in Job, Quiet(j)
  PROVE  Truthful'
<1>1. PICK kind \in Clean : Writes(last, j, kind, 0)
  BY QuietWrites
<1>2. Grows
  BY StillBuilds DEF Quiet
<1>3. /\ UNCHANGED <<tip, overtaken, builds, stage, head, last, found, work>> /\ Loaded
  BY DEF Quiet, Loaded
<1>4. last \in Commits /\ last <= tip
  BY <1>3, Constants DEF Basic, Typed, TypeOK, Placed, Past, Loaded, Commits
<1>5. PICK c \in Commits : c = last
  BY <1>4
<1>6. kind \in Kind /\ 0 \in 0 .. MaxBuild /\ kind \notin {"running"} \cup Final
  BY Constants DEF Clean
<1>7. \A s \in Status : s.kind = kind /\ s.build = 0 => OfTip(s, j)
  BY <1>6 DEF OfTip
<1>8. /\ \A d \in Commits, i \in Job : d > tip' => gh'[d][i] = Missing
      /\ tip \notin overtaken =>
           /\ \A i \in Job : OfTip(gh[tip][i], i)'
           /\ \A i \in Job : OfTip(local[i], i)' /\ OfTip(cur[i], i)'
  <2>1. Writes(c, j, kind, 0) /\ c <= tip
    BY <1>1, <1>4, <1>5
  <2> QED
    BY <1>3, <1>6, <1>7, <2>1, WritesTruthful
<1>9. Unspoiled'
  BY <1>3, <1>8 DEF Truthful, Unspoiled
<1>10. ASSUME tip \notin overtaken PROVE InTime'
  <2>1. InTime
    BY <1>10 DEF Truthful
  <2> QED
    BY <1>2, <1>3, <1>8, <1>10, <2>1, InTimeKept DEF InTime, Past
<1> QED
  BY <1>3, <1>9, <1>10 DEF Truthful

LEMMA AutoCancelTruthful ==
  ASSUME Basic, Truthful, NEW c \in Commits, AutoCancels(c)
  PROVE  Truthful'
<1>1. /\ stage = "autocancel" /\ c \in 1 .. last
      /\ UNCHANGED <<github, jenkins, stage, head, last, cur, found>>
  BY AutoCancelEffect
<1>2. /\ work' = work \cup Shown(c) \/ work' = work
      /\ local' = local \/ (c = last /\ local' = gh[c])
  BY AutoCancelEffect
<1>3. Grows
  BY AutoCancelBasic
<1>4. UNCHANGED <<tip, gh, overtaken, builds>>
  BY <1>1 DEF github, jenkins
<1>5. \A e \in Shown(c) : /\ e.sha = c /\ e.step = "read" /\ gh[c][e.job].kind = "running"
                          /\ e.build = gh[c][e.job].build /\ e.job \in Job
  BY ShownTasks DEF Task
<1>6. Unspoiled'
  <2>1. c <= tip
    BY <1>1, Tip, Constants DEF Basic, Commits
  <2>2. \A e \in work' : e.sha <= tip
    BY <1>2, <1>5, <2>1 DEF Truthful, Unspoiled
  <2> QED
    BY <1>4, <2>2 DEF Truthful, Unspoiled
<1>7. ASSUME tip \notin overtaken PROVE InTime'
  <2>1. InTime /\ Past /\ Loaded
    BY <1>1, <1>7 DEF Truthful, Past, Loaded
  <2>2. ASSUME NEW e \in Shown(c), e.sha = tip PROVE ForTip(e.build)'
    <3>1. OfTip(gh[tip][e.job], e.job) /\ gh[tip][e.job].kind = "running"
      BY <1>5, <2>1, <2>2 DEF InTime
    <3> QED
      BY <1>4, <1>5, <2>2, <3>1 DEF OfTip, ForTip
  <2>3. \A e \in work' : e.sha = tip' =>
            ForTip(e.build)' /\ (e.step = "push" => OfTip(e.result, e.job)')
    BY <1>2, <1>3, <1>4, <1>5, <2>1, <2>2, InTimeKept
  <2>4. \A j \in Job : OfTip(gh[tip][j], j)'
    BY <1>3, <1>4, <2>1, InTimeKept
  <2>5. \A j \in Job : OfTip(local[j], j)'
    <3>1. CASE local' = local
      BY <1>3, <1>4, <2>1, <3>1, InTimeKept
    <3>2. CASE c = last /\ local' = gh[c]
      <4>1. local' = gh'[tip']
        BY <1>4, <2>1, <3>2 DEF InTime
      <4> QED
        BY <2>4, <4>1 DEF OfTip, ForTip
    <3> QED
      BY <1>2, <3>1, <3>2
  <2>6. \A j \in Job : OfTip(cur[j], j)'
    BY <1>1, <1>3, <1>4, <2>1, InTimeKept
  <2>7. \A j \in Job : \A b \in found'[j] : b.sha \in {0, tip'} => ForTip(b.build)'
    BY <1>1, <1>3, <1>4, <2>1, InTimeKept
  <2> QED
    BY <1>1, <1>4, <2>1, <2>3, <2>4, <2>5, <2>6, <2>7 DEF InTime
<1> QED
  BY <1>4, <1>6, <1>7 DEF Truthful

LEMMA FetchTruthful ==
  ASSUME Basic, Truthful, NEW j \in Job, PollFetches(j)
  PROVE  Truthful'
<1>1. Grows /\ Basic'
  BY FetchBasic
<1>2. /\ stage = "poll" /\ UNCHANGED <<github, jenkins, stage, head, last, local, cur, work>>
  BY DEF PollFetches
<1>3. UNCHANGED <<tip, gh, overtaken, builds>>
  BY <1>2 DEF github, jenkins
<1>4. Unspoiled'
  BY <1>2, <1>3 DEF Truthful, Unspoiled
<1>5. ASSUME tip \notin overtaken PROVE InTime'
  <2>1. InTime /\ Past /\ Loaded
    BY <1>2, <1>5 DEF Truthful, Past, Loaded
  <2>2. found' = [found EXCEPT ![j] = {[build |-> n, sha |-> builds[n].sha] :
                                          n \in {m \in Builds : builds[m].job = j /\ IsBuilding(m)}}]
    BY Zenon DEF PollFetches
  <2>3. ASSUME NEW i \in Job, NEW b \in found'[i], b.sha \in {0, tip'} PROVE ForTip(b.build)'
    <3>1. CASE i = j
      <4>1. b.sha = builds[b.build].sha
        BY <2>2, <2>3, <3>1 DEF Basic, Typed, TypeOK
      <4> QED
        BY <1>3, <2>3, <4>1 DEF ForTip
    <3>2. CASE i # j
      <4>1. b \in found[i]
        BY <2>2, <2>3, <3>2 DEF Basic, Typed, TypeOK
      <4> QED
        BY <1>3, <2>1, <2>3, <4>1 DEF InTime, ForTip
    <3> QED
      BY <3>1, <3>2
  <2> QED
    BY <1>1, <1>2, <1>3, <2>1, <2>3, InTimeKept DEF InTime
<1> QED
  BY <1>3, <1>4, <1>5 DEF Truthful

LEMMA PollTruthful ==
  ASSUME Basic, Truthful, NEW j \in Job, PollProcesses(j)
  PROVE  Truthful'
<1>1. /\ stage = "poll" /\ found' = [found EXCEPT ![j] = {}]
      /\ \A e \in work' : e \in work \/ Foreign(e, j)
      /\ UNCHANGED <<tip, overtaken, jenkins, stage, head, last>>
  BY PollEffect
<1>2. Grows
  BY PollBasic
<1>3. UNCHANGED builds /\ Loaded /\ Past
  BY <1>1 DEF jenkins, Loaded, Past
<1>4. last \in Commits /\ last <= tip
  BY <1>3, Constants DEF Basic, Typed, TypeOK, Placed, Commits
<1>5. /\ \A d \in Commits, i \in Job : d > tip' => gh'[d][i] = Missing
      /\ tip \notin overtaken =>
           /\ \A i \in Job : OfTip(gh[tip][i], i)'
           /\ \A i \in Job : OfTip(local[i], i)' /\ OfTip(cur[i], i)'
  <2>1. CASE UNCHANGED <<gh, local, cur>>
    <3>1. tip \notin overtaken => InTime
      BY DEF Truthful
    <3> QED
      BY <1>1, <1>2, <1>3, <2>1, <3>1, InTimeKept DEF Truthful, Unspoiled
  <2>2. CASE \E b \in found[j] : Presets(b, j) /\ UpdatesLast(j, "running", b.build)
    <3>1. PICK b \in found[j] : Presets(b, j) /\ UpdatesLast(j, "running", b.build)
      BY <2>2
    <3>2. PICK n \in Builds : n = b.build
      BY DEF Basic, Typed, TypeOK
    <3>3. PICK c \in Commits : c = last
      BY <1>4
    <3>4. n \in 0 .. MaxBuild /\ "running" \in Kind /\ "running" \notin Final
      BY <3>2, Constants, Kinds DEF Builds, Final
    <3>5. Writes(c, j, "running", n)
      BY <1>4, <3>1, <3>2, <3>3, <3>4, UpdateLast DEF Basic
    <3>6. tip \notin overtaken => ForTip(n)
      BY <1>1, <3>1, <3>2 DEF Truthful, InTime, Presets, Ours
    <3>7. tip \notin overtaken /\ c = tip =>
              \A s \in Status : s.kind = "running" /\ s.build = n => OfTip(s, j)
      BY <3>4, <3>6 DEF OfTip
    <3>8. c <= tip
      BY <1>4, <3>3
    <3> QED
      BY <1>1, <1>3, <3>4, <3>5, <3>7, <3>8, WritesTruthful
  <2> QED
    BY <2>1, <2>2, PollEffect
<1>6. \A e \in work' : e \in work \/ (e.sha \notin {0, head} /\ e.sha <= tip /\ e.step = "read")
  <2>1. ASSUME NEW e, Foreign(e, j) PROVE e.sha \notin {0, head} /\ e.sha <= tip /\ e.step = "read"
    <3>1. e.sha \notin {0, head} /\ e.step = "read" /\ e.build \in Builds
          /\ builds[e.build].sha = e.sha
      BY <2>1, ForeignTasks
    <3> QED
      BY <3>1 DEF Basic, Leads, Sound
  <2> QED
    BY <1>1, <2>1
<1>7. Unspoiled'
  BY <1>1, <1>5, <1>6 DEF Truthful, Unspoiled
<1>8. ASSUME tip \notin overtaken PROVE InTime'
  <2>1. InTime /\ head = tip
    BY <1>1, <1>8 DEF Truthful, InTime
  <2>2. \A i \in Job : \A b \in found'[i] : b \in found[i]
    BY <1>1 DEF Basic, Typed, TypeOK
  <2>3. \A i \in Job : \A b \in found'[i] : b.sha \in {0, tip'} => ForTip(b.build)'
    BY <1>1, <1>3, <2>1, <2>2 DEF InTime, ForTip
  <2>4. \A e \in work' : e.sha = tip' =>
            ForTip(e.build)' /\ (e.step = "push" => OfTip(e.result, e.job)')
    BY <1>1, <1>2, <1>6, <2>1, InTimeKept
  <2> QED
    BY <1>1, <1>5, <1>8, <2>1, <2>3, <2>4 DEF InTime, Past
<1> QED
  BY <1>1, <1>7, <1>8 DEF Truthful

LEMMA SkipTruthful ==
  ASSUME Basic, Truthful, NEW j \in Job, Skips(j)
  PROVE  Truthful'
<1>1. /\ stage = "skip"
      /\ UNCHANGED <<tip, overtaken, jenkins, stage, head, last, found>>
  BY SkipEffect
<1>2. Grows
  BY SkipBasic
<1>3. UNCHANGED builds /\ Loaded /\ Past
  BY <1>1 DEF jenkins, Loaded, Past
<1>4. last \in Commits /\ last <= tip
  BY <1>3, Constants DEF Basic, Typed, TypeOK, Placed, Commits
<1>5. /\ \A d \in Commits, i \in Job : d > tip' => gh'[d][i] = Missing
      /\ tip \notin overtaken =>
           /\ \A i \in Job : OfTip(gh[tip][i], i)'
           /\ \A i \in Job : OfTip(local[i], i)' /\ OfTip(cur[i], i)'
  <2>1. CASE UNCHANGED <<gh, local, cur>>
    <3>1. tip \notin overtaken => InTime
      BY DEF Truthful
    <3> QED
      BY <1>1, <1>2, <1>3, <2>1, <3>1, InTimeKept DEF Truthful, Unspoiled
  <2>2. CASE UpdatesLast(j, "Skipped", 0)
    <3>1. PICK c \in Commits : c = last
      BY <1>4
    <3>2. "Skipped" \in Kind /\ 0 \in 0 .. MaxBuild /\ "Skipped" \notin {"running"} \cup Final
      BY CleanKinds, Constants DEF Clean
    <3>3. Writes(c, j, "Skipped", 0)
      BY <1>4, <2>2, <3>1, <3>2, UpdateLast DEF Basic
    <3>4. \A s \in Status : s.kind = "Skipped" /\ s.build = 0 => OfTip(s, j)
      BY <3>2 DEF OfTip
    <3>5. c <= tip
      BY <1>4, <3>1
    <3> QED
      BY <1>1, <1>3, <3>2, <3>3, <3>4, <3>5, WritesTruthful
  <2> QED
    BY <2>1, <2>2, SkipEffect
<1>6. ASSUME NEW e \in work', e \notin work
      PROVE  /\ e.sha = last /\ e.build = cur[j].build /\ cur[j].kind = "running"
             /\ e.step = "read"
  <2>1. PICK f \in Task :
            /\ work' = work \cup {f} /\ f.sha = last /\ f.build = cur[j].build
            /\ f.step = "read" /\ cur[j].kind = "running"
    BY <1>6, SkipEffect
  <2>2. e = f
    BY <1>6, <2>1
  <2> QED
    BY <2>1, <2>2
<1>7. Unspoiled'
  <2>1. \A e \in work' : e.sha <= tip
    BY <1>4, <1>6 DEF Truthful, Unspoiled
  <2> QED
    BY <1>1, <1>5, <2>1 DEF Truthful, Unspoiled
<1>8. ASSUME tip \notin overtaken PROVE InTime'
  <2>1. InTime
    BY <1>8 DEF Truthful
  <2>2. ASSUME NEW e \in work', e \notin work PROVE ForTip(e.build)' /\ e.step # "push"
    BY <1>1, <1>3, <1>6, <2>1, <2>2 DEF InTime, OfTip, ForTip
  <2>3. \A e \in work' : e.sha = tip' =>
            ForTip(e.build)' /\ (e.step = "push" => OfTip(e.result, e.job)')
    BY <1>1, <1>2, <2>1, <2>2, InTimeKept
  <2> QED
    BY <1>1, <1>2, <1>5, <1>8, <2>1, <2>3, InTimeKept DEF InTime, Past
<1> QED
  BY <1>1, <1>7, <1>8 DEF Truthful

LEMMA BuildReadTruthful ==
  ASSUME Basic, Truthful, NEW e \in work, BuildRead(e)
  PROVE  Truthful'
<1>1. /\ e \in Task /\ stage = "canceller"
      /\ UNCHANGED <<github, jenkins, stage, head, last, local, cur, found>>
  BY ReadEffect
<1>2. Grows
  BY ReadBasic
<1>3. UNCHANGED <<tip, gh, overtaken, builds>> /\ Loaded /\ Past
  BY <1>1 DEF github, jenkins, Loaded, Past
<1>4. ASSUME NEW f \in work', f \notin work PROVE Moves(e, f) /\ ReadAs(e, f)
  BY <1>4, ReadEffect
<1>5. Unspoiled'
  BY <1>3, <1>4 DEF Truthful, Unspoiled, Moves
<1>6. ASSUME tip \notin overtaken PROVE InTime'
  <2>1. InTime
    BY <1>6 DEF Truthful
  <2>2. ASSUME NEW f \in work', f \notin work, f.sha = tip
        PROVE  ForTip(f.build) /\ (f.step = "push" => OfTip(f.result, f.job))
    <3>1. ForTip(e.build) /\ f.build = e.build /\ f.job = e.job
      BY <1>4, <2>1, <2>2 DEF Moves, InTime
    <3>2. /\ e.build \in Builds /\ builds[e.build].state # "none" /\ builds[e.build].job = e.job
          /\ Sound(e.build)
      BY DEF Basic, Leads, Follows, Of
    <3>3. builds[e.build] \in
              [job : Job, sha : 0 .. MaxCommit,
               state : {"cloning", "running", "success", "failure", "aborted"}]
      BY <3>2 DEF Basic, Typed, TypeOK, Unstarted
    <3>4. ASSUME f.step = "push" PROVE OfTip(f.result, f.job)
      <4>1. /\ f.result.build = e.build
            /\ \/ IsBuilding(e.build) /\ f.result.kind = "running"
               \/ ~IsBuilding(e.build) /\ f.result.kind = builds[e.build].state
        BY <1>4, <2>2, <3>4 DEF ReadAs
      <4>2. f.result.kind \in Final => builds[e.build].state = f.result.kind
        BY <4>1 DEF Final
      <4>3. f.result.kind \in Final => builds[e.build].sha = tip
        BY <3>1, <3>2, <4>2 DEF Sound, ForTip
      <4>4. f.result.kind \in Final =>
                builds[e.build] = [job |-> e.job, sha |-> tip, state |-> f.result.kind]
        BY <3>2, <3>3, <4>2, <4>3
      <4> QED
        BY <3>1, <4>1, <4>4 DEF OfTip
    <3> QED
      BY <3>1, <3>4
  <2>3. \A f \in work' : f.sha = tip' =>
            ForTip(f.build)' /\ (f.step = "push" => OfTip(f.result, f.job)')
    <3> TAKE f \in work'
    <3>1. CASE f \in work
      BY <1>2, <1>3, <2>1, <3>1, InTimeKept
    <3>2. CASE f \notin work
      BY <1>3, <2>2, <3>2 DEF OfTip, ForTip
    <3> QED
      BY <3>1, <3>2
  <2> QED
    BY <1>1, <1>2, <1>3, <2>1, <2>3, InTimeKept DEF InTime
<1> QED
  BY <1>3, <1>5, <1>6 DEF Truthful

LEMMA StopTruthful ==
  ASSUME Basic, Truthful, NEW e \in work, BuildStopped(e)
  PROVE  Truthful'
<1>1. /\ e \in Task /\ stage = "canceller" /\ Grows
      /\ UNCHANGED <<github, stage, head, last, local, cur, found>>
  BY StopEffect
<1>2. PICK f \in Task :
          /\ Moves(e, f) /\ work' = (work \ {e}) \cup {f} /\ f.step = "push"
          /\ \/ /\ f.result.kind = cur[e.job].kind /\ f.result.build = cur[e.job].build
                /\ cur[e.job].kind \in Successful
             \/ f.result.kind = "Cancelled"
  BY StopEffect
<1>3. UNCHANGED <<tip, gh, overtaken>> /\ Loaded /\ Past
  BY <1>1 DEF github, Loaded, Past
<1>4. f.sha = e.sha /\ f.build = e.build /\ f.job = e.job /\ e.job \in Job
  BY <1>1, <1>2 DEF Moves, Task
<1>5. Unspoiled'
  BY <1>2, <1>3, <1>4 DEF Truthful, Unspoiled
<1>6. ASSUME tip \notin overtaken PROVE InTime'
  <2>1. InTime
    BY <1>6 DEF Truthful
  <2>2. OfTip(cur[e.job], e.job)'
    BY <1>1, <1>3, <1>4, <2>1, InTimeKept
  <2>3. OfTip(f.result, f.job)'
    BY <1>1, <1>2, <1>4, <2>2 DEF OfTip, ForTip, Final, Successful
  <2>4. f.sha = tip => ForTip(f.build)'
    BY <1>1, <1>3, <1>4, <2>1, InTimeKept
  <2>5. \A g \in work' : g.sha = tip' =>
            ForTip(g.build)' /\ (g.step = "push" => OfTip(g.result, g.job)')
    BY <1>1, <1>2, <1>3, <2>1, <2>3, <2>4, InTimeKept
  <2> QED
    BY <1>1, <1>3, <2>1, <2>5, InTimeKept DEF InTime
<1> QED
  BY <1>3, <1>5, <1>6 DEF Truthful

LEMMA PushTruthful ==
  ASSUME Basic, Truthful, NEW e \in work, ResultPushed(e)
  PROVE  Truthful'
<1>1. /\ e \in Task /\ e.step = "push" /\ stage = "canceller" /\ work' = work \ {e}
      /\ Writes(e.sha, e.job, e.result.kind, e.result.build)
      /\ UNCHANGED <<tip, overtaken, jenkins, stage, head, last, found>>
  BY PushEffect
<1>2. Grows
  BY PushBasic
<1>3. UNCHANGED builds /\ Loaded /\ Past
  BY <1>1 DEF jenkins, Loaded, Past
<1>4. PICK c \in Commits, j \in Job, kind \in Kind, n \in 0 .. MaxBuild :
          c = e.sha /\ j = e.job /\ kind = e.result.kind /\ n = e.result.build
  BY <1>1 DEF Task, Status
<1>5. c <= tip
  BY <1>4 DEF Truthful, Unspoiled
<1>6. tip \notin overtaken /\ c = tip =>
          \A s \in Status : s.kind = kind /\ s.build = n => OfTip(s, j)
  BY <1>1, <1>4 DEF Truthful, InTime, OfTip
<1>7. /\ \A d \in Commits, i \in Job : d > tip' => gh'[d][i] = Missing
      /\ tip \notin overtaken =>
           /\ \A i \in Job : OfTip(gh[tip][i], i)'
           /\ \A i \in Job : OfTip(local[i], i)' /\ OfTip(cur[i], i)'
  <2>1. Writes(c, j, kind, n)
    BY <1>1, <1>4
  <2> QED
    BY <1>1, <1>3, <1>5, <1>6, <2>1, WritesTruthful
<1>8. Unspoiled'
  BY <1>1, <1>7 DEF Truthful, Unspoiled
<1>9. ASSUME tip \notin overtaken PROVE InTime'
  <2>1. InTime
    BY <1>9 DEF Truthful
  <2> QED
    BY <1>1, <1>2, <1>3, <1>7, <1>9, <2>1, InTimeKept DEF InTime
<1> QED
  BY <1>1, <1>8, <1>9 DEF Truthful

LEMMA TruthfulStep == Basic /\ Truthful /\ [Next]_vars => Truthful'
<1> SUFFICES ASSUME Basic, Truthful, [Next]_vars PROVE Truthful'
  OBVIOUS
<1>1. CASE Next
  <2>0. Typed
    BY DEF Basic
  <2>1. ASSUME NEW j \in Job, PollFetches(j) \/ PollProcesses(j) \/ Skips(j) PROVE Truthful'
    BY <2>1, FetchTruthful, PollTruthful, SkipTruthful
  <2>2. ASSUME NEW e \in work, BuildRead(e) \/ BuildStopped(e) \/ ResultPushed(e) PROVE Truthful'
    BY <2>2, BuildReadTruthful, StopTruthful, PushTruthful
  <2> QED
    BY <1>1, <2>0, <2>1, <2>2, StepCases, WorldTruthful, ReadsTruthful, EndsTruthful,
       QuietTruthful, AutoCancelTruthful
<1>2. CASE UNCHANGED vars
  <2>1. /\ UNCHANGED <<tip, gh, overtaken, builds, stage, head, last, local, cur, found, work>>
    BY <1>2 DEF vars, github, jenkins, run
  <2>2. Unspoiled'
    BY <2>1 DEF Truthful, Unspoiled
  <2>3. InTime => InTime'
    BY <2>1 DEF InTime, OfTip, ForTip, Past, Loaded
  <2> QED
    BY <2>1, <2>2, <2>3 DEF Truthful
<1> QED
  BY <1>1, <1>2

LEMMA Inductive == Spec => [](Basic /\ Truthful)
  BY BasicInit, BasicStep, TruthfulInit, TruthfulStep, PTL DEF Spec

\* Only a push during a run can make the status of the last commit lie
\* (extensions/jenkins.py:134-172 and 332-352).
THEOREM Honesty == Spec => []HonestUnlessOvertaken
<1>1. Basic /\ Truthful => HonestUnlessOvertaken
  BY DEF Truthful, InTime, OfTip, Final, HonestUnlessOvertaken, TipResultHonest, Honest
<1> QED
  BY <1>1, Inductive, PTL

-----------------------------------------------------------------------------
(* Third layer: whose builds are stopped                                     *)

\* A build whose status is on a commit is one of that commit or of an older one.
From(n, c) == n \in guessed \/ builds[n].sha \in 1 .. c

\* Why the build of a queued status may be stopped; else whose it is.
Justified(e) ==
    /\ e.cancel => \/ head # tip \/ ~ForTip(e.build)
                   \/ e.job \in orders.skip \/ e.build \in guessed
    /\ ~e.cancel => From(e.build, e.sha) /\ e.step # "stop"

Warranted ==
    /\ \A c \in Commits, j \in Job : gh[c][j].kind = "running" => From(gh[c][j].build, c)
    /\ \A e \in work : Justified(e)

LEMMA WarrantedInit == Init => Warranted
<1> SUFFICES ASSUME Init PROVE Warranted
  OBVIOUS
<1>1. \A c \in Commits, j \in Job : gh[c][j].kind = "none"
  BY MissingStatus DEF Init
<1> QED
  BY <1>1 DEF Init, Warranted

\* What stays warranted as builds move on and commits are pushed.
LEMMA WarrantKept ==
  ASSUME Basic, Warranted, Grows, guessed \subseteq guessed', tip' \in Nat,
         UNCHANGED head, tip' = tip \/ tip' = tip + 1
  PROVE  /\ \A n \in Builds, c \in Commits :
                builds[n].state # "none" /\ From(n, c) => From(n, c)'
         /\ UNCHANGED gh => \A c \in Commits, j \in Job :
                gh[c][j].kind = "running" => From(gh[c][j].build, c)'
         /\ UNCHANGED orders => \A e \in work : Justified(e)'
<1>1. ASSUME NEW n \in Builds, NEW c \in Commits, builds[n].state # "none", From(n, c)
      PROVE  From(n, c)'
  BY <1>1, Constants DEF Grows, From, Commits
<1>2. ASSUME UNCHANGED gh, NEW c \in Commits, NEW j \in Job, gh[c][j].kind = "running"
      PROVE  From(gh[c][j].build, c)'
  <2>1. /\ gh[c][j].build \in Builds /\ builds[gh[c][j].build].state # "none"
        /\ From(gh[c][j].build, c)
    BY <1>2 DEF Basic, Leads, Good, Of, Warranted
  <2>2. PICK n \in Builds : n = gh[c][j].build
    BY <2>1
  <2>3. From(n, c)'
    BY <1>1, <2>1, <2>2
  <2> QED
    BY <1>2, <2>2, <2>3 DEF From
<1>3. ASSUME UNCHANGED orders, NEW e \in work PROVE Justified(e)'
  <2>1. /\ e \in Task /\ e.build \in Builds /\ builds[e.build].state # "none" /\ Justified(e)
        /\ e.sha \in Commits
    BY DEF Basic, Typed, Leads, Follows, Of, Warranted, Task
  <2>2. ~e.cancel => From(e.build, e.sha)' /\ e.step # "stop"
    BY <1>1, <2>1 DEF Justified
  <2>3. ASSUME e.cancel
        PROVE  \/ head' # tip' \/ ~ForTip(e.build)'
               \/ e.job \in orders'.skip \/ e.build \in guessed'
    <3>1. CASE tip' = tip
      <4>1. ~ForTip(e.build) => ~ForTip(e.build)'
        BY <2>1, <3>1 DEF Grows, ForTip
      <4> QED
        BY <1>3, <2>1, <2>3, <3>1, <4>1 DEF Justified
    <3>2. CASE tip' = tip + 1
      BY <3>2, Tip DEF Basic
    <3> QED
      BY <3>1, <3>2
  <2> QED
    BY <2>2, <2>3 DEF Justified
<1> QED
  BY <1>1, <1>2, <1>3

\* One status more, of a build from that commit if it runs.
LEMMA WritesWarranted ==
  ASSUME Basic, Warranted, Grows, guessed \subseteq guessed', UNCHANGED <<builds, tip, head>>,
         NEW c \in Commits, NEW j \in Job, NEW kind \in Kind, NEW build \in 0 .. MaxBuild,
         Writes(c, j, kind, build),
         kind = "running" => From(build, c)'
  PROVE  \A d \in Commits, i \in Job : gh'[d][i].kind = "running" => From(gh[d][i].build, d)'
<1> TAKE d \in Commits, i \in Job
<1> HAVE gh'[d][i].kind = "running"
<1>1. CASE gh'[d][i] = gh[d][i]
  <2>1. From(gh[d][i].build, d)
    BY <1>1 DEF Warranted
  <2> QED
    BY <1>1, <2>1 DEF From
<1>2. CASE d = c /\ gh'[d][i].kind = kind /\ gh'[d][i].build = build
  BY <1>2 DEF From
<1> QED
  BY <1>1, <1>2 DEF Writes

\* Steps that neither queue a status nor say that a build runs.
LEMMA OthersWarranted ==
  ASSUME Basic, Warranted
  PROVE  /\ World \/ Reads \/ Ends => Warranted'
         /\ \A j \in Job : Quiet(j) \/ PollFetches(j) => Warranted'
<1>0. tip \in Nat
  BY Tip DEF Basic
<1>1. ASSUME World PROVE Warranted'
  <2>1. Grows /\ UNCHANGED <<gh, guessed, run>>
    BY <1>1, WorldBasic
  <2>2. UNCHANGED <<head, orders, work>>
    BY <2>1 DEF run
  <2>3. tip' = tip \/ tip' = tip + 1
    BY <1>1, JenkinsGrows DEF World, Push, Comment, QueueFlushed, github
  <2> QED
    BY <1>0, <2>1, <2>2, <2>3, WarrantKept DEF Warranted
<1>2. ASSUME Ends PROVE Warranted'
  BY <1>2 DEF Ends, Drops, github, jenkins, Warranted, From
<1>3. ASSUME Reads PROVE Warranted'
  <2>1. /\ UNCHANGED <<github, jenkins, work>>
        /\ work = {} \/ UNCHANGED <<head, last, orders>>
    BY <1>3 DEF Reads, RunStarts, CommitsFetched, StatusesFetched, CommentsFetched,
       NextExtension, ExtensionStarts, Basic, Placed
  <2>2. UNCHANGED <<tip, gh, guessed, builds, work>>
    BY <2>1 DEF github, jenkins
  <2> QED
    BY <2>1, <2>2 DEF Warranted, From, Justified, ForTip
<1>4. ASSUME NEW j \in Job, Quiet(j) PROVE Warranted'
  <2>1. PICK kind \in Clean : Writes(last, j, kind, 0)
    BY <1>4, QuietWrites
  <2>2. Grows
    BY <1>4, StillBuilds DEF Quiet
  <2>3. UNCHANGED <<builds, tip, head, last, orders, work, guessed>>
    BY <1>4 DEF Quiet
  <2>4. last \in Commits
    BY <1>4, Constants DEF Quiet, Basic, Typed, TypeOK, Placed, Past, Commits
  <2>5. PICK c \in Commits : c = last
    BY <2>4
  <2>6. kind \in Kind /\ 0 \in 0 .. MaxBuild /\ kind # "running"
    BY Constants DEF Clean
  <2>7. Writes(c, j, kind, 0)
    BY <2>1, <2>5
  <2>8. \A d \in Commits, i \in Job : gh'[d][i].kind = "running" => From(gh[d][i].build, d)'
    BY <2>2, <2>3, <2>6, <2>7, WritesWarranted
  <2>9. \A e \in work : Justified(e)'
    BY <1>0, <2>2, <2>3, WarrantKept
  <2> QED
    BY <2>3, <2>8, <2>9 DEF Warranted
<1>5. ASSUME NEW j \in Job, PollFetches(j) PROVE Warranted'
  <2>1. UNCHANGED <<tip, gh, guessed, builds, head, last, orders, work>>
    BY <1>5 DEF PollFetches, github, jenkins
  <2> QED
    BY <2>1 DEF Warranted, From, Justified, ForTip
<1> QED
  BY <1>1, <1>2, <1>3, <1>4, <1>5

LEMMA AutoCancelWarranted ==
  ASSUME Basic, Warranted, NEW c \in Commits, AutoCancels(c)
  PROVE  Warranted'
<1>1. /\ c \in 1 .. last /\ UNCHANGED <<github, jenkins, head, last, orders>>
      /\ work' = work \cup Shown(c) \/ work' = work
  BY AutoCancelEffect
<1>2. UNCHANGED <<tip, gh, guessed, builds>>
  BY <1>1 DEF github, jenkins
<1>3. ASSUME NEW e \in Shown(c) PROVE Justified(e)
  <2>1. /\ e.sha = c /\ e.cancel = (c # head) /\ e.step = "read" /\ e.job \in Job
        /\ gh[c][e.job].kind = "running" /\ e.build = gh[c][e.job].build
    BY ShownTasks DEF Task
  <2>2. From(e.build, c)
    BY <2>1 DEF Warranted
  <2>3. c \in Nat /\ c <= tip /\ tip \in Nat
    BY <1>1, Tip, Constants DEF Basic, Commits
  <2>4. c # head /\ head = tip => \A x \in 1 .. c : x \notin {0, tip}
    BY <2>3
  <2>5. e.cancel => head # tip \/ ~ForTip(e.build) \/ e.build \in guessed
    BY <2>1, <2>2, <2>4 DEF From, ForTip
  <2> QED
    BY <2>1, <2>2, <2>5 DEF Justified
<1> QED
  BY <1>1, <1>2, <1>3 DEF Warranted, Justified, From, ForTip

LEMMA PollWarranted ==
  ASSUME Basic, Warranted, NEW j \in Job, PollProcesses(j)
  PROVE  Warranted'
<1>1. /\ stage = "poll" /\ guessed \subseteq guessed'
      /\ \A e \in work' : e \in work \/ Foreign(e, j)
      /\ UNCHANGED <<tip, jenkins, stage, head, last, orders>>
  BY PollEffect
<1>2. Grows
  BY PollBasic
<1>3. UNCHANGED builds /\ tip \in Nat
  BY <1>1, Tip DEF jenkins, Basic
<1>4. \A d \in Commits, i \in Job : gh'[d][i].kind = "running" => From(gh[d][i].build, d)'
  <2>1. CASE UNCHANGED <<gh, local, cur>>
    BY <1>1, <1>2, <1>3, <2>1, WarrantKept
  <2>2. CASE \E b \in found[j] : /\ Presets(b, j) /\ (b.sha = 0 => b.build \in guessed')
                                 /\ UpdatesLast(j, "running", b.build)
    <3>1. PICK b \in found[j] : /\ Presets(b, j) /\ (b.sha = 0 => b.build \in guessed')
                                /\ UpdatesLast(j, "running", b.build)
      BY <2>2
    <3>2. PICK n \in Builds : n = b.build
      BY DEF Basic, Typed, TypeOK
    <3>3. /\ last \in Commits /\ head # 0 /\ head <= last /\ head \in Nat /\ last \in Nat
      BY <1>1, Constants, Tip DEF Basic, Typed, TypeOK, Placed, Past, Commits
    <3>4. PICK c \in Commits : c = last
      BY <3>3
    <3>5. n \in 0 .. MaxBuild /\ "running" \in Kind
      BY <3>2, Constants, Kinds DEF Builds
    <3>6. Writes(c, j, "running", n)
      BY <3>1, <3>2, <3>3, <3>4, <3>5, UpdateLast DEF Basic
    <3>7. b.sha = 0 \/ builds[n].sha = head
      BY <3>1, <3>2 DEF Presets, Ours, Basic, Leads, Known
    <3>8. From(n, c)'
      BY <1>3, <3>1, <3>2, <3>3, <3>4, <3>7 DEF From
    <3> QED
      BY <1>1, <1>2, <1>3, <3>5, <3>6, <3>8, WritesWarranted
  <2> QED
    BY <2>1, <2>2, PollEffect
<1>5. ASSUME NEW e, Foreign(e, j) PROVE Justified(e)'
  <2>1. e.sha \notin {0, head} /\ e.cancel = TRUE /\ builds[e.build].sha = e.sha
    BY <1>5, ForeignTasks
  <2>2. head # tip \/ ~ForTip(e.build)
    BY <2>1 DEF ForTip
  <2> QED
    BY <1>1, <1>3, <2>1, <2>2 DEF Justified, ForTip
<1>6. \A e \in work : Justified(e)'
  BY <1>1, <1>2, <1>3, WarrantKept
<1> QED
  BY <1>1, <1>4, <1>5, <1>6 DEF Warranted

LEMMA SkipWarranted ==
  ASSUME Basic, Warranted, NEW j \in Job, Skips(j)
  PROVE  Warranted'
<1>1. stage = "skip" /\ UNCHANGED <<tip, guessed, jenkins, stage, head, last, orders>>
  BY SkipEffect
<1>2. Grows
  BY SkipBasic
<1>3. UNCHANGED builds /\ tip \in Nat
  BY <1>1, Tip DEF jenkins, Basic
<1>4. \A d \in Commits, i \in Job : gh'[d][i].kind = "running" => From(gh[d][i].build, d)'
  <2>1. CASE UNCHANGED <<gh, local, cur>>
    BY <1>1, <1>2, <1>3, <2>1, WarrantKept
  <2>2. CASE UpdatesLast(j, "Skipped", 0)
    <3>1. last \in Commits
      BY <1>1, Constants DEF Basic, Typed, TypeOK, Placed, Past, Commits
    <3>2. PICK c \in Commits : c = last
      BY <3>1
    <3>3. "Skipped" \in Kind /\ 0 \in 0 .. MaxBuild /\ "Skipped" # "running"
      BY CleanKinds, Constants DEF Clean
    <3>4. Writes(c, j, "Skipped", 0)
      BY <2>2, <3>1, <3>2, <3>3, UpdateLast DEF Basic
    <3> QED
      BY <1>1, <1>2, <1>3, <3>3, <3>4, WritesWarranted
  <2> QED
    BY <2>1, <2>2, SkipEffect
<1>5. ASSUME NEW e \in work', e \notin work PROVE Justified(e)'
  <2>1. PICK f \in Task : work' = work \cup {f} /\ f.job = j /\ j \in orders.skip /\ f.cancel = TRUE
    BY <1>5, SkipEffect
  <2>2. e = f
    BY <1>5, <2>1
  <2> QED
    BY <1>1, <2>1, <2>2 DEF Justified
<1>6. \A e \in work : Justified(e)'
  BY <1>1, <1>2, <1>3, WarrantKept
<1> QED
  BY <1>4, <1>5, <1>6 DEF Warranted

LEMMA CancellerWarranted ==
  ASSUME Basic, Warranted, NEW e \in work, BuildRead(e) \/ BuildStopped(e) \/ ResultPushed(e)
  PROVE  Warranted'
<1>0. tip \in Nat /\ e \in Task /\ Justified(e)
  BY Tip DEF Basic, Typed, Warranted
<1>1. /\ UNCHANGED <<tip, guessed, head, orders>> /\ Grows
      /\ \A f \in work' : f \in work \/ (Moves(e, f) /\ (f.step = "stop" => e.cancel))
  <2>1. CASE BuildRead(e)
    BY <2>1, ReadEffect, ReadBasic DEF github, ReadAs
  <2>2. CASE BuildStopped(e)
    <3>1. Grows /\ UNCHANGED <<github, head, orders>>
      BY <2>2, StopEffect
    <3>2. \A f \in work' : f \in work \/ (Moves(e, f) /\ f.step = "push")
      BY <2>2, StopEffect
    <3> QED
      BY <3>1, <3>2 DEF github
  <2>3. CASE ResultPushed(e)
    BY <2>3, PushEffect, PushBasic
  <2> QED
    BY <2>1, <2>2, <2>3
<1>2. \A f \in work : Justified(f)'
  BY <1>0, <1>1, WarrantKept
<1>3. ASSUME NEW f \in work', f \notin work PROVE Justified(f)'
  <2>1. Moves(e, f) /\ (f.step = "stop" => e.cancel)
    BY <1>1, <1>3
  <2>2. /\ f.sha = e.sha /\ f.job = e.job /\ f.build = e.build /\ f.cancel = e.cancel
        /\ (f.step = "stop" => e.cancel)
    BY <2>1 DEF Moves
  <2>3. Justified(e)'
    BY <1>2
  <2> QED
    BY <2>2, <2>3 DEF Justified, From, ForTip
<1>4. \A d \in Commits, i \in Job : gh'[d][i].kind = "running" => From(gh[d][i].build, d)'
  <2>1. CASE BuildRead(e) \/ BuildStopped(e)
    <3>1. UNCHANGED gh
      BY <2>1, ReadEffect, StopEffect DEF github
    <3> QED
      BY <1>0, <1>1, <3>1, WarrantKept
  <2>2. CASE ResultPushed(e)
    <3>1. /\ e.step = "push" /\ UNCHANGED <<tip, jenkins, head>>
          /\ Writes(e.sha, e.job, e.result.kind, e.result.build)
      BY <2>2, PushEffect
    <3>2. PICK c \in Commits, j \in Job, kind \in Kind, n \in 0 .. MaxBuild :
              c = e.sha /\ j = e.job /\ kind = e.result.kind /\ n = e.result.build
      BY <1>0 DEF Task, Status
    <3>3. Writes(c, j, kind, n)
      BY <3>1, <3>2
    <3>4. kind = "running" => ~e.cancel /\ n = e.build
      BY <3>1, <3>2 DEF Basic, Leads, Follows
    <3>5. kind = "running" => From(n, c)
      BY <1>0, <3>2, <3>4 DEF Justified
    <3>6. kind = "running" => From(n, c)'
      BY <1>1, <3>1, <3>5 DEF From, jenkins
    <3> QED
      BY <1>1, <3>1, <3>3, <3>6, WritesWarranted DEF jenkins
  <2> QED
    BY <2>1, <2>2
<1> QED
  BY <1>2, <1>3, <1>4 DEF Warranted

LEMMA WarrantedStep == Basic /\ Warranted /\ [Next]_vars => Warranted'
<1> SUFFICES ASSUME Basic, Warranted, [Next]_vars PROVE Warranted'
  OBVIOUS
<1>1. CASE Next
  <2>0. Typed
    BY DEF Basic
  <2>1. ASSUME NEW j \in Job, PollFetches(j) \/ PollProcesses(j) \/ Skips(j) PROVE Warranted'
    BY <2>1, OthersWarranted, PollWarranted, SkipWarranted
  <2> QED
    BY <1>1, <2>0, <2>1, StepCases, OthersWarranted, AutoCancelWarranted, CancellerWarranted
<1>2. CASE UNCHANGED vars
  <2>1. UNCHANGED <<tip, gh, guessed, builds, head, last, orders, work>>
    BY <1>2 DEF vars, github, jenkins, run
  <2> QED
    BY <2>1 DEF Warranted, From, Justified, ForTip
<1> QED
  BY <1>1, <1>2

\* Only the canceller stops builds, after it asked for them.
LEMMA OnlyStops ==
  ASSUME Basic, [Next]_vars, NEW n \in Builds, Stopped(n)
  PROVE  \E e \in work : e.step = "stop" /\ e.build = n
<1>0. Typed /\ builds[n].state \in {"cloning", "running"} /\ builds'[n].state = "aborted"
  BY DEF Basic, Stopped, IsBuilding
<1>1. ~(UNCHANGED builds)
  BY <1>0
<1>2. Next
  BY <1>1 DEF vars, jenkins
<1>3. ~(Reads \/ Ends)
  BY <1>1 DEF Reads, RunStarts, CommitsFetched, StatusesFetched, CommentsFetched, NextExtension,
     ExtensionStarts, Ends, Drops, jenkins
<1>4. ~(\E j \in Job : Quiet(j))
  BY <1>1 DEF Quiet
<1>5. ~(\E j \in Job : PollFetches(j) \/ PollProcesses(j) \/ Skips(j))
  <2>1. ASSUME NEW j \in Job, PollFetches(j) PROVE UNCHANGED builds
    BY <2>1 DEF PollFetches, jenkins
  <2>2. ASSUME NEW j \in Job, PollProcesses(j) PROVE UNCHANGED builds
    BY <2>2, PollEffect DEF jenkins
  <2>3. ASSUME NEW j \in Job, Skips(j) PROVE UNCHANGED builds
    BY <2>3, SkipEffect DEF jenkins
  <2> QED
    BY <1>1, <2>1, <2>2, <2>3
<1>6. ~(\E c \in Commits : AutoCancels(c))
  BY <1>1, AutoCancelEffect DEF jenkins
<1>7. ~(\E e \in work : BuildRead(e) \/ ResultPushed(e))
  BY <1>1, ReadEffect, PushEffect DEF jenkins
<1>8. ~World
  <2>1. ASSUME JenkinsStep PROVE FALSE
    <3>1. ASSUME NEW j \in Job, BuildStarts(j) PROVE FALSE
      <4>1. PICK m \in Builds \ Started :
                builds' = [builds EXCEPT ![m] = [job |-> j, sha |-> 0, state |-> "cloning"]]
        BY <3>1 DEF BuildStarts
      <4>2. m # n
        BY <1>0 DEF Started
      <4>3. builds'[n] = builds[n]
        BY <4>1, <4>2 DEF Typed, TypeOK
      <4> QED
        BY <1>0, <4>3
    <3>2. ASSUME NEW m \in Builds, BuildClones(m) PROVE FALSE
      <4>1. builds' = [builds EXCEPT ![m] = [builds[m] EXCEPT !.sha = tip, !.state = "running"]]
        BY <3>2 DEF BuildClones
      <4>2. builds[m] \in [job : Job, sha : 0 .. MaxCommit,
                           state : {"cloning", "running", "success", "failure", "aborted"}]
        BY <3>2 DEF BuildClones, Typed, TypeOK, Basic, Unstarted
      <4>3. [builds[m] EXCEPT !.sha = tip, !.state = "running"].state = "running"
        BY <4>2
      <4> QED
        BY <1>0, <4>1, <4>3 DEF Typed, TypeOK
    <3>3. ASSUME NEW m \in Builds, BuildEnds(m) PROVE FALSE
      <4>1. PICK result \in {"success", "failure"} :
                builds' = [builds EXCEPT ![m] = [builds[m] EXCEPT !.state = result]]
        BY <3>3 DEF BuildEnds
      <4>2. builds[m] \in [job : Job, sha : 0 .. MaxCommit,
                           state : {"cloning", "running", "success", "failure", "aborted"}]
        BY <3>3 DEF BuildEnds, Typed, TypeOK, Basic, Unstarted
      <4>3. [builds[m] EXCEPT !.state = result].state = result
        BY <4>2
      <4> QED
        BY <1>0, <4>1, <4>3 DEF Typed, TypeOK
    <3> QED
      BY <2>1, <3>1, <3>2, <3>3 DEF JenkinsStep
  <2> QED
    BY <1>1, <2>1 DEF World, Push, Comment, QueueFlushed, jenkins
<1>9. PICK e \in work : BuildStopped(e)
  BY <1>0, <1>2, <1>3, <1>4, <1>5, <1>6, <1>7, <1>8, StepCases
<1>10. e.step = "stop" /\ \A m \in Builds : m # e.build => builds'[m] = builds[m]
  BY <1>9, StopEffect
<1> QED
  BY <1>0, <1>10

\* No build of the last commit is stopped but for a skip, a push during the run, or
\* because it was taken for one of an older commit (core.py:55-63,
\* extensions/jenkins.py:332-352).
THEOREM Cancelling == Spec => CancelsJustified
<1>1. ASSUME Basic, Warranted, [Next]_vars
      PROVE  [\A n \in Builds : Stopped(n) /\ builds[n].sha = tip =>
                  builds[n].job \in orders.skip \/ head # tip \/ n \in guessed]_vars
  <2> SUFFICES ASSUME NEW n \in Builds, Stopped(n), builds[n].sha = tip
               PROVE  builds[n].job \in orders.skip \/ head # tip \/ n \in guessed
    OBVIOUS
  <2>1. PICK e \in work : e.step = "stop" /\ e.build = n
    BY <1>1, OnlyStops
  <2>2. Justified(e) /\ e \in Task /\ Of(n, e.job)
    BY <1>1, <2>1 DEF Warranted, Basic, Typed, Leads, Follows
  <2>3. e.cancel /\ ForTip(n)
    BY <2>1, <2>2 DEF Justified, ForTip, Task
  <2> QED
    BY <2>1, <2>2, <2>3 DEF Justified, Of
<1> QED
  BY <1>1, BasicInit, BasicStep, WarrantedInit, WarrantedStep, PTL DEF Spec, CancelsJustified

-----------------------------------------------------------------------------
(* Fourth layer: what the run knows of the statuses on GitHub, if its commit *)
(* is the one of its head                                                    *)

Level == Loaded /\ last = head

\* Its two dicts: last_commit.statuses is up to date; current.statuses was, until
\* AutoCancel gave the commit a new one, and then lacks only what Poll adds.
Synced ==
    /\ ~ByLabel /\ Past => last = head
    /\ stage \in {"comments", "unskip", "backed"} => aliased
    /\ Loaded /\ aliased => cur = local
    /\ Level => local = gh[last]
    /\ Level /\ stage = "autocancel" => cur = local
    /\ Level /\ stage = "poll" => \A j \in Job : local[j].kind \in Final => cur[j] = local[j]
    /\ \A j \in Job : cur[j].kind \in Final => \A b \in found[j] : b.build # cur[j].build

\* The status of a job is queued once, and its result is not known yet.
Distinct ==
    /\ \A e \in work : ~e.cancel => e.sha = head
    /\ stage = "autocancel" => \A e \in work : e.sha \notin left
    /\ last = head => \A e \in work : e.sha = last => e.own
    /\ last = head => \A e \in work :
           e.sha = last /\ e.job \notin orders.skip => local[e.job].kind \notin Final
    /\ last = head => \A e, f \in work :
           e.sha = last /\ f.sha = last /\ e.job = f.job /\ e.job \notin orders.skip => e = f

Informed == Synced /\ Distinct

LEMMA InformedInit == Init => Informed
  BY DEF Init, Informed, Synced, Distinct, Level, Loaded, Past

LEMMA UpdateSynced ==
  ASSUME Typed, last \in Commits, NEW j \in Job, NEW kind \in Kind, NEW build \in 0 .. MaxBuild,
         UpdatesLast(j, kind, build), aliased => cur = local
  PROVE  /\ local = gh[last] => local' = gh'[last]
         /\ aliased => cur' = local'
         /\ ~aliased => cur' = cur
         /\ \A i \in Job : i # j => local'[i] = local[i] /\ cur'[i] = cur[i]
         /\ local'[j] = local[j] \/ local'[j].kind = kind
<1>1. /\ gh \in [Commits -> [Job -> Status]] /\ local \in [Job -> Status]
      /\ cur \in [Job -> Status] /\ aliased \in BOOLEAN
  BY DEF Typed, TypeOK
<1>2. CASE UNCHANGED <<gh, local, cur>>
  BY <1>1, <1>2
<1>3. CASE /\ Set(last, j, kind, build)
           /\ local' = [local EXCEPT ![j] = gh'[last][j]]
           /\ cur' = IF aliased THEN local' ELSE cur
  <2> DEFINE s == [kind |-> kind, build |-> build, at |-> comments.count]
  <2>1. gh' = [gh EXCEPT ![last] = [gh[last] EXCEPT ![j] = s]] /\ s.kind = kind
    BY <1>3 DEF Set
  <2> HIDE DEF s
  <2>2. gh[last] \in [Job -> Status]
    BY <1>1
  <2>3. gh'[last] = [gh[last] EXCEPT ![j] = s]
    BY <1>1, <2>1
  <2>4. gh'[last][j] = s
    BY <2>2, <2>3
  <2>5. local' = [local EXCEPT ![j] = s]
    BY <1>3, <2>4
  <2> QED
    BY <1>1, <1>3, <2>1, <2>3, <2>5
<1> QED
  BY <1>2, <1>3 DEF UpdatesLast

LEMMA WorldInformed ==
  ASSUME Basic, Informed, World
  PROVE  Informed'
<1>1. UNCHANGED <<gh, run>>
  BY WorldBasic
<1>2. UNCHANGED <<gh, stage, left, head, last, local, cur, aliased, orders, found, work>>
  BY <1>1 DEF run
<1> QED
  BY <1>2 DEF Informed, Synced, Distinct, Level, Loaded, Past

LEMMA EndsInformed ==
  ASSUME Basic, Ends
  PROVE  Informed'
<1>1. /\ stage' = "idle" /\ work' = {} /\ \A j \in Job : found'[j] = {}
  BY DEF Ends, Drops
<1> QED
  BY <1>1 DEF Informed, Synced, Distinct, Level, Loaded, Past

LEMMA ReadsInformed ==
  ASSUME Basic, Informed, Reads
  PROVE  Informed'
<1>1. UNCHANGED <<github, jenkins, found, work>>
  BY DEF Reads, RunStarts, CommitsFetched, StatusesFetched, CommentsFetched, NextExtension,
         ExtensionStarts
<1>2. gh' = gh /\ found' = found /\ work' = work
  BY <1>1 DEF github
<1>3. stage # "poll" => \A j \in Job : found[j] = {}
  BY DEF Basic, Placed
<1>4. CASE RunStarts \/ CommitsFetched \/ StatusesFetched
  <2>1. /\ work' = {} /\ \A j \in Job : found'[j] = {}
        /\ stage' \in {"commits", "statuses", "comments"}
    BY <1>2, <1>3, <1>4 DEF RunStarts, CommitsFetched, StatusesFetched, Basic, Placed
  <2>2. Distinct'
    BY <2>1 DEF Distinct
  <2>3. ~ByLabel /\ Past' => last' = head'
    BY <1>4, Constants DEF RunStarts, CommitsFetched, StatusesFetched, Past, Informed, Synced
  <2>4. stage' = "comments" => aliased' /\ local' = gh[last] /\ cur' = gh[last] /\ last' = last
    BY <1>4 DEF RunStarts, CommitsFetched, StatusesFetched
  <2> QED
    BY <1>2, <2>1, <2>2, <2>3, <2>4 DEF Informed, Synced, Level, Loaded
<1>5. CASE CommentsFetched \/ NextExtension
  <2>1. /\ Loaded /\ Past /\ Loaded' /\ Past'
        /\ UNCHANGED <<head, last, local, cur, aliased>>
        /\ stage' \in {"unskip", "backed"} => stage \in {"comments", "unskip"}
        /\ stage' = "autocancel" => stage = "backed"
        /\ stage' = "poll" => stage = "autocancel"
        /\ stage' # "comments"
    BY <1>5 DEF CommentsFetched, NextExtension, ExtensionStarts, Loaded, Past
  <2>2. Synced'
    BY <1>2, <1>3, <2>1 DEF Informed, Synced, Level
  <2>3. work = {} \/ (UNCHANGED orders /\ stage' # "autocancel")
    BY <1>5 DEF CommentsFetched, NextExtension, ExtensionStarts, Basic, Placed
  <2>4. Distinct'
    BY <1>2, <2>1, <2>3 DEF Informed, Distinct
  <2> QED
    BY <2>2, <2>4 DEF Informed
<1> QED
  BY <1>4, <1>5 DEF Reads

LEMMA QuietInformed ==
  ASSUME Basic, Informed, NEW j \in Job, Quiet(j)
  PROVE  Informed'
<1>1. /\ UNCHANGED <<stage, head, last, aliased, orders, found, work>>
      /\ stage \in {"unskip", "backed", "builder"} /\ Loaded /\ Past
  BY DEF Quiet, Loaded, Past
<1>2. work = {} /\ \A i \in Job : found[i] = {}
  BY <1>1 DEF Basic, Placed
<1>3. last \in Commits
  BY <1>1, Constants DEF Basic, Typed, TypeOK, Placed, Past, Commits
<1>4. /\ local = gh[last] => local' = gh'[last]
      /\ aliased => cur' = local'
  <2>1. aliased => cur = local
    BY <1>1 DEF Informed, Synced
  <2>2. ASSUME NEW kind \in Clean, UpdatesLast(j, kind, 0)
        PROVE  (local = gh[last] => local' = gh'[last]) /\ (aliased => cur' = local')
    <3>1. kind \in Kind /\ 0 \in 0 .. MaxBuild
      BY Constants DEF Clean
    <3> QED
      BY <1>3, <2>1, <2>2, <3>1, UpdateSynced DEF Basic
  <2> QED
    BY <2>1, <2>2 DEF Quiet
<1>5. Synced'
  BY <1>1, <1>2, <1>4 DEF Informed, Synced, Level, Loaded, Past
<1>6. Distinct'
  BY <1>1, <1>2 DEF Distinct
<1> QED
  BY <1>5, <1>6 DEF Informed

LEMMA ShownDistinct ==
  ASSUME NEW c \in Commits, NEW e \in Shown(c), NEW f \in Shown(c), e.job = f.job
  PROVE  e = f
<1>1. PICK j \in Job : e = Entry(c, j, gh[c][j].build, c # head, c = last)
  BY DEF Shown
<1>2. PICK k \in Job : f = Entry(c, k, gh[c][k].build, c # head, c = last)
  BY DEF Shown
<1>3. e.job = j /\ f.job = k
  BY <1>1, <1>2 DEF Entry
<1> QED
  BY <1>1, <1>2, <1>3

LEMMA AutoCancelInformed ==
  ASSUME Basic, Informed, NEW c \in Commits, AutoCancels(c)
  PROVE  Informed'
<1>1. /\ stage = "autocancel" /\ c \in left /\ left' = left \ {c}
      /\ UNCHANGED <<gh, stage, head, last, cur, orders, found>>
      /\ \/ /\ work' = work \cup Shown(c)
            /\ local' = IF c = last THEN gh[c] ELSE local
            /\ aliased' = (aliased /\ c # last)
         \/ UNCHANGED <<work, local, aliased>>
  BY AutoCancelEffect DEF github
<1>2. Past /\ Loaded /\ \A j \in Job : found[j] = {}
  BY <1>1 DEF Past, Loaded, Basic, Placed
<1>3. last = head => local' = local
  BY <1>1, <1>2 DEF Informed, Synced, Level
<1>4. Synced'
  <2>1. aliased' => aliased /\ local' = local
    BY <1>1 DEF Basic, Typed, TypeOK
  <2> QED
    BY <1>1, <1>2, <1>3, <2>1 DEF Informed, Synced, Level, Loaded, Past
<1>5. CASE UNCHANGED work
  BY <1>1, <1>3, <1>4, <1>5 DEF Informed, Distinct
<1>6. CASE work' = work \cup Shown(c)
  <2>1. \A e \in Shown(c) : /\ e.sha = c /\ e.cancel = (c # head) /\ e.own = (c = last)
                            /\ gh[c][e.job].kind = "running"
    BY ShownTasks
  <2>2. \A e \in work : e.sha # c
    BY <1>1 DEF Informed, Distinct
  <2>3. ASSUME last = head, NEW e \in work', e.sha = last, e.job \notin orders.skip
        PROVE  local'[e.job].kind \notin Final
    <3>1. CASE e \in work
      BY <1>3, <2>3, <3>1 DEF Informed, Distinct
    <3>2. CASE e \in Shown(c)
      <4>1. local' = gh[c] /\ gh[c][e.job].kind = "running"
        BY <1>1, <1>2, <1>3, <2>1, <2>3, <3>2 DEF Informed, Synced, Level
      <4> QED
        BY <4>1 DEF Final
    <3> QED
      BY <1>6, <2>3, <3>1, <3>2
  <2>4. ASSUME last = head, NEW e \in work', NEW f \in work', e.sha = last, f.sha = last,
               e.job = f.job, e.job \notin orders.skip
        PROVE  e = f
    <3>1. CASE e \in work /\ f \in work
      BY <2>4, <3>1 DEF Informed, Distinct
    <3>2. CASE e \in Shown(c) /\ f \in Shown(c)
      BY <2>4, <3>2, ShownDistinct
    <3> QED
      BY <1>6, <2>1, <2>2, <2>4, <3>1, <3>2
  <2>5. Distinct'
    BY <1>1, <1>6, <2>1, <2>2, <2>3, <2>4 DEF Informed, Distinct
  <2> QED
    BY <1>4, <2>5 DEF Informed
<1> QED
  BY <1>1, <1>4, <1>5, <1>6 DEF Informed

LEMMA FetchInformed ==
  ASSUME Basic, Informed, NEW j \in Job, PollFetches(j)
  PROVE  Informed'
<1>1. /\ stage = "poll" /\ left' \in {left, left \ {j}}
      /\ UNCHANGED <<gh, stage, head, last, local, cur, aliased, orders, work>>
  BY Zenon DEF PollFetches, github
<1>2. found' = [found EXCEPT ![j] = {[build |-> n, sha |-> builds[n].sha] :
                                        n \in {m \in Builds : builds[m].job = j /\ IsBuilding(m)}}]
  BY Zenon DEF PollFetches
<1>3. \A i \in Job : cur[i].kind \in Final => \A b \in found'[i] : b.build # cur[i].build
  <2> SUFFICES ASSUME NEW i \in Job, cur[i].kind \in Final, NEW b \in found'[i]
               PROVE  b.build # cur[i].build
    OBVIOUS
  <2>1. CASE i = j
    <3>1. IsBuilding(b.build)
      BY <1>2, <2>1 DEF Basic, Typed, TypeOK
    <3>2. ~IsBuilding(cur[i].build)
      BY DEF Basic, Leads, Good
    <3> QED
      BY <3>1, <3>2
  <2>2. CASE i # j
    BY <1>2, <2>2 DEF Basic, Typed, TypeOK, Informed, Synced
  <2> QED
    BY <2>1, <2>2
<1> QED
  BY <1>1, <1>3 DEF Informed, Synced, Distinct, Level, Loaded, Past

LEMMA PollInformed ==
  ASSUME Basic, Informed, NEW j \in Job, PollProcesses(j)
  PROVE  Informed'
<1>1. /\ stage = "poll" /\ found' = [found EXCEPT ![j] = {}]
      /\ \A e \in work' : e \in work \/ Foreign(e, j)
      /\ UNCHANGED <<stage, head, last, aliased, orders>>
  BY PollEffect
<1>2. Past /\ Loaded
  BY <1>1 DEF Past, Loaded
<1>3. last \in Commits
  BY <1>1, Constants DEF Basic, Typed, TypeOK, Placed, Past, Commits
<1>4. aliased => cur = local
  BY <1>2 DEF Informed, Synced
<1>5. /\ local = gh[last] => local' = gh'[last]
      /\ aliased => cur' = local'
      /\ ~aliased => cur' = cur
      /\ \A i \in Job : i # j => local'[i] = local[i] /\ cur'[i] = cur[i]
      /\ local'[j] = local[j] \/ local'[j].kind = "running"
  <2>1. CASE UNCHANGED <<gh, local, cur>>
    BY <1>4, <2>1
  <2>2. ASSUME NEW b \in found[j], UpdatesLast(j, "running", b.build)
        PROVE  /\ local = gh[last] => local' = gh'[last]
               /\ aliased => cur' = local'
               /\ ~aliased => cur' = cur
               /\ \A i \in Job : i # j => local'[i] = local[i] /\ cur'[i] = cur[i]
               /\ local'[j] = local[j] \/ local'[j].kind = "running"
    <3>1. PICK n \in 0 .. MaxBuild : n = b.build
      BY Constants DEF Basic, Typed, TypeOK, Builds
    <3>2. UpdatesLast(j, "running", n) /\ "running" \in Kind
      BY <2>2, <3>1, Kinds
    <3> QED
      BY <1>3, <1>4, <3>2, UpdateSynced DEF Basic
  <2> QED
    BY <2>1, <2>2, PollEffect
<1>6. "running" \notin Final /\ found'[j] = {} /\ \A i \in Job : i # j => found'[i] = found[i]
  BY <1>1 DEF Final, Basic, Typed, TypeOK
<1>7. Level => \A i \in Job : local'[i].kind \in Final => cur'[i] = local'[i]
  <2> SUFFICES ASSUME Level, NEW i \in Job, local'[i].kind \in Final PROVE cur'[i] = local'[i]
    OBVIOUS
  <2>1. local'[i] = local[i]
    BY <1>5, <1>6
  <2>2. cur[i] = local[i]
    BY <1>1, <2>1 DEF Informed, Synced
  <2> QED
    BY <1>5, <2>1, <2>2 DEF Basic, Typed, TypeOK
<1>8. Synced'
  BY <1>1, <1>2, <1>5, <1>6, <1>7 DEF Informed, Synced, Level, Loaded, Past
<1>9. \A e \in work' : e \in work \/ (e.sha # head /\ e.cancel = TRUE)
  BY <1>1, ForeignTasks
<1>10. \A e \in work : e.job \in Job
  BY DEF Basic, Typed, Task
<1>11. Distinct'
  BY <1>1, <1>5, <1>6, <1>9, <1>10 DEF Informed, Distinct
<1> QED
  BY <1>8, <1>11 DEF Informed

LEMMA SkipInformed ==
  ASSUME Basic, Informed, NEW j \in Job, Skips(j)
  PROVE  Informed'
<1>1. stage = "skip" /\ UNCHANGED <<stage, head, last, aliased, orders, found>>
  BY SkipEffect
<1>2. Past /\ Loaded /\ \A i \in Job : found[i] = {}
  BY <1>1 DEF Past, Loaded, Basic, Placed
<1>3. CASE UNCHANGED <<gh, local, cur, work>>
  BY <1>1, <1>2, <1>3 DEF Informed, Synced, Distinct, Level, Loaded, Past
<1>4. CASE j \in orders.skip /\ UpdatesLast(j, "Skipped", 0)
  <2>1. last \in Commits /\ "Skipped" \in Kind /\ 0 \in 0 .. MaxBuild /\ "Skipped" \notin Final
    BY <1>1, CleanKinds, Constants DEF Clean, Final, Basic, Typed, TypeOK, Placed, Past, Commits
  <2>2. aliased => cur = local
    BY <1>2 DEF Informed, Synced
  <2>3. /\ local = gh[last] => local' = gh'[last]
        /\ aliased => cur' = local'
        /\ \A i \in Job : i # j => local'[i] = local[i]
        /\ local'[j] = local[j] \/ local'[j].kind = "Skipped"
    BY <1>4, <2>1, <2>2, UpdateSynced DEF Basic
  <2>4. Synced'
    BY <1>1, <1>2, <2>3 DEF Informed, Synced, Level, Loaded, Past
  <2>5. \A e \in work' : \/ e \in work
                         \/ e.sha = last /\ e.own = TRUE /\ e.cancel = TRUE /\ e.job = j
    <3>1. \/ work' = work
          \/ \E f \in Task : /\ work' = work \cup {f}
                            /\ f.sha = last /\ f.job = j /\ f.cancel = TRUE /\ f.own = TRUE
      BY SkipEffect
    <3> QED
      BY <3>1
  <2>6. \A e \in work : e.job \in Job
    BY DEF Basic, Typed, Task
  <2>7. Distinct'
    BY <1>1, <1>4, <2>1, <2>3, <2>5, <2>6 DEF Informed, Distinct
  <2> QED
    BY <2>4, <2>7 DEF Informed
<1> QED
  BY <1>3, <1>4, SkipEffect

LEMMA CancellerInformed ==
  ASSUME Basic, Informed, NEW e \in work, BuildRead(e) \/ BuildStopped(e) \/ ResultPushed(e)
  PROVE  Informed'
<1>1. stage = "canceller" /\ UNCHANGED <<stage, head, last, aliased, orders, found>>
  BY ReadEffect, StopEffect, PushEffect
<1>2. Past /\ Loaded /\ \A i \in Job : found[i] = {}
  BY <1>1 DEF Past, Loaded, Basic, Placed
<1>3. CASE BuildRead(e) \/ BuildStopped(e)
  <2>1. UNCHANGED <<gh, local, cur>>
    BY <1>3, ReadEffect, StopEffect DEF github
  <2>2. \/ work' = work \ {e}
        \/ \E f \in Task : Moves(e, f) /\ work' = (work \ {e}) \cup {f}
    BY <1>3, ReadEffect, StopEffect
  <2>3. Synced'
    BY <1>1, <1>2, <2>1 DEF Informed, Synced, Level, Loaded, Past
  <2>4. CASE work' = work \ {e}
    BY <1>1, <2>1, <2>3, <2>4 DEF Informed, Distinct
  <2>5. ASSUME NEW f \in Task, Moves(e, f), work' = (work \ {e}) \cup {f} PROVE Informed'
    <3>1. f.sha = e.sha /\ f.job = e.job /\ f.cancel = e.cancel /\ f.own = e.own
      BY <2>5 DEF Moves
    <3>2. Distinct'
      BY <1>1, <2>1, <2>5, <3>1 DEF Informed, Distinct
    <3> QED
      BY <2>3, <3>2 DEF Informed
  <2> QED
    BY <2>2, <2>4, <2>5
<1>4. CASE ResultPushed(e)
  <2>1. /\ e \in Task /\ work' = work \ {e}
        /\ IF e.own THEN e.sha = last /\ UpdatesLast(e.job, e.result.kind, e.result.build)
                    ELSE UpdatesOther(e.sha, e.job, e.result.kind, e.result.build)
    BY <1>4, PushEffect
  <2>2. e.sha \in Commits /\ e.job \in Job /\ e.own \in BOOLEAN /\ e.result \in Status
    BY <2>1 DEF Task
  <2>3. CASE e.own
    <3>1. PICK kind \in Kind, n \in 0 .. MaxBuild : kind = e.result.kind /\ n = e.result.build
      BY <2>2 DEF Status
    <3>2. UpdatesLast(e.job, kind, n) /\ last \in Commits
      BY <2>1, <2>2, <2>3, <3>1
    <3>3. aliased => cur = local
      BY <1>2 DEF Informed, Synced
    <3>4. /\ local = gh[last] => local' = gh'[last]
          /\ aliased => cur' = local'
          /\ \A i \in Job : i # e.job => local'[i] = local[i]
      BY <2>2, <3>2, <3>3, UpdateSynced DEF Basic
    <3>5. Synced'
      BY <1>1, <1>2, <3>4 DEF Informed, Synced, Level, Loaded, Past
    <3>6. ASSUME last = head, NEW f \in work', f.sha = last, f.job \notin orders.skip
          PROVE  local'[f.job].kind \notin Final
      <4>1. f \in work /\ f # e /\ f.job \in Job
        BY <2>1, <3>6 DEF Basic, Typed, Task
      <4>2. f.job # e.job
        BY <2>1, <2>3, <3>6, <4>1 DEF Informed, Distinct
      <4> QED
        BY <3>4, <3>6, <4>1, <4>2 DEF Informed, Distinct
    <3>7. Distinct'
      BY <1>1, <2>1, <3>6 DEF Informed, Distinct
    <3> QED
      BY <3>5, <3>7 DEF Informed
  <2>4. CASE ~e.own
    <3>1. UNCHANGED <<local, cur>>
      BY <2>1, <2>4 DEF UpdatesOther
    <3>2. last = head => e.sha # last
      BY <2>2, <2>4 DEF Informed, Distinct
    <3>3. last = head => gh'[last] = gh[last]
      <4>1. PICK c \in Commits :
                c = e.sha /\ \E kind, n : UpdatesOther(c, e.job, kind, n)
        BY <2>1, <2>2, <2>4
      <4>2. last \in Commits
        BY <1>2, Constants DEF Basic, Typed, TypeOK, Placed, Commits
      <4>3. \A d \in Commits : d # c => gh'[d] = gh[d]
        BY <4>1 DEF UpdatesOther, Set, Basic, Typed, TypeOK
      <4> QED
        BY <3>2, <4>1, <4>2, <4>3
    <3>4. Synced'
      BY <1>1, <1>2, <3>1, <3>3 DEF Informed, Synced, Level, Loaded, Past
    <3>5. Distinct'
      BY <1>1, <2>1, <3>1 DEF Informed, Distinct
    <3> QED
      BY <3>4, <3>5 DEF Informed
  <2> QED
    BY <2>2, <2>3, <2>4
<1> QED
  BY <1>3, <1>4

LEMMA InformedStep == Basic /\ Informed /\ [Next]_vars => Informed'
<1> SUFFICES ASSUME Basic, Informed, [Next]_vars PROVE Informed'
  OBVIOUS
<1>1. CASE Next
  <2>0. Typed
    BY DEF Basic
  <2>1. ASSUME NEW j \in Job, PollFetches(j) \/ PollProcesses(j) \/ Skips(j) PROVE Informed'
    BY <2>1, FetchInformed, PollInformed, SkipInformed
  <2>2. ASSUME NEW j \in Job, Quiet(j) PROVE Informed'
    BY <2>2, QuietInformed
  <2>3. CASE World \/ Reads \/ Ends
    BY <2>3, WorldInformed, ReadsInformed, EndsInformed
  <2> QED
    BY <1>1, <2>0, <2>1, <2>2, <2>3, StepCases, AutoCancelInformed, CancellerInformed
<1>2. CASE UNCHANGED vars
  <2>1. UNCHANGED <<gh, stage, left, head, last, local, cur, aliased, orders, found, work>>
    BY <1>2 DEF vars, github, run
  <2> QED
    BY <2>1 DEF Informed, Synced, Distinct, Level, Loaded, Past
<1> QED
  BY <1>1, <1>2

-----------------------------------------------------------------------------
(* A result is kept                                                         *)

\* What ResultKept is about: a job with a result on the last commit is pending.
Unkept(j) ==
    /\ tip' = tip /\ (ByLabel => tip \notin overtaken)
    /\ gh[tip][j].kind \in Final
    /\ gh'[tip][j].kind \in Queueable \cup {"running"}

MayUnkeep(j) ==
    \/ j \in orders.skip
    \/ gh[tip][j].kind = "failure" /\ gh[tip][j].at < orders.rebuild

\* Unless commits are mixed up, a run reads the statuses of the commit of its head.
LEMMA RunLevel ==
  ASSUME Truthful, Informed, Loaded, ByLabel => tip \notin overtaken
  PROVE  last = head /\ local = gh[last] /\ (aliased => cur = local)
<1>1. stage # "idle" /\ Past
  BY DEF Loaded, Past
<1>2. last = head
  BY <1>1 DEF Truthful, InTime, Informed, Synced
<1> QED
  BY <1>2 DEF Informed, Synced, Level

LEMMA WritesUnkept ==
  ASSUME NEW j \in Job, Unkept(j), tip \in Commits,
         NEW c, NEW i, NEW kind, NEW build, Writes(c, i, kind, build)
  PROVE  c = tip /\ i = j /\ kind \in Queueable \cup {"running"}
<1>1. gh'[tip][j] # gh[tip][j]
  BY DEF Unkept, Final, Queueable
<1> QED
  BY <1>1 DEF Writes, Unkept

LEMMA JobStepKeeps ==
  ASSUME Basic, Truthful, Informed, NEW i \in Job, Quiet(i), JobStep(i),
         NEW j \in Job, Unkept(j)
  PROVE  MayUnkeep(j)
<1>1. tip \in Commits /\ Typed
  BY Tip DEF Basic
<1>2. PICK kind \in Clean : Writes(last, i, kind, 0)
  BY QuietWrites
<1>3. last = tip /\ i = j
  BY <1>1, <1>2, WritesUnkept
<1>4. gh' # gh /\ gh[tip][j].kind \in Final /\ gh'[tip][j].kind \in Queueable \cup {"running"}
  BY DEF Unkept, Final, Queueable
<1>5. Loaded
  BY DEF Quiet, Loaded
<1>6. local[j] = gh[tip][j] /\ (aliased => cur = local)
  BY <1>3, <1>5, RunLevel DEF Unkept
<1>7. CASE Unskips(i) \/ Backs(i)
  <2>1. cur[j].kind \in Final
    BY <1>4, <1>6, <1>7 DEF Unskips, Backs, Informed, Synced
  <2> QED
    BY <1>3, <1>4, <1>7, <2>1 DEF Unskips, Backs, Final
<1>8. CASE NothingToBuild(i) \/ Built(i)
  BY <1>4, <1>8 DEF NothingToBuild, Built, github
<1>9. CASE QueueBusy(i) \/ QueueEmpty(i)
  <2>1. NotBuilt(j)
    BY <1>3, <1>9 DEF QueueBusy, QueueEmpty
  <2>2. local[j].kind = "failure" /\ local[j].at < orders.rebuild
    BY <1>4, <1>6, <2>1 DEF NotBuilt, IsRebuildable, Final, Queueable, Errored
  <2> QED
    BY <1>6, <2>2 DEF MayUnkeep
<1>10. CASE BuildFailed(i)
  <2>1. UpdatesLast(i, "QueueFailed", 0) /\ "QueueFailed" \in Kind /\ 0 \in 0 .. MaxBuild
    BY <1>10, CleanKinds, Constants DEF BuildFailed, Clean
  <2>2. Writes(last, i, "QueueFailed", 0)
    BY <1>1, <1>3, <2>1, UpdateLast
  <2> QED
    BY <1>1, <2>2, WritesUnkept DEF Queueable
<1> QED
  BY <1>7, <1>8, <1>9, <1>10 DEF JobStep

LEMMA PollKeeps ==
  ASSUME Basic, Truthful, Informed, NEW i \in Job, PollProcesses(i),
         NEW j \in Job, Unkept(j)
  PROVE  FALSE
<1>1. tip \in Commits /\ Typed
  BY Tip DEF Basic
<1>2. gh' # gh
  BY DEF Unkept, Final, Queueable
<1>3. stage = "poll" /\ Loaded /\ Past
  BY PollEffect DEF Loaded, Past
<1>4. PICK b \in found[i] : Presets(b, i) /\ UpdatesLast(i, "running", b.build)
  BY <1>2, PollEffect
<1>5. PICK n \in 0 .. MaxBuild : n = b.build
  BY <1>1, Constants DEF Typed, TypeOK, Builds
<1>6. last \in Commits
  BY <1>3, Constants DEF Basic, Typed, TypeOK, Placed, Commits
<1>7. Writes(last, i, "running", n)
  BY <1>1, <1>4, <1>5, <1>6, Kinds, UpdateLast
<1>8. last = tip /\ i = j
  BY <1>1, <1>7, WritesUnkept
<1>9. last = head /\ local[j] = gh[tip][j]
  BY <1>3, <1>8, RunLevel DEF Unkept
<1>10. cur[j] = local[j] /\ cur[j].kind \in Final
  BY <1>3, <1>9 DEF Unkept, Informed, Synced, Level
<1>11. cur[j].build = b.build
  BY <1>4, <1>8, <1>10 DEF Presets, Final, Queueable
<1> QED
  BY <1>4, <1>8, <1>10, <1>11 DEF Informed, Synced

LEMMA PushKeeps ==
  ASSUME Basic, Truthful, Informed, NEW e \in work, ResultPushed(e),
         NEW j \in Job, Unkept(j)
  PROVE  MayUnkeep(j)
<1>1. tip \in Commits
  BY Tip DEF Basic
<1>2. stage = "canceller" /\ e.step = "push" /\ Writes(e.sha, e.job, e.result.kind, e.result.build)
  BY PushEffect
<1>3. e.sha = tip /\ e.job = j /\ e.result.kind \in Queueable \cup {"running"}
  BY <1>1, <1>2, WritesUnkept
<1>4. e.sha = head
  BY <1>2, <1>3 DEF Basic, Leads, Follows, Informed, Distinct
<1>5. last = head /\ local[j] = gh[tip][j]
  BY <1>2, <1>3, <1>4, RunLevel DEF Unkept, Loaded
<1> QED
  BY <1>3, <1>4, <1>5 DEF Unkept, MayUnkeep, Informed, Distinct

LEMMA NextKeeps ==
  ASSUME Basic, Truthful, Informed, Next, NEW j \in Job, Unkept(j)
  PROVE  MayUnkeep(j)
<1>0. Typed /\ gh' # gh /\ tip \in Commits
  BY Tip DEF Basic, Unkept, Final, Queueable
<1>1. ~(World \/ Reads \/ Ends)
  <2>1. World => UNCHANGED gh
    BY WorldBasic
  <2>2. Reads \/ Ends => UNCHANGED gh
    BY DEF Reads, RunStarts, CommitsFetched, StatusesFetched, CommentsFetched, NextExtension,
           ExtensionStarts, Ends, Drops, github
  <2> QED
    BY <1>0, <2>1, <2>2
<1>2. ~(\E c \in Commits : AutoCancels(c))
  BY <1>0, AutoCancelEffect DEF github
<1>3. ~(\E e \in work : BuildRead(e) \/ BuildStopped(e))
  BY <1>0, ReadEffect, StopEffect DEF github
<1>4. ASSUME NEW i \in Job, PollFetches(i) \/ PollProcesses(i) \/ Skips(i) PROVE FALSE
  <2>1. PollFetches(i) => UNCHANGED gh
    BY DEF PollFetches, github
  <2>2. ASSUME Skips(i) PROVE FALSE
    <3>1. stage = "skip" /\ UpdatesLast(i, "Skipped", 0)
      BY <1>0, <2>2, SkipEffect
    <3>2. last \in Commits /\ "Skipped" \in Kind /\ 0 \in 0 .. MaxBuild
      BY <3>1, CleanKinds, Constants DEF Clean, Basic, Typed, TypeOK, Placed, Past, Commits
    <3>3. Writes(last, i, "Skipped", 0)
      BY <1>0, <3>1, <3>2, UpdateLast
    <3> QED
      BY <1>0, <3>3, WritesUnkept DEF Queueable
  <2> QED
    BY <1>0, <1>4, <2>1, <2>2, PollKeeps
<1> QED
  BY <1>0, <1>1, <1>2, <1>3, <1>4, StepCases, JobStepKeeps, PushKeeps

\* A job with a result on the last commit is not pending again, so not built again,
\* except for a skip that is lifted or races with the result, or for a later rebuild
\* instruction (repository.py:342-362); on a pull request, unless the commit was
\* pushed during a run.
THEOREM Keeping == Spec => ResultKept
<1>1. ASSUME Basic, Truthful, Informed, [Next]_vars
      PROVE  [\A j \in Job :
                  /\ tip' = tip
                  /\ ByLabel => tip \notin overtaken
                  /\ gh[tip][j].kind \in {"success", "failure"}
                  /\ gh'[tip][j].kind \in Queueable \cup {"running"}
                  => \/ j \in orders.skip
                     \/ gh[tip][j].kind = "failure" /\ gh[tip][j].at < orders.rebuild]_vars
  BY <1>1, NextKeeps DEF Unkept, MayUnkeep, Final
<1> QED
  BY <1>1, BasicInit, BasicStep, TruthfulInit, TruthfulStep, InformedInit, InformedStep, PTL
     DEF Spec, ResultKept
=============================================================================
