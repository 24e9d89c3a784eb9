--------------------------- MODULE PipelineProofs ---------------------------
(* What the stages of a pipeline guarantee for any number of heads, jobs,    *)
(* stages and values of the axes: a stage does not start before the previous *)
(* ones, and a merge waits for all of them, but for the races that the       *)
(* properties name.                                                          *)
EXTENDS Pipeline, WellFoundedInduction, TLAPS

-----------------------------------------------------------------------------
(* The inductive invariant                                                  *)

State == {"none", "pending", "success", "failure"}

ValuesOf(j) == UNION {Spec[h][j] : h \in Head}
Values      == UNION {ValuesOf(j) : j \in Job}
AnyContext  == UNION {Context[h] : h \in Head}
Request     == {"post", "read"} \X Job

Typed ==
    /\ def \in [Job -> SUBSET Values]
    /\ \A j \in Job : def[j] \subseteq ValuesOf(j)
    /\ status \in [Head -> UNION {[Context[h] -> State] : h \in Head}]
    /\ \A h \in Head : status[h] \in [Context[h] -> State]
    /\ pc \in [Head -> {"idle", "fetch", "post", "build"}]
    /\ green \in [Head -> SUBSET AnyContext]
    /\ jobs \in [Head -> [Job -> SUBSET Values]]
    /\ \A h \in Head, j \in Job : jobs[h][j] \subseteq ValuesOf(j)
    /\ left \in [Head -> SUBSET (Job \cup Request)]
    /\ due \in [Head -> SUBSET Job] /\ renew \in [Head -> SUBSET Job]
    /\ merged \subseteq Head /\ raced \subseteq Head /\ clash \subseteq Job
    /\ refreshes \in 0 .. MaxRefresh /\ troubles \in 0 .. MaxTrouble

\* What is left to do in which extension.
Placed(h) ==
    /\ pc[h] = "fetch" => left[h] \subseteq Own[h]
    /\ pc[h] = "post"  => left[h] \subseteq {"post", "read"} \X Own[h]
    /\ pc[h] = "build" => left[h] \subseteq JobSpecs(h)

\* Jenkins forgets no job, and a head has the jobs it asked for, or there was a clash.
Has(values, h, j) == Spec[h][j] \subseteq values \/ j \in clash

Settled(h) ==
    /\ \A j \in Job : jobs[h][j] # Missing => def[j] # Missing
    /\ pc[h] = "post" => \A j \in Own[h] :
        /\ <<"post", j>> \in left[h] \/ <<"read", j>> \in left[h] \/ Has(jobs[h][j], h, j)
        /\ <<"read", j>> \in left[h] => Has(def[j], h, j)
    /\ pc[h] = "build" => \A j \in Own[h] : Has(jobs[h][j], h, j)

\* What the run knows of the statuses: a success stays, and any other one since came
\* from a build that ended, or from a periodic job.
Green(h) ==
    /\ green[h] \subseteq Success(h)
    /\ pc[h] # "idle" /\ h \notin raced => \A c \in Success(h) \ green[h] : c[1] \in Periodic

\* The jobs of the stage are reported.
Queued(h) ==
    pc[h] = "build" => \A j \in JobSpecs(h) \ left[h] : \A c \in Listed(h, j) : status[h][c] # "none"

IInv == Typed /\ \A h \in Head : Placed(h) /\ Settled(h) /\ Green(h) /\ Queued(h)

-----------------------------------------------------------------------------
(* Constants                                                                *)

LEMMA Constants ==
  /\ Stages \in Nat /\ StageOf \in [Job -> 1 .. Stages] /\ Periodic \subseteq Job
  /\ MaxRefresh \in Nat /\ MaxTrouble \in Nat
  BY PipelineAssumption

LEMMA Owned ==
  ASSUME NEW h \in Head
  PROVE  /\ Own[h] \subseteq Job
         /\ \A j \in Job : j \in Own[h] <=> Spec[h][j] # {}
  BY DEF Own

\* A context is a job of the head and one of its values.
LEMMA Contexts ==
  ASSUME NEW h \in Head
  PROVE  /\ \A c \in Context[h] : /\ c[1] \in Own[h] /\ c[2] \in Spec[h][c[1]]
                                  /\ c = <<c[1], c[2]>>
         /\ \A j \in Job : {j} \X Spec[h][j] \subseteq Context[h]
<1>1. Context[h] = UNION {{j} \X Spec[h][j] : j \in Job}
  BY DEF Context
<1>2. \A j \in Job : {j} \X Spec[h][j] \subseteq Context[h]
  BY <1>1
<1>3. ASSUME NEW c \in Context[h]
      PROVE  c[1] \in Own[h] /\ c[2] \in Spec[h][c[1]] /\ c = <<c[1], c[2]>>
  <2>1. PICK j \in Job : c \in {j} \X Spec[h][j]
    BY <1>1
  <2>2. c[1] = j /\ c[2] \in Spec[h][j] /\ c = <<c[1], c[2]>>
    BY <2>1
  <2> QED
    BY <2>2, Owned
<1> QED
  BY <1>2, <1>3

LEMMA ValueSets ==
  /\ \A j \in Job : ValuesOf(j) \subseteq Values
  /\ \A h \in Head, j \in Job : Spec[h][j] \subseteq ValuesOf(j)
  BY DEF ValuesOf, Values

\* A head that is not complete has a current stage, which is not complete either.
LEMMA CurrentStageExists ==
  ASSUME NEW h \in Head, NEW k \in Own[h], ~IsComplete(h, StageOf[k])
  PROVE  \E j \in Own[h] : IsCurrent(h, StageOf[j]) /\ ~IsComplete(h, StageOf[j])
<1> DEFINE incomplete == {n \in Nat : ~IsComplete(h, n) /\ \E j \in Own[h] : StageOf[j] = n}
<1>1. \A j \in Own[h] : StageOf[j] \in Nat
  BY Constants, Owned
<1>2. incomplete \subseteq Nat /\ incomplete # {}
  BY <1>1
<1>3. PICK n \in incomplete : \A m \in incomplete : ~(<<m, n>> \in OpToRel(<, Nat))
  <2> HIDE DEF incomplete
  <2> QED
    BY <1>2, NatLessThanWellFounded, WFMin
<1>4. ASSUME NEW m \in incomplete, m < n PROVE FALSE
  <2>1. <<m, n>> \in Nat \X Nat /\ <<m, n>>[1] = m /\ <<m, n>>[2] = n
    OBVIOUS
  <2>2. OpToRel(<, Nat) = {ss \in Nat \X Nat : ss[1] < ss[2]}
    BY Zenon DEF OpToRel
  <2> QED
    BY <1>3, <1>4, <2>1, <2>2
<1>5. PICK j \in Own[h] : StageOf[j] = n
  OBVIOUS
<1>6. IsCurrent(h, n)
  BY <1>1, <1>4 DEF IsCurrent
<1> QED
  BY <1>5, <1>6

\* The jobs of the current stage depend on the head's jobs and statuses alone.
LEMMA JobSpecsKept ==
  ASSUME NEW h \in Head, jobs'[h] = jobs[h], green'[h] = green[h]
  PROVE  /\ \A j \in Job : Listed(h, j)' = Listed(h, j)
         /\ JobSpecs(h)' = JobSpecs(h)
<1>1. \A j \in Job : Listed(h, j)' = Listed(h, j)
  BY DEF Listed
<1>2. \A j \in Own[h] : IsComplete(h, StageOf[j])' <=> IsComplete(h, StageOf[j])
  BY <1>1, Owned DEF IsComplete
<1>3. \A j \in Own[h] : IsCurrent(h, StageOf[j])' <=> IsCurrent(h, StageOf[j])
  BY <1>2 DEF IsCurrent
<1> QED
  BY <1>1, <1>3 DEF JobSpecs

-----------------------------------------------------------------------------
(* Heads that a step leaves alone                                           *)

Fine(h) == Placed(h) /\ Settled(h) /\ Green(h) /\ Queued(h)

\* What a step does to Jenkins.
Evolves ==
    /\ clash \subseteq clash'
    /\ \A j \in Job : /\ def[j] \subseteq def'[j] \/ j \in clash'
                      /\ def[j] # Missing => def'[j] # Missing

\* A success stays and what is reported stays so; who succeeds during a run is known.
Progress(h) ==
    /\ h \in raced => h \in raced'
    /\ \A c \in Context[h] :
        /\ status[h][c] = "success" => status'[h][c] = "success"
        /\ status[h][c] # "none" => status'[h][c] # "none"
        /\ status'[h][c] = "success" =>
               status[h][c] = "success" \/ pc[h] = "idle" \/ h \in raced' \/ c[1] \in Periodic

Rests(h) ==
    /\ pc'[h] = pc[h] /\ green'[h] = green[h] /\ jobs'[h] = jobs[h] /\ left'[h] = left[h]
    /\ Progress(h)

LEMMA ListedContexts ==
  ASSUME NEW h \in Head, NEW j \in Job
  PROVE  Listed(h, j) \subseteq Context[h]
<1>1. Listed(h, j) \subseteq {j} \X Spec[h][j]
  BY DEF Listed
<1> QED
  BY <1>1, Contexts

LEMMA GreenKept ==
  ASSUME NEW h \in Head, Green(h), green'[h] = green[h], Progress(h), pc[h] # "idle"
  PROVE  Green(h)'
<1>1. Success(h) \subseteq Success(h)'
  BY DEF Success, Progress
<1>2. h \notin raced' => \A c \in Success(h)' \ green[h] : c[1] \in Periodic
  BY DEF Success, Progress, Green
<1> QED
  BY <1>1, <1>2 DEF Green

LEMMA Frame ==
  ASSUME NEW h \in Head, Fine(h), Rests(h), Evolves
  PROVE  Fine(h)'
<1>1. /\ pc'[h] = pc[h] /\ green'[h] = green[h] /\ jobs'[h] = jobs[h] /\ left'[h] = left[h]
      /\ JobSpecs(h)' = JobSpecs(h) /\ \A j \in Job : Listed(h, j)' = Listed(h, j)
      /\ JobSpecs(h) \subseteq Job /\ Own[h] \subseteq Job
  BY JobSpecsKept, Owned DEF Rests, JobSpecs
<1>2. Placed(h)'
  BY <1>1 DEF Fine, Placed
<1>3. Settled(h)'
  BY <1>1 DEF Fine, Settled, Has, Evolves
<1>4. Green(h)'
  BY <1>1 DEF Fine, Green, Rests, Progress, Success
<1>5. Queued(h)'
  BY <1>1, ListedContexts DEF Fine, Queued, Rests, Progress
<1> QED
  BY <1>2, <1>3, <1>4, <1>5 DEF Fine

LEMMA HeadStep ==
  ASSUME IInv, Typed', Evolves, NEW h \in Head, Fine(h)', \A g \in Head \ {h} : Rests(g)
  PROVE  IInv'
<1>1. \A g \in Head \ {h} : Fine(g)'
  BY Frame DEF IInv, Fine
<1> QED
  BY <1>1 DEF IInv, Fine

LEMMA InvInit == Init => IInv
<1> SUFFICES ASSUME Init PROVE IInv
  OBVIOUS
<1>1. \A h \in Head : status[h] = [c \in Context[h] |-> "none"]
  BY DEF Init
<1>2. Typed
  <2>1. \A h \in Head : status[h] \in [Context[h] -> State]
    BY <1>1 DEF State
  <2>2. status \in [Head -> UNION {[Context[h] -> State] : h \in Head}]
    BY <2>1 DEF Init
  <2>3. /\ def \in [Job -> SUBSET Values] /\ \A j \in Job : def[j] \subseteq ValuesOf(j)
        /\ jobs \in [Head -> [Job -> SUBSET Values]]
        /\ \A h \in Head, j \in Job : jobs[h][j] \subseteq ValuesOf(j)
    BY Constants DEF Init, Missing
  <2>4. /\ pc \in [Head -> {"idle", "fetch", "post", "build"}]
        /\ green \in [Head -> SUBSET AnyContext]
        /\ left \in [Head -> SUBSET (Job \cup Request)]
        /\ due \in [Head -> SUBSET Job] /\ renew \in [Head -> SUBSET Job]
        /\ merged \subseteq Head /\ raced \subseteq Head /\ clash \subseteq Job
    BY DEF Init
  <2>5. refreshes \in 0 .. MaxRefresh /\ troubles \in 0 .. MaxTrouble
    BY Constants DEF Init
  <2> QED
    BY <2>1, <2>2, <2>3, <2>4, <2>5 DEF Typed
<1>3. ASSUME NEW h \in Head PROVE Placed(h) /\ Settled(h) /\ Green(h) /\ Queued(h)
  BY <1>1 DEF Init, Placed, Settled, Green, Queued, Missing, Success
<1> QED
  BY <1>2, <1>3 DEF IInv

-----------------------------------------------------------------------------
(* Builds, and comments                                                     *)

\* A new state for one context.
LEMMA StatusType ==
  ASSUME Typed, NEW h \in Head, NEW s \in [Context[h] -> State],
         status' = [status EXCEPT ![h] = s]
  PROVE  /\ status' \in [Head -> UNION {[Context[g] -> State] : g \in Head}]
         /\ \A g \in Head : status'[g] \in [Context[g] -> State]
         /\ status'[h] = s /\ \A g \in Head \ {h} : status'[g] = status[g]
<1>1. /\ status \in [Head -> UNION {[Context[g] -> State] : g \in Head}]
      /\ \A g \in Head : status[g] \in [Context[g] -> State]
      /\ s \in UNION {[Context[g] -> State] : g \in Head}
  BY DEF Typed
<1>2. status'[h] = s /\ \A g \in Head \ {h} : status'[g] = status[g]
  BY <1>1
<1>3. status' \in [Head -> UNION {[Context[g] -> State] : g \in Head}]
  BY <1>1
<1>4. \A g \in Head : status'[g] \in [Context[g] -> State]
  BY <1>1, <1>2
<1> QED
  BY <1>2, <1>3, <1>4

LEMMA SucceedsInv ==
  ASSUME IInv, NEW h \in Head, NEW c \in Context[h], Succeeds(h, c)
  PROVE  IInv'
<1> DEFINE s == [status[h] EXCEPT ![c] = "success"]
<1>1. status[h] \in [Context[h] -> State] /\ s \in [Context[h] -> State]
  BY DEF IInv, Typed, State
<1>2. status' = [status EXCEPT ![h] = s]
      /\ UNCHANGED <<def, merged, due, pc, green, jobs, renew, left, clash, refreshes, troubles>>
      /\ raced' = IF pc[h] = "idle" THEN raced ELSE raced \cup {h}
  BY DEF Succeeds
<1> HIDE DEF s
<1>3. /\ status' \in [Head -> UNION {[Context[g] -> State] : g \in Head}]
      /\ \A g \in Head : status'[g] \in [Context[g] -> State]
      /\ status'[h] = s /\ \A g \in Head \ {h} : status'[g] = status[g]
  BY <1>1, <1>2, StatusType DEF IInv
<1>4. Typed'
  BY <1>2, <1>3 DEF IInv, Typed
<1>5. \A g \in Head : Rests(g)
  BY <1>1, <1>2, <1>3 DEF Rests, Progress, s
<1>6. Evolves
  BY <1>2 DEF Evolves
<1> QED
  BY <1>4, <1>5, <1>6, Frame DEF IInv, Fine

LEMMA FailsInv ==
  ASSUME IInv, NEW h \in Head, NEW c \in Context[h], Fails(h, c)
  PROVE  IInv'
<1> DEFINE s == [status[h] EXCEPT ![c] = "failure"]
<1>1. status[h] \in [Context[h] -> State] /\ s \in [Context[h] -> State]
      /\ status[h][c] = "pending"
  BY DEF IInv, Typed, State, Fails
<1>2. status' = [status EXCEPT ![h] = s]
      /\ UNCHANGED <<def, merged, due, pc, green, jobs, renew, left, clash, raced, refreshes>>
      /\ troubles' \in 0 .. MaxTrouble
  BY Constants DEF Fails, Trouble, IInv, Typed
<1> HIDE DEF s
<1>3. /\ status' \in [Head -> UNION {[Context[g] -> State] : g \in Head}]
      /\ \A g \in Head : status'[g] \in [Context[g] -> State]
      /\ status'[h] = s /\ \A g \in Head \ {h} : status'[g] = status[g]
  BY <1>1, <1>2, StatusType DEF IInv
<1>4. Typed'
  BY <1>2, <1>3 DEF IInv, Typed
<1>5. \A g \in Head : Rests(g)
  BY <1>1, <1>2, <1>3 DEF Rests, Progress, s
<1>6. Evolves
  BY <1>2 DEF Evolves
<1> QED
  BY <1>4, <1>5, <1>6, Frame DEF IInv, Fine

LEMMA RefreshInv ==
  ASSUME IInv, NEW h \in Head, Refresh(h)
  PROVE  IInv'
<1>1. /\ UNCHANGED <<def, status, merged, pc, green, jobs, renew, left, clash, raced, troubles>>
      /\ due' = [due EXCEPT ![h] = {j \in Own[h] : def[j] # Missing}]
      /\ refreshes < MaxRefresh /\ refreshes' = refreshes + 1
  BY DEF Refresh
<1>2. Typed'
  <2>1. {j \in Own[h] : def[j] # Missing} \in SUBSET Job
    BY Owned
  <2>2. refreshes' \in 0 .. MaxRefresh
    BY <1>1, Constants DEF IInv, Typed
  <2> QED
    BY <1>1, <2>1, <2>2 DEF IInv, Typed
<1>3. \A g \in Head : Rests(g)
  BY <1>1 DEF Rests, Progress
<1>4. Evolves
  BY <1>1 DEF Evolves
<1> QED
  BY <1>2, <1>3, <1>4, Frame DEF IInv, Fine

-----------------------------------------------------------------------------
(* A run fetches its jobs                                                   *)

LEMMA RunStartsInv ==
  ASSUME IInv, NEW h \in Head, RunStarts(h)
  PROVE  IInv'
<1>1. /\ UNCHANGED <<def, status, merged, due, jobs, clash, raced, refreshes, troubles>>
      /\ pc' = [pc EXCEPT ![h] = "fetch"] /\ green' = [green EXCEPT ![h] = Success(h)]
      /\ left' = [left EXCEPT ![h] = Own[h]] /\ renew' = [renew EXCEPT ![h] = due[h]]
  BY DEF RunStarts
<1>2. Success(h) \subseteq AnyContext /\ Own[h] \subseteq Job
  BY Owned DEF Success, AnyContext
<1>3. Typed'
  BY <1>1, <1>2 DEF IInv, Typed
<1>4. \A g \in Head \ {h} : Rests(g)
  BY <1>1 DEF Rests, Progress, IInv, Typed
<1>5. pc'[h] = "fetch" /\ left'[h] = Own[h] /\ green'[h] = Success(h) /\ Success(h)' = Success(h)
  BY <1>1 DEF IInv, Typed, Success
<1>6. Fine(h)'
  BY <1>1, <1>5 DEF Fine, Placed, Settled, Green, Queued, IInv
<1>7. Evolves
  BY <1>1 DEF Evolves
<1> QED
  BY <1>3, <1>4, <1>6, <1>7, HeadStep

LEMMA JobFetchedInv ==
  ASSUME IInv, NEW h \in Head, NEW j \in Job, JobFetched(h, j)
  PROVE  IInv'
<1>1. /\ UNCHANGED <<def, status, merged, due, pc, green, clash, raced, refreshes, troubles>>
      /\ pc[h] = "fetch" /\ jobs' = [jobs EXCEPT ![h] = [jobs[h] EXCEPT ![j] = def[j]]]
      /\ left' = [left EXCEPT ![h] = left[h] \ {j}]
      /\ renew' \in {renew, [renew EXCEPT ![h] = renew[h] \ {j}]}
  BY DEF JobFetched
<1>2. def[j] \in SUBSET Values /\ def[j] \subseteq ValuesOf(j)
      /\ jobs[h] \in [Job -> SUBSET Values]
      /\ [jobs[h] EXCEPT ![j] = def[j]] \in [Job -> SUBSET Values]
  BY DEF IInv, Typed
<1>3. /\ jobs'[h] = [jobs[h] EXCEPT ![j] = def[j]] /\ left'[h] = left[h] \ {j}
      /\ \A g \in Head \ {h} : jobs'[g] = jobs[g] /\ left'[g] = left[g]
  BY <1>1, <1>2 DEF IInv, Typed
<1>4. Typed'
  <2>1. jobs' \in [Head -> [Job -> SUBSET Values]]
    BY <1>1, <1>2 DEF IInv, Typed
  <2>2. ASSUME NEW g \in Head, NEW k \in Job PROVE jobs'[g][k] \subseteq ValuesOf(k)
    <3>1. jobs'[g][k] \in {jobs[g][k], def[k]}
      BY <1>2, <1>3
    <3> QED
      BY <3>1 DEF IInv, Typed
  <2>3. left \in [Head -> SUBSET (Job \cup Request)] /\ renew \in [Head -> SUBSET Job]
    BY DEF IInv, Typed
  <2>4. left' \in [Head -> SUBSET (Job \cup Request)]
    BY <1>1, <2>3
  <2>5. renew' \in [Head -> SUBSET Job]
    BY <1>1, <2>3
  <2> QED
    BY <1>1, <2>1, <2>2, <2>4, <2>5 DEF IInv, Typed
<1>5. \A g \in Head \ {h} : Rests(g)
  BY <1>1, <1>3 DEF Rests, Progress
<1>6. Fine(h)'
  <2>1. Placed(h)' /\ Queued(h)'
    BY <1>1, <1>3 DEF IInv, Placed, Queued
  <2>2. Settled(h)'
    BY <1>1, <1>2, <1>3 DEF IInv, Settled
  <2>3. Green(h)'
    BY <1>1 DEF IInv, Green, Success
  <2> QED
    BY <2>1, <2>2, <2>3 DEF Fine
<1>7. Evolves
  BY <1>1 DEF Evolves
<1> QED
  BY <1>4, <1>5, <1>6, <1>7, HeadStep

LEMMA JobsFetchedInv ==
  ASSUME IInv, NEW h \in Head, JobsFetched(h)
  PROVE  IInv'
<1>1. /\ UNCHANGED <<def, status, merged, due, green, jobs, renew, clash, raced, refreshes,
                     troubles>>
      /\ pc[h] = "fetch" /\ pc' = [pc EXCEPT ![h] = "post"]
      /\ left' = [left EXCEPT ![h] = {"post"} \X ToWrite(h)]
  BY DEF JobsFetched
<1>2. ToWrite(h) \subseteq Own[h] /\ Own[h] \subseteq Job
  BY Owned DEF ToWrite
<1>3. {"post"} \X ToWrite(h) \subseteq {"post", "read"} \X Own[h]
      /\ {"post"} \X ToWrite(h) \subseteq Request
  BY <1>2 DEF Request
<1>4. Typed'
  BY <1>1, <1>3 DEF IInv, Typed
<1>5. /\ pc'[h] = "post" /\ left'[h] = {"post"} \X ToWrite(h)
      /\ \A g \in Head \ {h} : pc'[g] = pc[g] /\ left'[g] = left[g]
  BY <1>1 DEF IInv, Typed
<1>6. \A g \in Head \ {h} : Rests(g)
  BY <1>1, <1>5 DEF Rests, Progress
<1>7. Fine(h)'
  <2>1. Placed(h)' /\ Queued(h)'
    BY <1>3, <1>5 DEF Placed, Queued
  <2>2. ASSUME NEW j \in Own[h]
        PROVE  <<"read", j>> \notin left'[h] /\ (<<"post", j>> \in left'[h] \/ Has(jobs[h][j], h, j))
    <3>1. j \in ToWrite(h) \/ Spec[h][j] \subseteq jobs[h][j]
      BY DEF ToWrite
    <3> QED
      BY <1>5, <3>1 DEF Has
  <2>3. Settled(h)'
    BY <1>1, <1>5, <2>2 DEF IInv, Settled, Has
  <2>4. Green(h)'
    BY <1>1, <1>5 DEF IInv, Green, Success
  <2> QED
    BY <2>1, <2>3, <2>4 DEF Fine
<1>8. Evolves
  BY <1>1 DEF Evolves
<1> QED
  BY <1>4, <1>6, <1>7, <1>8, HeadStep

-----------------------------------------------------------------------------
(* It writes those that miss something                                      *)

LEMMA JobPostedInv ==
  ASSUME IInv, NEW h \in Head, NEW j \in Job, JobPosted(h, j)
  PROVE  IInv'
<1> DEFINE w == Written(h, j)
           l == (left[h] \ {<<"post", j>>}) \cup {<<"read", j>>}
<1>1. /\ UNCHANGED <<status, merged, pc, green, jobs, renew, raced, refreshes, troubles>>
      /\ pc[h] = "post" /\ <<"post", j>> \in left[h]
      /\ def' = [def EXCEPT ![j] = w] /\ due' = [g \in Head |-> due[g] \ {j}]
      /\ clash' = IF def[j] \subseteq w THEN clash ELSE clash \cup {j}
      /\ left' = [left EXCEPT ![h] = l]
  BY DEF JobPosted, Then
<1>2. j \in Own[h] /\ left[h] \subseteq {"post", "read"} \X Own[h]
  BY <1>1 DEF IInv, Placed
<1>3. w \subseteq ValuesOf(j) /\ Spec[h][j] \subseteq w /\ w \in SUBSET Values
  <2>1. Spec[h][j] \subseteq ValuesOf(j) /\ jobs[h][j] \subseteq ValuesOf(j)
    BY ValueSets DEF IInv, Typed
  <2> QED
    BY <2>1, ValueSets DEF Written
<1>4. w # Missing
  BY <1>2, <1>3, Owned DEF Missing
<1> HIDE DEF w
<1>5. l \subseteq {"post", "read"} \X Own[h] /\ l \in SUBSET (Job \cup Request)
      /\ {"post", "read"} \X Own[h] \subseteq Request
  BY <1>2, Owned DEF Request
<1>6. /\ left'[h] = l /\ \A g \in Head \ {h} : left'[g] = left[g]
      /\ def'[j] = w /\ \A k \in Job \ {j} : def'[k] = def[k]
  BY <1>1, <1>5 DEF IInv, Typed
<1>7. Evolves
  BY <1>1, <1>4, <1>6 DEF Evolves
<1>8. Typed'
  <2>1. def' \in [Job -> SUBSET Values] /\ left' \in [Head -> SUBSET (Job \cup Request)]
    BY <1>1, <1>3, <1>5 DEF IInv, Typed
  <2>2. \A k \in Job : def'[k] \subseteq ValuesOf(k)
    BY <1>3, <1>6 DEF IInv, Typed
  <2> QED
    BY <1>1, <2>1, <2>2 DEF IInv, Typed
<1>9. \A g \in Head \ {h} : Rests(g)
  BY <1>1, <1>6 DEF Rests, Progress
<1>10. Fine(h)'
  <2>1. Placed(h)' /\ Queued(h)'
    BY <1>1, <1>5, <1>6 DEF Placed, Queued
  <2>2. ASSUME NEW k \in Own[h]
        PROVE  /\ \/ <<"post", k>> \in left'[h] \/ <<"read", k>> \in left'[h]
                  \/ Has(jobs[h][k], h, k)'
               /\ <<"read", k>> \in left'[h] => Has(def[k], h, k)'
    <3>0. k \in Job
      BY Owned
    <3>1. CASE k = j
      BY <1>3, <1>6, <3>1 DEF Has
    <3>2. CASE k # j
      <4>1. /\ \/ <<"post", k>> \in left[h] \/ <<"read", k>> \in left[h]
               \/ Has(jobs[h][k], h, k)
            /\ <<"read", k>> \in left[h] => Has(def[k], h, k)
        BY <1>1 DEF IInv, Settled
      <4>2. /\ <<"post", k>> \in left[h] <=> <<"post", k>> \in l
            /\ <<"read", k>> \in left[h] <=> <<"read", k>> \in l
        BY <3>2
      <4>3. clash \subseteq clash' /\ def'[k] = def[k] /\ jobs' = jobs
        BY <1>1, <1>6, <3>0, <3>2
      <4> QED
        BY <1>6, <4>1, <4>2, <4>3 DEF Has
    <3> QED
      BY <3>1, <3>2
  <2>3. \A k \in Job : jobs'[h][k] # Missing => def'[k] # Missing
    BY <1>1, <1>4, <1>6 DEF IInv, Settled
  <2>4. Settled(h)'
    BY <1>1, <2>2, <2>3 DEF Settled
  <2>5. Green(h)'
    BY <1>1 DEF IInv, Green, Success
  <2> QED
    BY <2>1, <2>4, <2>5 DEF Fine
<1> QED
  BY <1>7, <1>8, <1>9, <1>10, HeadStep

LEMMA JobFailedInv ==
  ASSUME IInv, NEW h \in Head, NEW j \in Job, JobFailed(h, j)
  PROVE  IInv'
<1>1. PICK request \in {"post", "read"} :
          /\ <<request, j>> \in left[h] /\ left' = [left EXCEPT ![h] = left[h] \ {<<request, j>>}]
          /\ UNCHANGED troubles \/ Trouble
  BY DEF JobFailed, Done
<1>2. /\ UNCHANGED <<def, status, merged, due, pc, green, jobs, renew, raced, refreshes>>
      /\ pc[h] = "post" /\ clash' = clash \cup {j}
  BY DEF JobFailed
<1>3. troubles' \in 0 .. MaxTrouble
  BY <1>1, Constants DEF Trouble, IInv, Typed
<1>4. /\ left'[h] = left[h] \ {<<request, j>>} /\ \A g \in Head \ {h} : left'[g] = left[g]
      /\ left' \in [Head -> SUBSET (Job \cup Request)]
  BY <1>1 DEF IInv, Typed
<1>5. Typed'
  BY <1>2, <1>3, <1>4 DEF IInv, Typed
<1>6. Evolves
  BY <1>2 DEF Evolves
<1>7. \A g \in Head \ {h} : Rests(g)
  BY <1>2, <1>4 DEF Rests, Progress
<1>8. Fine(h)'
  <2>1. Placed(h)' /\ Queued(h)'
    BY <1>2, <1>4 DEF IInv, Placed, Queued
  <2>2. ASSUME NEW k \in Own[h]
        PROVE  /\ \/ <<"post", k>> \in left'[h] \/ <<"read", k>> \in left'[h]
                  \/ Has(jobs[h][k], h, k)'
               /\ <<"read", k>> \in left'[h] => Has(def[k], h, k)'
    <3>1. CASE k = j
      BY <1>2, <3>1 DEF Has
    <3>2. CASE k # j
      <4>1. /\ \/ <<"post", k>> \in left[h] \/ <<"read", k>> \in left[h]
               \/ Has(jobs[h][k], h, k)
            /\ <<"read", k>> \in left[h] => Has(def[k], h, k)
        BY <1>2 DEF IInv, Settled
      <4>2. /\ <<"post", k>> \in left[h] <=> <<"post", k>> \in left'[h]
            /\ <<"read", k>> \in left[h] <=> <<"read", k>> \in left'[h]
        BY <1>4, <3>2
      <4> QED
        BY <1>2, <4>1, <4>2 DEF Has
    <3> QED
      BY <3>1, <3>2
  <2>3. Settled(h)'
    BY <1>2, <2>2 DEF IInv, Settled
  <2>4. Green(h)'
    BY <1>2 DEF IInv, Green, Success
  <2> QED
    BY <2>1, <2>3, <2>4 DEF Fine
<1> QED
  BY <1>5, <1>6, <1>7, <1>8, HeadStep

LEMMA JobReadBackInv ==
  ASSUME IInv, NEW h \in Head, NEW j \in Job, JobReadBack(h, j)
  PROVE  IInv'
<1> DEFINE s == [c \in Context[h] |->
                    IF c[1] = j /\ j \in Periodic THEN "success" ELSE status[h][c]]
           l == left[h] \ {<<"read", j>>}
<1>1. /\ UNCHANGED <<def, merged, due, pc, green, renew, clash, raced, refreshes, troubles>>
      /\ pc[h] = "post" /\ <<"read", j>> \in left[h]
      /\ jobs' = [jobs EXCEPT ![h] = [jobs[h] EXCEPT ![j] = def[j]]]
      /\ left' = [left EXCEPT ![h] = l] /\ status' = [status EXCEPT ![h] = s]
  BY DEF JobReadBack, Done
<1>2. s \in [Context[h] -> State]
  BY DEF IInv, Typed, State
<1>3. \A c \in Context[h] : s[c] = status[h][c] \/ (s[c] = "success" /\ c[1] \in Periodic)
  OBVIOUS
<1> HIDE DEF s
<1>4. /\ status' \in [Head -> UNION {[Context[g] -> State] : g \in Head}]
      /\ \A g \in Head : status'[g] \in [Context[g] -> State]
      /\ status'[h] = s /\ \A g \in Head \ {h} : status'[g] = status[g]
  BY <1>1, <1>2, StatusType DEF IInv
<1>5. def[j] \in SUBSET Values /\ def[j] \subseteq ValuesOf(j)
      /\ jobs[h] \in [Job -> SUBSET Values]
      /\ [jobs[h] EXCEPT ![j] = def[j]] \in [Job -> SUBSET Values]
  BY DEF IInv, Typed
<1>6. /\ jobs'[h] = [jobs[h] EXCEPT ![j] = def[j]] /\ left'[h] = l
      /\ \A g \in Head \ {h} : jobs'[g] = jobs[g] /\ left'[g] = left[g]
  BY <1>1, <1>5 DEF IInv, Typed
<1>7. Typed'
  <2>1. jobs' \in [Head -> [Job -> SUBSET Values]] /\ left' \in [Head -> SUBSET (Job \cup Request)]
    BY <1>1, <1>5 DEF IInv, Typed
  <2>2. ASSUME NEW g \in Head, NEW k \in Job PROVE jobs'[g][k] \subseteq ValuesOf(k)
    <3>1. jobs'[g][k] \in {jobs[g][k], def[k]}
      BY <1>5, <1>6
    <3> QED
      BY <3>1 DEF IInv, Typed
  <2> QED
    BY <1>1, <1>4, <2>1, <2>2 DEF IInv, Typed
<1>8. Progress(h) /\ \A g \in Head \ {h} : Rests(g)
  BY <1>1, <1>3, <1>4, <1>6 DEF Rests, Progress
<1>9. Evolves
  BY <1>1 DEF Evolves
<1>10. Fine(h)'
  <2>1. Placed(h)' /\ Queued(h)'
    BY <1>1, <1>6 DEF IInv, Placed, Queued
  <2>2. ASSUME NEW k \in Own[h]
        PROVE  /\ \/ <<"post", k>> \in left'[h] \/ <<"read", k>> \in left'[h]
                  \/ Has(jobs[h][k], h, k)'
               /\ <<"read", k>> \in left'[h] => Has(def[k], h, k)'
    <3>0. k \in Job
      BY Owned
    <3>1. /\ \/ <<"post", k>> \in left[h] \/ <<"read", k>> \in left[h]
             \/ Has(jobs[h][k], h, k)
          /\ <<"read", k>> \in left[h] => Has(def[k], h, k)
      BY <1>1 DEF IInv, Settled
    <3>2. CASE k = j
      BY <1>1, <1>5, <1>6, <3>1, <3>2 DEF Has
    <3>3. CASE k # j
      <4>1. /\ <<"post", k>> \in left[h] <=> <<"post", k>> \in left'[h]
            /\ <<"read", k>> \in left[h] <=> <<"read", k>> \in left'[h]
        BY <1>6, <3>3
      <4>2. jobs'[h][k] = jobs[h][k]
        BY <1>5, <1>6, <3>0, <3>3
      <4> QED
        BY <1>1, <3>1, <4>1, <4>2 DEF Has
    <3> QED
      BY <3>2, <3>3
  <2>3. \A k \in Job : jobs'[h][k] # Missing => def'[k] # Missing
    BY <1>1, <1>5, <1>6 DEF IInv, Settled
  <2>4. Settled(h)'
    BY <1>1, <2>2, <2>3 DEF Settled
  <2>5. Green(h)'
    BY <1>1, <1>8, GreenKept DEF IInv
  <2> QED
    BY <2>1, <2>4, <2>5 DEF Fine
<1> QED
  BY <1>7, <1>8, <1>9, <1>10, HeadStep

-----------------------------------------------------------------------------
(* It builds the jobs of the stage, and ends                                *)

LEMMA NoRunFine ==
  ASSUME IInv, NEW h \in Head, NoRun(h),
         UNCHANGED <<def, status, due, clash, refreshes, troubles>>, merged' \subseteq Head
  PROVE  IInv'
<1>1. [j \in Job |-> Missing] \in [Job -> SUBSET Values]
  BY DEF Missing
<1>2. /\ pc'[h] = "idle" /\ green'[h] = {} /\ jobs'[h] = [j \in Job |-> Missing] /\ left'[h] = {}
      /\ \A g \in Head \ {h} : /\ pc'[g] = pc[g] /\ green'[g] = green[g] /\ jobs'[g] = jobs[g]
                               /\ left'[g] = left[g] /\ (g \in raced <=> g \in raced')
  BY DEF NoRun, IInv, Typed
<1>3. Typed'
  <2>1. jobs' \in [Head -> [Job -> SUBSET Values]]
    BY <1>1 DEF NoRun, IInv, Typed
  <2>2. \A g \in Head, k \in Job : jobs'[g][k] \subseteq ValuesOf(k)
    <3> TAKE g \in Head, k \in Job
    <3>1. CASE g = h
      BY <1>2, <3>1 DEF Missing
    <3>2. CASE g # h
      BY <1>2, <3>2 DEF IInv, Typed
    <3> QED
      BY <3>1, <3>2
  <2> QED
    BY <2>1, <2>2 DEF NoRun, IInv, Typed
<1>4. Fine(h)'
  BY <1>2 DEF Fine, Placed, Settled, Green, Queued
<1>5. \A g \in Head \ {h} : Rests(g)
  BY <1>2 DEF Rests, Progress
<1>6. Evolves
  BY DEF Evolves
<1> QED
  BY <1>3, <1>4, <1>5, <1>6, HeadStep

LEMMA StageChosenInv ==
  ASSUME IInv, NEW h \in Head, StageChosen(h)
  PROVE  IInv'
<1>1. CASE NoRun(h)
  BY <1>1, NoRunFine DEF StageChosen, IInv, Typed
<1>2. CASE pc' = [pc EXCEPT ![h] = "build"] /\ left' = [left EXCEPT ![h] = JobSpecs(h)]
           /\ UNCHANGED <<green, jobs, renew, raced>>
  <2>1. /\ UNCHANGED <<def, status, merged, due, clash, refreshes, troubles>>
        /\ pc[h] = "post" /\ left[h] = {}
    BY DEF StageChosen
  <2>2. JobSpecs(h) \subseteq Own[h] /\ Own[h] \subseteq Job
    BY Owned DEF JobSpecs
  <2>3. /\ pc'[h] = "build" /\ left'[h] = JobSpecs(h)
        /\ \A g \in Head \ {h} : pc'[g] = pc[g] /\ left'[g] = left[g]
    BY <1>2 DEF IInv, Typed
  <2>4. Typed'
    BY <1>2, <2>1, <2>2 DEF IInv, Typed
  <2>5. JobSpecs(h)' = JobSpecs(h)
    BY <1>2, JobSpecsKept
  <2>6. Placed(h)' /\ Queued(h)'
    BY <2>3, <2>5 DEF Placed, Queued
  <2>7. Settled(h)'
    BY <1>2, <2>1, <2>3 DEF IInv, Settled, Has
  <2>8. Green(h)'
    BY <1>2, <2>1 DEF IInv, Green, Success
  <2>9. \A g \in Head \ {h} : Rests(g)
    BY <1>2, <2>1, <2>3 DEF Rests, Progress
  <2>10. Evolves
    BY <2>1 DEF Evolves
  <2> QED
    BY <2>4, <2>6, <2>7, <2>8, <2>9, <2>10, HeadStep DEF Fine
<1> QED
  BY <1>1, <1>2 DEF StageChosen

LEMMA JobQueuedInv ==
  ASSUME IInv, NEW h \in Head, NEW j \in Job, JobQueued(h, j)
  PROVE  IInv'
<1> DEFINE s == [c \in Context[h] |->
                    IF c \in Listed(h, j) /\ status[h][c] = "none" THEN "pending" ELSE status[h][c]]
<1>1. /\ UNCHANGED <<def, merged, due, pc, green, jobs, renew, clash, raced, refreshes, troubles>>
      /\ pc[h] = "build" /\ j \in left[h]
      /\ left' = [left EXCEPT ![h] = left[h] \ {j}] /\ status' = [status EXCEPT ![h] = s]
  BY DEF JobQueued, Done
<1>2. s \in [Context[h] -> State]
  BY DEF IInv, Typed, State
<1>3. /\ \A c \in Context[h] : s[c] = status[h][c] \/ (s[c] = "pending" /\ status[h][c] = "none")
      /\ \A c \in Listed(h, j) : s[c] # "none"
  BY ListedContexts
<1> HIDE DEF s
<1>4. /\ status' \in [Head -> UNION {[Context[g] -> State] : g \in Head}]
      /\ \A g \in Head : status'[g] \in [Context[g] -> State]
      /\ status'[h] = s /\ \A g \in Head \ {h} : status'[g] = status[g]
  BY <1>1, <1>2, StatusType DEF IInv
<1>5. /\ left'[h] = left[h] \ {j} /\ \A g \in Head \ {h} : left'[g] = left[g]
      /\ left' \in [Head -> SUBSET (Job \cup Request)]
  BY <1>1 DEF IInv, Typed
<1>6. Typed'
  BY <1>1, <1>4, <1>5 DEF IInv, Typed
<1>7. Progress(h) /\ \A g \in Head \ {h} : Rests(g)
  BY <1>1, <1>3, <1>4, <1>5 DEF Rests, Progress
<1>8. Evolves
  BY <1>1 DEF Evolves
<1>9. Fine(h)'
  <2>1. /\ JobSpecs(h)' = JobSpecs(h) /\ \A k \in Job : Listed(h, k)' = Listed(h, k)
        /\ JobSpecs(h) \subseteq Job
    BY <1>1, JobSpecsKept, Owned DEF JobSpecs
  <2>2. Placed(h)'
    BY <1>1, <1>5, <2>1 DEF IInv, Placed
  <2>3. Queued(h)'
    <3>1. ASSUME NEW k \in JobSpecs(h), k \notin left'[h], NEW c \in Listed(h, k)
          PROVE  status'[h][c] # "none"
      <4>0. c \in Context[h]
        BY <2>1, ListedContexts
      <4>1. CASE k = j
        BY <1>3, <1>4, <3>1, <4>1
      <4>2. CASE k # j
        <5>1. status[h][c] # "none"
          BY <1>1, <1>5, <3>1, <4>2 DEF IInv, Queued
        <5> QED
          BY <1>3, <1>4, <4>0, <5>1
      <4> QED
        BY <4>1, <4>2
    <3> QED
      BY <2>1, <3>1 DEF Queued
  <2>4. Settled(h)'
    BY <1>1 DEF IInv, Settled, Has
  <2>5. Green(h)'
    BY <1>1, <1>7, GreenKept DEF IInv
  <2> QED
    BY <2>2, <2>3, <2>4, <2>5 DEF Fine
<1> QED
  BY <1>6, <1>7, <1>8, <1>9, HeadStep

LEMMA RunEndsInv ==
  ASSUME IInv, NEW h \in Head, RunEnds(h)
  PROVE  IInv'
<1>1. merged' \subseteq Head
  BY DEF RunEnds, IInv, Typed
<1> QED
  BY <1>1, NoRunFine DEF RunEnds

LEMMA InvNext == IInv /\ [Next]_vars => IInv'
<1> SUFFICES ASSUME IInv, [Next]_vars PROVE IInv'
  OBVIOUS
<1>1. ASSUME NEW h \in Head, RunStep(h) PROVE IInv'
  BY <1>1, RunStartsInv, JobFetchedInv, JobsFetchedInv, JobPostedInv, JobFailedInv,
     JobReadBackInv, StageChosenInv, JobQueuedInv, RunEndsInv DEF RunStep
<1>2. CASE Next
  BY <1>1, <1>2, RefreshInv, SucceedsInv, FailsInv DEF Next
<1>3. CASE UNCHANGED vars
  <2>1. Typed'
    BY <1>3 DEF vars, IInv, Typed
  <2>2. \A h \in Head : Rests(h)
    BY <1>3 DEF vars, Rests, Progress
  <2>3. Evolves
    BY <1>3 DEF vars, Evolves
  <2> QED
    BY <2>1, <2>2, <2>3, Frame DEF IInv, Fine
<1> QED
  BY <1>2, <1>3

LEMMA Inductive == Behaviour => []IInv
  BY InvInit, InvNext, PTL DEF Behaviour

\* The variables keep their types, whatever the heads ask of the jobs they share; in
\* particular a success stays, and Jenkins forgets no job that a run has seen.
THEOREM TypeCorrect == Behaviour => []TypeOK
<1>1. IInv => TypeOK
  <2> SUFFICES ASSUME IInv PROVE TypeOK
    OBVIOUS
  <2>1. \A j \in Job : def[j] \subseteq UNION {Spec[h][j] : h \in Head}
    BY DEF IInv, Typed, ValuesOf
  <2> QED
    BY <2>1 DEF IInv, Typed, State, Green, Settled, TypeOK
<1> QED
  BY <1>1, Inductive, PTL

-----------------------------------------------------------------------------
(* Stages in order, and complete merges                                     *)

\* In a run that builds, what an earlier stage holds is a success, or there was a
\* clash about its job.
LEMMA EarlierStages ==
  ASSUME IInv, NEW h \in Head, pc[h] = "build", NEW c \in Context[h],
         IsComplete(h, StageOf[c[1]])
  PROVE  c \in Success(h) \/ c[1] \in clash
<1>1. c[1] \in Own[h] /\ c[2] \in Spec[h][c[1]] /\ c = <<c[1], c[2]>>
  BY Contexts
<1>2. Has(jobs[h][c[1]], h, c[1])
  BY <1>1 DEF IInv, Settled
<1>3. CASE Spec[h][c[1]] \subseteq jobs[h][c[1]]
  <2>1. c \in Listed(h, c[1])
    BY <1>1, <1>3 DEF Listed
  <2>2. c \in green[h]
    BY <1>1, <2>1 DEF IsComplete
  <2> QED
    BY <2>2 DEF IInv, Green
<1> QED
  BY <1>2, <1>3 DEF Has

\* Only the builder makes a context pending.
LEMMA PendingByQueue ==
  ASSUME IInv, [Next]_vars, NEW h \in Head, NEW c \in Context[h],
         status[h][c] = "none", status'[h][c] = "pending"
  PROVE  \E j \in Job : JobQueued(h, j) /\ c \in Listed(h, j)
<1>0. /\ status \in [Head -> UNION {[Context[g] -> State] : g \in Head}]
      /\ \A g \in Head : status[g] \in [Context[g] -> State]
      /\ status' # status
  BY DEF IInv, Typed
<1>1. PICK g \in Head : \/ RunStep(g)
                        \/ \E d \in Context[g] : Succeeds(g, d) \/ Fails(g, d)
  BY <1>0 DEF Next, vars, Refresh
<1>2. ASSUME NEW d \in Context[g], Succeeds(g, d) PROVE FALSE
  <2>1. status' = [status EXCEPT ![g] = [status[g] EXCEPT ![d] = "success"]]
    BY <1>2 DEF Succeeds
  <2>2. status'[h] \in {status[h], [status[h] EXCEPT ![d] = "success"]}
    BY <1>0, <2>1
  <2> QED
    BY <1>0, <2>2
<1>3. ASSUME NEW d \in Context[g], Fails(g, d) PROVE FALSE
  <2>1. status' = [status EXCEPT ![g] = [status[g] EXCEPT ![d] = "failure"]]
    BY <1>3 DEF Fails
  <2>2. status'[h] \in {status[h], [status[h] EXCEPT ![d] = "failure"]}
    BY <1>0, <2>1
  <2> QED
    BY <1>0, <2>2
<1>4. ASSUME NEW j \in Job, JobReadBack(g, j) PROVE FALSE
  <2> DEFINE s == [d \in Context[g] |->
                      IF d[1] = j /\ j \in Periodic THEN "success" ELSE status[g][d]]
  <2>1. status' = [status EXCEPT ![g] = s]
    BY <1>4 DEF JobReadBack
  <2>2. \A d \in Context[g] : s[d] \in {status[g][d], "success"}
    OBVIOUS
  <2> HIDE DEF s
  <2>3. status'[h] \in {status[h], s} /\ (status'[h] = s => g = h \/ status'[h] = status[h])
    BY <1>0, <2>1
  <2> QED
    BY <2>2, <2>3
<1>5. ASSUME NEW j \in Job, JobQueued(g, j) PROVE g = h /\ c \in Listed(h, j)
  <2> DEFINE s == [d \in Context[g] |->
                      IF d \in Listed(g, j) /\ status[g][d] = "none" THEN "pending" ELSE status[g][d]]
  <2>1. status' = [status EXCEPT ![g] = s]
    BY <1>5 DEF JobQueued
  <2>2. \A d \in Context[g] : d \notin Listed(g, j) => s[d] = status[g][d]
    OBVIOUS
  <2> HIDE DEF s
  <2>3. g # h => status'[h] = status[h]
    BY <1>0, <2>1
  <2>4. g = h => status'[h] = s
    BY <1>0, <2>1
  <2> QED
    BY <2>2, <2>3, <2>4
<1>6. CASE RunStep(g)
  <2>1. ~(RunStarts(g) \/ JobsFetched(g) \/ StageChosen(g) \/ RunEnds(g))
    BY <1>0 DEF RunStarts, JobsFetched, StageChosen, RunEnds
  <2>2. ~(\E j \in Job : JobFetched(g, j) \/ JobPosted(g, j) \/ JobFailed(g, j))
    BY <1>0 DEF JobFetched, JobPosted, JobFailed
  <2> QED
    BY <1>4, <1>5, <1>6, <2>1, <2>2 DEF RunStep
<1> QED
  BY <1>1, <1>2, <1>3, <1>6

\* A stage does not start before the previous ones succeeded, but for what Jenkins
\* refused or another head overwrote (doc/yml.rst:94, extensions/jenkins.py:387-458).
THEOREM StagesInOrder == Behaviour => PipelineOrder
<1>1. ASSUME IInv, [Next]_vars
      PROVE  [\A h \in Head : \A c \in Context[h] :
                  status[h][c] = "none" /\ status'[h][c] = "pending" =>
                      \A e \in Earlier(h, c[1]) : e \in Success(h) \/ e[1] \in clash]_vars
  <2> SUFFICES ASSUME NEW h \in Head, NEW c \in Context[h],
                      status[h][c] = "none", status'[h][c] = "pending",
                      NEW e \in Earlier(h, c[1])
               PROVE  e \in Success(h) \/ e[1] \in clash
    OBVIOUS
  <2>1. PICK j \in Job : JobQueued(h, j) /\ c \in Listed(h, j)
    BY <1>1, PendingByQueue
  <2>2. pc[h] = "build" /\ j \in JobSpecs(h) /\ c[1] = j
    BY <1>1, <2>1 DEF JobQueued, IInv, Placed, Listed
  <2>3. j \in Own[h] /\ IsCurrent(h, StageOf[j])
    BY <2>2 DEF JobSpecs
  <2>4. e \in Context[h] /\ StageOf[e[1]] < StageOf[j] /\ e[1] \in Own[h]
    BY <2>2, Contexts DEF Earlier
  <2>5. IsComplete(h, StageOf[e[1]])
    BY <2>3, <2>4 DEF IsCurrent
  <2> QED
    BY <1>1, <2>2, <2>4, <2>5, EarlierStages
<1> QED
  BY <1>1, Inductive, PTL DEF Behaviour, PipelineOrder

\* When a run ends, and all that is reported succeeded, what it built succeeded.
LEMMA BuiltSucceeded ==
  ASSUME IInv, NEW h \in Head, pc[h] = "build", left[h] = {},
         Reported(h) \subseteq Success(h), clash = {},
         NEW c \in Context[h], c[1] \in JobSpecs(h)
  PROVE  c \in Success(h)
<1>1. c[1] \in Own[h] /\ c[1] \in Job
  BY Owned DEF JobSpecs
<1>2. Spec[h][c[1]] \subseteq jobs[h][c[1]]
  BY <1>1 DEF IInv, Settled, Has
<1>3. c \in Listed(h, c[1])
  BY <1>2, Contexts DEF Listed
<1>4. c \in Reported(h)
  BY <1>3 DEF IInv, Queued, Reported
<1> QED
  BY <1>4

\* When a run that is not held up ends, and all that is reported succeeded, then all
\* succeeded, unless something succeeded meanwhile or there was a clash.
LEMMA EndsComplete ==
  ASSUME IInv, NEW h \in Head, pc[h] = "build", left[h] = {},
         Reported(h) \subseteq Success(h), h \notin raced, clash = {}, ~HeldUp(h)
  PROVE  Context[h] \subseteq Success(h)
<1>1. CASE \A j \in Own[h] : IsComplete(h, StageOf[j])
  <2> SUFFICES ASSUME NEW c \in Context[h] PROVE c \in Success(h)
    OBVIOUS
  <2>1. IsComplete(h, StageOf[c[1]])
    BY <1>1, Contexts
  <2> QED
    BY <2>1, EarlierStages
<1>2. ASSUME NEW j \in Own[h], IsCurrent(h, StageOf[j]), ~IsComplete(h, StageOf[j])
      PROVE  FALSE
  <2>1. PICK k \in Own[h] : StageOf[k] = StageOf[j] /\ ~(Listed(h, k) \subseteq green[h])
    BY <1>2 DEF IsComplete
  <2>2. PICK c \in Listed(h, k) : c \notin green[h]
    BY <2>1
  <2>3. c[1] = k /\ c \in Context[h] /\ k \in Job
    BY <2>2, Owned, ListedContexts DEF Listed
  <2>4. k \in Here[h] /\ k \notin Periodic
    BY <1>2, <2>1, <2>2, <2>3, BuiltSucceeded DEF HeldUp
  <2>5. k \in JobSpecs(h)
    BY <1>2, <2>1, <2>4 DEF JobSpecs
  <2>6. c \in Reported(h)
    BY <2>2, <2>3, <2>5 DEF IInv, Queued, Reported
  <2>7. c[1] \in Periodic
    BY <2>2, <2>6 DEF IInv, Green
  <2> QED
    BY <2>3, <2>4, <2>7
<1> QED
  BY <1>1, <1>2, CurrentStageExists

\* A head is merged before all its stages succeeded only in the races that the property
\* names, if a job that is not built holds its stage up, or after a clash
\* (extensions/jenkins.py:429-458, core.py:288).
THEOREM MergesComplete == Behaviour => MergedComplete
<1>1. ASSUME IInv, [Next]_vars
      PROVE  [\A h \in merged' \ merged :
                  Context[h] \subseteq Success(h) \/ h \in raced \/ HeldUp(h) \/ clash # {}]_vars
  <2> SUFFICES ASSUME NEW h \in merged', h \notin merged, h \notin raced, ~HeldUp(h), clash = {}
               PROVE  Context[h] \subseteq Success(h)
    OBVIOUS
  <2>1. PICK g \in Head : RunEnds(g)
    <3>0. merged' # merged
      OBVIOUS
    <3>1. PICK g \in Head :
              RunStep(g) \/ Refresh(g) \/ \E c \in Context[g] : Succeeds(g, c) \/ Fails(g, c)
      BY <1>1, <3>0 DEF Next, vars
    <3>2. ~(Refresh(g) \/ \E c \in Context[g] : Succeeds(g, c) \/ Fails(g, c))
      BY <3>0 DEF Refresh, Succeeds, Fails
    <3>3. ~(RunStarts(g) \/ JobsFetched(g) \/ StageChosen(g))
      BY <3>0 DEF RunStarts, JobsFetched, StageChosen
    <3>4. ~(\E j \in Job : JobFetched(g, j) \/ JobPosted(g, j) \/ JobFailed(g, j))
      BY <3>0 DEF JobFetched, JobPosted, JobFailed
    <3>5. ~(\E j \in Job : JobReadBack(g, j) \/ JobQueued(g, j))
      BY <3>0 DEF JobReadBack, JobQueued
    <3> QED
      BY <3>1, <3>2, <3>3, <3>4, <3>5, Zenon DEF RunStep
  <2>2. /\ g = h /\ pc[h] = "build" /\ left[h] = {} /\ Reported(h) \subseteq Success(h)
    BY <2>1 DEF RunEnds
  <2> QED
    BY <1>1, <2>2, EndsComplete
<1> QED
  BY <1>1, Inductive, PTL DEF Behaviour, MergedComplete
=============================================================================
