-------------------------- MODULE WorkerPoolProofs --------------------------
(***************************************************************************)
(* Proofs about WorkerPool, for every set of repositories, heads,          *)
(* deliveries and workers, every capacity, both queues and both commands.  *)
(***************************************************************************)
EXTENDS WorkerPool, FiniteSetTheorems, TLAPS

Unborn == {"new", "blocked", "queued"}    \* not started yet
Alive  == {"blocked", "queued", "running"}

\* A running task has exactly one worker, and a worker runs a running task.
Ownership ==
    /\ \A w \in Worker : job[w] \in Task => future[job[w]] = "running"
    /\ \A t \in Task : future[t] = "running" => \E w \in Worker : job[w] = t
    /\ \A v, w \in Worker : job[v] \in Task /\ job[v] = job[w] => v = w

\* What a task still has to enqueue is made of new children of it.
Agenda ==
    \A w \in Worker :
        /\ todo[w] # {} => job[w] \in Task /\ stage[w] # "call"
        /\ \A t \in todo[w] : t \in Children(job[w]) /\ future[t] = "new"
        /\ stage[w] = "branches" => todo[w] \subseteq {HeadTask(h) : h \in Branch}

\* A blocked put has an enqueuer: the loop, or a worker that runs the parent.
Lineage ==
    /\ \A r \in Repo :
        /\ future[PollerTask(r)] = "blocked" => phase = "polling"
        /\ future[QueuerTask(r)] = "blocked"
            => \E w \in Worker : job[w] = PollerTask(r)
    /\ \A h \in Head :
        future[HeadTask(h)] = "blocked"
            => \E w \in Worker : job[w] = QueuerTask(HeadRepo[h])

\* Nothing below a task exists before the task's body creates it.
Generations ==
    /\ \A r \in pollset : future[PollerTask(r)] = "new"
    /\ \A r \in Repo :
        /\ future[PollerTask(r)] \in Unborn => future[QueuerTask(r)] = "new"
        /\ future[QueuerTask(r)] \in Unborn
            => \A h \in HeadsOf(r) : future[HeadTask(h)] = "new"
    /\ \A w \in Worker : \A r \in Repo :
        /\ job[w] = PollerTask(r) /\ stage[w] = "call"
            => future[QueuerTask(r)] = "new"
        /\ job[w] = QueuerTask(r) /\ stage[w] = "call"
            => \A h \in HeadsOf(r) : future[HeadTask(h)] = "new"
        /\ job[w] = QueuerTask(r) /\ stage[w] = "branches"
            => \A h \in HeadsOf(r) \ Branch : future[HeadTask(h)] = "new"

\* What the counter of the queue stands for.
Counted == IF EagerCount THEN Outstanding \cup Blocked ELSE Outstanding

Accounting == Cardinality(Counted) <= unfinished

IInv ==
    /\ TypeOK
    /\ Ownership
    /\ Agenda
    /\ Lineage
    /\ Generations
    /\ Accounting
    /\ JoinBarrier

-----------------------------------------------------------------------------
(* Facts about tasks, so that records stay folded elsewhere.               *)

LEMMA Shapes ==
    /\ \A r \in Repo : PollerTask(r) \in RoundTask /\ QueuerTask(r) \in RoundTask
    /\ \A h \in Head : HeadTask(h) \in RoundTask
    /\ \A k \in Hook : HookTask(k) \in Delivery
    /\ RoundTask \subseteq Task /\ Delivery \subseteq Task
    /\ \A t \in RoundTask :
        \/ \E r \in Repo : t = PollerTask(r)
        \/ \E r \in Repo : t = QueuerTask(r)
        \/ \E h \in Head : t = HeadTask(h)
    /\ \A t \in Delivery : \E k \in Hook : t = HookTask(k)
    /\ Task = RoundTask \cup Delivery
    /\ RoundTask \cap Delivery = {}
  BY DEF PollerTask, QueuerTask, HeadTask, HookTask, RoundTask, Delivery, Task

\* Tasks of different kinds, and of different owners, are different.
LEMMA Distinct ==
    /\ \A r, s : PollerTask(r) = PollerTask(s) => r = s
    /\ \A r, s : QueuerTask(r) = QueuerTask(s) => r = s
    /\ \A g, h : HeadTask(g) = HeadTask(h) => g = h
    /\ \A r, s : PollerTask(r) # QueuerTask(s)
    /\ \A r, h : PollerTask(r) # HeadTask(h) /\ QueuerTask(r) # HeadTask(h)
    /\ \A r, k : PollerTask(r) # HookTask(k) /\ QueuerTask(r) # HookTask(k)
    /\ \A h, k : HeadTask(h) # HookTask(k)
  BY DEF PollerTask, QueuerTask, HeadTask, HookTask

LEMMA Family ==
    /\ \A r \in Repo : Children(PollerTask(r)) = {QueuerTask(r)}
    /\ \A r \in Repo : Children(QueuerTask(r)) = {HeadTask(h) : h \in HeadsOf(r)}
    /\ \A h \in Head : Children(HeadTask(h)) = {}
    /\ \A k \in Hook : Children(HookTask(k)) = {}
    /\ \A t \in Task : Children(t) \subseteq RoundTask
    /\ \A r \in Repo : HeadsOf(r) \subseteq Head
    /\ \A h \in Head : HeadRepo[h] \in Repo /\ h \in HeadsOf(HeadRepo[h])
<1>1. /\ \A r \in Repo : Children(PollerTask(r)) = {QueuerTask(r)}
      /\ \A r \in Repo : Children(QueuerTask(r)) = {HeadTask(h) : h \in HeadsOf(r)}
      /\ \A h \in Head : Children(HeadTask(h)) = {}
      /\ \A k \in Hook : Children(HookTask(k)) = {}
  BY DEF Children, PollerTask, QueuerTask, HeadTask, HookTask
<1>2. /\ \A r \in Repo : HeadsOf(r) \subseteq Head
      /\ \A h \in Head : HeadRepo[h] \in Repo /\ h \in HeadsOf(HeadRepo[h])
  BY SetsAssumption DEF HeadsOf
<1>3. \A t \in Task : Children(t) \subseteq RoundTask
  BY <1>1, <1>2, Shapes
<1> QED
  BY <1>1, <1>2, <1>3

LEMMA KindOf ==
    /\ \A t \in Task : t.kind = "poller" => \E r \in Repo : t = PollerTask(r) /\ t.of = r
    /\ \A t \in Task : t.kind = "queuer" => \E r \in Repo : t = QueuerTask(r) /\ t.of = r
    /\ \A t \in Task : t.kind \in {"head", "hook"} => Children(t) = {}
  BY DEF PollerTask, QueuerTask, RoundTask, Delivery, Task, Children

LEMMA TasksFinite == IsFiniteSet(Task)
<1> DEFINE P == {PollerTask(r) : r \in Repo}
           Q == {QueuerTask(r) : r \in Repo}
           H == {HeadTask(h) : h \in Head}
           K == {HookTask(k) : k \in Hook}
<1>1. IsFiniteSet(P)
  <2>1. [r \in Repo |-> PollerTask(r)] \in Surjection(Repo, P)
    BY DEF Surjection
  <2> QED BY <2>1, FS_Surjection, SetsAssumption
<1>2. IsFiniteSet(Q)
  <2>1. [r \in Repo |-> QueuerTask(r)] \in Surjection(Repo, Q)
    BY DEF Surjection
  <2> QED BY <2>1, FS_Surjection, SetsAssumption
<1>3. IsFiniteSet(H)
  <2>1. [h \in Head |-> HeadTask(h)] \in Surjection(Head, H)
    BY DEF Surjection
  <2> QED BY <2>1, FS_Surjection, SetsAssumption
<1>4. IsFiniteSet(K)
  <2>1. [k \in Hook |-> HookTask(k)] \in Surjection(Hook, K)
    BY DEF Surjection
  <2> QED BY <2>1, FS_Surjection, SetsAssumption
<1>5. IsFiniteSet(P \cup Q \cup H \cup K)
  <2>1. IsFiniteSet(P \cup Q)
    BY <1>1, <1>2, FS_Union
  <2>2. IsFiniteSet(P \cup Q \cup H)
    BY <2>1, <1>3, FS_Union
  <2> QED BY <2>2, <1>4, FS_Union
<1>6. Task \subseteq P \cup Q \cup H \cup K
  BY Shapes
<1> QED
  BY <1>5, <1>6, FS_Subset

LEMMA CountedFinite ==
    /\ IsFiniteSet(Counted) /\ IsFiniteSet(Outstanding) /\ IsFiniteSet(Running)
    /\ Cardinality(Counted) \in Nat
<1>1. Counted \subseteq Task /\ Outstanding \subseteq Task /\ Running \subseteq Task
  BY DEF Counted, Outstanding, Queued, Running, Blocked
<1> QED
  BY <1>1, TasksFinite, FS_Subset, FS_CardinalityType

-----------------------------------------------------------------------------
(* How one step moves the counter and what it counts.                      *)

LEMMA CountGrows ==
  ASSUME TypeOK, Accounting, NEW t, IsFiniteSet(Counted'),
         Counted' \subseteq Counted \cup {t}, unfinished' = unfinished + 1
  PROVE  Accounting'
<1>1. Cardinality(Counted') <= Cardinality(Counted \cup {t})
  BY CountedFinite, FS_AddElement, FS_Subset
<1>2. Cardinality(Counted \cup {t}) <= Cardinality(Counted) + 1
  <2>1. Cardinality(Counted \cup {t})
          = IF t \in Counted THEN Cardinality(Counted) ELSE Cardinality(Counted) + 1
    BY CountedFinite, FS_AddElement
  <2> QED BY <2>1, CountedFinite
<1>3. Cardinality(Counted') \in Nat /\ Cardinality(Counted \cup {t}) \in Nat
  BY CountedFinite, FS_AddElement, FS_CardinalityType
<1> QED
  BY <1>1, <1>2, <1>3, CountedFinite DEF Accounting, TypeOK

LEMMA CountStays ==
  ASSUME TypeOK, Accounting,
         Counted' \subseteq Counted, unfinished' = unfinished
  PROVE  Accounting'
<1>1. Cardinality(Counted') <= Cardinality(Counted)
  BY CountedFinite, FS_Subset
<1>2. Cardinality(Counted') \in Nat
  BY CountedFinite, FS_Subset, FS_CardinalityType
<1> QED
  BY <1>1, <1>2, CountedFinite DEF Accounting, TypeOK

LEMMA CountDrops ==
  ASSUME TypeOK, Accounting, NEW t \in Counted,
         Counted' \subseteq Counted \ {t}, unfinished' = unfinished - 1
  PROVE  Accounting'
<1>1. Cardinality(Counted') <= Cardinality(Counted \ {t})
  BY CountedFinite, FS_RemoveElement, FS_Subset
<1>2. Cardinality(Counted \ {t}) = Cardinality(Counted) - 1
  BY CountedFinite, FS_RemoveElement
<1>3. Cardinality(Counted') \in Nat
  BY CountedFinite, FS_RemoveElement, FS_Subset, FS_CardinalityType
<1> QED
  BY <1>1, <1>2, <1>3, CountedFinite DEF Accounting, TypeOK

-----------------------------------------------------------------------------
(* A put: from the loop, a worker or a webhook handler, of a new task.     *)

LEMMA PutKeepsCount ==
  ASSUME TypeOK, Accounting, NEW t \in Task, future[t] = "new", Put(t)
  PROVE  Accounting'
<1>1. CASE future' = [future EXCEPT ![t] = "blocked"] /\ unfinished' = unfinished
            /\ ~EagerCount
  <2>1. Counted' \subseteq Counted
    BY <1>1 DEF TypeOK, Counted, Outstanding, Queued, Running, Blocked
  <2> QED BY <2>1, <1>1, CountStays
<1>2. CASE future' \in {[future EXCEPT ![t] = "blocked"], [future EXCEPT ![t] = "queued"]}
            /\ unfinished' = unfinished + 1
  <2>1. Counted' \subseteq Counted \cup {t}
    BY <1>2 DEF TypeOK, Counted, Outstanding, Queued, Running, Blocked
  <2>2. IsFiniteSet(Counted')
    BY <2>1, CountedFinite, FS_AddElement, FS_Subset
  <2> QED BY <2>1, <2>2, <1>2, CountGrows
<1> QED
  BY <1>1, <1>2, ModeAssumption DEF Put

LEMMA PutChanges ==
  ASSUME TypeOK, NEW t \in Task, Put(t)
  PROVE  /\ future' \in [Task -> {"new", "blocked", "queued", "running"} \cup Ended]
         /\ unfinished' \in Nat
         /\ future'[t] \in {"blocked", "queued"}
         /\ \A u \in Task \ {t} : future'[u] = future[u]
  BY DEF TypeOK, Put

LEMMA EnqueueStep ==
  ASSUME IInv, NEW w \in Worker, Enqueue(w)
  PROVE  IInv'
<1>1. PICK t \in todo[w] : todo' = [todo EXCEPT ![w] = @ \ {t}] /\ Put(t)
  BY DEF Enqueue
<1>2. /\ job[w] \in Task /\ stage[w] # "call" /\ t \in Children(job[w])
      /\ future[t] = "new" /\ t \in RoundTask /\ t \in Task
      /\ future[job[w]] = "running"
  BY <1>1, Shapes, Family DEF IInv, Agenda, Ownership
<1>3. UNCHANGED <<job, stage, phase, pollset, registered, listed>>
  BY DEF Enqueue, loopVars
<1>4. /\ future' \in [Task -> {"new", "blocked", "queued", "running"} \cup Ended]
      /\ unfinished' \in Nat
      /\ future'[t] \in {"blocked", "queued"}
      /\ \A u \in Task \ {t} : future'[u] = future[u]
  BY <1>1, <1>2, PutChanges DEF IInv
<1>5. TypeOK'
  BY <1>1, <1>3, <1>4 DEF IInv, TypeOK
<1>6. Ownership'
  BY <1>2, <1>3, <1>4 DEF IInv, Ownership, TypeOK
<1>7. Agenda'
  <2> SUFFICES ASSUME NEW v \in Worker
               PROVE  /\ todo'[v] # {} => job[v] \in Task /\ stage[v] # "call"
                      /\ \A u \in todo'[v] : u \in Children(job[v]) /\ future'[u] = "new"
                      /\ stage[v] = "branches"
                            => todo'[v] \subseteq {HeadTask(h) : h \in Branch}
    BY <1>3 DEF Agenda
  <2>1. todo'[v] \subseteq todo[v] /\ (v = w => t \notin todo'[v])
    BY <1>1 DEF IInv, TypeOK
  <2>2. /\ todo[v] # {} => job[v] \in Task /\ stage[v] # "call"
        /\ \A u \in todo[v] : u \in Children(job[v]) /\ future[u] = "new"
        /\ stage[v] = "branches" => todo[v] \subseteq {HeadTask(h) : h \in Branch}
    BY <2>1 DEF IInv, Agenda
  <2>3. v # w => t \notin todo[v]
    <3>1. v # w /\ todo[v] # {} => job[v] # job[w]
      BY <2>2, <1>2 DEF IInv, Ownership
    <3> QED BY <3>1, <2>2, <1>2, Shapes, Distinct, Family, SetsAssumption DEF HeadsOf
  <2> QED BY <2>1, <2>2, <2>3, <1>4, Shapes, Family DEF IInv, TypeOK
<1>a. \/ \E r \in Repo : job[w] = PollerTask(r) /\ t = QueuerTask(r)
      \/ \E h \in Head : job[w] = QueuerTask(HeadRepo[h]) /\ t = HeadTask(h)
  BY <1>2, Shapes, Family, SetsAssumption DEF HeadsOf
<1>8. Lineage'
  BY <1>2, <1>3, <1>4, <1>a, Shapes, Distinct, Family DEF IInv, Lineage
<1>9. Generations'
  <2>1. CASE \E r \in Repo : job[w] = PollerTask(r) /\ t = QueuerTask(r)
    <3>1. PICK r \in Repo : job[w] = PollerTask(r) /\ t = QueuerTask(r)
      BY <2>1
    <3>2. \A v \in Worker : job[v] = PollerTask(r) => v = w
      BY <3>1, <1>2 DEF IInv, Ownership
    <3>3. \A h \in Head : future'[HeadTask(h)] = future[HeadTask(h)]
      BY <3>1, <1>4, Shapes, Distinct
    <3>4. \A q \in Repo : /\ future'[PollerTask(q)] = future[PollerTask(q)]
                          /\ q # r => future'[QueuerTask(q)] = future[QueuerTask(q)]
      BY <3>1, <1>4, Shapes, Distinct
    <3> QED
      BY <3>1, <3>2, <3>3, <3>4, <1>2, <1>3, <1>4, Family
      DEF IInv, TypeOK, Generations, Unborn
  <2>2. CASE \E h \in Head : job[w] = QueuerTask(HeadRepo[h]) /\ t = HeadTask(h)
    <3>1. PICK h \in Head : job[w] = QueuerTask(HeadRepo[h]) /\ t = HeadTask(h)
      BY <2>2
    <3>2. \A v \in Worker : job[v] = QueuerTask(HeadRepo[h]) => v = w
      BY <3>1, <1>2 DEF IInv, Ownership
    <3>3. \A g \in Head : g # h => future'[HeadTask(g)] = future[HeadTask(g)]
      BY <3>1, <1>4, Shapes, Distinct
    <3>4. \A q \in Repo : /\ future'[PollerTask(q)] = future[PollerTask(q)]
                          /\ future'[QueuerTask(q)] = future[QueuerTask(q)]
      BY <3>1, <1>4, Shapes, Distinct
    <3>5. stage[w] = "branches" => h \in Branch
      BY <3>1, <1>1, Distinct DEF IInv, Agenda
    <3>6. \A q \in Repo : h \in HeadsOf(q) => q = HeadRepo[h]
      BY DEF HeadsOf
    <3> QED
      BY <3>1, <3>2, <3>3, <3>4, <3>5, <3>6, <1>2, <1>3, <1>4, Family
      DEF IInv, TypeOK, Generations, Unborn
  <2> QED BY <1>a, <2>1, <2>2
<1>10. Accounting'
  BY <1>1, <1>2, PutKeepsCount DEF IInv
<1>11. JoinBarrier'
  BY <1>a, <1>2, <1>3, <1>4, Shapes, SetsAssumption DEF IInv, JoinBarrier
<1> QED
  BY <1>5, <1>6, <1>7, <1>8, <1>9, <1>10, <1>11 DEF IInv

\* The two other callers of put: the loop and the webhook handler.
LEMMA AnnounceStep ==
  ASSUME IInv, Announce
  PROVE  IInv'
<1>1. PICK r \in pollset : pollset' = pollset \ {r} /\ Put(PollerTask(r))
  BY DEF Announce
<1> DEFINE t == PollerTask(r)
<1>2. r \in Repo /\ t \in RoundTask /\ t \in Task /\ future[t] = "new" /\ phase = "polling"
  BY <1>1, Shapes DEF Announce, IInv, TypeOK, Generations
<1>3. UNCHANGED <<job, stage, todo, phase, registered, listed>>
  BY DEF Announce, workVars
<1>4. /\ future' \in [Task -> {"new", "blocked", "queued", "running"} \cup Ended]
      /\ unfinished' \in Nat
      /\ future'[t] \in {"blocked", "queued"}
      /\ \A u \in Task \ {t} : future'[u] = future[u]
  BY <1>1, <1>2, PutChanges DEF IInv
<1>5. \A q \in Repo : /\ q # r => future'[PollerTask(q)] = future[PollerTask(q)]
                      /\ future'[QueuerTask(q)] = future[QueuerTask(q)]
  BY <1>2, <1>4, Shapes, Distinct
<1>6. \A h \in Head : future'[HeadTask(h)] = future[HeadTask(h)]
  BY <1>2, <1>4, Shapes, Distinct
<1> HIDE DEF t
<1>7. TypeOK'
  BY <1>1, <1>2, <1>3, <1>4 DEF IInv, TypeOK
<1>8. Ownership'
  BY <1>2, <1>3, <1>4 DEF IInv, Ownership, TypeOK
<1>9. Agenda'
  <2>1. \A w \in Worker : t \notin todo[w]
    <3>1. \A w \in Worker : todo[w] # {} => job[w] \in Task
      BY DEF IInv, Agenda
    <3> QED BY <3>1, <1>2, Shapes, Distinct, Family DEF IInv, Agenda, t
  <2>2. \A w \in Worker : \A u \in todo[w] : u \in Task
    BY DEF IInv, TypeOK
  <2> QED BY <2>1, <2>2, <1>3, <1>4 DEF IInv, Agenda
<1>10. Lineage'
  BY <1>2, <1>3, <1>5, <1>6 DEF IInv, Lineage
<1>11. Generations'
  <2>1. future[QueuerTask(r)] = "new"
    BY <1>2 DEF IInv, Generations, Unborn, t
  <2> QED
    BY <2>1, <1>1, <1>2, <1>3, <1>5, <1>6, Family
    DEF IInv, TypeOK, Generations, Unborn
<1>12. Accounting'
  BY <1>1, <1>2, PutKeepsCount DEF IInv, t
<1>13. JoinBarrier'
  BY <1>2, <1>3 DEF JoinBarrier
<1> QED
  BY <1>7, <1>8, <1>9, <1>10, <1>11, <1>12, <1>13 DEF IInv

\* A change of the future of a webhook task that starts and ends outside
\* "running" disturbs nothing but the counter.
LEMMA DeliveryChanges ==
  ASSUME IInv, NEW k \in Hook,
         UNCHANGED <<job, stage, todo, phase, pollset, registered, listed>>,
         future' \in [Task -> {"new", "blocked", "queued", "running"} \cup Ended],
         unfinished' \in Nat,
         future[HookTask(k)] # "running", future'[HookTask(k)] # "running",
         \A u \in Task \ {HookTask(k)} : future'[u] = future[u],
         Accounting'
  PROVE  IInv'
<1>1. \A u \in RoundTask : u \in Task /\ future'[u] = future[u]
  BY Shapes
<1>2. TypeOK'
  BY DEF IInv, TypeOK
<1>3. Ownership'
  BY Shapes DEF IInv, Ownership, TypeOK
<1>4. Agenda'
  <2>1. \A w \in Worker : todo[w] \subseteq RoundTask
    BY Family DEF IInv, Agenda
  <2> QED BY <2>1, <1>1 DEF IInv, Agenda
<1>5. Lineage'
  BY <1>1, Shapes DEF IInv, Lineage
<1>6. Generations'
  BY <1>1, Shapes, Family DEF IInv, TypeOK, Generations
<1>7. JoinBarrier'
  BY <1>1 DEF IInv, JoinBarrier
<1> QED
  BY <1>2, <1>3, <1>4, <1>5, <1>6, <1>7 DEF IInv

LEMMA DeliverStep ==
  ASSUME IInv, NEW k \in Hook, Deliver(k)
  PROVE  IInv'
<1>1. HookTask(k) \in Task /\ future[HookTask(k)] = "new" /\ Put(HookTask(k))
  BY Shapes DEF Deliver
<1>2. UNCHANGED <<job, stage, todo, phase, pollset, registered, listed>>
  BY DEF Deliver, workVars, loopVars
<1>3. Accounting'
  BY <1>1, PutKeepsCount DEF IInv
<1> QED
  BY <1>1, <1>2, <1>3, PutChanges, DeliveryChanges DEF IInv

LEMMA HangUpStep ==
  ASSUME IInv, NEW k \in Hook, HangUp(k)
  PROVE  IInv'
<1>1. HookTask(k) \in Task /\ future[HookTask(k)] = "blocked" /\ unfinished' = unfinished
      /\ future' = [future EXCEPT ![HookTask(k)] = "cancelled"]
  BY Shapes DEF HangUp
<1>2. UNCHANGED <<job, stage, todo, phase, pollset, registered, listed>>
  BY DEF HangUp, workVars, loopVars
<1>3. Accounting'
  <2>1. Counted' \subseteq Counted
    BY <1>1 DEF IInv, TypeOK, Counted, Outstanding, Queued, Running, Blocked
  <2> QED BY <2>1, <1>1, CountStays DEF IInv
<1>4. /\ future' \in [Task -> {"new", "blocked", "queued", "running"} \cup Ended]
      /\ unfinished' \in Nat /\ future'[HookTask(k)] # "running"
      /\ \A u \in Task \ {HookTask(k)} : future'[u] = future[u]
  BY <1>1 DEF IInv, TypeOK, Ended
<1> QED
  BY <1>1, <1>2, <1>3, <1>4, DeliveryChanges

LEMMA PutResumesStep ==
  ASSUME IInv, NEW t \in Task, PutResumes(t)
  PROVE  IInv'
<1>1. /\ future[t] = "blocked" /\ future' = [future EXCEPT ![t] = "queued"]
      /\ unfinished' = IF EagerCount THEN unfinished ELSE unfinished + 1
  BY DEF PutResumes
<1>2. UNCHANGED <<job, stage, todo, phase, pollset, registered, listed>>
  BY DEF PutResumes, workVars, loopVars
<1>3. TypeOK'
  BY <1>1, <1>2 DEF IInv, TypeOK
<1>4. Ownership'
  BY <1>1, <1>2 DEF IInv, Ownership, TypeOK
<1>5. Agenda'
  BY <1>1, <1>2 DEF IInv, Agenda, TypeOK
<1>6. Lineage'
  BY <1>1, <1>2, Shapes DEF IInv, Lineage, TypeOK
<1>7. Generations'
  BY <1>1, <1>2, Shapes, Family DEF IInv, Generations, TypeOK, Unborn
<1>8. Accounting'
  <2>1. CASE EagerCount
    <3>1. Counted' \subseteq Counted
      BY <2>1, <1>1 DEF IInv, TypeOK, Counted, Outstanding, Queued, Running, Blocked
    <3> QED BY <3>1, <2>1, <1>1, CountStays DEF IInv
  <2>2. CASE ~EagerCount
    <3>1. Counted' \subseteq Counted \cup {t}
      BY <2>2, <1>1 DEF IInv, TypeOK, Counted, Outstanding, Queued, Running, Blocked
    <3>2. IsFiniteSet(Counted')
      BY <3>1, CountedFinite, FS_AddElement, FS_Subset
    <3> QED BY <3>1, <3>2, <2>2, <1>1, CountGrows DEF IInv
  <2> QED BY <2>1, <2>2
<1>9. JoinBarrier'
  BY <1>1, <1>2, Shapes DEF IInv, TypeOK, JoinBarrier
<1> QED
  BY <1>3, <1>4, <1>5, <1>6, <1>7, <1>8, <1>9 DEF IInv

-----------------------------------------------------------------------------
(* The steps of a worker.                                                  *)

LEMMA GetStep ==
  ASSUME IInv, NEW w \in Worker, NEW t \in Task, Get(w, t)
  PROVE  IInv'
<1>1. /\ future[t] = "queued" /\ future' = [future EXCEPT ![t] = "running"]
      /\ job[w] = NoTask /\ job' = [job EXCEPT ![w] = t] /\ job[w] \notin Task
  BY IdleAssumption DEF Get, Queued
<1>2. UNCHANGED <<unfinished, stage, todo, phase, pollset, registered, listed>>
  BY DEF Get, loopVars
<1>3. TypeOK'
  BY <1>1, <1>2 DEF IInv, TypeOK
<1>4. todo[w] = {}
  BY <1>1 DEF IInv, Agenda
<1>5. Ownership'
  BY <1>1, <1>2 DEF IInv, Ownership, TypeOK
<1>6. Agenda'
  BY <1>1, <1>2, <1>4 DEF IInv, Agenda, TypeOK
<1>7. Lineage'
  <2>1. \A v \in Worker : job[v] \in Task => job'[v] = job[v]
    BY <1>1 DEF IInv, TypeOK
  <2>2. \A u \in Task : future'[u] = "blocked" => future[u] = "blocked"
    BY <1>1 DEF IInv, TypeOK
  <2> QED BY <2>1, <2>2, <1>2, Shapes, SetsAssumption DEF IInv, Lineage
<1>8. Generations'
  BY <1>1, <1>2, Shapes, Distinct, Family DEF IInv, Generations, TypeOK, Unborn
<1>9. Accounting'
  <2>1. Counted' \subseteq Counted
    BY <1>1 DEF IInv, TypeOK, Counted, Outstanding, Queued, Running, Blocked
  <2> QED BY <2>1, <1>2, CountStays DEF IInv
<1>10. JoinBarrier'
  BY <1>1, <1>2, Shapes DEF IInv, TypeOK, JoinBarrier
<1> QED
  BY <1>3, <1>5, <1>6, <1>7, <1>8, <1>9, <1>10 DEF IInv

LEMMA RunsFacts ==
  ASSUME IInv, NEW w \in Worker, NEW kind, NEW where, Runs(w, kind, where)
  PROVE  /\ job[w] \in Task /\ job[w].kind = kind /\ stage[w] = where
         /\ future[job[w]] = "running" /\ ~Waiting(w)
         /\ where = "call" => todo[w] = {}
  BY DEF Runs, IInv, Ownership, Agenda

LEMMA PollerCalledStep ==
  ASSUME IInv, NEW w \in Worker, PollerCalled(w)
  PROVE  IInv'
<1>1. PICK r \in Repo : job[w] = PollerTask(r) /\ job[w].of = r
  BY RunsFacts, KindOf DEF PollerCalled
<1>2. stage[w] = "call" /\ todo[w] = {} /\ future[QueuerTask(r)] = "new" /\ job[w] \in Task
  BY <1>1, RunsFacts DEF PollerCalled, IInv, Generations
<1>3. /\ registered' = registered \cup {r}
      /\ stage' = [stage EXCEPT ![w] = "last"]
      /\ todo' = [todo EXCEPT ![w] = {QueuerTask(r)}]
      /\ UNCHANGED <<future, unfinished, job, phase, pollset, listed>>
  BY <1>1 DEF PollerCalled, queueVars, loopVars
<1>4. TypeOK'
  BY <1>1, <1>3, Shapes DEF IInv, TypeOK
<1>5. Ownership'
  BY <1>3 DEF IInv, Ownership
<1>6. Agenda'
  <2>1. stage'[w] = "last" /\ todo'[w] = {QueuerTask(r)}
    BY <1>3 DEF IInv, TypeOK
  <2>2. \A v \in Worker \ {w} : stage'[v] = stage[v] /\ todo'[v] = todo[v]
    BY <1>3 DEF IInv, TypeOK
  <2> QED BY <2>1, <2>2, <1>1, <1>2, <1>3, Family DEF IInv, Agenda
<1>7. Lineage'
  BY <1>3 DEF IInv, Lineage
<1>8. Generations'
  BY <1>1, <1>3 DEF IInv, Generations, TypeOK
<1>9. Accounting'
  BY <1>3, CountStays DEF IInv, Counted, Outstanding, Queued, Running, Blocked
<1>10. JoinBarrier'
  BY <1>3 DEF IInv, JoinBarrier
<1> QED
  BY <1>4, <1>5, <1>6, <1>7, <1>8, <1>9, <1>10 DEF IInv

\* A page of heads of r, whose tasks are still new, becomes the agenda of w.
LEMMA ListsStep ==
  ASSUME IInv, NEW w \in Worker, NEW r \in Repo, job[w] = QueuerTask(r),
         NEW heads \in SUBSET HeadsOf(r), Lists(w, heads),
         \A h \in heads : future[HeadTask(h)] = "new",
         \/ stage[w] = "call" /\ heads \subseteq Branch /\ stage' = [stage EXCEPT ![w] = "branches"]
         \/ stage' = [stage EXCEPT ![w] = "last"]
  PROVE  IInv'
<1>1. /\ todo' = [todo EXCEPT ![w] = {HeadTask(h) : h \in heads}]
      /\ listed' = listed \cup heads
      /\ UNCHANGED <<future, unfinished, job, phase, pollset, registered>>
  BY DEF Lists, queueVars, loopVars
<1>2. heads \subseteq Head /\ job[w] \in Task
  BY Family, Shapes
<1>3. TypeOK'
  BY <1>1, <1>2, Shapes DEF IInv, TypeOK
<1>4. Ownership'
  BY <1>1 DEF IInv, Ownership
<1>5. Agenda'
  <2>1. /\ todo'[w] = {HeadTask(h) : h \in heads}
        /\ stage'[w] \in {"branches", "last"}
        /\ stage'[w] = "branches" => heads \subseteq Branch
    BY <1>1 DEF IInv, TypeOK
  <2>2. \A v \in Worker \ {w} : stage'[v] = stage[v] /\ todo'[v] = todo[v]
    BY <1>1 DEF IInv, TypeOK
  <2>3. \A t \in todo'[w] : t \in Children(job[w]) /\ future[t] = "new"
    BY <2>1, Family
  <2>4. stage'[w] # "call" /\ (stage'[w] = "branches" => todo'[w] \subseteq {HeadTask(h) : h \in Branch})
    BY <2>1
  <2> QED BY <2>2, <2>3, <2>4, <1>1, <1>2 DEF IInv, Agenda
<1>6. Lineage'
  BY <1>1 DEF IInv, Lineage
<1>7. Generations'
  <2>1. \A q \in Repo : job[w] # PollerTask(q) /\ (job[w] = QueuerTask(q) => q = r)
    BY Distinct
  <2>2. stage[w] = "call" => \A h \in HeadsOf(r) : future[HeadTask(h)] = "new"
    BY DEF IInv, Generations
  <2> QED BY <2>1, <2>2, <1>1 DEF IInv, Generations, TypeOK
<1>8. Accounting'
  BY <1>1, CountStays DEF IInv, Counted, Outstanding, Queued, Running, Blocked
<1>9. JoinBarrier'
  BY <1>1 DEF IInv, JoinBarrier
<1> QED
  BY <1>3, <1>4, <1>5, <1>6, <1>7, <1>8, <1>9 DEF IInv

LEMMA QueuerListsStep ==
  ASSUME IInv, NEW w \in Worker, QueuerListsBranches(w) \/ QueuerListsPulls(w)
  PROVE  IInv'
<1>1. CASE QueuerListsBranches(w)
  <2>1. PICK r \in Repo : job[w] = QueuerTask(r) /\ job[w].of = r
    BY <1>1, RunsFacts, KindOf DEF QueuerListsBranches
  <2>2. stage[w] = "call" /\ stage' = [stage EXCEPT ![w] = "branches"]
    BY <1>1, RunsFacts DEF QueuerListsBranches
  <2>3. PICK heads \in SUBSET (HeadsOf(r) \cap Branch) : Lists(w, heads)
    BY <1>1, <2>1 DEF QueuerListsBranches
  <2>4. \A h \in heads : future[HeadTask(h)] = "new"
    BY <2>1, <2>2, <2>3 DEF IInv, Generations
  <2> QED BY <2>1, <2>2, <2>3, <2>4, ListsStep
<1>2. CASE QueuerListsPulls(w)
  <2>1. PICK r \in Repo : job[w] = QueuerTask(r) /\ job[w].of = r
    BY <1>2, RunsFacts, KindOf DEF QueuerListsPulls
  <2>2. stage[w] = "branches" /\ stage' = [stage EXCEPT ![w] = "last"]
    BY <1>2, RunsFacts DEF QueuerListsPulls
  <2>3. PICK heads \in SUBSET (HeadsOf(r) \ Branch) : Lists(w, heads)
    BY <1>2, <2>1 DEF QueuerListsPulls
  <2>4. \A h \in heads : future[HeadTask(h)] = "new"
    BY <2>1, <2>2, <2>3 DEF IInv, Generations
  <2> QED BY <2>1, <2>2, <2>3, <2>4, ListsStep
<1> QED
  BY <1>1, <1>2

\* The task of w ends: nothing it enqueued waits for room, so no child of it
\* loses its enqueuer; and if the counter reaches zero, nothing is alive.
LEMMA TaskDoneStep ==
  ASSUME IInv, NEW w \in Worker, job[w] \in Task, ~Waiting(w), todo[w] = {},
         NEW outcome \in Ended, TaskDone(w, outcome)
  PROVE  IInv'
<1> DEFINE t == job[w]
<1>1. /\ future' = [future EXCEPT ![t] = outcome]
      /\ unfinished' = unfinished - 1
      /\ phase' = IF phase = "joining" /\ unfinished' = 0 THEN "woken" ELSE phase
      /\ job' = [job EXCEPT ![w] = NoTask]
      /\ stage' = [stage EXCEPT ![w] = "call"]
      /\ UNCHANGED <<todo, pollset, registered, listed>>
  BY DEF TaskDone
<1>2. t \in Task /\ future[t] = "running" /\ outcome \notin Unborn \cup Alive
  BY DEF IInv, Ownership, Ended, Unborn, Alive
<1>3. /\ \A v \in Worker : v # w => job'[v] = job[v] /\ stage'[v] = stage[v]
      /\ job'[w] = NoTask /\ job'[w] \notin Task /\ stage'[w] = "call"
  BY <1>1, IdleAssumption DEF IInv, TypeOK
<1>4. \A v \in Worker : v # w /\ job[v] \in Task => job[v] # t
  BY DEF IInv, Ownership
<1>5. \A u \in Task : /\ u # t => future'[u] = future[u]
                      /\ future'[t] = outcome
  BY <1>1, <1>2 DEF IInv, TypeOK
<1> HIDE DEF t
<1>7. Ownership'
  BY <1>2, <1>3, <1>4, <1>5 DEF IInv, Ownership, Alive, Unborn, t
<1>8. Agenda'
  <2>1. \A v \in Worker : \A u \in todo[v] : u # t
    BY <1>2 DEF IInv, Agenda
  <2>2. \A v \in Worker : todo[v] \subseteq Task
    BY DEF IInv, TypeOK
  <2>3. \A v \in Worker : todo'[v] = todo[v]
    BY <1>1
  <2> QED BY <2>1, <2>2, <2>3, <1>3, <1>5 DEF IInv, Agenda
<1>9. Lineage'
  <2>1. \A u \in Children(t) : future[u] # "blocked"
    BY Family, Shapes DEF Waiting, Blocked, t
  <2>2. \A r \in Repo : future'[PollerTask(r)] = "blocked" => phase' = "polling"
    BY <1>1, <1>2, <1>5, Shapes DEF IInv, Lineage, Alive
  <2>3. ASSUME NEW r \in Repo, future'[QueuerTask(r)] = "blocked"
        PROVE  \E v \in Worker : job'[v] = PollerTask(r)
    <3>1. future[QueuerTask(r)] = "blocked"
      BY <2>3, <1>2, <1>5, Shapes DEF Alive
    <3>2. PICK v \in Worker : job[v] = PollerTask(r)
      BY <3>1 DEF IInv, Lineage
    <3>3. v # w
      BY <3>1, <3>2, <2>1, Family DEF t
    <3> QED BY <3>2, <3>3, <1>3
  <2>4. ASSUME NEW h \in Head, future'[HeadTask(h)] = "blocked"
        PROVE  \E v \in Worker : job'[v] = QueuerTask(HeadRepo[h])
    <3>1. future[HeadTask(h)] = "blocked"
      BY <2>4, <1>2, <1>5, Shapes DEF Alive
    <3>2. PICK v \in Worker : job[v] = QueuerTask(HeadRepo[h])
      BY <3>1 DEF IInv, Lineage
    <3>3. v # w
      BY <3>1, <3>2, <2>1, Family DEF t
    <3> QED BY <3>2, <3>3, <1>3
  <2> QED BY <2>2, <2>3, <2>4 DEF Lineage
<1>10. Generations'
  <2>1. \A r \in pollset : r \in Repo /\ PollerTask(r) # t
    BY <1>2 DEF IInv, TypeOK, Generations
  <2>2. \A u \in Task : future'[u] \in Unborn => future[u] \in Unborn /\ u # t
    BY <1>2, <1>5
  <2>3. \A u \in Task : future[u] = "new" => future'[u] = "new"
    BY <1>2, <1>5
  <2>4. \A v \in Worker : \A r \in Repo : job'[v] \in {PollerTask(r), QueuerTask(r)} => v # w
    BY <1>3, Shapes
  <2> QED
    BY <2>1, <2>2, <2>3, <2>4, <1>1, <1>3, Shapes, Family DEF IInv, Generations
<1>11. Counted' \subseteq Counted \ {t} /\ t \in Counted
  BY <1>2, <1>5 DEF Counted, Outstanding, Queued, Running, Blocked, Alive
<1>12. Accounting'
  BY <1>1, <1>11, CountDrops DEF IInv
<1>6. TypeOK'
  <2>1. unfinished' \in Nat
    <3>1. Cardinality(Counted') \in Nat
      BY <1>11, CountedFinite, FS_Subset, FS_RemoveElement, FS_CardinalityType
    <3> QED BY <3>1, <1>1, <1>12 DEF IInv, TypeOK, Accounting
  <2> QED BY <2>1, <1>1, <1>2, IdleAssumption DEF IInv, TypeOK
<1>13. JoinBarrier'
  <2>1. CASE phase' # phase
    <3>1. phase = "joining" /\ phase' = "woken" /\ unfinished' = 0
      BY <2>1, <1>1
    <3>2. IsFiniteSet(Counted')
      BY <1>11, CountedFinite, FS_Subset, FS_RemoveElement
    <3>3. Counted' = {}
      <4>1. Cardinality(Counted') \in Nat /\ Cardinality(Counted') <= 0
        BY <3>1, <3>2, <1>12, FS_CardinalityType DEF Accounting
      <4> QED BY <4>1, <3>2, FS_EmptySet
    <3>4. \A u \in Task : future'[u] \notin {"queued", "running"}
      BY <3>3 DEF Counted, Outstanding, Queued, Running
    <3>5. \A v \in Worker : job'[v] \notin Task
      BY <3>4, <1>7 DEF Ownership
    <3>6. \A u \in RoundTask : future'[u] # "blocked"
      BY <3>1, <3>5, <1>9, Shapes, SetsAssumption DEF Lineage
    <3> QED BY <3>4, <3>6, Shapes DEF JoinBarrier
  <2>2. CASE phase' = phase
    BY <2>2, <1>2, <1>5, Shapes DEF IInv, JoinBarrier, Alive
  <2> QED BY <2>1, <2>2
<1> QED
  BY <1>6, <1>7, <1>8, <1>9, <1>10, <1>12, <1>13 DEF IInv

LEMMA WorkerStepKeeps ==
  ASSUME IInv, NEW w \in Worker, WorkerStep(w)
  PROVE  IInv'
<1>1. CASE \E t \in Task : Get(w, t)
  BY <1>1, GetStep
<1>2. CASE PollerCalled(w)
  BY <1>2, PollerCalledStep
<1>3. CASE LookupFails(w)
  BY <1>3, RunsFacts, TaskDoneStep DEF LookupFails, Ended
<1>4. CASE QueuerListsBranches(w) \/ QueuerListsPulls(w)
  BY <1>4, QueuerListsStep
<1>5. CASE ListFails(w)
  BY <1>5, RunsFacts, TaskDoneStep DEF ListFails, Ended
<1>6. CASE Enqueue(w)
  BY <1>6, EnqueueStep
<1>7. CASE BodyReturns(w)
  BY <1>7, RunsFacts, TaskDoneStep DEF BodyReturns, Ended
<1>8. CASE HeadProcessed(w)
  BY <1>8, RunsFacts, TaskDoneStep DEF HeadProcessed
<1> QED
  BY <1>1, <1>2, <1>3, <1>4, <1>5, <1>6, <1>7, <1>8 DEF WorkerStep

-----------------------------------------------------------------------------
(* The steps of the loop.                                                  *)

LEMMA StartRoundStep ==
  ASSUME IInv, StartRound
  PROVE  IInv'
<1>1. /\ phase = "resting" /\ phase' = "polling" /\ pollset' \subseteq Repo
      /\ future' = [t \in Task |-> IF t \in RoundTask THEN "new" ELSE future[t]]
      /\ listed' = {}
      /\ UNCHANGED <<unfinished, job, stage, todo, registered>>
  BY DEF StartRound, workVars, IInv, TypeOK
<1>2. \A t \in RoundTask : t \in Task /\ future[t] # "running" /\ future'[t] = "new"
  BY <1>1, Shapes DEF IInv, JoinBarrier
<1>3. \A t \in Delivery : t \in Task /\ t \notin RoundTask /\ future'[t] = future[t]
  BY <1>1, Shapes
<1>4. \A w \in Worker : job[w] \notin RoundTask
  BY <1>2 DEF IInv, Ownership
<1>5. TypeOK'
  BY <1>1 DEF IInv, TypeOK
<1>6. Ownership'
  BY <1>1, <1>2, <1>3, <1>4, Shapes DEF IInv, Ownership
<1>7. Agenda'
  <2>1. \A w \in Worker : job[w] \in Task => Children(job[w]) = {}
    BY <1>4, Shapes, Family
  <2>2. \A w \in Worker : todo[w] = {}
    BY <2>1 DEF IInv, Agenda
  <2> QED BY <2>2, <1>1 DEF Agenda
<1>8. Lineage'
  BY <1>2, Shapes DEF Lineage
<1>9. Generations'
  BY <1>1, <1>2, Shapes, Family DEF Generations
<1>10. Accounting'
  <2>1. Counted' \subseteq Counted
    BY <1>1, <1>2, <1>3, Shapes DEF Counted, Outstanding, Queued, Running, Blocked
  <2> QED BY <2>1, <1>1, CountStays DEF IInv
<1>11. JoinBarrier'
  BY <1>1 DEF JoinBarrier
<1> QED
  BY <1>5, <1>6, <1>7, <1>8, <1>9, <1>10, <1>11 DEF IInv

\* The loop moves on and touches nothing else.
LEMMA PhaseChanges ==
  ASSUME IInv,
         UNCHANGED <<future, unfinished, job, stage, todo, pollset, registered, listed>>,
         phase' \in {"resting", "polling", "joining", "woken", "terminate", "gather", "stopped"},
         phase = "polling" => \A r \in Repo : future[PollerTask(r)] # "blocked",
         JoinBarrier'
  PROVE  IInv'
<1>1. Accounting'
  BY CountStays DEF IInv, Counted, Outstanding, Queued, Running, Blocked
<1>2. Lineage'
  BY DEF IInv, Lineage
<1> QED
  BY <1>1, <1>2 DEF IInv, TypeOK, Ownership, Agenda, Generations

LEMMA JoinStep ==
  ASSUME IInv, Join
  PROVE  IInv'
<1>1. /\ phase = "polling" /\ \A r \in Repo : future[PollerTask(r)] # "blocked"
      /\ phase' = IF unfinished > 0 THEN "joining" ELSE "woken"
      /\ UNCHANGED <<future, unfinished, job, stage, todo, pollset, registered, listed>>
  BY DEF Join, queueVars, workVars
<1>2. JoinBarrier'
  <2>1. CASE unfinished > 0
    BY <2>1, <1>1 DEF JoinBarrier
  <2>2. CASE ~(unfinished > 0)
    <3>1. Counted = {}
      <4>1. Cardinality(Counted) <= 0
        BY <2>2, CountedFinite DEF IInv, Accounting, TypeOK
      <4> QED BY <4>1, CountedFinite, FS_EmptySet
    <3>2. \A u \in Task : future[u] \notin {"queued", "running"}
      BY <3>1 DEF Counted, Outstanding, Queued, Running
    <3>3. \A v \in Worker : job[v] \notin Task
      BY <3>2 DEF IInv, Ownership
    <3>4. \A u \in RoundTask : future[u] # "blocked"
      BY <3>3, <1>1, Shapes, SetsAssumption DEF IInv, Lineage
    <3> QED BY <3>2, <3>4, <1>1, Shapes DEF JoinBarrier
  <2> QED BY <2>1, <2>2
<1> QED
  BY <1>1, <1>2, PhaseChanges

LEMMA TerminateStep ==
  ASSUME IInv, Terminate
  PROVE  IInv'
<1>1. /\ phase = "terminate" /\ phase' = "gather"
      /\ job' = [w \in Worker |-> IF job[w] = NoTask THEN Exited ELSE NoTask]
      /\ future' = [t \in Task |-> IF t \in Running THEN "cancelled" ELSE future[t]]
      /\ unfinished' = unfinished - Cardinality(Running)
      /\ stage' = [w \in Worker |-> "call"]
      /\ todo' = [w \in Worker |-> {}]
      /\ UNCHANGED <<pollset, registered, listed>>
  BY DEF Terminate
<1>2. \A w \in Worker : job'[w] \notin Task
  BY <1>1, IdleAssumption
<1>3. \A t \in RoundTask : future[t] \notin {"blocked", "queued", "running"} /\ future'[t] = future[t]
  BY <1>1, Shapes DEF IInv, JoinBarrier, Running
<1>4. Cardinality(Running) \in Nat
  BY CountedFinite, FS_CardinalityType
<1>5. TypeOK'
  <2>1. Running \subseteq Counted
    BY DEF Counted, Outstanding
  <2>2. Cardinality(Running) <= unfinished
    BY <2>1, <1>4, CountedFinite, FS_Subset DEF IInv, Accounting, TypeOK
  <2> QED BY <2>2, <1>1, <1>4 DEF IInv, TypeOK, Ended
<1>6. Ownership'
  BY <1>1, <1>2 DEF Ownership, Running, IInv, TypeOK
<1>7. Agenda'
  BY <1>1 DEF Agenda
<1>8. Lineage'
  BY <1>3, Shapes DEF Lineage
<1>9. Generations'
  BY <1>1, <1>2, <1>3, Shapes, Family DEF IInv, TypeOK, Generations
<1>10. Accounting'
  <2>1. Counted' = Counted \ Running
    BY <1>1 DEF IInv, TypeOK, Counted, Outstanding, Queued, Running, Blocked
  <2>2. Counted \cap Running = Running
    BY DEF Counted, Outstanding
  <2>3. Cardinality(Counted') = Cardinality(Counted) - Cardinality(Running)
    <3>1. Cardinality(Counted \ Running)
            = Cardinality(Counted) - Cardinality(Counted \cap Running)
      BY CountedFinite, FS_Difference
    <3> QED BY <3>1, <2>1, <2>2
  <2> QED BY <2>3, <1>1, <1>4, CountedFinite DEF IInv, Accounting, TypeOK
<1>11. JoinBarrier'
  BY <1>3, Shapes DEF JoinBarrier
<1> QED
  BY <1>5, <1>6, <1>7, <1>8, <1>9, <1>10, <1>11 DEF IInv

LEMMA LoopStepKeeps ==
  ASSUME IInv, LoopStep
  PROVE  IInv'
<1>1. CASE StartRound
  BY <1>1, StartRoundStep
<1>2. CASE Announce
  BY <1>2, AnnounceStep
<1>3. CASE Join
  BY <1>3, JoinStep
<1>4. CASE JoinReturns \/ Gather
  <2>1. /\ UNCHANGED <<future, unfinished, job, stage, todo, pollset, registered, listed>>
        /\ phase \in {"woken", "gather"} /\ phase' \in {"resting", "terminate", "stopped"}
    BY <1>4 DEF JoinReturns, Gather, queueVars, workVars
  <2>2. JoinBarrier'
    BY <2>1 DEF IInv, JoinBarrier
  <2> QED BY <2>1, <2>2, PhaseChanges
<1>5. CASE Terminate
  BY <1>5, TerminateStep
<1> QED
  BY <1>1, <1>2, <1>3, <1>4, <1>5 DEF LoopStep

-----------------------------------------------------------------------------
(* The results                                                             *)

LEMMA InitIInv == Init => IInv
<1> SUFFICES ASSUME Init PROVE IInv
  OBVIOUS
<1>1. TypeOK /\ Ownership /\ Agenda /\ Lineage /\ Generations /\ JoinBarrier
  BY IdleAssumption, Shapes, Family
  DEF Init, TypeOK, Ownership, Agenda, Lineage, Generations, JoinBarrier, Ended
<1>2. Counted = {}
  BY DEF Init, Counted, Outstanding, Queued, Running, Blocked
<1>3. Accounting
  BY <1>2, FS_EmptySet DEF Init, Accounting
<1> QED
  BY <1>1, <1>3 DEF IInv

LEMMA StepIInv == IInv /\ [Next]_vars => IInv'
<1> SUFFICES ASSUME IInv, [Next]_vars PROVE IInv'
  OBVIOUS
<1>1. ASSUME NEW w \in Worker, WorkerStep(w) PROVE IInv'
  BY <1>1, WorkerStepKeeps
<1>2. ASSUME NEW t \in Task, PutResumes(t) PROVE IInv'
  BY <1>2, PutResumesStep
<1>3. CASE LoopStep
  BY <1>3, LoopStepKeeps
<1>4. ASSUME NEW k \in Hook, Deliver(k) \/ HangUp(k) PROVE IInv'
  BY <1>4, DeliverStep, HangUpStep
<1>5. CASE UNCHANGED vars
  <2>1. Accounting'
    BY <1>5, CountStays DEF vars, IInv, Counted, Outstanding, Queued, Running, Blocked
  <2> QED
    BY <2>1, <1>5
    DEF vars, IInv, TypeOK, Ownership, Agenda, Lineage, Generations, JoinBarrier
<1> QED
  BY <1>1, <1>2, <1>3, <1>4, <1>5 DEF Next

\* The strengthening that the three theorems below come from.
THEOREM Inductive == Spec => []IInv
  BY InitIInv, StepIInv, PTL DEF Spec

\* Every variable keeps its type.
THEOREM TypeCorrect == Spec => []TypeOK
<1>1. IInv => TypeOK
  BY DEF IInv
<1> QED
  BY <1>1, Inductive, PTL

\* join is a barrier (procedures.py:44): with either queue, and whatever puts
\* are given up, the loop never leaves it while a task of the round is alive.
THEOREM BarrierHolds == Spec => []JoinBarrier
<1>1. IInv => JoinBarrier
  BY DEF IInv
<1> QED
  BY <1>1, Inductive, PTL

\* Two workers that wait for room work for two different repositories: a
\* repository is announced again only after its previous round ended.
OneListerPerRepository ==
    \A r \in Repo : \A v, w \in Worker :
        /\ job[v] \in {PollerTask(r), QueuerTask(r)}
        /\ job[w] \in {PollerTask(r), QueuerTask(r)}
        /\ Waiting(v) /\ Waiting(w)
        => v = w

LEMMA OneLister == IInv => OneListerPerRepository
<1> SUFFICES ASSUME IInv, NEW r \in Repo, NEW v \in Worker, NEW w \in Worker,
                    job[v] \in {PollerTask(r), QueuerTask(r)},
                    job[w] \in {PollerTask(r), QueuerTask(r)},
                    Waiting(v), Waiting(w)
             PROVE  v = w
  BY DEF OneListerPerRepository
<1>1. job[v] \in Task /\ job[w] \in Task /\ future[job[v]] = "running" /\ future[job[w]] = "running"
  BY DEF Waiting, IInv, Ownership
<1>2. \A u \in Worker : job[u] = PollerTask(r) /\ Waiting(u) => future[QueuerTask(r)] = "blocked"
  BY Family DEF Waiting, Blocked
<1>3. job[v] = job[w]
  BY <1>1, <1>2
<1> QED
  BY <1>1, <1>3 DEF IInv, Ownership

LEMMA WaitingWorks ==
  ASSUME IInv, NEW w \in Worker, Waiting(w)
  PROVE  \E r \in Repo : job[w] \in {PollerTask(r), QueuerTask(r)}
<1>1. job[w] \in Task /\ Children(job[w]) # {}
  BY DEF Waiting
<1> QED
  BY <1>1, Shapes, Family

\* With more workers than repositories, the pool cannot block itself, however
\* small the queue is and however many heads there are.
THEOREM GridlockFree ==
  ASSUME Cardinality(Worker) > Cardinality(Repo)
  PROVE  Spec => []NoGridlock
<1>1. IInv => NoGridlock
  <2> SUFFICES ASSUME IInv, \A w \in Worker : Waiting(w) PROVE FALSE
    BY DEF NoGridlock
  <2> DEFINE f == [w \in Worker |-> CHOOSE r \in Repo : job[w] \in {PollerTask(r), QueuerTask(r)}]
  <2>1. \A w \in Worker : f[w] \in Repo /\ job[w] \in {PollerTask(f[w]), QueuerTask(f[w])}
    BY WaitingWorks
  <2>2. f \in [Worker -> Repo]
    BY <2>1
  <2> HIDE DEF f
  <2>3. PICK v \in Worker, w \in Worker : v # w /\ f[v] = f[w]
    <3>1. Cardinality(Repo) < Cardinality(Worker)
      BY SetsAssumption, FS_CardinalityType
    <3>2. IsFiniteSet(Repo) /\ IsFiniteSet(Worker)
      BY SetsAssumption
    <3>3. \E v, w \in Worker : v # w /\ f[v] = f[w]
      BY <2>2, <3>1, <3>2, FS_PigeonHole, Zenon
    <3> QED BY <3>3
  <2> QED
    BY <2>1, <2>3, OneLister DEF OneListerPerRepository
<1> QED
  BY <1>1, Inductive, PTL

-----------------------------------------------------------------------------
(* WorkerPool implements PollRounds, for every instance; on the way, the    *)
(* counter of join is exact with the queue of the standard library, and no  *)
(* head of a round is lost.                                                 *)

-----------------------------------------------------------------------------
(* What a step does to the outstanding tasks and to the counter             *)

Resting == phase \notin {"polling", "joining", "woken"}

Keeps == Outstanding' = Outstanding /\ (EagerCount \/ unfinished' = unfinished)

Adds(t) ==
    /\ t \in Task \ Outstanding
    /\ Outstanding' = Outstanding \cup {t}
    /\ EagerCount \/ unfinished' = unfinished + 1

Removes(t) ==
    /\ t \in Outstanding
    /\ Outstanding' = Outstanding \ {t}
    /\ unfinished' = unfinished - 1

\* Who may add a task: the loop before it rests, a task that is outstanding
\* itself, or a delivery.
Entitled(t) ==
    \/ ~Resting /\ \E r \in Repo : t = PollerTask(r)
    \/ \E p \in RoundTask \cap Outstanding : t \in Children(p)
    \/ t \in Delivery

\* terminate is for the commands that serve no webhook.
Mode == phase \in {"terminate", "gather", "stopped"} => ~Serving

\* The steps of PollRounds, with their effect on the counter.
RoundStep ==
    \/ /\ Keeps
       /\ ~Resting /\ Resting' => Outstanding \cap RoundTask = {}
    \/ UNCHANGED Resting /\ \E t \in Task : Adds(t) /\ Entitled(t)
    \/ UNCHANGED Resting /\ \E t \in Task : Removes(t)

LEMMA PutEffect ==
  ASSUME IInv, NEW t \in Task, future[t] = "new", Put(t)
  PROVE  Keeps \/ Adds(t)
<1>1. CASE Full
  BY <1>1 DEF Put, Keeps, Outstanding, Queued, Running, IInv, TypeOK
<1>2. CASE ~Full
  BY <1>2 DEF Put, Adds, Outstanding, Queued, Running, IInv, TypeOK
<1> QED
  BY <1>1, <1>2

LEMMA TaskDoneEffect ==
  ASSUME IInv, NEW w \in Worker, job[w] \in Task, NEW outcome \in Ended,
         TaskDone(w, outcome)
  PROVE  RoundStep
<1>1. future[job[w]] = "running"
  BY DEF IInv, Ownership
<1>2. Removes(job[w])
  BY <1>1 DEF TaskDone, Removes, Outstanding, Queued, Running, IInv, TypeOK, Ended
<1>3. UNCHANGED Resting
  BY DEF TaskDone, Resting
<1> QED
  BY <1>2, <1>3 DEF RoundStep

LEMMA EnqueueEffect ==
  ASSUME IInv, NEW w \in Worker, Enqueue(w)
  PROVE  RoundStep
<1>1. PICK t \in todo[w] : Put(t)
  BY DEF Enqueue
<1>2. /\ job[w] \in Task /\ t \in Children(job[w])
      /\ future[t] = "new" /\ t \in Task /\ future[job[w]] = "running"
  BY Shapes, Family DEF Enqueue, IInv, Agenda, Ownership
<1>3. job[w] \in RoundTask \cap Outstanding
  BY <1>2, Shapes, Family DEF Outstanding, Running, Task
<1>4. UNCHANGED Resting
  BY DEF Enqueue, loopVars, Resting
<1> QED
  BY <1>1, <1>2, <1>3, <1>4, PutEffect DEF RoundStep, Entitled

LEMMA PutResumesEffect ==
  ASSUME IInv, NEW t \in Task, PutResumes(t)
  PROVE  RoundStep
<1>1. Adds(t)
  BY DEF PutResumes, Adds, Outstanding, Queued, Running, IInv, TypeOK
<1>2. UNCHANGED Resting
  BY DEF PutResumes, loopVars, Resting
<1>3. future[t] = "blocked"
  BY DEF PutResumes
<1>4. ASSUME NEW r \in Repo, t = PollerTask(r)
      PROVE  Entitled(t)
  BY <1>3, <1>4 DEF IInv, Lineage, Entitled, Resting
<1>5. ASSUME NEW w \in Worker, NEW p \in RoundTask, job[w] = p, t \in Children(p)
      PROVE  Entitled(t)
  <2>1. p \in Outstanding
    BY <1>5, Shapes DEF IInv, Ownership, Outstanding, Running
  <2> QED
    BY <1>5, <2>1 DEF Entitled
<1>6. ASSUME NEW r \in Repo, t = QueuerTask(r)
      PROVE  Entitled(t)
  BY <1>3, <1>5, <1>6, Shapes, Family DEF IInv, Lineage
<1>7. ASSUME NEW h \in Head, t = HeadTask(h)
      PROVE  Entitled(t)
  BY <1>3, <1>5, <1>7, Shapes, Family DEF IInv, Lineage
<1>8. t \in Delivery => Entitled(t)
  BY DEF Entitled
<1>9. Entitled(t)
  BY <1>4, <1>6, <1>7, <1>8, Shapes DEF Task
<1> QED
  BY <1>1, <1>2, <1>9 DEF RoundStep

LEMMA WorkerEffect ==
  ASSUME IInv, NEW w \in Worker, WorkerStep(w)
  PROVE  RoundStep
<1>1. CASE \E t \in Task : Get(w, t)
  <2>1. Keeps /\ UNCHANGED Resting
    BY <1>1 DEF Get, Keeps, Resting, loopVars, Outstanding, Queued, Running, IInv, TypeOK
  <2> QED
    BY <2>1 DEF RoundStep
<1>2. CASE PollerCalled(w) \/ QueuerListsBranches(w) \/ QueuerListsPulls(w)
  <2>1. UNCHANGED <<future, unfinished, phase>>
    BY <1>2 DEF PollerCalled, QueuerListsBranches, QueuerListsPulls, Lists, queueVars, loopVars
  <2> QED
    BY <2>1 DEF RoundStep, Keeps, Resting, Outstanding, Queued, Running
<1>3. CASE LookupFails(w)
  BY <1>3, RunsFacts, TaskDoneEffect DEF LookupFails, Ended
<1>4. CASE ListFails(w)
  BY <1>4, RunsFacts, TaskDoneEffect DEF ListFails, Ended
<1>5. CASE Enqueue(w)
  BY <1>5, EnqueueEffect
<1>6. CASE BodyReturns(w)
  BY <1>6, RunsFacts, TaskDoneEffect DEF BodyReturns, Ended
<1>7. CASE HeadProcessed(w)
  BY <1>7, RunsFacts, TaskDoneEffect DEF HeadProcessed
<1> QED
  BY <1>1, <1>2, <1>3, <1>4, <1>5, <1>6, <1>7 DEF WorkerStep

LEMMA LoopEffect ==
  ASSUME IInv, Mode, LoopStep
  PROVE  RoundStep
<1>1. CASE StartRound
  <2>1. \A t \in RoundTask : future[t] \notin {"queued", "running"}
    BY <1>1 DEF StartRound, IInv, JoinBarrier
  <2>2. Keeps
    BY <1>1, <2>1 DEF StartRound, Keeps, Outstanding, Queued, Running
  <2> QED
    BY <1>1, <2>2 DEF StartRound, RoundStep, Resting
<1>2. CASE Announce
  <2>1. PICK r \in pollset : Put(PollerTask(r))
    BY <1>2 DEF Announce
  <2>2. PollerTask(r) \in Task /\ future[PollerTask(r)] = "new" /\ r \in Repo
    BY Shapes DEF IInv, TypeOK, Generations
  <2>3. UNCHANGED Resting /\ ~Resting
    BY <1>2 DEF Announce, Resting
  <2> QED
    BY <2>1, <2>2, <2>3, PutEffect DEF RoundStep, Entitled
<1>3. CASE Join \/ Gather
  BY <1>3 DEF Join, Gather, queueVars, RoundStep, Keeps, Resting, Outstanding, Queued, Running
<1>4. CASE JoinReturns
  <2>1. \A t \in RoundTask : future[t] \notin {"queued", "running"}
    BY <1>4 DEF JoinReturns, IInv, JoinBarrier
  <2> QED
    BY <1>4, <2>1
    DEF JoinReturns, queueVars, RoundStep, Keeps, Outstanding, Queued, Running
<1>5. CASE Terminate
  <2>1. Running = {}
    <3>1. Delivery = {}
      BY <1>5, ModeAssumption DEF Terminate, Mode, Delivery
    <3> QED
      BY <1>5, <3>1 DEF Terminate, IInv, JoinBarrier, Running, Task
  <2>2. future' = future /\ unfinished' = unfinished
    BY <1>5, <2>1, FS_EmptySet DEF Terminate, IInv, TypeOK
  <2> QED
    BY <1>5, <2>2 DEF Terminate, RoundStep, Keeps, Resting, Outstanding, Queued, Running
<1> QED
  BY <1>1, <1>2, <1>3, <1>4, <1>5 DEF LoopStep

LEMMA StepEffect == IInv /\ Mode /\ [Next]_vars => RoundStep
<1> SUFFICES ASSUME IInv, Mode, [Next]_vars PROVE RoundStep
  OBVIOUS
<1>1. ASSUME NEW k \in Hook, Deliver(k) PROVE RoundStep
  <2>1. HookTask(k) \in Task /\ HookTask(k) \in Delivery
    BY Shapes
  <2>2. Keeps \/ Adds(HookTask(k))
    BY <1>1, <2>1, PutEffect DEF Deliver
  <2>3. UNCHANGED Resting
    BY <1>1 DEF Deliver, loopVars, Resting
  <2> QED
    BY <2>1, <2>2, <2>3 DEF RoundStep, Entitled
<1>2. ASSUME NEW k \in Hook, HangUp(k) PROVE RoundStep
  BY <1>2, Shapes DEF HangUp, loopVars, RoundStep, Keeps, Resting, Outstanding, Queued,
                     Running, IInv, TypeOK
<1>3. CASE UNCHANGED vars
  BY <1>3 DEF vars, RoundStep, Keeps, Resting, Outstanding, Queued, Running
<1> QED
  BY <1>1, <1>2, <1>3, WorkerEffect, LoopEffect, PutResumesEffect DEF Next

-----------------------------------------------------------------------------
(* The refinement                                                           *)

LEMMA ModeInit == Init => Mode
  BY DEF Init, Mode

LEMMA ModeStep == Mode /\ [Next]_vars => Mode'
<1> SUFFICES ASSUME Mode, [Next]_vars PROVE Mode'
  OBVIOUS
<1>1. ASSUME NEW w \in Worker, NEW outcome, TaskDone(w, outcome) PROVE Mode'
  BY <1>1 DEF TaskDone, Mode
<1>2. ASSUME NEW w \in Worker, WorkerStep(w) PROVE Mode'
  BY <1>1, <1>2
  DEF WorkerStep, Get, PollerCalled, LookupFails, QueuerListsBranches, QueuerListsPulls,
      Lists, ListFails, Enqueue, BodyReturns, HeadProcessed, loopVars, Mode
<1>3. CASE LoopStep
  BY <1>3 DEF LoopStep, StartRound, Announce, Join, JoinReturns, Terminate, Gather, Mode
<1>4. ASSUME NEW t \in Task, PutResumes(t) PROVE Mode'
  BY <1>4 DEF PutResumes, loopVars, Mode
<1>5. ASSUME NEW k \in Hook, Deliver(k) \/ HangUp(k) PROVE Mode'
  BY <1>5 DEF Deliver, HangUp, loopVars, Mode
<1>6. CASE UNCHANGED vars
  BY <1>6 DEF vars, Mode
<1> QED
  BY <1>2, <1>3, <1>4, <1>5, <1>6 DEF Next

LEMMA InitRefines == Init => Rounds!Init
  BY IdleAssumption DEF Init, Rounds!Init, Outstanding, Queued, Running

LEMMA StepRefines == IInv /\ Mode /\ [Next]_vars => [Rounds!Next]_Rounds!abstractVars
<1> SUFFICES ASSUME RoundStep PROVE [Rounds!Next]_Rounds!abstractVars
  BY StepEffect
<1>1. CASE Keeps /\ (~Resting /\ Resting' => Outstanding \cap RoundTask = {})
  BY <1>1 DEF Keeps, Resting, Rounds!Next, Rounds!Resume, Rounds!Rest, Rounds!abstractVars
<1>2. CASE UNCHANGED Resting /\ \E t \in Task : Adds(t) /\ Entitled(t)
  <2>1. PICK t \in Task : Adds(t) /\ Entitled(t)
    BY <1>2
  <2> QED
    BY <1>2, <2>1
    DEF Adds, Entitled, Resting, Rounds!Next, Rounds!Announce, Rounds!Spawn, Rounds!Deliver
<1>3. CASE UNCHANGED Resting /\ \E t \in Task : Removes(t)
  BY <1>3 DEF Removes, Resting, Task, Rounds!Next, Rounds!Finish
<1> QED
  BY <1>1, <1>2, <1>3 DEF RoundStep

\* The pool, its tasks and the loop do what PollRounds promises
\* (procedures.py:34-46): whatever the queue holds, whatever fails and whoever
\* gives up, a round ends only after the tasks it spawned.
THEOREM Refinement == Spec => ImplementsRounds
  BY InitRefines, StepRefines, ModeInit, ModeStep, Inductive, PTL
  DEF Spec, ImplementsRounds, Rounds!Spec

-----------------------------------------------------------------------------
(* The counter                                                              *)

LEMMA CountInit == Init => CountExact
<1> SUFFICES ASSUME Init PROVE CountExact
  OBVIOUS
<1>1. Outstanding = {}
  BY DEF Init, Outstanding, Queued, Running
<1> QED
  BY <1>1, FS_EmptySet DEF Init, CountExact

LEMMA CountStep == IInv /\ Mode /\ CountExact /\ [Next]_vars => CountExact'
<1> SUFFICES ASSUME IInv, CountExact, ~EagerCount, RoundStep
             PROVE  unfinished' = Cardinality(Outstanding')
  BY StepEffect DEF CountExact
<1>1. IsFiniteSet(Outstanding) /\ unfinished = Cardinality(Outstanding)
  BY CountedFinite DEF CountExact
<1>2. CASE Keeps
  BY <1>1, <1>2 DEF Keeps
<1>3. ASSUME NEW t \in Task, Adds(t)
      PROVE  unfinished' = Cardinality(Outstanding')
  BY <1>1, <1>3, FS_AddElement DEF Adds
<1>4. ASSUME NEW t \in Task, Removes(t)
      PROVE  unfinished' = Cardinality(Outstanding')
  BY <1>1, <1>4, FS_RemoveElement DEF Removes
<1> QED
  BY <1>2, <1>3, <1>4 DEF RoundStep

\* With the queue of the standard library the counter of join is the number
\* of tasks that are queued or run, whatever puts were given up
\* (workers.py:57, web.py:144).
THEOREM CountHolds == Spec => []CountExact
  BY CountInit, CountStep, ModeInit, ModeStep, Inductive, PTL DEF Spec

-----------------------------------------------------------------------------
(* Nothing of a round is lost                                               *)

\* What a task was asked to queue is queued, or still on an agenda.
QueuerKept(r) ==
    /\ future[PollerTask(r)] = "finished" => future[QueuerTask(r)] # "new"
    /\ \A w \in Worker :
        job[w] = PollerTask(r) /\ stage[w] = "last"
            => future[QueuerTask(r)] # "new" \/ QueuerTask(r) \in todo[w]

HeadKept(h) ==
    h \in listed =>
        future[HeadTask(h)] # "new" \/ \E w \in Worker : HeadTask(h) \in todo[w]

Fresh(w) == job[w] \notin Task => stage[w] = "call"

NothingLost ==
    /\ \A w \in Worker : Fresh(w)
    /\ \A r \in Repo : QueuerKept(r)
    /\ \A h \in Head : HeadKept(h)

LEMMA LostInit == Init => NothingLost
  BY Shapes, IdleAssumption DEF Init, NothingLost, Fresh, QueuerKept, HeadKept

\* A step that leaves the workers alone and makes no task new again.
LEMMA LostStays ==
  ASSUME NothingLost,
         UNCHANGED <<job, stage, todo, listed>>,
         \A t \in Task : future'[t] = "new" => future[t] = "new",
         \A r \in Repo : future'[PollerTask(r)] = "finished"
                            => future[PollerTask(r)] = "finished"
  PROVE  NothingLost'
  BY Shapes DEF NothingLost, Fresh, QueuerKept, HeadKept

\* A body that ends has nothing left on its agenda; a poller that finished had
\* queued its queuer.
LEMMA LostTaskDone ==
  ASSUME IInv, NothingLost, NEW w \in Worker, job[w] \in Task, todo[w] = {},
         NEW outcome \in Ended, TaskDone(w, outcome),
         outcome = "finished" /\ job[w].kind = "poller" => stage[w] = "last"
  PROVE  NothingLost'
<1>1. /\ future' = [future EXCEPT ![job[w]] = outcome]
      /\ job' = [job EXCEPT ![w] = NoTask]
      /\ stage' = [stage EXCEPT ![w] = "call"]
      /\ UNCHANGED <<todo, listed>>
  BY DEF TaskDone
<1>2. \A t \in Task : /\ future'[t] = "new" => future[t] = "new"
                      /\ t # job[w] => future'[t] = future[t]
                      /\ future'[job[w]] = outcome
  BY <1>1 DEF IInv, TypeOK, Ended
<1>3. \A v \in Worker : job'[v] \in Task => v # w /\ job'[v] = job[v] /\ stage'[v] = stage[v]
  BY <1>1, IdleAssumption DEF IInv, TypeOK
<1>4. ASSUME NEW r \in Repo PROVE QueuerKept(r)'
  <2>1. CASE job[w] = PollerTask(r) /\ outcome = "finished"
    <3>1. future[QueuerTask(r)] # "new"
      BY <2>1 DEF NothingLost, QueuerKept, PollerTask
    <3> QED
      BY <3>1, <1>2, Shapes DEF QueuerKept
  <2>2. CASE ~(job[w] = PollerTask(r) /\ outcome = "finished")
    BY <2>2, <1>1, <1>2, <1>3, Shapes DEF NothingLost, QueuerKept
  <2> QED
    BY <2>1, <2>2
<1>5. ASSUME NEW h \in Head PROVE HeadKept(h)'
  BY <1>1, <1>2, Shapes DEF NothingLost, HeadKept
<1>6. ASSUME NEW v \in Worker PROVE Fresh(v)'
  BY <1>1 DEF IInv, TypeOK, NothingLost, Fresh
<1> QED
  BY <1>4, <1>5, <1>6 DEF NothingLost

LEMMA LostEnqueue ==
  ASSUME IInv, NothingLost, NEW w \in Worker, Enqueue(w)
  PROVE  NothingLost'
<1>1. PICK t \in todo[w] : todo' = [todo EXCEPT ![w] = @ \ {t}] /\ Put(t)
  BY DEF Enqueue
<1>2. t \in Task /\ UNCHANGED <<job, stage, listed>> /\ future[t] = "new"
  BY DEF Enqueue, IInv, TypeOK, Agenda
<1>3. /\ future'[t] # "new"
      /\ \A u \in Task \ {t} : future'[u] = future[u]
  BY <1>1, <1>2, PutChanges DEF IInv
<1>4. \A v \in Worker : \A u \in todo[v] \ {t} : u \in todo'[v]
  BY <1>1 DEF IInv, TypeOK
<1>5. future'[t] # "finished"
  BY <1>1, <1>2, PutChanges DEF IInv
<1>6. ASSUME NEW r \in Repo PROVE QueuerKept(r)'
  BY <1>2, <1>3, <1>4, <1>5, Shapes DEF NothingLost, QueuerKept
<1>7. ASSUME NEW h \in Head PROVE HeadKept(h)'
  BY <1>2, <1>3, <1>4, Shapes DEF NothingLost, HeadKept
<1>8. ASSUME NEW v \in Worker PROVE Fresh(v)'
  BY <1>2 DEF NothingLost, Fresh
<1> QED
  BY <1>6, <1>7, <1>8 DEF NothingLost

\* A body that got its list puts all of it on its agenda.
LEMMA LostCalls ==
  ASSUME IInv, NothingLost, NEW w \in Worker,
         PollerCalled(w) \/ QueuerListsBranches(w) \/ QueuerListsPulls(w)
  PROVE  NothingLost'
<1>1. UNCHANGED <<future, job>> /\ todo[w] = {} /\ job[w] \in Task
  BY RunsFacts
  DEF PollerCalled, QueuerListsBranches, QueuerListsPulls, Lists, queueVars
<1>2. ASSUME NEW v \in Worker PROVE Fresh(v)'
  BY <1>1 DEF PollerCalled, QueuerListsBranches, QueuerListsPulls, IInv, TypeOK,
              NothingLost, Fresh
<1>3. CASE PollerCalled(w)
  <2>1. PICK r \in Repo : job[w] = PollerTask(r) /\ job[w].of = r
    BY <1>3, RunsFacts, KindOf DEF PollerCalled
  <2>2. /\ \A v \in Worker \ {w} : stage'[v] = stage[v] /\ todo'[v] = todo[v]
        /\ todo'[w] = {QueuerTask(r)} /\ UNCHANGED listed
    BY <1>3, <2>1 DEF PollerCalled, IInv, TypeOK
  <2>3. ASSUME NEW q \in Repo PROVE QueuerKept(q)'
    BY <1>1, <2>1, <2>2, Distinct DEF NothingLost, QueuerKept
  <2>4. ASSUME NEW h \in Head PROVE HeadKept(h)'
    BY <1>1, <2>2 DEF NothingLost, HeadKept
  <2> QED
    BY <1>2, <2>3, <2>4 DEF NothingLost
<1>4. CASE QueuerListsBranches(w) \/ QueuerListsPulls(w)
  <2>1. PICK r \in Repo : job[w] = QueuerTask(r) /\ job[w].of = r
    BY <1>4, RunsFacts, KindOf DEF QueuerListsBranches, QueuerListsPulls
  <2>2. PICK heads \in SUBSET HeadsOf(r) : Lists(w, heads)
    BY <1>4, <2>1 DEF QueuerListsBranches, QueuerListsPulls
  <2>3. /\ \A v \in Worker \ {w} : stage'[v] = stage[v] /\ todo'[v] = todo[v]
        /\ todo'[w] = {HeadTask(h) : h \in heads} /\ listed' = listed \cup heads
    BY <1>4, <2>2 DEF QueuerListsBranches, QueuerListsPulls, Lists, IInv, TypeOK
  <2>4. ASSUME NEW q \in Repo PROVE QueuerKept(q)'
    BY <1>1, <2>1, <2>3, Distinct DEF NothingLost, QueuerKept
  <2>5. ASSUME NEW h \in Head PROVE HeadKept(h)'
    BY <1>1, <2>3 DEF NothingLost, HeadKept
  <2> QED
    BY <1>2, <2>4, <2>5 DEF NothingLost
<1> QED
  BY <1>3, <1>4

LEMMA LostWorker ==
  ASSUME IInv, NothingLost, NEW w \in Worker, WorkerStep(w)
  PROVE  NothingLost'
<1>1. CASE \E t \in Task : Get(w, t)
  <2>1. PICK t \in Task : Get(w, t)
    BY <1>1
  <2>2. /\ \A u \in Task : /\ future'[u] = "new" => future[u] = "new"
                           /\ future'[u] = "finished" => future[u] = "finished"
        /\ \A v \in Worker : v # w => job'[v] = job[v]
        /\ job'[w] = t /\ stage[w] = "call" /\ UNCHANGED <<stage, todo, listed>>
    BY <2>1, IdleAssumption DEF Get, Queued, IInv, TypeOK, NothingLost, Fresh
  <2> QED
    BY <2>2, Shapes DEF NothingLost, Fresh, QueuerKept, HeadKept
<1>2. CASE PollerCalled(w) \/ QueuerListsBranches(w) \/ QueuerListsPulls(w)
  BY <1>2, LostCalls
<1>3. CASE LookupFails(w)
  BY <1>3, RunsFacts, LostTaskDone DEF LookupFails, Ended
<1>4. CASE ListFails(w)
  BY <1>4, RunsFacts, LostTaskDone DEF ListFails, Ended
<1>5. CASE Enqueue(w)
  BY <1>5, LostEnqueue
<1>6. CASE BodyReturns(w)
  BY <1>6, RunsFacts, LostTaskDone DEF BodyReturns, Ended
<1>7. CASE HeadProcessed(w)
  BY <1>7, RunsFacts, LostTaskDone DEF HeadProcessed
<1> QED
  BY <1>1, <1>2, <1>3, <1>4, <1>5, <1>6, <1>7 DEF WorkerStep

LEMMA LostLoop ==
  ASSUME IInv, Mode, NothingLost, LoopStep
  PROVE  NothingLost'
<1>1. CASE StartRound
  <2>1. /\ \A t \in RoundTask : t \in Task /\ future'[t] = "new"
        /\ listed' = {} /\ UNCHANGED <<job, stage, todo>>
    BY <1>1 DEF StartRound, workVars, Task
  <2>2. \A w \in Worker : job[w] \notin RoundTask
    BY <1>1, Shapes DEF StartRound, IInv, JoinBarrier, Ownership
  <2> QED
    BY <2>1, <2>2, Shapes DEF NothingLost, Fresh, QueuerKept, HeadKept
<1>2. CASE Announce
  <2>1. PICK r \in pollset : Put(PollerTask(r))
    BY <1>2 DEF Announce
  <2>2. PollerTask(r) \in Task /\ r \in Repo
    BY Shapes DEF IInv, TypeOK
  <2>3. \A t \in Task : /\ future'[t] = "new" => future[t] = "new"
                        /\ future'[t] = "finished" => future[t] = "finished"
    BY <2>1, <2>2, PutChanges DEF IInv
  <2>4. UNCHANGED <<job, stage, todo, listed>>
    BY <1>2 DEF Announce, workVars
  <2> QED
    BY <2>3, <2>4, LostStays, Shapes
<1>3. CASE Join \/ JoinReturns \/ Gather
  BY <1>3, LostStays DEF Join, JoinReturns, Gather, queueVars, workVars
<1>4. CASE Terminate
  <2>1. \A t \in RoundTask : t \in Task /\ future'[t] = future[t]
    BY <1>4, Shapes DEF Terminate, IInv, JoinBarrier, Running
  <2>2. \A w \in Worker : job[w] \notin RoundTask /\ todo[w] = {}
    BY <1>4, Shapes, Family DEF Terminate, IInv, JoinBarrier, Ownership, Agenda
  <2>3. /\ \A w \in Worker : job'[w] \notin Task /\ stage'[w] = "call"
        /\ UNCHANGED listed
    BY <1>4, IdleAssumption DEF Terminate
  <2> QED
    BY <2>1, <2>2, <2>3, Shapes DEF NothingLost, Fresh, QueuerKept, HeadKept
<1> QED
  BY <1>1, <1>2, <1>3, <1>4 DEF LoopStep

LEMMA LostStep == IInv /\ Mode /\ NothingLost /\ [Next]_vars => NothingLost'
<1> SUFFICES ASSUME IInv, Mode, NothingLost, [Next]_vars PROVE NothingLost'
  OBVIOUS
<1>1. ASSUME NEW t \in Task, PutResumes(t) PROVE NothingLost'
  <2>1. \A u \in Task : /\ future'[u] = "new" => future[u] = "new"
                        /\ future'[u] = "finished" => future[u] = "finished"
    BY <1>1 DEF PutResumes, IInv, TypeOK
  <2> QED
    BY <1>1, <2>1, LostStays, Shapes DEF PutResumes, workVars
<1>2. ASSUME NEW k \in Hook, Deliver(k) \/ HangUp(k) PROVE NothingLost'
  <2>1. HookTask(k) \in Task
    BY Shapes
  <2>2. \A u \in Task : /\ future'[u] = "new" => future[u] = "new"
                        /\ future'[u] = "finished" => future[u] = "finished"
    BY <1>2, <2>1, PutChanges DEF Deliver, HangUp, IInv, TypeOK
  <2> QED
    BY <1>2, <2>2, LostStays, Shapes DEF Deliver, HangUp, workVars
<1>3. CASE UNCHANGED vars
  BY <1>3, LostStays DEF vars
<1> QED
  BY <1>1, <1>2, <1>3, LostWorker, LostLoop DEF Next

\* When join returns nothing of the round was lost (tasks.py:44 and 76-90): a
\* repository whose poller succeeded got its queuer run, and each head that a
\* queuer was given was processed, whatever was full or failed half way.
THEOREM RoundsComplete == Spec => []RoundComplete
<1>1. IInv /\ NothingLost => RoundComplete
  <2> SUFFICES ASSUME IInv, NothingLost, phase = "woken" PROVE RoundComplete
    BY DEF RoundComplete
  <2>1. \A t \in RoundTask : future[t] \in Ended \cup {"new"}
    BY Shapes DEF IInv, TypeOK, JoinBarrier
  <2>2. \A w \in Worker : todo[w] = {}
    BY <2>1, Shapes, Family DEF IInv, Ownership, Agenda, Ended
  <2> QED
    BY <2>1, <2>2, Shapes DEF NothingLost, QueuerKept, HeadKept, RoundComplete, IInv, TypeOK
<1> QED
  BY <1>1, LostInit, LostStep, ModeInit, ModeStep, Inductive, PTL DEF Spec
=============================================================================
