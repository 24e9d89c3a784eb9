-------------------------- MODULE ProcessUrlProofs --------------------------
(* What ProcessUrl guarantees for any number of calls, URLs and coroutines: *)
(* as long as no cancellation was lost on a URL, at most one call works on  *)
(* it, the entry of _task_map is its own, and a superseded call never gets  *)
(* to the end.                                                              *)
EXTENDS ProcessUrl, TLAPS

-----------------------------------------------------------------------------
(* The inductive invariant                                                  *)

\* A call that works undisturbed owns the entry of its URL.
Owns(r) ==
    Live(r) /\ ~Doomed(r) /\ url[r] \notin swallowed => task_map[url[r]] = r

\* del never misses its entry but after a lost cancellation.
Explained(r) == outcome[r] = "KeyError" => url[r] \in swallowed

\* A superseded call is being cancelled, or ended before its last line.
Overtaken(r) ==
    r \in superseded =>
        \/ Doomed(r)
        \/ url[r] \in swallowed
        \/ pc[r] = "done" /\ outcome[r] \notin {"returned", "KeyError"}

\* Only calls that have not ended are cancelled, and they have no outcome.
Underway(r) ==
    /\ r \in cancelReq => Live(r)
    /\ pc[r] # "done" => outcome[r] = "none"

Sound(r) == Owns(r) /\ Explained(r) /\ Overtaken(r) /\ Underway(r)

IInv == TypeOK /\ \A r \in Run : Sound(r)

-----------------------------------------------------------------------------
(* Steps                                                                    *)

LEMMA InitStep == Init => IInv
  BY DEF Init, IInv, TypeOK, Sound, Owns, Explained, Overtaken, Underway, Live,
         ChildState

\* A newcomer cancels its predecessor and takes the entry.
LEMMA StartStep ==
  ASSUME IInv, NEW r \in Run, Start(r)
  PROVE  IInv'
<1>1. TypeOK'
  BY DEF IInv, TypeOK, Start, Supersedes, Predecessor
<1>2. ASSUME NEW q \in Run
      PROVE  Sound(q)'
  <2>1. CASE q = r
    BY <2>1
    DEF IInv, TypeOK, Sound, Owns, Explained, Overtaken, Underway, Live,
        Doomed, Broken, Start, Supersedes, Predecessor
  <2>2. CASE q # r /\ url[q] = url[r]
    <3>1. Live(q) /\ ~Doomed(q) /\ url[q] \notin swallowed => q \in Predecessor(r)
      BY <2>2 DEF IInv, Sound, Owns, Predecessor
    <3> QED
      BY <2>2, <3>1
      DEF IInv, TypeOK, Sound, Owns, Explained, Overtaken, Underway, Live,
          Doomed, Broken, Start, Supersedes, Predecessor
  <2>3. CASE url[q] # url[r]
    BY <2>3
    DEF IInv, TypeOK, Sound, Owns, Explained, Overtaken, Underway, Live,
        Doomed, Broken, Start, Supersedes, Predecessor
  <2> QED
    BY <2>1, <2>2, <2>3
<1> QED
  BY <1>1, <1>2 DEF IInv

\* A call that goes on to another await changes nothing the invariant is about.
LEMMA GoesStep ==
  ASSUME IInv, NEW r \in Run,
         NEW to \in {"from_url", "settings", "bot", "last"},
         Live(r), ~Doomed(r), Goes(r, to)
  PROVE  IInv'
<1>1. TypeOK'
  BY DEF IInv, TypeOK, Goes
<1>2. ASSUME NEW q \in Run
      PROVE  Sound(q)'
  BY DEF IInv, TypeOK, Goes, Sound, Owns, Explained, Overtaken, Underway, Live,
         Doomed, Broken
<1> QED
  BY <1>1, <1>2 DEF IInv

\* A call that ends early leaves its entry; only one that was not cancelled
\* returns.
LEMMA LeavesStep ==
  ASSUME IInv, NEW r \in Run, Live(r),
         NEW result \in {"returned", "failed", "cancelled"},
         result = "returned" => ~Doomed(r),
         Leaves(r, result)
  PROVE  IInv'
<1>1. TypeOK'
  BY DEF IInv, TypeOK, Leaves, End
<1>2. ASSUME NEW q \in Run
      PROVE  Sound(q)'
  <2>1. CASE q = r
    BY <2>1
    DEF IInv, TypeOK, Leaves, End, Sound, Owns, Explained, Overtaken, Underway,
        Live, Doomed, Broken
  <2>2. CASE q # r
    BY <2>2
    DEF IInv, TypeOK, Leaves, End, Sound, Owns, Explained, Overtaken, Underway,
        Live, Doomed, Broken
  <2> QED
    BY <2>1, <2>2
<1> QED
  BY <1>1, <1>2 DEF IInv

\* The call that gets to the end deletes the entry, which is its own unless a
\* cancellation was lost.
LEMMA CleansStep ==
  ASSUME IInv, NEW r \in Run, Live(r), ~Doomed(r), Cleans(r)
  PROVE  IInv'
<1>1. TypeOK'
  BY DEF IInv, TypeOK, Cleans, End
<1>2. url[r] \in swallowed \/ task_map[url[r]] = r
  BY DEF IInv, Sound, Owns
<1>3. ASSUME NEW q \in Run
      PROVE  Sound(q)'
  <2>1. CASE q = r
    BY <1>2, <2>1, ProcessAssumption
    DEF IInv, TypeOK, Cleans, End, Sound, Owns, Explained, Overtaken, Underway,
        Live, Doomed, Broken
  <2>2. CASE q # r
    BY <1>2, <2>2
    DEF IInv, TypeOK, Cleans, End, Sound, Owns, Explained, Overtaken, Underway,
        Live, Doomed, Broken
  <2> QED
    BY <2>1, <2>2
<1> QED
  BY <1>1, <1>3 DEF IInv

\* A gather starts.
LEMMA GathersStep ==
  ASSUME IInv, NEW r \in Run, Gathers(r)
  PROVE  IInv'
<1>1. Live(r) /\ ~Doomed(r)
  BY DEF Gathers, Resumes, Live, Doomed
<1>2. CASE Cleans(r)
  BY <1>1, <1>2, CleansStep
<1>3. CASE Leaves(r, "failed")
  BY <1>1, <1>3, LeavesStep
<1>4. CASE /\ pc' = [pc EXCEPT ![r] = "gather"]
           /\ child' = [child EXCEPT ![r] = [c \in Child |-> "call"]]
           /\ UNCHANGED <<url, outcome, cancelReq, task_map, swallowed, superseded>>
  <2>1. TypeOK'
    BY <1>4 DEF IInv, TypeOK, ChildState
  <2>2. ASSUME NEW q \in Run
        PROVE  Sound(q)'
    BY <1>1, <1>4
    DEF IInv, TypeOK, Sound, Owns, Explained, Overtaken, Underway, Live, Doomed,
        Broken
  <2> QED
    BY <2>1, <2>2 DEF IInv
<1> QED
  BY <1>2, <1>3, <1>4 DEF Gathers

\* The children of a waiting gather get the cancellation: one of them dies, so
\* that the call is still doomed, or the cancellation is lost.
LEMMA ForwardedStep ==
  ASSUME IInv, NEW r \in Run, CancelForwarded(r)
  PROVE  IInv'
<1>1. TypeOK'
  BY DEF IInv, TypeOK, CancelForwarded, ChildState
<1>2. Doomed(r)' \/ url[r] \in swallowed'
  BY DEF IInv, TypeOK, CancelForwarded, Doomed, Broken
<1>3. swallowed \subseteq swallowed' /\ cancelReq' \subseteq cancelReq
  BY DEF CancelForwarded
<1>4. ASSUME NEW q \in Run, q # r
      PROVE  child'[q] = child[q] /\ (q \in cancelReq' <=> q \in cancelReq)
  BY <1>4 DEF IInv, TypeOK, CancelForwarded
<1>5. UNCHANGED <<pc, url, outcome, task_map, superseded>>
  BY DEF CancelForwarded
<1>6. ASSUME NEW q \in Run
      PROVE  Sound(q)'
  <2>1. CASE q = r
    BY <1>2, <1>3, <1>5, <2>1
    DEF IInv, Sound, Owns, Explained, Overtaken, Underway, Live
  <2>2. CASE q # r
    BY <1>3, <1>4, <1>5, <2>2
    DEF IInv, Sound, Owns, Explained, Overtaken, Underway, Live, Doomed, Broken
  <2> QED
    BY <2>1, <2>2
<1> QED
  BY <1>1, <1>6 DEF IInv

\* A gathered coroutine goes on; one that failed or died never does, so a
\* doomed call stays doomed.
LEMMA ChildGoesStep ==
  ASSUME IInv, NEW r \in Run, NEW c \in Child, child[r][c] \in Busy,
         NEW to \in ChildState, ChildGoes(r, c, to)
  PROVE  IInv'
<1>1. TypeOK'
  BY DEF IInv, TypeOK, ChildGoes
<1>2. ASSUME NEW q \in Run, Doomed(q)
      PROVE  Doomed(q)'
  BY <1>2 DEF IInv, TypeOK, ChildGoes, Doomed, Broken, Busy
<1>3. ASSUME NEW q \in Run
      PROVE  Sound(q)'
  BY <1>2, <1>3 DEF IInv, ChildGoes, Sound, Owns, Explained, Overtaken, Underway, Live
<1> QED
  BY <1>1, <1>3 DEF IInv

LEMMA NextStep == IInv /\ [Next]_vars => IInv'
<1> SUFFICES ASSUME IInv, [Next]_vars PROVE IInv'
  OBVIOUS
<1>1. ASSUME NEW r \in Run, Start(r) PROVE IInv'
  BY <1>1, StartStep
<1>2. ASSUME NEW r \in Run, Throttled(r) PROVE IInv'
  BY <1>2, GoesStep, LeavesStep DEF Throttled, Resumes, Live, Doomed
<1>3. ASSUME NEW r \in Run, HeadFetched(r) PROVE IInv'
  BY <1>3, GoesStep, LeavesStep DEF HeadFetched, Resumes, Live, Doomed
<1>4. ASSUME NEW r \in Run, SettingsLoaded(r) PROVE IInv'
  BY <1>4, GoesStep, LeavesStep DEF SettingsLoaded, Resumes, Live, Doomed
<1>5. ASSUME NEW r \in Run, Gathers(r) PROVE IInv'
  BY <1>5, GathersStep
<1>6. ASSUME NEW r \in Run, GatherReturns(r) PROVE IInv'
  <2>1. Live(r) /\ ~Doomed(r)
    BY <1>6 DEF GatherReturns, Resumes, Live, Doomed, Broken
  <2> QED
    BY <1>6, <2>1, GoesStep DEF GatherReturns
<1>7. ASSUME NEW r \in Run, GatherRaises(r) PROVE IInv'
  BY <1>7, LeavesStep DEF GatherRaises, Resumes, Live
<1>8. ASSUME NEW r \in Run, Finishes(r) PROVE IInv'
  BY <1>8, CleansStep, LeavesStep DEF Finishes, Resumes, Live, Doomed
<1>9. ASSUME NEW r \in Run, CancelDelivered(r) PROVE IInv'
  BY <1>9, LeavesStep DEF CancelDelivered, IInv, Sound, Underway
<1>10. ASSUME NEW r \in Run, CancelForwarded(r) PROVE IInv'
  BY <1>10, ForwardedStep
<1>11. ASSUME NEW r \in Run, NEW c \in Child, ChildStep(r, c) PROVE IInv'
  <2>1. child[r][c] \in Busy /\ \E to \in ChildState : ChildGoes(r, c, to)
    BY <1>11 DEF ChildStep, ChildCalled, ChildBuilt, ChildReported, Busy, ChildState
  <2> QED
    BY <2>1, ChildGoesStep
<1>12. CASE UNCHANGED vars
  BY <1>12
  DEF vars, IInv, TypeOK, Sound, Owns, Explained, Overtaken, Underway, Live,
      Doomed, Broken
<1> QED
  BY <1>1, <1>2, <1>3, <1>4, <1>5, <1>6, <1>7, <1>8, <1>9, <1>10, <1>11, <1>12
  DEF Next, Advance

-----------------------------------------------------------------------------
(* Theorems                                                                 *)

THEOREM Inductive == Spec => []IInv
<1> QED
  BY InitStep, NextStep, PTL DEF Spec

\* The variables keep their types (procedures.py:58-97): in particular an
\* entry of _task_map is a call of process_url.
THEOREM TypeCorrect == Spec => []TypeOK
<1>1. IInv => TypeOK
  BY DEF IInv
<1> QED
  BY <1>1, Inductive, PTL

\* A call that nobody cancelled deletes its own entry, which is there
\* (procedures.py:97), unless a cancellation was lost on its URL.
THEOREM OwnEntry == Spec => []OwnEntryUntilSwallowed
<1>1. IInv => OwnEntryUntilSwallowed
  BY DEF IInv, Sound, Owns, Explained, OwnEntryUntilSwallowed
<1> QED
  BY <1>1, Inductive, PTL

\* Two calls never both work on a URL (procedures.py:66-71), unless a
\* cancellation was lost in job.build: both would own the one entry.
THEOREM ExclusionHolds == Spec => []ExclusiveUntilSwallowed
<1>1. IInv => ExclusiveUntilSwallowed
  BY DEF IInv, Sound, Owns, ExclusiveUntilSwallowed
<1> QED
  BY <1>1, Inductive, PTL

\* A superseded call does not get to the end of process_url
\* (procedures.py:70), unless its cancellation was lost.
THEOREM SupersededStops == Spec => []SupersededNeverReturns
<1>1. IInv => SupersededNeverReturns
  <2> SUFFICES ASSUME IInv, NEW r \in superseded,
                      outcome[r] \in {"returned", "KeyError"}
               PROVE  url[r] \in swallowed
    BY DEF SupersededNeverReturns
  <2> QED
    BY DEF IInv, TypeOK, Sound, Overtaken, Underway, Live, Doomed
<1> QED
  BY <1>1, Inductive, PTL
=============================================================================
