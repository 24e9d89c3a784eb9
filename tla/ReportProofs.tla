---------------------------- MODULE ReportProofs ----------------------------
(* What ReportExtension guarantees for any number of commits, issues, lost   *)
(* answers and abandoned runs: an issue that no commit remembers costs a     *)
(* trouble, and without any a breakage that is seen commit by commit has one *)
(* issue.                                                                    *)
EXTENDS Report, FiniteSetTheorems, SequenceTheorems, WellFoundedInduction, TLAPS

-----------------------------------------------------------------------------
(* The inductive invariant                                                  *)

\* TypeOK without the length of the threads, which takes the run to bound.
Typed ==
    /\ tip \in 1 .. MaxCommit
    /\ ci \in [Commits -> State]
    /\ thread \in [Commits -> Seq(1 .. Done)]
    /\ issues \in 0 .. MaxIssue
    /\ step \in {"idle", "statuses", "comments", "report", "post", "remember"}
    /\ head \in 0 .. tip /\ state \in State
    /\ issue \in {None, Done} \cup 1 .. issues
    /\ troubles \in 0 .. MaxTrouble

\* The run found no comment on its commit.
Unreported ==
    \/ step = "report" /\ issue = None
    \/ step \in {"post", "remember"}

\* Comments name issues that were opened; a thread grows twice, and once more
\* for each trouble.
Threads ==
    /\ \A c \in Commits : Named(c) \subseteq 1 .. issues
    /\ \A c \in Commits : Len(thread[c]) <= 2 + troubles
    /\ Unreported => Len(thread[head]) <= 1 + troubles

\* What the run knows at each await.
Knows ==
    /\ step \in {"idle", "statuses", "comments"} => issue = None
    /\ step # "idle" => head # 0
    /\ step = "report" => issue \in {None, Done} \cup Named(head)
    /\ step \in {"post", "remember"} => state = "failure" /\ issue # Done
    /\ step = "remember" => issue # None

\* The last commit that may have a report.
Frontier == IF step = "idle" THEN tip ELSE head

\* Without troubles a commit names one issue, the one of its parent if that has
\* one, and a commit is reported only once, in the order of the pushes.
Orderly ==
    /\ \A c \in Commits : \A i, j \in Named(c) : i = j
    /\ \A c \in Commits : c > Frontier => Named(c) = {}
    /\ Unreported => Named(head) = {}
    /\ step \in {"post", "remember"} => Named(head - 1) \subseteq {issue}

Calm == troubles = 0 => Orderly

IInv == Typed /\ Threads /\ Knows /\ Calm /\ OneIssue

-----------------------------------------------------------------------------
(* Threads                                                                  *)

LEMMA Constants == Commits \subseteq Nat /\ MaxCommit \in Nat \ {0}
                   /\ MaxIssue \in Nat \ {0} /\ MaxTrouble \in Nat \ {0}
                   /\ Done \in Nat \ {0} /\ Done \notin 1 .. MaxIssue
  BY ReportAssumption DEF Commits, Done

\* What a comment adds to a thread.
LEMMA RangeAppend ==
  ASSUME NEW s \in Seq(1 .. Done), NEW e \in 1 .. Done
  PROVE  /\ Append(s, e) \in Seq(1 .. Done)
         /\ Len(Append(s, e)) = Len(s) + 1
         /\ Range(Append(s, e)) = Range(s) \cup {e}
<1>1. /\ Append(s, e) \in Seq(1 .. Done) /\ Len(Append(s, e)) = Len(s) + 1
      /\ Append(s, e)[Len(s) + 1] = e
      /\ \A n \in 1 .. Len(s) : Append(s, e)[n] = s[n]
  BY AppendProperties
<1>2. DOMAIN Append(s, e) = 1 .. Len(s) + 1 /\ DOMAIN s = 1 .. Len(s) /\ Len(s) \in Nat
  BY <1>1, LenProperties
<1>3. ASSUME NEW x \in Range(Append(s, e))
      PROVE  x \in Range(s) \cup {e}
  BY <1>1, <1>2 DEF Range
<1>4. ASSUME NEW x \in Range(s) \cup {e}
      PROVE  x \in Range(Append(s, e))
  <2>1. CASE x = e
    BY <1>1, <1>2, <2>1 DEF Range
  <2>2. CASE x \in Range(s)
    BY <1>1, <1>2, <2>2 DEF Range
  <2> QED
    BY <2>1, <2>2
<1> QED
  BY <1>1, <1>3, <1>4

\* The issues a commit names after one more comment.
LEMMA NamedAppend ==
  ASSUME Typed, NEW d \in Commits, NEW e \in 1 .. Done,
         thread' = [thread EXCEPT ![d] = Append(@, e)]
  PROVE  /\ thread' \in [Commits -> Seq(1 .. Done)]
         /\ Len(thread'[d]) = Len(thread[d]) + 1
         /\ \A c \in Commits : c # d => Len(thread'[c]) = Len(thread[c])
         /\ Named(d)' = Named(d) \cup ({e} \ {Done})
         /\ \A c \in Commits : c # d => Named(c)' = Named(c)
<1>1. thread[d] \in Seq(1 .. Done)
  BY DEF Typed
<1>2. /\ Append(thread[d], e) \in Seq(1 .. Done)
      /\ Len(Append(thread[d], e)) = Len(thread[d]) + 1
      /\ Range(Append(thread[d], e)) = Range(thread[d]) \cup {e}
  BY <1>1, RangeAppend
<1> QED
  BY <1>2 DEF Typed, Named

\* A thread with no issue in it but Done names none.
LEMMA NamedNone ==
  ASSUME Typed, NEW c \in Commits
  PROVE  /\ thread[c] = <<>> => Named(c) = {} /\ Len(thread[c]) = 0
         /\ thread[c] # <<>> => Last(thread[c]) \in {Done} \cup Named(c)
<1>1. thread[c] \in Seq(1 .. Done)
  BY DEF Typed
<1>2. CASE thread[c] = <<>>
  BY <1>2 DEF Named, Range
<1>3. CASE thread[c] # <<>>
  <2>1. Len(thread[c]) \in DOMAIN thread[c]
    BY <1>1, <1>3, EmptySeq, LenProperties
  <2> QED
    BY <1>3, <2>1 DEF Named, Range, Last
<1> QED
  BY <1>2, <1>3

\* find_issue_url finds an issue if there is one.
LEMMA IssueUrlProperties ==
  ASSUME Typed, NEW c \in Commits
  PROVE  IF Named(c) = {} THEN IssueUrl(c) = None ELSE IssueUrl(c) \in Named(c)
<1> DEFINE named == {n \in DOMAIN thread[c] : thread[c][n] # Done}
<1>1. thread[c] \in Seq(1 .. Done)
  BY DEF Typed
<1>2. named \in SUBSET Nat
  BY <1>1
<1>3. Named(c) = {thread[c][n] : n \in named}
  BY DEF Named, Range
<1>4. IssueUrl(c) = IF named = {} THEN None ELSE thread[c][Min(named)]
  BY DEF IssueUrl
<1> HIDE DEF named
<1>5. ASSUME named # {} PROVE Min(named) \in named
  <2>1. PICK n \in named : \A m \in named : ~(<<m, n>> \in OpToRel(<, Nat))
    BY <1>2, <1>5, NatLessThanWellFounded, WFMin
  <2>2. OpToRel(<, Nat) = {ss \in Nat \X Nat : ss[1] < ss[2]}
    BY Zenon DEF OpToRel
  <2>3. ASSUME NEW m \in named PROVE n <= m
    <3>1. <<m, n>> \in Nat \X Nat /\ <<m, n>>[1] = m /\ <<m, n>>[2] = n
      BY <1>2
    <3>2. ~(m < n)
      BY <2>1, <2>2, <3>1
    <3> QED
      BY <1>2, <3>2
  <2> QED
    BY <2>3 DEF Min
<1> QED
  BY <1>3, <1>4, <1>5

-----------------------------------------------------------------------------
(* Issues nobody remembers                                                  *)

Lost == {i \in 1 .. issues : i # issue /\ \A c \in Commits : i \notin Named(c)}

\* A step that loses no issue.
LEMMA NoneLost ==
  ASSUME Typed, IssuesRemembered, Lost' \subseteq Lost, troubles' = troubles
  PROVE  IssuesRemembered'
<1>1. IsFiniteSet(1 .. issues) /\ Lost \subseteq 1 .. issues
  BY FS_Interval DEF Typed, Lost
<1>2. IsFiniteSet(Lost)
  BY <1>1, FS_Subset
<1>3. Cardinality(Lost') <= Cardinality(Lost)
  BY <1>2, FS_Subset
<1>4. Cardinality(Lost) \in Nat /\ Cardinality(Lost') \in Nat
  BY <1>2, FS_Subset, FS_CardinalityType
<1> QED
  BY <1>3, <1>4 DEF Typed, IssuesRemembered, Lost

\* A step that has a trouble loses at most one.
LEMMA OneLost ==
  ASSUME Typed, IssuesRemembered, NEW i, Lost' \subseteq Lost \cup {i},
         troubles' = troubles + 1
  PROVE  IssuesRemembered'
<1>1. IsFiniteSet(1 .. issues) /\ Lost \subseteq 1 .. issues
  BY FS_Interval DEF Typed, Lost
<1>2. IsFiniteSet(Lost)
  BY <1>1, FS_Subset
<1>3. IsFiniteSet(Lost \cup {i}) /\ Cardinality(Lost \cup {i}) <= Cardinality(Lost) + 1
  <2> HIDE DEF Lost
  <2>1. Cardinality(Lost) \in Nat
    BY <1>2, FS_CardinalityType
  <2>2. IsFiniteSet(Lost \cup {i})
    BY <1>2, FS_AddElement
  <2>3. Cardinality(Lost \cup {i}) = Cardinality(Lost)
        \/ Cardinality(Lost \cup {i}) = Cardinality(Lost) + 1
    BY <1>2, FS_AddElement
  <2> QED
    BY <2>1, <2>2, <2>3
<1>4. Cardinality(Lost') <= Cardinality(Lost \cup {i})
  BY <1>3, FS_Subset
<1>5. /\ Cardinality(Lost) \in Nat /\ Cardinality(Lost') \in Nat
      /\ Cardinality(Lost \cup {i}) \in Nat
  BY <1>2, <1>3, FS_Subset, FS_CardinalityType
<1> QED
  BY <1>3, <1>4, <1>5 DEF Typed, IssuesRemembered, Lost

-----------------------------------------------------------------------------
(* Steps                                                                    *)

LEMMA InitStep == Init => IInv
<1> SUFFICES ASSUME Init
             PROVE  IInv
  OBVIOUS
<1>1. Typed
  BY Constants, EmptySeq DEF Init, Idle, Typed, State
<1>2. \A c \in Commits : Named(c) = {} /\ Len(thread[c]) = 0
  BY <1>1, NamedNone DEF Init
<1>3. Lost = {}
  BY DEF Init, Idle, Lost
<1>4. IssuesRemembered
  BY <1>3, FS_EmptySet DEF Init, Idle, IssuesRemembered, Lost
<1>5. SameBreakage
  BY <1>2 DEF SameBreakage, Commits
<1> QED
  BY <1>1, <1>2, <1>4, <1>5
  DEF Init, Idle, IInv, Threads, Unreported, Knows, Calm, Orderly, OneIssue, None

\* A commit is pushed: the run, if there is one, does not look at it.
LEMMA PushStep ==
  ASSUME IInv, Push
  PROVE  IInv'
<1>1. Typed'
  BY Constants DEF IInv, Typed, Push, github, run
<1>2. Threads' /\ Knows' /\ Lost' = Lost
  BY DEF IInv, Threads, Knows, Push, run, Unreported, Named, Lost
<1>3. Calm'
  BY DEF IInv, Typed, Calm, Orderly, Push, run, Unreported, Named, Frontier, Commits
<1>4. OneIssue'
  BY <1>2, NoneLost DEF IInv, OneIssue, SameBreakage, Push, run, Named
<1> QED
  BY <1>1, <1>2, <1>3, <1>4 DEF IInv

\* Statuses change: none of the threads does.
LEMMA StatusStep ==
  ASSUME IInv, StatusChanges
  PROVE  IInv'
<1>1. Typed'
  BY DEF IInv, Typed, StatusChanges, run
<1>2. Threads' /\ Knows' /\ Calm' /\ Lost' = Lost
  BY DEF IInv, Threads, Knows, Calm, Orderly, StatusChanges, run, Unreported, Named,
         Frontier, Lost
<1>3. OneIssue'
  BY <1>2, NoneLost DEF IInv, OneIssue, SameBreakage, StatusChanges, run, Named
<1> QED
  BY <1>1, <1>2, <1>3 DEF IInv

\* A comment that names no issue.
LEMMA ReportDoneStep ==
  ASSUME IInv, ReportDone
  PROVE  IInv'
<1>1. Typed /\ tip \in Commits
  BY Constants DEF IInv, Typed, Commits
<1>2. PICK d \in Commits : d = tip
  BY <1>1
<1>3. Done \in 1 .. Done /\ Append(<<>>, Done) = <<Done>>
  BY Constants
<1>4. Len(thread[d]) = 0
  BY <1>1, <1>2, NamedNone DEF ReportDone
<1>5. thread' = [thread EXCEPT ![d] = Append(@, Done)]
  BY <1>2, <1>3 DEF ReportDone
<1>6. /\ thread' \in [Commits -> Seq(1 .. Done)]
      /\ Len(thread'[d]) = 1
      /\ \A c \in Commits : c # d => Len(thread'[c]) = Len(thread[c])
  <2>1. /\ thread' \in [Commits -> Seq(1 .. Done)]
        /\ Len(thread'[d]) = Len(thread[d]) + 1
        /\ \A c \in Commits : c # d => Len(thread'[c]) = Len(thread[c])
    BY <1>1, <1>3, <1>5, NamedAppend
  <2>2. Len(thread'[d]) = 1
    BY <1>4, <2>1
  <2> QED
    BY <2>1, <2>2
<1>7. ASSUME NEW c \in Commits
      PROVE  Named(c)' = Named(c)
  BY <1>1, <1>3, <1>5, NamedAppend
<1>8. Typed'
  BY <1>1, <1>6 DEF Typed, ReportDone, run
<1>9. Threads'
  <2>1. \A c \in Commits : Named(c)' \subseteq 1 .. issues
    BY <1>7 DEF IInv, Threads
  <2>2. ASSUME NEW c \in Commits
        PROVE  /\ Len(thread'[c]) <= 2 + troubles
               /\ Len(thread[c]) <= 1 + troubles => Len(thread'[c]) <= 1 + troubles
    <3>1. troubles \in Nat
      BY <1>1, Constants DEF Typed
    <3>2. CASE c = d
      <4>1. Len(thread'[c]) = 1
        BY <1>6, <3>2
      <4> QED
        BY <3>1, <4>1
    <3>3. CASE c # d
      <4>1. Len(thread'[c]) = Len(thread[c])
        BY <1>6, <3>3
      <4>2. Len(thread[c]) <= 2 + troubles
        BY DEF IInv, Threads
      <4> QED
        BY <4>1, <4>2
    <3> QED
      BY <3>2, <3>3
  <2>3. head \in Commits
    BY <1>1, Constants DEF Typed, Commits
  <2> QED
    BY <2>1, <2>2, <2>3 DEF IInv, Threads, Unreported, ReportDone, run
<1>10. Knows' /\ Calm' /\ Lost' = Lost
  <2>1. head \in Commits /\ (head # 0 => head - 1 \in Commits)
    BY <1>1, Constants DEF Typed, Commits
  <2> QED
    BY <1>7, <2>1
    DEF IInv, Knows, Calm, Orderly, ReportDone, run, Unreported, Frontier, Lost
<1>11. OneIssue'
  <2>1. \A c \in 1 .. MaxCommit : c \in Commits /\ c - 1 \in Commits
    BY Constants DEF Commits
  <2>2. SameBreakage'
    BY <1>7, <2>1 DEF IInv, OneIssue, SameBreakage, ReportDone
  <2> QED
    BY <1>1, <1>10, <2>2, NoneLost DEF IInv, OneIssue, ReportDone
<1> QED
  BY <1>8, <1>9, <1>10, <1>11 DEF IInv

\* The run starts on the last commit, and reads its statuses.
LEMMA ReadsStep ==
  ASSUME IInv, RunStarts \/ StatusesFetched
  PROVE  IInv'
<1>1. Typed'
  <2>1. Typed /\ head \in Commits /\ tip \in Commits /\ tip \in 0 .. tip
    BY Constants DEF IInv, Typed, Commits
  <2>2. CASE RunStarts
    BY <2>1, <2>2 DEF Typed, RunStarts, Goes, github
  <2>3. CASE StatusesFetched
    BY <2>1, <2>3 DEF Typed, StatusesFetched, Goes, github
  <2> QED
    BY <2>2, <2>3
<1>2. Threads' /\ Knows' /\ Lost' = Lost
  BY Constants
  DEF IInv, Typed, Threads, Knows, RunStarts, StatusesFetched, Goes, github, Unreported,
      Named, Lost
<1>3. Calm'
  BY DEF IInv, Typed, Calm, Orderly, RunStarts, StatusesFetched, Goes, github,
         Unreported, Named, Frontier
<1>4. OneIssue'
  BY <1>2, NoneLost
  DEF IInv, OneIssue, SameBreakage, RunStarts, StatusesFetched, Goes, github, Named
<1> QED
  BY <1>1, <1>2, <1>3, <1>4 DEF IInv

\* The run reads the comments of its commit: it has none, or ends up with an
\* issue that they name.
LEMMA CommentsStep ==
  ASSUME IInv, CommentsFetched
  PROVE  IInv'
<1>1. Typed /\ issue = None /\ head \in Commits
  <2>1. Typed /\ step = "comments" /\ issue = None /\ head # 0
    BY DEF IInv, Knows, CommentsFetched
  <2> QED
    BY <2>1, Constants DEF Typed, Commits
<1>2. \/ issue' = None /\ Named(head) = {} /\ Len(thread[head]) = 0
      \/ issue' # None /\ issue' \in {Done} \cup Named(head)
  <2>1. PICK c \in Commits : c = head
    BY <1>1
  <2>2. Named(c) \subseteq 1 .. issues
    BY DEF IInv, Threads
  <2>3. 0 \notin 1 .. issues /\ Done # 0
    BY <1>1, Constants DEF Typed
  <2>4. CASE thread[c] = <<>>
    BY <1>1, <2>1, <2>4, NamedNone DEF CommentsFetched
  <2>5. CASE thread[c] # <<>>
    <3>1. issue' \in {Done} \cup Named(c)
      BY <1>1, <2>1, <2>5, NamedNone DEF CommentsFetched
    <3> QED
      BY <2>1, <2>2, <2>3, <3>1 DEF None
  <2> QED
    BY <2>4, <2>5
<1>3. UNCHANGED <<github, troubles, head, state>> /\ step = "comments" /\ step' = "report"
  BY DEF CommentsFetched, Goes
<1>4. issue' \in {None, Done} \cup 1 .. issues
  <2>1. Named(head) \subseteq 1 .. issues
    BY <1>1 DEF IInv, Threads
  <2> QED
    BY <1>2, <2>1
<1>5. Typed'
  BY <1>1, <1>3, <1>4 DEF Typed, github
<1>6. Threads'
  <2>1. Len(thread[head]) = 0 => Len(thread[head]) <= 1 + troubles
    BY <1>1, Constants DEF Typed
  <2> QED
    BY <1>2, <1>3, <2>1 DEF IInv, Threads, github, Unreported, Named
<1>7. Knows'
  BY <1>2, <1>3 DEF IInv, Knows, github, Named
<1>8. Calm'
  BY <1>2, <1>3 DEF IInv, Calm, Orderly, github, Unreported, Named, Frontier
<1>9. Lost' \subseteq Lost
  BY <1>1, <1>3, Constants DEF Typed, Lost, github, Named, None
<1>10. OneIssue'
  BY <1>1, <1>3, <1>9, NoneLost DEF IInv, OneIssue, SameBreakage, github, Named
<1> QED
  BY <1>5, <1>6, <1>7, <1>8, <1>10 DEF IInv

\* The run reads the comments of the parent: it goes on with its issue if it has
\* one.
LEMMA PreviousStep ==
  ASSUME IInv, PreviousFetched
  PROVE  IInv'
<1>1. /\ UNCHANGED <<github, troubles, head, state>> /\ step = "report" /\ step' = "post"
      /\ issue = None /\ state = "failure" /\ issue' = IssueUrl(head - 1)
  BY DEF PreviousFetched, Goes, Broken, Previous
<1>2. Typed /\ head # 0 /\ head \in Commits /\ head - 1 \in Commits
  BY <1>1, Constants DEF IInv, Typed, Knows, Commits
<1>3. PICK c \in Commits : c = head - 1
  BY <1>2
<1>4. IF Named(c) = {} THEN issue' = None ELSE issue' \in Named(c)
  BY <1>1, <1>2, <1>3, IssueUrlProperties
<1>5. Named(c) \subseteq 1 .. issues
  BY DEF IInv, Threads
<1>6. issue' # Done /\ issue' \in {None} \cup 1 .. issues
  <2>1. Done \notin 1 .. issues /\ Done # None
    BY <1>2, Constants DEF Typed, Done, None
  <2> QED
    BY <1>4, <1>5, <2>1
<1>7. Typed'
  BY <1>1, <1>2, <1>6 DEF Typed, github
<1>8. Threads' /\ Knows'
  BY <1>1, <1>2, <1>6 DEF IInv, Threads, Knows, github, Unreported, Named
<1>9. Calm'
  <2>1. ASSUME troubles = 0
        PROVE  Named(head - 1) \subseteq {issue'}
    BY <1>3, <1>4, <2>1 DEF IInv, Calm, Orderly
  <2> QED
    BY <1>1, <2>1 DEF IInv, Calm, Orderly, github, Unreported, Named, Frontier
<1>10. Lost' \subseteq Lost
  BY <1>1, <1>2, Constants DEF Typed, Lost, github, Named, None
<1>11. OneIssue'
  BY <1>1, <1>2, <1>10, NoneLost DEF IInv, OneIssue, SameBreakage, github, Named
<1> QED
  BY <1>7, <1>8, <1>9, <1>11 DEF IInv

\* The issue of the parent gets a comment.
LEMMA StillBrokenStep ==
  ASSUME IInv, StillBroken
  PROVE  IInv'
<1>1. Typed'
  BY DEF IInv, Typed, StillBroken, Goes, github
<1>2. Threads' /\ Knows' /\ Calm' /\ Lost' = Lost
  BY DEF IInv, Threads, Knows, Calm, Orderly, StillBroken, Goes, github, Unreported,
         Named, Frontier, Lost
<1>3. OneIssue'
  BY <1>2, NoneLost DEF IInv, OneIssue, SameBreakage, StillBroken, Goes, github, Named
<1> QED
  BY <1>1, <1>2, <1>3 DEF IInv

\* An issue is opened: the run knows it, or its answer is lost and nobody does.
LEMMA OpenStep ==
  ASSUME IInv, IssueOpened
  PROVE  IInv'
<1>1. /\ UNCHANGED <<tip, ci, thread, head, state>> /\ issues' = issues + 1
      /\ step = "post" /\ issue = None
      /\ \/ step' = "remember" /\ issue' = issues + 1 /\ troubles' = troubles
         \/ step' = step /\ issue' = issue /\ troubles' = troubles + 1
      /\ issues < MaxIssue
  BY DEF IssueOpened, Trouble
<1>2. Typed /\ issues \in Nat /\ troubles \in Nat /\ head \in Commits
  BY Constants DEF IInv, Typed, Commits
<1>3. Typed'
  BY <1>1, <1>2, Constants DEF Typed, IssueOpened, Trouble
<1>4. issues + 1 # Done /\ issues + 1 # None
  BY <1>1, <1>2, Constants DEF Done, None
<1>5. Threads'
  <2>1. 1 .. issues \subseteq 1 .. issues'
    BY <1>1, <1>2
  <2>2. \A c \in Commits : Len(thread[c]) \in Nat
    BY <1>2, LenProperties DEF Typed
  <2>3. \A c \in Commits : Len(thread'[c]) <= 2 + troubles'
    BY <1>1, <1>2, <2>2 DEF IInv, Threads
  <2>4. Len(thread'[head']) <= 1 + troubles'
    BY <1>1, <1>2, <2>2 DEF IInv, Threads, Unreported
  <2> QED
    BY <1>1, <2>1, <2>3, <2>4 DEF IInv, Threads, Named
<1>6. Knows'
  BY <1>1, <1>4 DEF IInv, Knows
<1>7. Calm' /\ SameBreakage'
  <2>1. CASE troubles' = troubles
    <3>1. ASSUME troubles = 0
          PROVE  Named(head - 1) = {}
      <4>1. head - 1 \in Commits
        BY <1>1, <1>2, Constants DEF IInv, Typed, Knows, Commits
      <4>2. Named(head - 1) \subseteq 1 .. issues /\ 0 \notin 1 .. issues
        BY <1>2, <4>1 DEF IInv, Threads
      <4> QED
        BY <1>1, <3>1, <4>2 DEF IInv, Calm, Orderly, None
    <3>2. Calm'
      BY <1>1, <2>1, <3>1
      DEF IInv, Calm, Orderly, Unreported, Named, Frontier
    <3> QED
      BY <1>1, <2>1, <3>2 DEF IInv, OneIssue, SameBreakage, Named
  <2>2. CASE troubles' = troubles + 1
    <3>1. troubles' # 0
      BY <1>2, <2>2
    <3> QED
      BY <3>1 DEF Calm, SameBreakage
  <2> QED
    BY <1>1, <2>1, <2>2
<1>8. IssuesRemembered'
  <2>1. CASE troubles' = troubles
    <3>1. Lost' \subseteq Lost
      BY <1>1, <1>2, <2>1 DEF Lost, Named, None
    <3> QED
      BY <1>2, <2>1, <3>1, NoneLost DEF IInv, OneIssue
  <2>2. CASE troubles' = troubles + 1
    <3>1. PICK i : i = issues + 1
      OBVIOUS
    <3>2. Lost' \subseteq Lost \cup {i}
      BY <1>1, <1>2, <2>2, <3>1 DEF Lost, Named, None
    <3> QED
      BY <1>2, <2>2, <3>2, OneLost DEF IInv, OneIssue
  <2> QED
    BY <1>1, <2>1, <2>2
<1> QED
  BY <1>3, <1>5, <1>6, <1>7, <1>8 DEF IInv, OneIssue

\* The issue is remembered on the commit, once or more often.
LEMMA RememberStep ==
  ASSUME IInv, Remembered
  PROVE  IInv'
<1>1. /\ UNCHANGED <<tip, ci, issues>>
      /\ thread' = [thread EXCEPT ![head] = Append(@, issue)]
      /\ step = "remember"
      /\ \/ /\ step' = "idle" /\ head' = 0 /\ state' = "pending" /\ issue' = None
            /\ troubles' = troubles
         \/ /\ UNCHANGED <<step, head, state, issue>>
            /\ troubles' = troubles + 1
  BY DEF Remembered, Ends, Trouble, run
<1>2. /\ Typed /\ troubles \in Nat /\ head \in Commits /\ head \in Nat \ {0}
      /\ head <= tip /\ issue \in 1 .. issues /\ issue # Done /\ issue \in 1 .. Done
  BY <1>1, Constants DEF IInv, Typed, Knows, Commits, Done
<1>3. PICK d \in Commits, e \in 1 .. Done : d = head /\ e = issue
  BY <1>2
<1>4. /\ thread' \in [Commits -> Seq(1 .. Done)]
      /\ Len(thread'[d]) = Len(thread[d]) + 1
      /\ \A c \in Commits : c # d => Len(thread'[c]) = Len(thread[c])
  BY <1>1, <1>2, <1>3, NamedAppend
<1>5. Named(d)' = Named(d) \cup {e}
  <2>1. Named(d)' = Named(d) \cup ({e} \ {Done})
    BY <1>1, <1>2, <1>3, NamedAppend
  <2> QED
    BY <1>2, <1>3, <2>1
<1>6. ASSUME NEW c \in Commits, c # d
      PROVE  Named(c)' = Named(c)
  BY <1>1, <1>2, <1>3, <1>6, NamedAppend
<1>7. Typed'
  <2>1. troubles' \in 0 .. MaxTrouble
    BY <1>2, Constants DEF Typed, Remembered, Trouble
  <2>2. /\ step' \in {"idle", "statuses", "comments", "report", "post", "remember"}
        /\ head' \in 0 .. tip /\ state' \in State /\ issue' \in {None, Done} \cup 1 .. issues
    BY <1>1, <1>2 DEF Typed, State
  <2> QED
    BY <1>1, <1>2, <1>4, <2>1, <2>2 DEF Typed
<1>8. Threads'
  <2>1. ASSUME NEW c \in Commits
        PROVE  Named(c)' \subseteq 1 .. issues
    BY <1>2, <1>3, <1>5, <1>6 DEF IInv, Threads
  <2>2. \A c \in Commits : Len(thread[c]) \in Nat
    BY <1>2, LenProperties DEF Typed
  <2>3. Len(thread[d]) <= 1 + troubles
    BY <1>1, <1>3 DEF IInv, Threads, Unreported
  <2>4. Len(thread'[d]) <= 2 + troubles
    BY <1>2, <1>4, <2>2, <2>3
  <2>5. ASSUME NEW c \in Commits
        PROVE  Len(thread'[c]) <= 2 + troubles
    <3>1. CASE c = d
      BY <2>4, <3>1
    <3>2. CASE c # d
      <4>1. Len(thread'[c]) = Len(thread[c])
        BY <1>4, <3>2
      <4> QED
        BY <4>1 DEF IInv, Threads
    <3> QED
      BY <3>1, <3>2
  <2>6. CASE troubles' = troubles + 1 /\ head' = head
    <3>1. Len(thread'[head']) <= 1 + troubles'
      BY <1>2, <1>3, <2>4, <2>6
    <3>2. ASSUME NEW c \in Commits
          PROVE  Len(thread'[c]) <= 2 + troubles'
      <4>1. Len(thread'[c]) \in Nat
        BY <1>4, LenProperties
      <4> QED
        BY <1>2, <2>5, <2>6, <4>1
    <3> QED
      BY <1>1, <2>1, <3>1, <3>2 DEF Threads
  <2>7. CASE troubles' = troubles /\ step' = "idle"
    BY <1>1, <2>1, <2>5, <2>7 DEF Threads, Unreported
  <2> QED
    BY <1>1, <2>6, <2>7
<1>9. Knows'
  BY <1>1, <1>2, <1>3, <1>5 DEF IInv, Knows
<1>10. Calm' /\ SameBreakage'
  <2>1. CASE troubles' = troubles + 1
    <3>1. troubles' # 0
      BY <1>2, <2>1
    <3> QED
      BY <3>1 DEF Calm, SameBreakage
  <2>2. CASE troubles' = troubles /\ step' = "idle"
    <3> SUFFICES ASSUME troubles = 0
                 PROVE  Orderly' /\ SameBreakage'
      BY <2>2 DEF Calm, SameBreakage
    <3>1. Orderly /\ SameBreakage
      BY DEF IInv, Calm, OneIssue
    <3>2. Named(d) = {} /\ Named(d)' = {e} /\ Named(d - 1) \subseteq {e}
      BY <1>1, <1>3, <1>5, <3>1 DEF Orderly, Unreported
    <3>3. \A c \in Commits : \A i, j \in Named(c)' : i = j
      BY <1>6, <3>1, <3>2 DEF Orderly
    <3>4. ASSUME NEW c \in Commits, c > d
          PROVE  Named(c)' = {}
      BY <1>1, <1>2, <1>3, <1>6, <3>1, <3>4 DEF Orderly, Frontier, Commits
    <3>5. Orderly'
      <4>1. \A c \in Commits : c > tip => c > d
        BY <1>2, <1>3, Constants DEF Typed, Commits
      <4> QED
        BY <1>1, <2>2, <3>3, <3>4, <4>1 DEF Orderly, Frontier, Unreported
    <3>6. ASSUME NEW c \in 1 .. MaxCommit
          PROVE  Named(c)' # {} /\ Named(c - 1)' # {} => Named(c)' = Named(c - 1)'
      <4>1. c \in Commits /\ c - 1 \in Commits /\ c \in Int
        BY Constants DEF Commits
      <4>2. CASE c = d
        BY <1>6, <3>2, <4>1, <4>2
      <4>3. CASE c - 1 = d
        BY <3>4, <4>1, <4>3
      <4>4. CASE c # d /\ c - 1 # d
        BY <1>6, <3>1, <4>1, <4>4, <2>2 DEF SameBreakage
      <4> QED
        BY <4>2, <4>3, <4>4
    <3> QED
      BY <3>5, <3>6 DEF SameBreakage
  <2> QED
    BY <1>1, <2>1, <2>2
<1>11. IssuesRemembered'
  <2>1. ASSUME NEW i \in Lost'
        PROVE  i \in Lost /\ i # e
    <3>1. i \in 1 .. issues /\ \A c \in Commits : i \notin Named(c)'
      BY <1>1, <2>1 DEF Lost
    <3>2. i # e /\ \A c \in Commits : i \notin Named(c)
      BY <1>5, <1>6, <3>1
    <3> QED
      BY <1>3, <3>1, <3>2 DEF Lost
  <2>2. CASE troubles' = troubles
    BY <1>2, <2>1, <2>2, NoneLost DEF IInv, OneIssue
  <2>3. CASE troubles' = troubles + 1
    <3>1. Lost' \subseteq Lost \cup {e}
      BY <2>1
    <3> QED
      BY <1>2, <2>3, <3>1, OneLost DEF IInv, OneIssue
  <2> QED
    BY <1>1, <2>2, <2>3
<1> QED
  BY <1>7, <1>8, <1>9, <1>10, <1>11 DEF IInv, OneIssue

\* The run ends: its commit is not broken, or has its comment.
LEMMA EndStep ==
  ASSUME IInv, RunEnds
  PROVE  IInv'
<1>1. /\ UNCHANGED <<github, troubles>> /\ step = "report" /\ step' = "idle"
      /\ head' = 0 /\ state' = "pending" /\ issue' = None
  BY DEF RunEnds, Ends
<1>2. Typed /\ head \in Commits /\ head <= tip
  BY Constants DEF IInv, Typed, Commits
<1>3. Typed'
  BY <1>1, <1>2, Constants DEF Typed, github, State
<1>4. Threads' /\ Knows'
  BY <1>1 DEF IInv, Threads, Knows, github, Unreported, Named
<1>5. Calm'
  <2>1. \A c \in Commits : c > tip => c > head
    BY <1>2, Constants DEF Typed, Commits
  <2> QED
    BY <1>1, <2>1 DEF IInv, Calm, Orderly, github, Unreported, Named, Frontier
<1>6. Lost' \subseteq Lost
  <2>1. issue \in {None, Done} \cup Named(head)
    BY <1>1 DEF IInv, Knows
  <2>2. None \notin 1 .. issues /\ Done \notin 1 .. issues
    BY <1>2, Constants DEF Typed, None, Done
  <2> QED
    BY <1>1, <1>2, <2>1, <2>2 DEF Lost, github, Named
<1>7. OneIssue'
  BY <1>1, <1>2, <1>6, NoneLost DEF IInv, OneIssue, SameBreakage, github, Named
<1> QED
  BY <1>3, <1>4, <1>5, <1>7 DEF IInv

\* The run is abandoned: the issue it knows may be lost with it.
LEMMA AbandonStep ==
  ASSUME IInv, RunAbandoned
  PROVE  IInv'
<1>1. /\ UNCHANGED github /\ troubles' = troubles + 1 /\ step' = "idle"
      /\ head' = 0 /\ state' = "pending" /\ issue' = None /\ troubles < MaxTrouble
  BY DEF RunAbandoned, Ends, Trouble
<1>2. Typed /\ troubles \in Nat
  BY Constants DEF IInv, Typed
<1>3. Typed'
  BY <1>1, <1>2, Constants DEF Typed, github, State
<1>4. Threads'
  <2>1. \A c \in Commits : Len(thread[c]) \in Nat
    BY <1>2, LenProperties DEF Typed
  <2>2. \A c \in Commits : Len(thread[c]) <= 2 + troubles'
    BY <1>1, <1>2, <2>1 DEF IInv, Threads
  <2> QED
    BY <1>1, <2>2 DEF IInv, Threads, github, Unreported, Named
<1>5. Knows'
  BY <1>1 DEF Knows
<1>6. Calm' /\ SameBreakage'
  <2>1. troubles' # 0
    BY <1>1, <1>2
  <2> QED
    BY <2>1 DEF Calm, SameBreakage
<1>7. IssuesRemembered'
  <2>1. PICK i : i = issue
    OBVIOUS
  <2>2. Lost' \subseteq Lost \cup {i}
    BY <1>1, <2>1 DEF Lost, github, Named
  <2> QED
    BY <1>1, <1>2, <2>2, OneLost DEF IInv, OneIssue
<1> QED
  BY <1>3, <1>4, <1>5, <1>6, <1>7 DEF IInv, OneIssue

LEMMA NextStep == IInv /\ [Next]_vars => IInv'
<1> SUFFICES ASSUME IInv, [Next]_vars
             PROVE  IInv'
  OBVIOUS
<1>1. CASE RunStep
  BY <1>1, ReadsStep, CommentsStep, PreviousStep, StillBrokenStep, OpenStep,
     RememberStep, EndStep
  DEF RunStep
<1>2. CASE UNCHANGED vars
  <2>1. Typed' /\ Threads' /\ Knows' /\ Calm' /\ Lost' = Lost /\ UNCHANGED troubles
    BY <1>2
    DEF IInv, Typed, Threads, Knows, Calm, Orderly, vars, github, run, Unreported,
        Named, Frontier, Lost
  <2>2. OneIssue'
    BY <1>2, <2>1, NoneLost
    DEF IInv, OneIssue, SameBreakage, vars, github, Named
  <2> QED
    BY <2>1, <2>2 DEF IInv
<1> QED
  BY <1>1, <1>2, PushStep, StatusStep, ReportDoneStep, AbandonStep DEF Next

-----------------------------------------------------------------------------
(* Results                                                                  *)

\* The invariant holds throughout.
THEOREM Invariant == Spec => []IInv
  BY InitStep, NextStep, PTL DEF Spec

\* No thread outgrows the troubles, and the run is where it says (core.py:366-422).
THEOREM TypeCorrect == Spec => []TypeOK
<1>1. IInv => TypeOK
  <2> SUFFICES ASSUME IInv
               PROVE  TypeOK
    OBVIOUS
  <2>1. Typed /\ MaxTrouble + 2 \in Nat
    BY Constants DEF IInv
  <2>2. ASSUME NEW c \in Commits
        PROVE  thread[c] \in BoundedSeq(1 .. Done, MaxTrouble + 2)
    <3>1. thread[c] \in Seq(1 .. Done)
      BY <2>1 DEF Typed
    <3>2. Len(thread[c]) \in Nat /\ thread[c] \in [1 .. Len(thread[c]) -> 1 .. Done]
      BY <3>1, LenProperties
    <3>3. Len(thread[c]) <= 2 + troubles
      BY DEF IInv, Threads
    <3>4. Len(thread[c]) \in 0 .. MaxTrouble + 2
      BY <2>1, <3>2, <3>3, Constants DEF Typed
    <3> QED
      BY <3>2, <3>4 DEF BoundedSeq, SeqOf
  <2>3. thread \in [Commits -> BoundedSeq(1 .. Done, MaxTrouble + 2)]
    BY <2>1, <2>2 DEF Typed
  <2> QED
    BY <2>1, <2>3 DEF IInv, Typed, TypeOK, Knows
<1> QED
  BY <1>1, Invariant, PTL

\* An issue that no commit remembers costs a lost answer or an abandoned run, and
\* without those a commit goes to the issue of its parent (core.py:366-422).
THEOREM OneIssuePerBreakage == Spec => []OneIssue
<1>1. IInv => OneIssue
  BY DEF IInv
<1> QED
  BY <1>1, Invariant, PTL
=============================================================================
