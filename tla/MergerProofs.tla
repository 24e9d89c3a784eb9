---------------------------- MODULE MergerProofs ----------------------------
(* What MergerExtension guarantees for any number of commits, seconds,       *)
(* comments and troubles: it merges what was green and acknowledged, unless  *)
(* it was overtaken, and answers an OPM once.                                *)
EXTENDS Merger, SequenceTheorems, WellFoundedInduction, TLAPS

-----------------------------------------------------------------------------
(* The inductive invariant                                                  *)

Comment == [kind : {"opm", "processed"}, date : Nat]

\* TypeOK, with the dates of comments left to Dated.
Typed ==
    /\ clock \in Times
    /\ tip \in Commits /\ last \in 0 .. tip /\ merged \in 0 .. tip
    /\ date \in [Commits -> 1 .. clock]
    /\ ci \in [Commits -> State]
    /\ {branch, wip, title, reported, overtaken} \subseteq BOOLEAN
    /\ comments \in Seq(Comment) /\ Len(comments) <= MaxComment
    /\ step \in {"idle", "commits", "statuses", "comments", "merger", "combined", "merge",
                 "delete"}
    /\ {opm, processed} \subseteq 0 .. clock
    /\ troubles \in 0 .. MaxTrouble

\* Comments come in the order of their dates.
Dated ==
    /\ \A i \in 1 .. Len(comments) : comments[i].date \in 1 .. clock
    /\ \A i, j \in 1 .. Len(comments) : i <= j => comments[i].date <= comments[j].date

\* Somebody acknowledged the pull request at a date.
AcknowledgedAt(d) ==
    \E i \in 1 .. Len(comments) : comments[i].kind = "opm" /\ comments[i].date = d

\* The commit of the run is the last one, green when the merge is requested, and
\* acknowledged.
Vetted ==
    /\ step \in {"statuses", "comments", "merger", "combined", "merge"} =>
           last # 0 /\ (overtaken \/ last = tip)
    /\ step = "merge" => overtaken \/ ci[last] = "success"
    /\ step \in {"merger", "combined", "merge"} /\ opm # 0 =>
           AcknowledgedAt(opm) /\ opm >= date[last]
    /\ step \in {"combined", "merge"} => opm # 0

\* The run knows of every answer, since it is the only one to give any.
KnowsAnswers ==
    step = "merger" /\ troubles = 0 =>
        \A i \in 1 .. Len(comments) : comments[i].kind = "processed" =>
            comments[i].date <= processed

\* A branch goes only once it is merged.
KeepsBranch == (branch \/ merged # 0) /\ (step = "delete" => merged # 0)

IInv == Typed /\ Dated /\ Vetted /\ KnowsAnswers /\ KeepsBranch /\ AnsweredOnce

-----------------------------------------------------------------------------
(* Comments                                                                 *)

LEMMA Constants ==
  /\ MaxCommit \in Nat \ {0} /\ MaxClock \in Nat \ {0}
  /\ MaxComment \in Nat /\ MaxTrouble \in Nat
  BY MergerAssumption

LEMMA Domain == Typed => Len(comments) \in Nat /\ DOMAIN comments = 1 .. Len(comments)
  BY LenProperties DEF Typed

\* Some comments have a last one.
LEMMA LastOf ==
  ASSUME NEW n \in Nat, NEW of \in SUBSET (1 .. n), of # {}
  PROVE  \E m \in of : \A i \in of : m >= i
<1> DEFINE Left == {n - i : i \in of}
<1>1. Left \in SUBSET Nat /\ Left # {}
  <2>1. \A i \in of : n - i \in Nat
    OBVIOUS
  <2>2. Left # {}
    OBVIOUS
  <2> QED
    BY <2>1, <2>2
<1>2. PICK d \in Left : \A e \in Left : ~(<<e, d>> \in OpToRel(<, Nat))
  <2> HIDE DEF Left
  <2> QED
    BY <1>1, NatLessThanWellFounded, WFMin
<1>3. OpToRel(<, Nat) = {ss \in Nat \X Nat : ss[1] < ss[2]}
  BY Zenon DEF OpToRel
<1>4. PICK m \in of : d = n - m
  OBVIOUS
<1>5. ASSUME NEW i \in of PROVE m >= i
  <2>1. n - i \in Left /\ n - i \in Nat /\ d \in Nat
    OBVIOUS
  <2>2. PICK e \in Left : e = n - i
    BY <2>1
  <2>3. <<e, d>> \in Nat \X Nat /\ <<e, d>>[1] = e /\ <<e, d>>[2] = d
    BY <2>1, <2>2
  <2>4. ~(e < d)
    BY <1>2, <1>3, <2>3
  <2> QED
    BY <1>4, <2>1, <2>2, <2>4
<1> QED
  BY <1>5

\* The date of the last of some comments is the latest.
LEMMA LastDateProperties ==
  ASSUME Typed, Dated, NEW of \in SUBSET DOMAIN comments
  PROVE  /\ LastDate(of) \in 0 .. clock
         /\ LastDate(of) # 0 => \E i \in of : comments[i].date = LastDate(of)
         /\ \A i \in of : comments[i].date <= LastDate(of)
<1>1. Len(comments) \in Nat /\ DOMAIN comments = 1 .. Len(comments) /\ clock \in Nat
  BY Domain, Constants DEF Typed, Times
<1>2. CASE of = {}
  BY <1>1, <1>2 DEF LastDate
<1>3. CASE of # {}
  <2>1. LastDate(of) = comments[Max(of)].date
    BY <1>3 DEF LastDate
  <2>2. PICK m \in of : \A i \in of : m >= i
    BY <1>1, <1>3, LastOf
  <2>3. Max(of) \in of /\ \A i \in of : Max(of) >= i
    BY <2>2 DEF Max
  <2>4. PICK k \in of : k = Max(of)
    BY <2>3
  <2>5. k \in 1 .. Len(comments) /\ comments[k].date \in 1 .. clock
    BY <1>1, <2>4 DEF Dated
  <2>6. ASSUME NEW i \in of
        PROVE  comments[i].date <= comments[k].date
    <3>1. i \in 1 .. Len(comments) /\ i <= k
      BY <1>1, <2>3, <2>4
    <3> QED
      BY <2>5, <3>1 DEF Dated
  <2> QED
    BY <1>1, <2>1, <2>4, <2>5, <2>6
<1> QED
  BY <1>2, <1>3

\* A comment comes last, with the date of the day.
LEMMA CommentAdded ==
  ASSUME Typed, Dated, NEW kind \in {"opm", "processed"},
         comments' = Append(comments, Says(kind)), clock' = clock
  PROVE  /\ comments' \in Seq(Comment)
         /\ Len(comments') = Len(comments) + 1
         /\ comments'[Len(comments) + 1] = Says(kind)
         /\ \A i \in 1 .. Len(comments) : comments'[i] = comments[i]
         /\ Dated'
<1>1. Len(comments) \in Nat /\ clock \in 1 .. clock /\ clock \in Nat
  BY Domain, Constants DEF Typed, Times
<1>2. Says(kind) \in Comment /\ Says(kind).date = clock
  BY <1>1 DEF Says, Comment
<1>3. /\ comments' \in Seq(Comment)
      /\ Len(comments') = Len(comments) + 1
      /\ comments'[Len(comments) + 1] = Says(kind)
      /\ \A i \in 1 .. Len(comments) : comments'[i] = comments[i]
  BY <1>2, AppendProperties DEF Typed
<1>4. ASSUME NEW i \in 1 .. Len(comments')
      PROVE  /\ comments'[i].date \in 1 .. clock
             /\ i \in 1 .. Len(comments) \/ (i = Len(comments) + 1 /\ comments'[i].date = clock)
  <2>1. i \in 1 .. Len(comments) \/ i = Len(comments) + 1
    BY <1>1, <1>3
  <2>2. CASE i \in 1 .. Len(comments)
    BY <1>3, <2>2 DEF Dated
  <2>3. CASE i = Len(comments) + 1
    BY <1>1, <1>2, <1>3, <2>3
  <2> QED
    BY <2>1, <2>2, <2>3
<1>5. ASSUME NEW i \in 1 .. Len(comments'), NEW j \in 1 .. Len(comments'), i <= j
      PROVE  comments'[i].date <= comments'[j].date
  <2>1. CASE j = Len(comments) + 1 /\ comments'[j].date = clock
    <3>1. comments'[i].date \in 1 .. clock
      BY <1>4
    <3> QED
      BY <1>1, <2>1, <3>1
  <2>2. CASE j \in 1 .. Len(comments)
    <3>1. i \in 1 .. Len(comments)
      BY <1>1, <1>3, <1>5, <2>2
    <3>2. comments'[i] = comments[i] /\ comments'[j] = comments[j]
      BY <1>3, <2>2, <3>1
    <3>3. comments[i].date <= comments[j].date
      BY <1>5, <2>2, <3>1 DEF Dated
    <3> QED
      BY <3>2, <3>3
  <2> QED
    BY <1>4, <2>1, <2>2
<1>6. Dated'
  BY <1>4, <1>5 DEF Dated
<1> QED
  BY <1>3, <1>6

-----------------------------------------------------------------------------
(* Steps                                                                    *)

LEMMA InitStep == Init => IInv
<1> SUFFICES ASSUME Init
             PROVE  IInv
  OBVIOUS
<1>1. comments \in Seq(Comment) /\ Len(comments) = 0 /\ DOMAIN comments = {}
  BY EmptySeq DEF Init
<1>2. Typed
  <2>1. clock \in Times /\ tip \in Commits /\ last \in 0 .. tip /\ merged \in 0 .. tip
    BY Constants DEF Init, Times, Commits
  <2>2. date \in [Commits -> 1 .. clock] /\ ci \in [Commits -> State]
    BY DEF Init, State
  <2>3. {branch, wip, title, reported, overtaken} \subseteq BOOLEAN
    BY DEF Init
  <2> QED
    BY <1>1, <2>1, <2>2, <2>3, Constants DEF Init, Typed
<1>3. Dated /\ Vetted /\ KnowsAnswers /\ KeepsBranch
  BY <1>1 DEF Init, Dated, Vetted, KnowsAnswers, KeepsBranch
<1>4. AnsweredOnce
  BY <1>1 DEF AnsweredOnce, Answers
<1> QED
  BY <1>2, <1>3, <1>4 DEF IInv

\* Time passes, a status or the title changes.
LEMMA AroundStep ==
  ASSUME IInv, Tick \/ StatusChanges \/ Retitle
  PROVE  IInv'
<1>1. /\ UNCHANGED <<tip, date, merged, branch, comments, step, last, opm, processed,
                     troubles, title, reported>>
      /\ clock' = clock \/ (clock' = clock + 1 /\ clock < MaxClock)
      /\ overtaken => overtaken'
  <2>1. CASE Tick
    BY <2>1 DEF Tick, pull, read
  <2>2. CASE StatusChanges
    BY <2>2 DEF StatusChanges, read
  <2>3. CASE Retitle
    BY <2>3 DEF Retitle, read
  <2> QED
    BY <2>1, <2>2, <2>3
<1>2. clock \in Nat /\ clock' \in Times /\ clock <= clock'
  BY <1>1, Constants DEF IInv, Typed, Times
<1>3. Typed'
  <2>1. 1 .. clock \subseteq 1 .. clock' /\ 0 .. clock \subseteq 0 .. clock'
    BY <1>2, Constants DEF Times
  <2>2. date \in [Commits -> 1 .. clock']
    BY <2>1 DEF IInv, Typed
  <2>3. ci' \in [Commits -> State] /\ {wip', overtaken'} \subseteq BOOLEAN
    BY DEF IInv, Typed, Tick, StatusChanges, Retitle, pull, read
  <2>4. {opm', processed'} \subseteq 0 .. clock'
    BY <1>1, <2>1 DEF IInv, Typed
  <2>5. /\ comments' \in Seq(Comment) /\ Len(comments') <= MaxComment
        /\ tip' \in Commits /\ last' \in 0 .. tip' /\ merged' \in 0 .. tip'
    BY <1>1 DEF IInv, Typed
  <2> QED
    BY <1>1, <1>2, <2>2, <2>3, <2>4, <2>5 DEF IInv, Typed
<1>4. Dated'
  BY <1>1, <1>2, Constants DEF IInv, Dated, Times
<1>5. Vetted'
  <2>1. step = "merge" => overtaken' \/ ci'[last] = "success"
    BY DEF IInv, Vetted, Typed, Tick, StatusChanges, Retitle, pull, read
  <2> QED
    BY <1>1, <2>1 DEF IInv, Vetted, AcknowledgedAt
<1>6. KnowsAnswers' /\ KeepsBranch' /\ AnsweredOnce'
  BY <1>1 DEF IInv, KnowsAnswers, KeepsBranch, AnsweredOnce, Answers
<1> QED
  BY <1>3, <1>4, <1>5, <1>6 DEF IInv

\* A commit is pushed: the run is overtaken.
LEMMA PushStep ==
  ASSUME IInv, Push
  PROVE  IInv'
<1>1. /\ UNCHANGED <<clock, ci, merged, branch, wip, comments, step, last, title, reported,
                     opm, processed, troubles>>
      /\ tip < MaxCommit /\ tip' = tip + 1
      /\ \E authored \in 1 .. clock : date' = [date EXCEPT ![tip'] = authored]
      /\ overtaken' = (step # "idle")
  BY DEF Push, read
<1>2. Typed /\ tip \in Nat /\ last \in Nat /\ last <= tip /\ tip' \in Commits
  BY <1>1, Constants DEF IInv, Typed, Commits
<1>3. Typed'
  <2>1. 0 .. tip \subseteq 0 .. tip'
    BY <1>1, <1>2
  <2> QED
    BY <1>1, <1>2, <2>1 DEF Typed
<1>4. last \in Commits => date'[last] = date[last]
  BY <1>1, <1>2 DEF Typed
<1>5. Vetted'
  <2>1. last # 0 => last \in Commits
    BY <1>2, Constants DEF Typed, Commits
  <2> QED
    BY <1>1, <1>4, <2>1 DEF IInv, Vetted, AcknowledgedAt
<1>6. Dated' /\ KnowsAnswers' /\ KeepsBranch' /\ AnsweredOnce'
  BY <1>1 DEF IInv, Dated, KnowsAnswers, KeepsBranch, AnsweredOnce, Answers
<1> QED
  BY <1>3, <1>5, <1>6 DEF IInv

\* An OPM leaves what is there in its place.
LEMMA AcknowledgeStep ==
  ASSUME IInv, Acknowledge
  PROVE  IInv'
<1>1. /\ UNCHANGED <<clock, tip, date, ci, merged, branch, wip, step, last, title,
                     reported, opm, processed, overtaken, troubles>>
      /\ Len(comments) < MaxComment /\ comments' = Append(comments, Says("opm"))
  BY DEF Acknowledge, read
<1>2. Typed /\ Dated /\ Len(comments) \in Nat
  BY Domain DEF IInv
<1>3. /\ comments' \in Seq(Comment)
      /\ Len(comments') = Len(comments) + 1
      /\ comments'[Len(comments) + 1] = Says("opm")
      /\ \A i \in 1 .. Len(comments) : comments'[i] = comments[i]
      /\ Dated'
  BY <1>1, <1>2, CommentAdded
<1>4. Typed'
  BY <1>1, <1>2, <1>3, Constants DEF Typed
<1>5. ASSUME NEW i \in 1 .. Len(comments')
      PROVE  comments'[i].kind = "processed" =>
                 i \in 1 .. Len(comments) /\ comments'[i] = comments[i]
  <2>1. i \in 1 .. Len(comments) \/ i = Len(comments) + 1
    BY <1>2, <1>3
  <2> QED
    BY <1>3, <2>1 DEF Says
<1>6. Vetted'
  <2>1. 1 .. Len(comments) \subseteq 1 .. Len(comments')
    BY <1>2, <1>3
  <2>2. AcknowledgedAt(opm) => AcknowledgedAt(opm)'
    BY <1>1, <1>3, <2>1 DEF AcknowledgedAt
  <2> QED
    BY <1>1, <2>2 DEF IInv, Vetted
<1>7. KnowsAnswers' /\ KeepsBranch'
  BY <1>1, <1>5 DEF IInv, KnowsAnswers, KeepsBranch
<1>8. AnsweredOnce'
  <2>1. SUFFICES ASSUME NEW i \in Answers', NEW j \in Answers', i < j, troubles = 0
                 PROVE  \E k \in 1 .. j : comments'[k].kind = "opm"
                                          /\ comments'[k].date >= comments'[i].date
    BY <1>1 DEF AnsweredOnce
  <2>2. DOMAIN comments' = 1 .. Len(comments') /\ DOMAIN comments = 1 .. Len(comments)
    BY <1>2, <1>3, LenProperties, Domain
  <2>3. /\ i \in Answers /\ j \in Answers /\ j \in 1 .. Len(comments)
        /\ comments'[i] = comments[i]
    BY <1>5, <2>1, <2>2 DEF Answers
  <2>4. PICK k \in 1 .. j : comments[k].kind = "opm" /\ comments[k].date >= comments[i].date
    BY <2>1, <2>3 DEF IInv, AnsweredOnce
  <2>5. k \in 1 .. Len(comments)
    BY <1>2, <2>3, <2>4
  <2> QED
    BY <1>3, <2>3, <2>4, <2>5
<1> QED
  BY <1>3, <1>4, <1>6, <1>7, <1>8 DEF IInv

\* The run goes on to the commits, the statuses, the comments, or the merge.
LEMMA ReadsStep ==
  ASSUME IInv,
         RunStarts \/ CommitsFetched \/ StatusesFetched \/ CombinedStatusAsked
           \/ (CombinedStatusFetched /\ step' = "merge")
  PROVE  IInv'
<1> USE DEF RunStarts, CommitsFetched, StatusesFetched, CombinedStatusAsked,
            CombinedStatusFetched, Goes, pull, read
<1>1. /\ UNCHANGED <<clock, tip, date, ci, merged, branch, wip, comments, opm, processed,
                     troubles>>
      /\ step' # "merger"
      /\ step' # "delete"
  BY DEF Ends
<1>2. Typed /\ tip \in 0 .. tip /\ tip # 0
  BY Constants DEF IInv, Typed, Commits
<1>3. Typed'
  <2>1. last' \in {last, tip} /\ step' \in {"commits", "statuses", "comments", "combined",
                                            "merge"}
    BY DEF Ends
  <2>2. {title', reported', overtaken'} \subseteq BOOLEAN
    BY <1>2 DEF Typed, Ends
  <2> QED
    BY <1>1, <1>2, <2>1, <2>2 DEF Typed
<1>4. Vetted'
  <2>1. CASE RunStarts
    BY <2>1 DEF Vetted
  <2>2. CASE CommitsFetched
    BY <1>2, <2>2 DEF Vetted
  <2>3. CASE StatusesFetched
    BY <2>3 DEF IInv, Vetted
  <2>4. CASE CombinedStatusAsked
    BY <2>4 DEF IInv, Vetted, AcknowledgedAt
  <2>5. CASE CombinedStatusFetched /\ step' = "merge"
    BY <2>5 DEF IInv, Vetted, AcknowledgedAt, Green, Ends
  <2> QED
    BY <2>1, <2>2, <2>3, <2>4, <2>5
<1>5. Dated' /\ KnowsAnswers' /\ KeepsBranch' /\ AnsweredOnce'
  BY <1>1 DEF IInv, Dated, KnowsAnswers, KeepsBranch, AnsweredOnce, Answers
<1> QED
  BY <1>3, <1>4, <1>5 DEF IInv

\* The instructions are read: of each kind, the last one counts, which is the
\* latest.
LEMMA InstructionsStep ==
  ASSUME IInv, InstructionsRead
  PROVE  IInv'
<1>1. /\ UNCHANGED <<clock, tip, date, ci, merged, branch, wip, comments, overtaken, last,
                     title, reported, troubles>>
      /\ step = "comments" /\ step' = "merger"
      /\ opm' = LastDate(Accepted) /\ processed' = LastDate(Answers)
  BY DEF InstructionsRead, Goes, pull
<1>2. Typed /\ Dated
  BY DEF IInv
<1>3. DOMAIN comments = 1 .. Len(comments)
  BY <1>2, Domain
<1>4. PICK accepted \in SUBSET DOMAIN comments : accepted = Accepted
  BY DEF Accepted
<1>5. PICK answers \in SUBSET DOMAIN comments : answers = Answers
  BY DEF Answers
<1>6. /\ opm' \in 0 .. clock
      /\ opm' # 0 => \E i \in Accepted : comments[i].date = opm'
  BY <1>1, <1>2, <1>4, LastDateProperties
<1>7. processed' \in 0 .. clock /\ \A i \in Answers : comments[i].date <= processed'
  BY <1>1, <1>2, <1>5, LastDateProperties
<1>8. Typed'
  BY <1>1, <1>2, <1>6, <1>7 DEF Typed
<1>9. Vetted'
  <2>1. ASSUME opm' # 0
        PROVE  AcknowledgedAt(opm)' /\ opm' >= date[last]
    <3>1. PICK i \in Accepted : comments[i].date = opm'
      BY <1>6, <2>1
    <3> QED
      BY <1>1, <1>3, <3>1 DEF Accepted, AcknowledgedAt
  <2> QED
    BY <1>1, <2>1 DEF IInv, Vetted
<1>10. KnowsAnswers'
  BY <1>1, <1>3, <1>7 DEF KnowsAnswers, Answers
<1>11. Dated' /\ KeepsBranch' /\ AnsweredOnce'
  BY <1>1 DEF IInv, Dated, KeepsBranch, AnsweredOnce, Answers
<1> QED
  BY <1>8, <1>9, <1>10, <1>11 DEF IInv

\* The run is over.
LEMMA EndsStep ==
  ASSUME IInv, Ends, UNCHANGED <<clock, tip, date, ci, merged, wip, comments>>,
         troubles' \in troubles .. MaxTrouble,
         branch' = branch \/ (branch' = FALSE /\ merged # 0)
  PROVE  IInv'
<1>1. troubles \in Nat /\ troubles' \in 0 .. MaxTrouble /\ (troubles' = 0 => troubles = 0)
  BY Constants DEF IInv, Typed
<1>2. Typed'
  <2>1. clock \in Nat /\ tip \in Nat
    BY Constants DEF IInv, Typed, Times, Commits
  <2>2. last' \in 0 .. tip /\ {opm', processed'} \subseteq 0 .. clock
    BY <2>1 DEF Ends
  <2>3. {branch', wip, title', reported', overtaken'} \subseteq BOOLEAN /\ step' = "idle"
    BY DEF IInv, Typed, Ends
  <2> QED
    BY <1>1, <2>2, <2>3 DEF IInv, Typed
<1>3. Dated' /\ Vetted' /\ KnowsAnswers' /\ KeepsBranch'
  BY DEF IInv, Dated, Vetted, KnowsAnswers, KeepsBranch, Ends
<1>4. AnsweredOnce'
  BY <1>1 DEF IInv, AnsweredOnce, Answers
<1> QED
  BY <1>2, <1>3, <1>4 DEF IInv

LEMMA OverStep ==
  ASSUME IInv,
         NothingToMerge \/ MergeRefused \/ BranchDeleted \/ RunAbandoned
           \/ (CombinedStatusFetched /\ step' = "idle")
  PROVE  IInv'
<1>1. Ends /\ UNCHANGED <<clock, tip, date, ci, merged, wip, comments>>
  BY DEF NothingToMerge, MergeRefused, BranchDeleted, RunAbandoned,
         CombinedStatusFetched, Goes, pull
<1>2. troubles' \in troubles .. MaxTrouble
  <2>1. troubles' = troubles \/ (troubles < MaxTrouble /\ troubles' = troubles + 1)
    BY DEF NothingToMerge, MergeRefused, BranchDeleted, RunAbandoned,
           CombinedStatusFetched, Trouble
  <2> QED
    BY <2>1, Constants DEF IInv, Typed
<1>3. branch' = branch \/ (branch' = FALSE /\ merged # 0)
  BY DEF IInv, KeepsBranch, NothingToMerge, MergeRefused, BranchDeleted, RunAbandoned,
         CombinedStatusFetched, Goes, pull
<1> QED
  BY <1>1, <1>2, <1>3, EndsStep

\* The merge is requested: the run waits for the branch to go, or asks again.
LEMMA MergeStep ==
  ASSUME IInv, MergeRequested
  PROVE  IInv'
<1>1. /\ UNCHANGED <<clock, tip, date, ci, branch, wip, comments, overtaken, last, title,
                     reported, opm, processed>>
      /\ merged' = tip /\ step = "merge" /\ step' \in {"delete", "merge"}
      /\ troubles' = troubles \/ (troubles < MaxTrouble /\ troubles' = troubles + 1)
  BY DEF MergeRequested, Trouble, read
<1>2. Typed /\ tip # 0 /\ tip \in 0 .. tip
  BY Constants DEF IInv, Typed, Commits
<1>3. troubles \in Nat /\ troubles' \in 0 .. MaxTrouble /\ (troubles' = 0 => troubles = 0)
  BY <1>1, <1>2, Constants DEF Typed
<1>4. Typed'
  BY <1>1, <1>2, <1>3 DEF Typed
<1>5. Vetted'
  BY <1>1 DEF IInv, Vetted, AcknowledgedAt
<1>6. Dated' /\ KnowsAnswers' /\ KeepsBranch' /\ AnsweredOnce'
  BY <1>1, <1>2, <1>3
  DEF IInv, Dated, KnowsAnswers, KeepsBranch, AnsweredOnce, Answers
<1> QED
  BY <1>4, <1>5, <1>6 DEF IInv

\* The bot answers: there is an OPM no older than any of its answers.
LEMMA AnswerStep ==
  ASSUME IInv, Answer
  PROVE  IInv'
<1>1. /\ UNCHANGED <<clock, tip, date, ci, merged, branch, wip>>
      /\ Len(comments) < MaxComment /\ comments' = Append(comments, Says("processed"))
      /\ step = "merger" /\ opm # 0 /\ ~(processed > opm)
      /\ \/ Ends /\ troubles' = troubles
         \/ /\ UNCHANGED <<step, last, title, reported, opm, processed, overtaken>>
            /\ troubles < MaxTrouble /\ troubles' = troubles + 1
  BY DEF Answer, Answered, Trouble, read
<1>2. /\ Typed /\ Dated /\ Len(comments) \in Nat /\ troubles \in Nat
      /\ DOMAIN comments = 1 .. Len(comments) /\ opm \in Nat /\ processed \in Nat
  BY Domain, Constants DEF IInv, Typed, Times
<1>3. /\ comments' \in Seq(Comment)
      /\ Len(comments') = Len(comments) + 1
      /\ comments'[Len(comments) + 1] = Says("processed")
      /\ \A i \in 1 .. Len(comments) : comments'[i] = comments[i]
      /\ Dated'
  BY <1>1, <1>2, CommentAdded
<1>4. DOMAIN comments' = 1 .. Len(comments')
  BY <1>3, LenProperties
<1>5. Typed'
  <2>1. Len(comments') <= MaxComment
    BY <1>1, <1>2, <1>3, Constants
  <2>2. troubles' = troubles \/ (troubles < MaxTrouble /\ troubles' = troubles + 1)
    BY <1>1
  <2>3. troubles' \in 0 .. MaxTrouble
    BY <1>2, <2>2, Constants DEF Typed
  <2>4. clock \in Nat /\ tip \in Nat
    BY Constants DEF IInv, Typed, Times, Commits
  <2>5. /\ last' \in 0 .. tip /\ {opm', processed'} \subseteq 0 .. clock
        /\ {title', reported', overtaken'} \subseteq BOOLEAN
        /\ step' \in {"idle", "merger"}
    <3>1. CASE Ends
      <4>1. last' = 0 /\ opm' = 0 /\ processed' = 0 /\ step' = "idle"
        BY <3>1 DEF Ends
      <4>2. {title', reported', overtaken'} \subseteq BOOLEAN
        BY <3>1 DEF Ends
      <4> QED
        BY <2>4, <4>1, <4>2
    <3>2. CASE UNCHANGED <<step, last, title, reported, opm, processed, overtaken>>
      BY <1>1, <1>2, <3>2 DEF Typed
    <3> QED
      BY <1>1, <3>1, <3>2
  <2> QED
    BY <1>1, <1>2, <1>3, <2>1, <2>3, <2>5 DEF Typed
<1>6. Vetted'
  <2>1. 1 .. Len(comments) \subseteq 1 .. Len(comments')
    BY <1>2, <1>3
  <2>2. CASE UNCHANGED <<step, last, opm, overtaken>>
    <3>1. AcknowledgedAt(opm) => AcknowledgedAt(opm)'
      BY <1>3, <2>1, <2>2 DEF AcknowledgedAt
    <3> QED
      BY <1>1, <2>2, <3>1 DEF IInv, Vetted
  <2>3. CASE Ends
    BY <2>3 DEF Ends, Vetted
  <2> QED
    BY <1>1, <2>2, <2>3
<1>7. KnowsAnswers' /\ KeepsBranch'
  <2>1. CASE Ends
    BY <1>1, <2>1 DEF IInv, KnowsAnswers, KeepsBranch, Ends
  <2>2. CASE step' = step /\ troubles' = troubles + 1
    BY <1>1, <1>2, <2>2 DEF IInv, KnowsAnswers, KeepsBranch
  <2> QED
    BY <1>1, <2>1, <2>2
<1>8. AnsweredOnce'
  <2>1. SUFFICES ASSUME NEW i \in Answers', NEW j \in Answers', i < j, troubles' = 0
                 PROVE  \E k \in 1 .. j : comments'[k].kind = "opm"
                                          /\ comments'[k].date >= comments'[i].date
    BY DEF AnsweredOnce
  <2>2. troubles = 0
    BY <1>1, <1>2, <2>1
  <2>3. i \in 1 .. Len(comments') /\ j \in 1 .. Len(comments')
    BY <1>4 DEF Answers
  <2>4. i \in 1 .. Len(comments) /\ comments'[i] = comments[i] /\ comments[i].kind = "processed"
    <3>1. i \in 1 .. Len(comments)
      BY <1>2, <1>3, <2>1, <2>3
    <3>2. comments'[i].kind = "processed"
      BY DEF Answers
    <3> QED
      BY <1>3, <3>1, <3>2
  <2>5. CASE j \in 1 .. Len(comments)
    <3>1. j \in Answers /\ i \in Answers
      <4>1. comments'[j].kind = "processed" /\ comments'[j] = comments[j]
        BY <1>3, <2>5 DEF Answers
      <4> QED
        BY <1>2, <2>4, <2>5, <4>1 DEF Answers
    <3>2. PICK k \in 1 .. j : comments[k].kind = "opm"
                              /\ comments[k].date >= comments[i].date
      BY <2>1, <2>2, <3>1 DEF IInv, AnsweredOnce
    <3>3. k \in 1 .. Len(comments)
      BY <1>2, <2>5, <3>2
    <3> QED
      BY <1>3, <2>4, <3>2, <3>3
  <2>6. CASE j = Len(comments) + 1
    <3>1. PICK k \in 1 .. Len(comments) : comments[k].kind = "opm" /\ comments[k].date = opm
      BY <1>1 DEF IInv, Vetted, AcknowledgedAt
    <3>2. comments[i].date <= processed /\ comments[i].date \in Nat
      <4>1. comments[i].date \in 1 .. clock
        BY <1>2, <2>4 DEF Dated
      <4>2. clock \in Nat
        BY <1>2, Constants DEF Typed, Times
      <4> QED
        BY <1>1, <2>2, <2>4, <4>1, <4>2 DEF IInv, KnowsAnswers
    <3>3. opm >= comments[i].date
      BY <1>1, <1>2, <3>2
    <3>4. k \in 1 .. j /\ comments'[k] = comments[k]
      BY <1>2, <1>3, <2>6, <3>1
    <3> QED
      BY <2>4, <3>1, <3>3, <3>4
  <2> QED
    BY <1>2, <1>3, <2>3, <2>5, <2>6
<1> QED
  BY <1>3, <1>5, <1>6, <1>7, <1>8 DEF IInv

LEMMA NextStep == IInv /\ [Next]_vars => IInv'
<1> SUFFICES ASSUME IInv, [Next]_vars
             PROVE  IInv'
  OBVIOUS
<1>1. CASE RunStep
  <2>1. CombinedStatusFetched => step' \in {"merge", "idle"}
    BY DEF CombinedStatusFetched, Goes, Ends
  <2> QED
    BY <1>1, <2>1, ReadsStep, InstructionsStep, OverStep, MergeStep, AnswerStep DEF RunStep
<1>2. CASE UNCHANGED vars
  BY <1>2
  DEF IInv, Typed, Dated, Vetted, AcknowledgedAt, KnowsAnswers, KeepsBranch, AnsweredOnce,
      Answers, vars, pull, read
<1> QED
  BY <1>1, <1>2, AroundStep, PushStep, AcknowledgeStep, OverStep DEF Next

-----------------------------------------------------------------------------
(* Results                                                                  *)

\* The invariant holds throughout.
THEOREM Invariant == Spec => []IInv
  BY InitStep, NextStep, PTL DEF Spec

\* No date is in the future, and the branch is there until it is merged
\* (core.py:239-299).
THEOREM TypeCorrect == Spec => []TypeOK
<1>1. IInv => TypeOK
  <2> SUFFICES ASSUME IInv
               PROVE  TypeOK
    OBVIOUS
  <2>1. Typed /\ Len(comments) \in Nat /\ DOMAIN comments = 1 .. Len(comments)
    BY Domain DEF IInv
  <2>2. ASSUME NEW i \in 1 .. Len(comments)
        PROVE  comments[i] \in [kind : {"opm", "processed"}, date : 1 .. clock]
    <3>1. comments[i] \in Comment
      BY <2>1 DEF Typed
    <3>2. comments[i].date \in 1 .. clock
      BY DEF IInv, Dated
    <3> QED
      BY <3>1, <3>2 DEF Comment
  <2>3. comments \in [1 .. Len(comments) -> [kind : {"opm", "processed"}, date : 1 .. clock]]
    <3>1. comments = [i \in 1 .. Len(comments) |-> comments[i]]
      BY <2>1, LenProperties DEF Typed
    <3> QED
      BY <2>2, <3>1
  <2>4. Len(comments) \in 0 .. MaxComment
    BY <2>1, Constants DEF Typed
  <2>5. comments \in BoundedSeq([kind : {"opm", "processed"}, date : 1 .. clock], MaxComment)
    BY <2>3, <2>4 DEF BoundedSeq, SeqOf
  <2> QED
    BY <2>1, <2>5 DEF IInv, KeepsBranch, Typed, TypeOK
<1> QED
  BY <1>1, Invariant, PTL

\* A pull request is told that it is WIP once per OPM (core.py:270-283).
THEOREM Answering == Spec => []AnsweredOnce
<1>1. IInv => AnsweredOnce
  BY DEF IInv
<1> QED
  BY <1>1, Invariant, PTL

\* What is merged was green and acknowledged, unless the run was overtaken
\* (core.py:239-299).
THEOREM Vetting == Spec => MergedVetted
<1> DEFINE MergeVetted ==
      Merges =>
        /\ overtaken \/ ci[merged'] = "success"
        /\ overtaken \/ \E i \in DOMAIN comments :
              comments[i].kind = "opm" /\ comments[i].date >= date[merged']
<1>1. IInv /\ [Next]_vars => [MergeVetted]_vars
  <2> SUFFICES ASSUME IInv, Next, merged' # merged, ~overtaken
               PROVE  MergeVetted
    BY DEF Merges
  <2>1. MergeRequested
    BY DEF Next, Tick, Push, StatusChanges, Retitle, Acknowledge, RunStep, RunAbandoned,
           RunStarts, CommitsFetched, StatusesFetched, InstructionsRead, NothingToMerge,
           Answer, CombinedStatusAsked, CombinedStatusFetched, MergeRefused, BranchDeleted,
           Goes, pull
  <2>2. step = "merge" /\ merged' = tip
    BY <2>1 DEF MergeRequested
  <2>3. /\ last = tip /\ ci[tip] = "success" /\ AcknowledgedAt(opm) /\ opm >= date[tip]
    BY <2>2 DEF IInv, Vetted
  <2>4. DOMAIN comments = 1 .. Len(comments)
    BY Domain DEF IInv
  <2> QED
    BY <2>2, <2>3, <2>4 DEF AcknowledgedAt
<1> QED
  BY <1>1, Invariant, PTL DEF Spec, MergedVetted
=============================================================================
