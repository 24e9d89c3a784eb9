------------------------------- MODULE Report -------------------------------
(***************************************************************************)
(* ReportExtension on a protected branch: an issue is opened when the      *)
(* branch breaks, later broken commits are told on the same issue, and a   *)
(* comment on each commit, 'jenkins: {issue-url: ...}', remembers it.      *)
(*                                                                         *)
(* The comment is all that is remembered: the bot keeps no state from one  *)
(* run to the next, and a run may be abandoned, or a request repeated      *)
(* because its answer was lost, between the issue and the comment.         *)
(***************************************************************************)
EXTENDS Integers, Sequences, SequencesExt

CONSTANTS MaxCommit,   \* bound: commits pushed to the branch
          MaxIssue,    \* bound: issues the bot opens
          MaxTrouble   \* bound: answers that are lost, runs that are abandoned

ASSUME ReportAssumption == {MaxCommit, MaxIssue, MaxTrouble} \subseteq Nat \ {0}

VARIABLES
    tip,      \* GitHub: the last commit; the parent of c is c - 1
    ci,       \* GitHub: [commit -> what its statuses amount to]
    thread,   \* GitHub: [commit -> issues its comments name, Done for report-done]
    issues,   \* GitHub: number of issues opened by the bot
    step,     \* the run: "idle", or what it waits for
    head,     \* head.sha
    state,    \* what current.statuses amounts to
    issue,    \* current.issue_url, or None
    troubles

github == <<tip, ci, thread, issues>>
run    == <<step, head, state, issue>>
vars   == <<github, run, troubles>>

Commits == 0 .. MaxCommit
Issues  == 1 .. MaxIssue
State   == {"pending", "failure", "success"}
None    == 0
Done    == MaxIssue + 1

Idle == step = "idle" /\ head = 0 /\ state = "pending" /\ issue = None

Init ==
    /\ tip = 1
    /\ ci = [c \in Commits |-> "pending"]
    /\ thread = [c \in Commits |-> <<>>]
    /\ issues = 0
    /\ Idle
    /\ troubles = 0

Trouble == troubles < MaxTrouble /\ troubles' = troubles + 1

-----------------------------------------------------------------------------
(* Developers and builds                                                   *)

Push ==
    /\ tip < MaxCommit
    /\ tip' = tip + 1
    /\ UNCHANGED <<ci, thread, issues, run, troubles>>

StatusChanges ==
    /\ \E c \in 1 .. tip, s \in State : ci[c] # s /\ ci' = [ci EXCEPT ![c] = s]
    /\ UNCHANGED <<tip, thread, issues, run, troubles>>

\* A collaborator writes 'jenkins: report-done' on the last commit.
ReportDone ==
    /\ thread[tip] = <<>>
    /\ thread' = [thread EXCEPT ![tip] = <<Done>>]
    /\ UNCHANGED <<tip, ci, issues, run, troubles>>

-----------------------------------------------------------------------------
(* One run of the bot                                                      *)

Goes(next) == step' = next /\ UNCHANGED <<github, troubles>>

RunStarts ==
    /\ step = "idle"
    /\ Goes("statuses")
    /\ head' = tip
    /\ UNCHANGED <<state, issue>>

StatusesFetched ==
    /\ step = "statuses"
    /\ Goes("comments")
    /\ state' = ci[head]
    /\ UNCHANGED <<head, issue>>

\* process_instruction, for each comment: the last one wins.
CommentsFetched ==
    /\ step = "comments"
    /\ Goes("report")
    /\ issue' = IF thread[head] = <<>> THEN None ELSE Last(thread[head])
    /\ UNCHANGED <<head, state>>

\* Faulty variant: a pending job does not hold the report back.
BrokenSoFar == issue = None /\ state # "success"

\* failed_build_urls is not empty.
Broken == issue = None /\ state = "failure"

\* Faulty variant: the list of previous commits starts with the commit itself.
PreviousHead == head

\* commits[1:], of the two that Branch.fetch_commits returns.
Previous == head - 1

\* find_issue_url: the first one wins.
IssueUrl(c) ==
    LET named == {n \in DOMAIN thread[c] : thread[c][n] # Done}
    IN  IF named = {} THEN None ELSE thread[c][Min(named)]

PreviousFetched ==
    /\ step = "report" /\ Broken
    /\ Goes("post")
    /\ issue' = IssueUrl(Previous)
    /\ UNCHANGED <<head, state>>

\* issue.comment: "... is still broken at ...".
StillBroken ==
    /\ step = "post" /\ issue # None
    /\ Goes("remember")
    /\ UNCHANGED <<head, state, issue>>

\* repository.report_issue, again if the answer was lost.
IssueOpened ==
    /\ step = "post" /\ issue = None
    /\ issues < MaxIssue
    /\ issues' = issues + 1
    /\ \/ step' = "remember" /\ issue' = issues' /\ UNCHANGED troubles
       \/ Trouble /\ UNCHANGED <<step, issue>>
    /\ UNCHANGED <<tip, ci, thread, head, state>>

Ends == step' = "idle" /\ head' = 0 /\ state' = "pending" /\ issue' = None

\* Faulty variant: only the first broken commit gets a comment.
RememberedOnce ==
    /\ step = "remember"
    /\ thread' = IF \E c \in Commits : issue \in Range(thread[c]) THEN thread
                 ELSE [thread EXCEPT ![head] = Append(@, issue)]
    /\ Ends
    /\ UNCHANGED <<tip, ci, issues, troubles>>

\* Faulty variant: the issue is opened, and not remembered.
RememberedNever == step = "remember" /\ Ends /\ UNCHANGED <<github, troubles>>

\* head.comment with the issue-url, again if the answer was lost.
Remembered ==
    /\ step = "remember"
    /\ thread' = [thread EXCEPT ![head] = Append(@, issue)]
    /\ \/ Ends /\ UNCHANGED troubles
       \/ Trouble /\ UNCHANGED run
    /\ UNCHANGED <<tip, ci, issues>>

RunEnds == step = "report" /\ ~Broken /\ Ends /\ UNCHANGED <<github, troubles>>

\* An exception, a SkipHead or a cancellation, at any await.
RunAbandoned == step # "idle" /\ Trouble /\ Ends /\ UNCHANGED github

-----------------------------------------------------------------------------
RunStep ==
    \/ RunStarts \/ StatusesFetched \/ CommentsFetched \/ PreviousFetched
    \/ StillBroken \/ IssueOpened \/ Remembered \/ RunEnds

Next == Push \/ StatusChanges \/ ReportDone \/ RunStep \/ RunAbandoned

Spec == Init /\ [][Next]_vars

\* The branch is polled for ever.
FairSpec == Spec /\ WF_vars(RunStep)

-----------------------------------------------------------------------------
(* Properties                                                              *)

TypeOK ==
    /\ tip \in 1 .. MaxCommit
    /\ ci \in [Commits -> State]
    /\ thread \in [Commits -> BoundedSeq(1 .. Done, MaxTrouble + 2)]
    /\ issues \in 0 .. MaxIssue
    /\ step \in {"idle", "statuses", "comments", "report", "post", "remember"}
    /\ head \in 0 .. tip /\ state \in State
    /\ issue \in {None, Done} \cup 1 .. issues
    /\ step \in {"post", "remember"} => state = "failure"
    /\ troubles \in 0 .. MaxTrouble

\* The issue of a commit, if it has one.
Named(c) == Range(thread[c]) \ {Done}

\* Every issue is remembered on a commit, or is about to be, but for one per
\* lost answer or abandoned run: the bot does not open issues over and over
\* (core.py:394-422).
IssuesRemembered ==
    Cardinality({i \in 1 .. issues : i # issue /\ \A c \in Commits : i \notin Named(c)})
        <= troubles

\* A commit whose parent was reported goes to the same issue: a second issue for
\* one breakage needs a commit in between that was overtaken before it was
\* reported, or that somebody marked as done (core.py:366-402).
SameBreakage ==
    \A c \in 1 .. MaxCommit :
        Named(c) # {} /\ Named(c - 1) # {} /\ troubles = 0 => Named(c) = Named(c - 1)

\* One breakage, one issue.
OneIssue == IssuesRemembered /\ SameBreakage

\* A branch that stays broken is reported, whatever failed before (README.rst:23,
\* core.py:344-422).
BrokenReported ==
    <>[](ci[tip] = "failure") => <>(thread[tip] # <<>>) \/ <>(issues = MaxIssue)
=============================================================================
