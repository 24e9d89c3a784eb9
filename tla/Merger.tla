------------------------------- MODULE Merger -------------------------------
(***************************************************************************)
(* Auto-merge of a pull request: MergerExtension at the end of the runs of *)
(* Bot.run, between developers who push, retitle and comment, a reviewer   *)
(* who writes 'jenkins: opm', and statuses that come and go.               *)
(*                                                                         *)
(* GitHub has dates to the second and commits carry the date of their      *)
(* author; several events share a value of clock.  OPMs of anyone but a    *)
(* collaborator are dropped before they reach the extension.               *)
(***************************************************************************)
EXTENDS Integers, Sequences, SequencesExt

CONSTANTS MaxCommit,   \* bound: commits pushed to the branch
          MaxClock,    \* bound: the seconds told apart
          MaxComment,  \* bound: comments of reviewers and of the bot
          MaxTrouble   \* bound: requests that fail, runs that are abandoned

ASSUME MergerAssumption ==
    /\ {MaxCommit, MaxClock} \subseteq Nat \ {0}
    /\ {MaxComment, MaxTrouble} \subseteq Nat

VARIABLES
    clock,
    tip,        \* GitHub: the last commit of the branch
    date,       \* GitHub: [commit -> when it was authored]
    ci,         \* GitHub: [commit -> combined status]
    merged,     \* GitHub: the commit that was merged, 0 while open
    branch,     \* GitHub: the branch exists
    wip,        \* GitHub: the title says WIP
    comments,   \* GitHub: OPMs and answers, with their dates
    step,       \* the run: "idle" or what it waits for
    last,       \* last_commit.sha
    title,      \* current.wip
    reported,   \* current.statuses is not empty
    opm,        \* date of current.opm, 0 for None
    processed,  \* date of current.opm_processed, 0 for None
    overtaken,  \* history: a commit or a status came after it was read
    troubles

pull == <<tip, date, ci, merged, branch, wip, comments>>
read == <<last, title, reported, opm, processed>>
vars == <<clock, pull, step, read, overtaken, troubles>>

Commits == 1 .. MaxCommit
Times   == 1 .. MaxClock
State   == {"none", "pending", "success", "failure"}

Init ==
    /\ clock = 1
    /\ tip = 1
    /\ date = [c \in Commits |-> 1]
    /\ ci = [c \in Commits |-> "none"]
    /\ merged = 0 /\ branch = TRUE
    /\ wip \in BOOLEAN
    /\ comments = <<>>
    /\ step = "idle"
    /\ last = 0 /\ title = FALSE /\ reported = FALSE /\ opm = 0 /\ processed = 0
    /\ overtaken = FALSE
    /\ troubles = 0

Trouble == troubles < MaxTrouble /\ troubles' = troubles + 1

Says(kind) == [kind |-> kind, date |-> clock]

-----------------------------------------------------------------------------
(* Developers, reviewers, builds                                           *)

Tick ==
    /\ clock < MaxClock
    /\ clock' = clock + 1
    /\ UNCHANGED <<pull, step, read, overtaken, troubles>>

\* A commit may be authored long before it is pushed.
Push ==
    /\ branch /\ tip < MaxCommit
    /\ tip' = tip + 1
    /\ \E authored \in 1 .. clock : date' = [date EXCEPT ![tip'] = authored]
    /\ overtaken' = (step # "idle")
    /\ UNCHANGED <<clock, ci, merged, branch, wip, comments, step, read, troubles>>

StatusChanges ==
    /\ \E c \in 1 .. tip, state \in State \ {"none"} :
        /\ ci[c] # state
        /\ ci' = [ci EXCEPT ![c] = state]
        /\ overtaken' = (overtaken \/ (step = "merge" /\ c = last))
    /\ UNCHANGED <<clock, tip, date, merged, branch, wip, comments, step, read, troubles>>

Retitle ==
    /\ merged = 0
    /\ wip' = ~wip
    /\ UNCHANGED <<clock, tip, date, ci, merged, branch, comments, step, read,
                   overtaken, troubles>>

Acknowledge ==
    /\ Len(comments) < MaxComment
    /\ comments' = Append(comments, Says("opm"))
    /\ UNCHANGED <<clock, tip, date, ci, merged, branch, wip, step, read, overtaken,
                   troubles>>

-----------------------------------------------------------------------------
(* Bot.run, up to the extension                                            *)

Goes(next) == step' = next /\ UNCHANGED <<clock, pull, overtaken>>

Ends ==
    /\ step' = "idle" /\ overtaken' = FALSE
    /\ last' = 0 /\ title' = FALSE /\ reported' = FALSE /\ opm' = 0 /\ processed' = 0

\* The payload of an open pull request has the title.
RunStarts ==
    /\ step = "idle" /\ merged = 0
    /\ Goes("commits")
    /\ title' = wip
    /\ UNCHANGED <<last, reported, opm, processed, troubles>>

CommitsFetched ==
    /\ step = "commits"
    /\ step' = "statuses" /\ last' = tip /\ overtaken' = FALSE
    /\ UNCHANGED <<clock, pull, title, reported, opm, processed, troubles>>

\* The extensions that run before may have posted the first statuses.
StatusesFetched ==
    /\ step = "statuses"
    /\ Goes("comments")
    /\ reported' \in {TRUE, ci[last] # "none"}
    /\ UNCHANGED <<last, title, opm, processed, troubles>>

\* Faulty variant: an OPM counts whatever was authored since.
AcceptedAlways == {i \in DOMAIN comments : comments[i].kind = "opm"}

\* Faulty variant: an OPM of the same second as the commit is outdated.
AcceptedStrict == {i \in DOMAIN comments :
                      comments[i].kind = "opm" /\ comments[i].date > date[last]}

\* process_opm.
Accepted == {i \in DOMAIN comments :
                comments[i].kind = "opm" /\ comments[i].date >= date[last]}

Answers == {i \in DOMAIN comments : comments[i].kind = "processed"}

LastDate(of) == IF of = {} THEN 0 ELSE comments[Max(of)].date

InstructionsRead ==
    /\ step = "comments"
    /\ Goes("merger")
    /\ opm' = LastDate(Accepted)
    /\ processed' = LastDate(Answers)
    /\ UNCHANGED <<last, title, reported, troubles>>

\* An exception, a SkipHead or a cancellation, at any await.
RunAbandoned ==
    /\ step # "idle" /\ Trouble
    /\ Ends
    /\ UNCHANGED <<clock, pull>>

-----------------------------------------------------------------------------
(* MergerExtension.run                                                     *)

\* Faulty variant: the answer is given whatever was answered before.
AnsweredNever == FALSE

Answered == processed > opm

NothingToMerge ==
    /\ step = "merger"
    /\ \/ opm = 0
       \/ title /\ Answered
       \/ ~title /\ ~reported
    /\ Ends
    /\ UNCHANGED <<clock, pull, troubles>>

\* "this PR is still WIP", once more if the answer of GitHub is lost.
Answer ==
    /\ step = "merger" /\ opm # 0 /\ title /\ ~Answered
    /\ Len(comments) < MaxComment
    /\ comments' = Append(comments, Says("processed"))
    /\ \/ Ends /\ UNCHANGED troubles
       \/ Trouble /\ UNCHANGED <<step, read, overtaken>>
    /\ UNCHANGED <<clock, tip, date, ci, merged, branch, wip>>

CombinedStatusAsked ==
    /\ step = "merger" /\ opm # 0 /\ ~title /\ reported
    /\ Goes("combined")
    /\ UNCHANGED <<read, troubles>>

Green == ci[last] = "success"

CombinedStatusFetched ==
    /\ step = "combined"
    /\ \/ Green /\ Goes("merge") /\ UNCHANGED read
       \/ ~Green /\ Ends /\ UNCHANGED <<clock, pull>>
    /\ UNCHANGED troubles

\* PullRequest.merge.  The SHA1 goes out as {"body": {"sha": ...}}, where GitHub
\* does not look for it: GitHub merges what the branch holds by then.  When the
\* answer is lost the request is made again.
MergeRequested ==
    /\ step = "merge" /\ merged = 0
    /\ merged' = tip
    /\ \/ step' = "delete" /\ UNCHANGED troubles
       \/ step' = "merge" /\ Trouble
    /\ UNCHANGED <<clock, tip, date, ci, branch, wip, comments, read, overtaken>>

\* Faulty variant: the branch is deleted though the merge was refused.
MergeRefusedDeletes ==
    /\ step = "merge"
    /\ merged # 0 \/ troubles < MaxTrouble
    /\ branch' = FALSE
    /\ Ends
    /\ UNCHANGED <<clock, tip, date, ci, merged, wip, comments, troubles>>

\* 405 or 409: merged already, or not mergeable.  The branch stays.
MergeRefused ==
    /\ step = "merge"
    /\ \/ merged # 0 /\ UNCHANGED troubles
       \/ Trouble
    /\ Ends
    /\ UNCHANGED <<clock, pull>>

BranchDeleted ==
    /\ step = "delete"
    /\ branch' = FALSE
    /\ Ends
    /\ UNCHANGED <<clock, tip, date, ci, merged, wip, comments, troubles>>

-----------------------------------------------------------------------------
RunStep ==
    \/ RunStarts \/ CommitsFetched \/ StatusesFetched \/ InstructionsRead
    \/ NothingToMerge \/ Answer \/ CombinedStatusAsked \/ CombinedStatusFetched
    \/ MergeRequested \/ MergeRefused \/ BranchDeleted

Next == Tick \/ Push \/ StatusChanges \/ Retitle \/ Acknowledge \/ RunStep \/ RunAbandoned

Spec == Init /\ [][Next]_vars

\* The head is polled for ever.
FairSpec == Spec /\ WF_vars(RunStep)

-----------------------------------------------------------------------------
(* Properties                                                              *)

TypeOK ==
    /\ clock \in Times
    /\ tip \in Commits /\ last \in 0 .. tip /\ merged \in 0 .. tip
    /\ date \in [Commits -> 1 .. clock]
    /\ ci \in [Commits -> State]
    /\ {branch, wip, title, reported, overtaken} \subseteq BOOLEAN
    /\ comments \in BoundedSeq([kind : {"opm", "processed"}, date : 1 .. clock], MaxComment)
    /\ step \in {"idle", "commits", "statuses", "comments", "merger", "combined", "merge",
                 "delete"}
    /\ {opm, processed} \subseteq 0 .. clock
    /\ branch \/ merged # 0
    /\ troubles \in 0 .. MaxTrouble

Merges == merged' # merged

\* "PR not green. Postpone merge." (core.py:290): what is merged is green.
MergedGreen == [][Merges => ci[merged'] = "success"]_vars

\* Only a push after the commits were listed, or a status after the combined
\* status was read, lets a commit through that is not green; and somebody
\* acknowledged the pull request no earlier than its last commit was authored,
\* though maybe before it was pushed (core.py:239-299).
MergedVetted ==
    [][Merges =>
        /\ overtaken \/ ci[merged'] = "success"
        /\ overtaken \/ \E i \in DOMAIN comments :
              comments[i].kind = "opm" /\ comments[i].date >= date[merged']]_vars

\* The bot says that a pull request is WIP once per OPM, unless both come in
\* the same second, or its comment was retried (core.py:270-283).
AnsweredOnce ==
    \A i, j \in Answers :
        i < j /\ troubles = 0 =>
            \E k \in 1 .. j : comments[k].kind = "opm" /\ comments[k].date >= comments[i].date

Ready ==
    /\ merged = 0 /\ ~wip
    /\ ci[tip] = "success"
    /\ Len(comments) < MaxComment     \* the bot can still answer
    /\ \E i \in DOMAIN comments : comments[i].kind = "opm" /\ comments[i].date >= date[tip]

\* A green, acknowledged pull request that is left alone is merged, whatever
\* failed before (core.py:266-299).
ReadyMerged == ~<>[]Ready
=============================================================================
