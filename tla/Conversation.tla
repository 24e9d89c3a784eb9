---------------------------- MODULE Conversation ----------------------------
(***************************************************************************)
(* The comments of a pull request, as the bot reads and answers them: the  *)
(* instructions of all comments are folded again in every run              *)
(* (Bot.process_instructions and the extensions' process_instruction), and *)
(* Security, Help and Error answer.  The bot remembers what it answered    *)
(* by instructions to itself in its comments: help-reset, reset-errors,    *)
(* reset-denied, security-feedback-processed.  People write meanwhile.     *)
(***************************************************************************)
EXTENDS Integers, Sequences, SequencesExt

CONSTANTS People, Collaborators,
          PullAuthor,  \* of the pull request
          Bot,         \* GITHUB.me
          PageSize,    \* comments on the page that the bot fetches
          MaxSaid,     \* bound: comments of people
          MaxThread,   \* bound: comments in all
          MaxTrouble   \* bound: answers that are lost, runs that are abandoned

ASSUME ConversationAssumption ==
    /\ Collaborators \subseteq People /\ PullAuthor \in People /\ Bot \notin People
    /\ {MaxSaid, MaxThread, MaxTrouble} \subseteq Nat
    /\ PageSize \in 1 .. MaxThread - 1

VARIABLES
    thread,     \* GitHub: the comments; seen and to are a history of the bot's
    read,       \* [number of comments -> what the bot makes of the first ones]
    step,       \* the run: "idle", or the extension it comes to
    seen,       \* comments that the run has fetched
    answered,   \* the last error that the run has answered
    troubles

run  == <<step, seen, answered>>
vars == <<thread, read, run, troubles>>

Idle == step = "idle" /\ seen = 0 /\ answered = 0

Trouble == troubles < MaxTrouble /\ troubles' = troubles + 1

Answers == {"help answer", "error answer", "denial", "feedback"}

\* What matters of a comment.  A stanza that does not parse, ignore and process
\* count whoever writes them; anyone's other instructions are denied alike.
Utterances ==
    [by : Collaborators, says : {"broken", "ignore", "process", "allow"}]
        \cup [by : People, says : {"help"}]

Now == IF thread = <<>> THEN 0 ELSE Last(thread).date

-----------------------------------------------------------------------------
(* Reading instructions                                                    *)

\* The instructions of a comment.  The help between ignore and process is full
\* of them.
Instructions(says) ==
    CASE says = "help answer"  -> <<"ignore", "process", "help-reset">>
      [] says = "error answer" -> <<"reset-errors">>
      [] says = "denial"       -> <<"reset-denied">>
      [] says = "feedback"     -> <<"security-feedback-processed">>
      [] OTHER                 -> <<says>>

\* DEFAULTS; None is 0.
Start == [process |-> TRUE, allowed |-> Collaborators \cup {Bot}, helps |-> {},
          errors |-> {}, reset |-> 0, denied |-> {}, feedback |-> FALSE]

\* The extensions' process_instruction, each for an instruction of comment c.
SecurityHeeds(s, name) ==
    CASE name = "security-feedback-processed" -> [s EXCEPT !.feedback = TRUE]
      [] name = "allow" -> [s EXCEPT !.allowed = @ \cup {PullAuthor},
                                     !.denied = {k \in @ : thread[k].by # PullAuthor}]
      [] OTHER -> s

HelpHeeds(s, name, c) ==
    CASE name = "help"       -> [s EXCEPT !.helps = @ \cup {c.by}]
      [] name = "help-reset" -> [s EXCEPT !.helps = {}]
      [] OTHER               -> s

ErrorHeeds(s, name, c) ==
    CASE name = "reset-errors" -> [s EXCEPT !.reset = c.date]
      [] name = "reset-denied" -> [s EXCEPT !.denied = {}]
      [] OTHER                 -> s

\* Faulty variant: nobody is denied.
HeedAnyone(s, name, c, i) ==
    ErrorHeeds(HelpHeeds(SecurityHeeds(s, name), name, c), name, c)

\* process_instructions: the extensions by stage, or a denial.
Heed(s, name, c, i) ==
    IF c.by \in s.allowed
    THEN ErrorHeeds(HelpHeeds(SecurityHeeds(s, name), name, c), name, c)
    ELSE [s EXCEPT !.denied = @ \cup {i}]

\* parse_instructions.
Obey(s, name, c, i) ==
    CASE name = "broken" -> [s EXCEPT !.errors = @ \cup {i}]
      [] ~s.process /\ name # "broken" -> [s EXCEPT !.process = name = "process"]
      [] s.process /\ name = "ignore"  -> [s EXCEPT !.process = FALSE]
      [] OTHER -> Heed(s, name, c, i)

\* All instructions of a comment, in order.
Reading(s, comment, i) ==
    LET names == Instructions(comment.says)
        obeyed[j \in 0 .. Len(names)] ==
            IF j = 0 THEN s ELSE Obey(obeyed[j - 1], names[j], comment, i)
    IN  obeyed[Len(names)]

\* Each run reads from the start.  Comments do not change, nor does what the bot
\* makes of them: read has it, comment by comment.
Comes(comment) ==
    LET i == Len(thread) + 1
    IN  /\ thread' = Append(thread, comment)
        /\ read' = [n \in 0 .. i |-> IF n = i THEN Reading(read[i - 1], comment, i) ELSE read[n]]

Init ==
    /\ thread = <<>> /\ read = [n \in {0} |-> Start]
    /\ Idle
    /\ troubles = 0

Say ==
    /\ Len(SelectSeq(thread, LAMBDA c : c.by # Bot)) < MaxSaid
    /\ Len(thread) < MaxThread
    /\ \E u \in Utterances :
          Comes([by |-> u.by, says |-> u.says, date |-> Now + 1, seen |-> 0, to |-> 0])
    /\ UNCHANGED <<run, troubles>>

-----------------------------------------------------------------------------
(* One run of the bot                                                      *)

Goes(next) == step' = next /\ UNCHANGED <<thread, read, seen, answered, troubles>>

Ends == step' = "idle" /\ seen' = 0 /\ answered' = 0

\* Faulty variant: the run reads the last page.
PageLast == Len(thread)

\* One page of comments, the oldest.
Page == IF Len(thread) > PageSize THEN PageSize ELSE Len(thread)

CommentsFetched ==
    /\ step = "idle"
    /\ step' = "security" /\ seen' = Page
    /\ UNCHANGED <<thread, read, answered, troubles>>

Current == read[seen]

\* A comment may have the date of the one before, to the second.
Post(says, to, date) ==
    /\ Len(thread) < MaxThread
    /\ Comes([by |-> Bot, says |-> says, date |-> date, seen |-> seen, to |-> to])

\* A comment is posted again when its answer was lost.
Again == Trouble /\ UNCHANGED run

Allowed == PullAuthor \in Current.allowed

SecurityPasses == step = "security" /\ Allowed /\ Goes("help")

SecurityComments ==
    /\ step = "security" /\ ~Allowed /\ ~Current.feedback
    /\ Post("feedback", 0, Now + 1)
    /\ (Ends /\ UNCHANGED troubles) \/ Again

SecuritySkips ==
    /\ step = "security" /\ ~Allowed /\ Current.feedback
    /\ Ends /\ UNCHANGED <<thread, read, troubles>>

NoHelp == step = "help" /\ Current.helps = {} /\ Goes("errors")

Help ==
    /\ step = "help" /\ Current.helps # {}
    /\ Post("help answer", 0, Now + 1)
    /\ (step' = "errors" /\ UNCHANGED <<seen, answered, troubles>>) \/ Again

\* Faulty variant: errors are not reset.
PendingAlways == {k \in Current.errors : k > answered}

\* Faulty variant: the loop stops after one error.
PendingFirst ==
    {k \in Current.errors :
        answered = 0 /\ (Current.reset = 0 \/ thread[k].date >= Current.reset)}

\* Errors that are left, but for those older than the last reset.
Pending ==
    {k \in Current.errors :
        k > answered /\ (Current.reset = 0 \/ thread[k].date >= Current.reset)}

NoError == step = "errors" /\ Pending = {} /\ Goes("denied")

ErrorCommented ==
    /\ step = "errors"
    /\ \E error \in Pending :
         /\ \A k \in Pending : error <= k
         /\ \E date \in {Now, Now + 1} : Post("error answer", error, date)
         /\ (answered' = error /\ UNCHANGED <<step, seen, troubles>>) \/ Again

NoDenial == step = "denied" /\ Current.denied = {} /\ Ends /\ UNCHANGED <<thread, read, troubles>>

Deny ==
    /\ step = "denied" /\ Current.denied # {}
    /\ Post("denial", 0, Now + 1)
    /\ (Ends /\ UNCHANGED troubles) \/ Again

Full == Len(thread) = MaxThread

\* An exception or a cancellation, at any await; and, at the bound, the end.
RunAbandoned ==
    /\ step # "idle"
    /\ Trouble \/ (Full /\ UNCHANGED troubles)
    /\ Ends /\ UNCHANGED <<thread, read>>

-----------------------------------------------------------------------------
RunStep ==
    \/ CommentsFetched
    \/ SecurityPasses \/ SecurityComments \/ SecuritySkips
    \/ NoHelp \/ Help \/ NoError \/ ErrorCommented \/ NoDenial \/ Deny

Next == Say \/ RunStep \/ RunAbandoned

Spec == Init /\ [][Next]_vars

\* The head is polled for ever.
FairSpec == Spec /\ WF_vars(RunStep)

-----------------------------------------------------------------------------
(* Properties                                                              *)

Comment == [by : People \cup {Bot}, says : Answers \cup {u.says : u \in Utterances},
            date : 1 .. MaxThread, seen : 0 .. PageSize, to : 0 .. MaxThread]

TypeOK ==
    /\ thread \in Seq(Comment) /\ Len(thread) <= MaxThread
    /\ step \in {"idle", "security", "help", "errors", "denied"}
    /\ seen \in 0 .. PageSize /\ seen <= Len(thread)
    /\ answered \in 0 .. seen
    /\ step \in {"help", "errors", "denied"} => Allowed
    /\ troubles \in 0 .. MaxTrouble

\* "Author instructions before allow wont be processed" (doc/security.rst:22),
\* nor those of any stranger: help is given to who may ask for it by then.
AllowedAfter ==
    \A asker \in Current.helps \ Collaborators :
        /\ asker = PullAuthor
        /\ \E i, k \in 1 .. seen :
              /\ i < k
              /\ thread[i].says = "allow" /\ thread[i].by \in Collaborators
              /\ thread[k].says = "help" /\ thread[k].by = asker

\* Does the bot, when it reads its answer d, obey it?
Minded(d) == read[d - 1].process \/ thread[d].says = "help answer"

\* The comments that a kind of answer is for.
Calls(says, k) ==
    CASE says = "help answer"  -> thread[k].says = "help"
      [] says = "error answer" -> thread[k].says = "broken"
      [] says = "denial"       -> thread[k].by # Bot /\ thread[k].says # "broken"
      [] OTHER                 -> FALSE

Covers(e, says, k) ==
    /\ thread[e].says = says /\ Minded(e)
    /\ IF says = "error answer" THEN thread[e].to = k /\ thread[e].date > thread[k].date
       ELSE thread[e].seen >= k

\* The bot does not repeat itself: what it writes answers a comment that it has
\* not answered yet, unless an ignore hid its own reset, a request was repeated,
\* or the conversation is longer than the page (core.py:107-193, 449-484).
AnswersNew ==
    troubles = 0 =>
        \A d \in 1 .. IF Len(thread) > PageSize THEN PageSize ELSE Len(thread) :
            LET says == thread[d].says IN
            CASE says \in Answers \ {"feedback"} ->
                    \E k \in 1 .. thread[d].seen :
                        Calls(says, k) /\ \A e \in 1 .. d - 1 : ~Covers(e, says, k)
              [] says = "feedback" ->
                    \A e \in 1 .. d - 1 : thread[e].says = says => ~Minded(e)
              [] OTHER -> TRUE

\* The answer that a comment should get.
Due(k) ==
    LET s == read[k - 1] IN
    CASE thread[k].says = "broken" -> "error answer"
      [] s.process /\ thread[k].says = "help" /\ thread[k].by \in s.allowed -> "help answer"
      [] s.process /\ thread[k].says = "help" /\ thread[k].by \notin s.allowed \cup {PullAuthor} ->
            "denial"
      [] OTHER -> "none"

Waiting(k) ==
    /\ Due(k) # "none"
    /\ ~\E d \in k + 1 .. Len(thread) :
          /\ thread[d].says = Due(k)
          /\ \/ thread[d].seen < k
             \/ Due(k) # "error answer"
             \/ thread[d].to = k \/ troubles > 0

\* While the bot may test the pull request, every comment gets its answer, except
\* the one written after the bot read the thread and before it reset what it
\* answers, and an error that an abandoned run did not come to.
NothingMissed ==
    <>[](PullAuthor \in read[Page].allowed) =>
        ~<>[](Len(thread) <= PageSize /\ \E k \in DOMAIN thread : Waiting(k))
=============================================================================
