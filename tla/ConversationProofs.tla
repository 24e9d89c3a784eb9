------------------------- MODULE ConversationProofs -------------------------
(* What the bot promises whatever people write: nobody is obeyed who may not *)
(* be, and it does not repeat itself, for any number of people, comments and *)
(* troubles and any length of the page.                                      *)
EXTENDS Conversation, SequenceTheorems, TLAPS

-----------------------------------------------------------------------------
(* The inductive invariant                                                  *)

Speakers == People \cup {Bot}

Readings == [process : BOOLEAN, allowed : SUBSET Speakers, helps : SUBSET Speakers,
             errors : SUBSET (1 .. MaxThread), reset : 0 .. MaxThread,
             denied : SUBSET (1 .. MaxThread), feedback : BOOLEAN]

Typed ==
    /\ TypeOK
    /\ read \in [0 .. Len(thread) -> Readings]
    /\ step = "idle" => seen = 0

\* A comment comes after what its author had read, and is not dated back.
Said(i) ==
    /\ thread[i].date <= i /\ thread[i].seen < i
    /\ IF thread[i].by = Bot
       THEN thread[i].says \in Answers
       ELSE \E u \in Utterances : thread[i].by = u.by /\ thread[i].says = u.says
    /\ \A k \in 1 .. i : thread[k].date <= thread[i].date

Vouches(i) == thread[i].says = "allow" /\ thread[i].by \in Collaborators

\* What the bot makes of the first n comments: s.  Who is allowed, and was when he
\* asked.
Trusted(s, n) ==
    /\ Collaborators \cup {Bot} \subseteq s.allowed
    /\ s.allowed \subseteq Collaborators \cup {Bot, PullAuthor}
    /\ PullAuthor \in s.allowed \ Collaborators => \E i \in 1 .. n : Vouches(i)
    /\ \A asker \in s.helps \ Collaborators :
          /\ asker = PullAuthor
          /\ \E i, k \in 1 .. n :
                i < k /\ Vouches(i) /\ thread[k].says = "help" /\ thread[k].by = asker

\* What is to be answered.
Wanted(s, n) ==
    /\ \A k \in s.errors : k <= n /\ thread[k].says = "broken"
    /\ \A k \in s.denied : k <= n /\ thread[k].by # Bot /\ thread[k].says # "broken"
    /\ s.helps # {} =>
          \E k \in 1 .. n : /\ thread[k].says = "help"
                            /\ \A e \in k + 1 .. n : thread[e].says # "help answer"

\* What the bot remembers from its answers, unless an ignore hid them.
Remembered(s, n) ==
    \A e \in 1 .. n : read[e - 1].process =>
        /\ thread[e].says = "error answer" => thread[e].date <= s.reset
        /\ thread[e].says = "feedback" => s.feedback
        /\ thread[e].says = "denial" => \A k \in s.denied : e <= k

Reads(n) == Trusted(read[n], n) /\ Wanted(read[n], n) /\ Remembered(read[n], n)

\* What the bot wrote on the page since its run read it.
Recent(e) ==
    thread[e].by = Bot /\ step # "idle" =>
        /\ step \in {"errors", "denied"}
        /\ \/ thread[e].says = "help answer"
           \/ thread[e].says = "error answer" /\ (step = "denied" \/ thread[e].to <= answered)

Fresh == troubles = 0 => \A e \in seen + 1 .. Page : Recent(e)

IInv ==
    /\ Typed
    /\ \A i \in 1 .. Len(thread) : Said(i)
    /\ \A n \in 0 .. Len(thread) : Reads(n)
    /\ Fresh
    /\ AnswersNew

-----------------------------------------------------------------------------
(* What the bot makes of one comment                                        *)

LEMMA Constants ==
  /\ Collaborators \subseteq People /\ PullAuthor \in People /\ Bot \notin People
  /\ MaxSaid \in Nat /\ MaxThread \in Nat /\ MaxTrouble \in Nat
  /\ PageSize \in Nat /\ 1 <= PageSize /\ PageSize <= MaxThread
  BY ConversationAssumption

\* The instruction of a comment that has one.
LEMMA ReadsOne ==
  ASSUME NEW s, NEW c, NEW i, NEW name, Instructions(c.says) = <<name>>
  PROVE  Reading(s, c, i) = Obey(s, name, c, i)
<1> DEFINE names   == Instructions(c.says)
           Step(f) == [j \in 0 .. Len(names) |->
                          IF j = 0 THEN s ELSE Obey(f[j - 1], names[j], c, i)]
           obeyed  == CHOOSE f : f = Step(f)
           found   == [j \in 0 .. 1 |-> IF j = 0 THEN s ELSE Obey(s, name, c, i)]
<1>1. Len(names) = 1 /\ names[1] = name
  OBVIOUS
<1>2. Reading(s, c, i) = obeyed[Len(names)]
  BY DEF Reading
<1> HIDE DEF names
<1>3. found = Step(found)
  <2>1. \A j \in 0 .. 1 : found[j] = Step(found)[j]
    BY <1>1
  <2> QED
    BY <1>1, <2>1
<1>4. obeyed = Step(obeyed)
  BY <1>3
<1> HIDE DEF obeyed
<1>5. obeyed[0] = s /\ obeyed[1] = Obey(obeyed[0], name, c, i)
  BY <1>1, <1>4
<1> QED
  BY <1>1, <1>2, <1>5

\* The three of an answer to help, one after the other.
LEMMA ReadsThree ==
  ASSUME NEW s, NEW c, NEW i, Len(Instructions(c.says)) = 3
  PROVE  Reading(s, c, i) =
             Obey(Obey(Obey(s, Instructions(c.says)[1], c, i), Instructions(c.says)[2], c, i),
                  Instructions(c.says)[3], c, i)
<1> DEFINE names   == Instructions(c.says)
           Step(f) == [j \in 0 .. Len(names) |->
                          IF j = 0 THEN s ELSE Obey(f[j - 1], names[j], c, i)]
           obeyed  == CHOOSE f : f = Step(f)
           first   == Obey(s, names[1], c, i)
           second  == Obey(first, names[2], c, i)
           third   == Obey(second, names[3], c, i)
           found   == [j \in 0 .. 3 |-> IF j = 0 THEN s ELSE IF j = 1 THEN first
                                        ELSE IF j = 2 THEN second ELSE third]
<1>1. Len(names) = 3
  OBVIOUS
<1>2. Reading(s, c, i) = obeyed[Len(names)]
  BY DEF Reading
<1> HIDE DEF names
<1>3. found = Step(found)
  <2>1. found[0] = s /\ found[1] = first /\ found[2] = second /\ found[3] = third
    OBVIOUS
  <2>2. /\ Step(found)[0] = s /\ Step(found)[1] = Obey(found[0], names[1], c, i)
        /\ Step(found)[2] = Obey(found[1], names[2], c, i) /\ Step(found)[3] = Obey(found[2], names[3], c, i)
    <3> HIDE DEF found
    <3> QED
      BY <1>1
  <2>3. \A j \in 0 .. 3 : found[j] = Step(found)[j]
    <3> SUFFICES ASSUME NEW j \in 0 .. 3 PROVE found[j] = Step(found)[j]
      OBVIOUS
    <3>1. j = 0 \/ j = 1 \/ j = 2 \/ j = 3
      OBVIOUS
    <3> HIDE DEF found, Step
    <3> QED
      BY <2>1, <2>2, <3>1
  <2> QED
    BY <1>1, <2>3
<1>4. obeyed = Step(obeyed)
  BY <1>3
<1> HIDE DEF obeyed, found
<1>5. /\ obeyed[0] = s /\ obeyed[1] = Obey(obeyed[0], names[1], c, i)
      /\ obeyed[2] = Obey(obeyed[1], names[2], c, i) /\ obeyed[3] = Obey(obeyed[2], names[3], c, i)
  BY <1>1, <1>4
<1>6. Reading(s, c, i) = third
  BY <1>1, <1>2, <1>5
<1> QED
  BY <1>6 DEF names

\* An answer to help resets the questions, whatever was ignored.
LEMMA ReadsHelpAnswer ==
  ASSUME NEW s \in Readings, NEW c, NEW i, c.says = "help answer", c.by \in s.allowed
  PROVE  Reading(s, c, i) = [s EXCEPT !.process = TRUE, !.helps = {}]
<1> DEFINE ignoring == [s EXCEPT !.process = FALSE]
           awake    == [s EXCEPT !.process = TRUE]
<1>1. Instructions(c.says) = <<"ignore", "process", "help-reset">>
  BY DEF Instructions
<1>2. Obey(s, "ignore", c, i) = ignoring
  <2>1. CASE s.process
    BY <2>1 DEF Obey
  <2>2. CASE ~s.process
    BY <2>2 DEF Obey
  <2> QED
    BY <2>1, <2>2
<1>3. Obey(ignoring, "process", c, i) = awake
  <2>1. ~ignoring.process
    BY DEF Readings
  <2>2. Obey(ignoring, "process", c, i) = [ignoring EXCEPT !.process = TRUE]
    BY <2>1 DEF Obey
  <2> QED
    BY <2>2 DEF Readings
<1>4. Obey(awake, "help-reset", c, i) = [awake EXCEPT !.helps = {}]
  <2>1. awake.process /\ c.by \in awake.allowed
    BY DEF Readings
  <2>2. Obey(awake, "help-reset", c, i) = Heed(awake, "help-reset", c, i)
    BY <2>1 DEF Obey
  <2> QED
    BY <2>1, <2>2 DEF Heed, SecurityHeeds, HelpHeeds, ErrorHeeds
<1>5. Reading(s, c, i) = Obey(Obey(Obey(s, "ignore", c, i), "process", c, i), "help-reset", c, i)
  <2> DEFINE names == Instructions(c.says)
  <2>1. Len(names) = 3 /\ names[1] = "ignore" /\ names[2] = "process" /\ names[3] = "help-reset"
    <3>1. names = <<"ignore", "process", "help-reset">>
      BY <1>1
    <3> HIDE DEF names
    <3> QED
      BY <3>1
  <2> QED
    BY <2>1, ReadsThree
<1>6. [awake EXCEPT !.helps = {}] = [s EXCEPT !.process = TRUE, !.helps = {}]
  OBVIOUS
<1> HIDE DEF ignoring, awake
<1> QED
  BY <1>2, <1>3, <1>4, <1>5, <1>6

\* The other answers count if nothing is ignored.
LEMMA ReadsAnswer ==
  ASSUME NEW s \in Readings, NEW c, NEW i, c.by \in s.allowed,
         c.says \in {"error answer", "denial", "feedback"}
  PROVE  Reading(s, c, i) = IF ~s.process THEN s
                            ELSE IF c.says = "error answer" THEN [s EXCEPT !.reset = c.date]
                            ELSE IF c.says = "denial" THEN [s EXCEPT !.denied = {}]
                            ELSE [s EXCEPT !.feedback = TRUE]
<1> DEFINE name == CASE c.says = "error answer" -> "reset-errors"
                     [] c.says = "denial"       -> "reset-denied"
                     [] OTHER                   -> "security-feedback-processed"
<1>1. Instructions(c.says) = <<name>>
  BY DEF Instructions
<1>2. name \in {"reset-errors", "reset-denied", "security-feedback-processed"}
  OBVIOUS
<1>3. Reading(s, c, i) = Obey(s, name, c, i)
  BY <1>1, ReadsOne
<1>4. CASE ~s.process
  <2>1. Obey(s, name, c, i) = [s EXCEPT !.process = FALSE]
    BY <1>2, <1>4 DEF Obey
  <2>2. [s EXCEPT !.process = FALSE] = s
    BY <1>4 DEF Readings
  <2> QED
    BY <1>3, <1>4, <2>1, <2>2
<1>5. CASE s.process
  <2>1. Obey(s, name, c, i) = ErrorHeeds(HelpHeeds(SecurityHeeds(s, name), name, c), name, c)
    BY <1>2, <1>5 DEF Obey, Heed
  <2>2. CASE c.says = "error answer"
    <3>1. name = "reset-errors"
      BY <2>2
    <3>2. SecurityHeeds(s, name) = s /\ HelpHeeds(s, name, c) = s
      BY <3>1 DEF SecurityHeeds, HelpHeeds
    <3> QED
      BY <1>3, <1>5, <2>1, <2>2, <3>1, <3>2 DEF ErrorHeeds
  <2>3. CASE c.says = "denial"
    <3>1. name = "reset-denied"
      BY <2>3
    <3>2. SecurityHeeds(s, name) = s /\ HelpHeeds(s, name, c) = s
      BY <3>1 DEF SecurityHeeds, HelpHeeds
    <3> QED
      BY <1>3, <1>5, <2>1, <2>3, <3>1, <3>2 DEF ErrorHeeds
  <2>4. CASE c.says = "feedback"
    <3> DEFINE heeded == [s EXCEPT !.feedback = TRUE]
    <3>1. name = "security-feedback-processed"
      BY <2>4
    <3>2. SecurityHeeds(s, name) = heeded
      BY <3>1 DEF SecurityHeeds
    <3>3. HelpHeeds(heeded, name, c) = heeded /\ ErrorHeeds(heeded, name, c) = heeded
      BY <3>1 DEF HelpHeeds, ErrorHeeds
    <3> QED
      BY <1>3, <1>5, <2>1, <2>4, <3>2, <3>3
  <2> QED
    BY <2>2, <2>3, <2>4
<1> QED
  BY <1>4, <1>5

\* What others write.
LEMMA ReadsBroken ==
  ASSUME NEW s \in Readings, NEW c, NEW i, c.says = "broken"
  PROVE  Reading(s, c, i) = [s EXCEPT !.errors = @ \cup {i}]
<1>1. Reading(s, c, i) = Obey(s, "broken", c, i)
  BY ReadsOne DEF Instructions
<1> QED
  BY <1>1 DEF Obey

LEMMA ReadsSwitch ==
  ASSUME NEW s \in Readings, NEW c, NEW i, c.says \in {"ignore", "process"}, c.by \in s.allowed
  PROVE  \E b \in BOOLEAN : Reading(s, c, i) = [s EXCEPT !.process = b]
<1>1. Reading(s, c, i) = Obey(s, c.says, c, i)
  BY ReadsOne DEF Instructions
<1>2. CASE ~s.process
  BY <1>1, <1>2 DEF Obey
<1>3. CASE s.process /\ c.says = "ignore"
  BY <1>1, <1>3 DEF Obey
<1>4. CASE s.process /\ c.says = "process"
  <2>1. SecurityHeeds(s, "process") = s /\ HelpHeeds(s, "process", c) = s
    BY DEF SecurityHeeds, HelpHeeds
  <2>2. ErrorHeeds(s, "process", c) = s
    BY DEF ErrorHeeds
  <2>3. Obey(s, c.says, c, i) = s
    BY <1>4, <2>1, <2>2 DEF Obey, Heed
  <2>4. s = [s EXCEPT !.process = TRUE]
    BY <1>4 DEF Readings
  <2> QED
    BY <1>1, <2>3, <2>4
<1> QED
  BY <1>2, <1>3, <1>4

LEMMA ReadsAllow ==
  ASSUME NEW s \in Readings, NEW c, NEW i, c.says = "allow", c.by \in s.allowed
  PROVE  Reading(s, c, i) = IF s.process
                            THEN [s EXCEPT !.allowed = @ \cup {PullAuthor},
                                           !.denied = {k \in @ : thread[k].by # PullAuthor}]
                            ELSE s
<1>1. Reading(s, c, i) = Obey(s, "allow", c, i)
  BY ReadsOne DEF Instructions
<1>2. CASE ~s.process
  <2>1. s = [s EXCEPT !.process = FALSE]
    BY <1>2 DEF Readings
  <2> QED
    BY <1>1, <1>2, <2>1 DEF Obey
<1>3. CASE s.process
  <2> DEFINE heeded == [s EXCEPT !.allowed = @ \cup {PullAuthor},
                                 !.denied = {k \in @ : thread[k].by # PullAuthor}]
  <2>1. SecurityHeeds(s, "allow") = heeded
    BY DEF SecurityHeeds
  <2>2. HelpHeeds(heeded, "allow", c) = heeded /\ ErrorHeeds(heeded, "allow", c) = heeded
    BY DEF HelpHeeds, ErrorHeeds
  <2>3. Obey(s, "allow", c, i) = heeded
    BY <1>3, <2>1, <2>2 DEF Obey, Heed
  <2> QED
    BY <1>1, <1>3, <2>3
<1> QED
  BY <1>2, <1>3

LEMMA ReadsHelp ==
  ASSUME NEW s \in Readings, NEW c, NEW i, c.says = "help"
  PROVE  Reading(s, c, i) = IF ~s.process THEN s
                            ELSE IF c.by \in s.allowed THEN [s EXCEPT !.helps = @ \cup {c.by}]
                            ELSE [s EXCEPT !.denied = @ \cup {i}]
<1>1. Reading(s, c, i) = Obey(s, "help", c, i)
  BY ReadsOne DEF Instructions
<1>2. CASE ~s.process
  <2>1. s = [s EXCEPT !.process = FALSE]
    BY <1>2 DEF Readings
  <2> QED
    BY <1>1, <1>2, <2>1 DEF Obey
<1>3. CASE s.process
  <2> DEFINE heeded == [s EXCEPT !.helps = @ \cup {c.by}]
  <2>1. SecurityHeeds(s, "help") = s /\ HelpHeeds(s, "help", c) = heeded
    BY DEF SecurityHeeds, HelpHeeds
  <2>2. ErrorHeeds(heeded, "help", c) = heeded
    BY DEF ErrorHeeds
  <2>3. Obey(s, "help", c, i) = Heed(s, "help", c, i)
    BY <1>3 DEF Obey
  <2> QED
    BY <1>1, <1>3, <2>1, <2>2, <2>3 DEF Heed
<1> QED
  BY <1>2, <1>3

\* Who says what.
Voice(c) == \/ c.by = Bot /\ c.says \in Answers
            \/ \E u \in Utterances : c.by = u.by /\ c.says = u.says

\* How a comment, the i-th one, may change what the bot makes of the thread: s to r.
Follows(s, c, i, r) ==
    /\ \/ r.allowed = s.allowed
       \/ /\ c.says = "allow" /\ c.by \in Collaborators
          /\ r.allowed = s.allowed \cup {PullAuthor}
    /\ \/ r.helps = {}
       \/ r.helps = s.helps /\ c.says # "help answer"
       \/ c.says = "help" /\ c.by \in s.allowed /\ r.helps = s.helps \cup {c.by}
    /\ r.errors = s.errors \/ (c.says = "broken" /\ r.errors = s.errors \cup {i})
    /\ \/ r.denied \subseteq s.denied
       \/ c.says = "help" /\ c.by \notin s.allowed /\ r.denied = s.denied \cup {i}
    /\ r.reset = s.reset \/ (c.says = "error answer" /\ r.reset = c.date)
    /\ s.feedback => r.feedback
    /\ s.process =>
        /\ c.says = "error answer" => r.reset = c.date
        /\ c.says = "feedback" => r.feedback
        /\ c.says = "denial" => r.denied = {}

LEMMA VoiceIs ==
  ASSUME NEW c, Voice(c)
  PROVE  \/ /\ c.by = Bot
            /\ \/ c.says = "help answer"
               \/ c.says \in {"error answer", "denial", "feedback"}
         \/ c.by \in Collaborators /\ c.says \in {"broken", "ignore", "process", "allow"}
         \/ c.by \in People /\ c.says = "help"
<1>1. CASE c.by = Bot /\ c.says \in Answers
  BY <1>1 DEF Answers
<1>2. ASSUME NEW u \in Utterances, c.by = u.by, c.says = u.says
      PROVE  \/ u.by \in Collaborators /\ u.says \in {"broken", "ignore", "process", "allow"}
             \/ u.by \in People /\ u.says = "help"
  BY DEF Utterances
<1> QED
  BY <1>1, <1>2 DEF Voice

LEMMA ReadingFollows ==
  ASSUME NEW s \in Readings, NEW c, NEW i \in 1 .. MaxThread,
         c.date \in 0 .. MaxThread, Voice(c), Collaborators \cup {Bot} \subseteq s.allowed
  PROVE  Reading(s, c, i) \in Readings /\ Follows(s, c, i, Reading(s, c, i))
<1>1. PICK r : r = Reading(s, c, i)
  OBVIOUS
<1>2. PullAuthor \in Speakers /\ People \subseteq Speakers
  BY Constants DEF Speakers
<1>3. CASE c.by = Bot /\ c.says = "help answer"
  <2>1. r = [s EXCEPT !.process = TRUE, !.helps = {}]
    BY <1>1, <1>3, ReadsHelpAnswer
  <2>2. /\ r.allowed = s.allowed /\ r.helps = {} /\ r.errors = s.errors /\ r.reset = s.reset
        /\ r.denied = s.denied /\ r.feedback = s.feedback
    BY <2>1 DEF Readings
  <2>3. r \in Readings
    BY <2>1 DEF Readings
  <2> QED
    BY <1>1, <1>3, <2>2, <2>3 DEF Follows
<1>4. CASE c.by = Bot /\ c.says \in {"error answer", "denial", "feedback"}
  <2>1. r = IF ~s.process THEN s
            ELSE IF c.says = "error answer" THEN [s EXCEPT !.reset = c.date]
            ELSE IF c.says = "denial" THEN [s EXCEPT !.denied = {}]
            ELSE [s EXCEPT !.feedback = TRUE]
    BY <1>1, <1>4, ReadsAnswer
  <2>2. CASE ~s.process
    BY <1>1, <1>4, <2>1, <2>2 DEF Follows
  <2>3. CASE s.process /\ c.says = "error answer"
    <3>1. r = [s EXCEPT !.reset = c.date]
      BY <2>1, <2>3
    <3>2. /\ r.allowed = s.allowed /\ r.helps = s.helps /\ r.errors = s.errors
          /\ r.reset = c.date /\ r.denied = s.denied /\ r.feedback = s.feedback
      BY <3>1 DEF Readings
    <3>3. r \in Readings
      BY <3>1 DEF Readings
    <3> QED
      BY <1>1, <2>3, <3>2, <3>3 DEF Follows
  <2>4. CASE s.process /\ c.says = "denial"
    <3>1. r = [s EXCEPT !.denied = {}]
      BY <2>1, <2>4
    <3>2. /\ r.allowed = s.allowed /\ r.helps = s.helps /\ r.errors = s.errors
          /\ r.reset = s.reset /\ r.denied = {} /\ r.feedback = s.feedback
      BY <3>1 DEF Readings
    <3>3. r \in Readings
      BY <3>1 DEF Readings
    <3> QED
      BY <1>1, <2>4, <3>2, <3>3 DEF Follows
  <2>5. CASE s.process /\ c.says = "feedback"
    <3>1. r = [s EXCEPT !.feedback = TRUE]
      BY <2>1, <2>5
    <3>2. /\ r.allowed = s.allowed /\ r.helps = s.helps /\ r.errors = s.errors
          /\ r.reset = s.reset /\ r.denied = s.denied /\ r.feedback
      BY <3>1 DEF Readings
    <3>3. r \in Readings
      BY <3>1 DEF Readings
    <3> QED
      BY <1>1, <2>5, <3>2, <3>3 DEF Follows
  <2> QED
    BY <1>4, <2>2, <2>3, <2>4, <2>5
<1>5. CASE c.by \in Collaborators /\ c.says = "broken"
  <2>1. r = [s EXCEPT !.errors = @ \cup {i}]
    BY <1>1, <1>5, ReadsBroken
  <2>2. /\ r.allowed = s.allowed /\ r.helps = s.helps /\ r.errors = s.errors \cup {i}
        /\ r.reset = s.reset /\ r.denied = s.denied /\ r.feedback = s.feedback
    BY <2>1 DEF Readings
  <2>3. r \in Readings
    BY <2>1 DEF Readings
  <2> QED
    BY <1>1, <1>5, <2>2, <2>3 DEF Follows
<1>6. CASE c.by \in Collaborators /\ c.says \in {"ignore", "process"}
  <2>1. PICK b \in BOOLEAN : r = [s EXCEPT !.process = b]
    BY <1>1, <1>6, ReadsSwitch
  <2>2. /\ r.allowed = s.allowed /\ r.helps = s.helps /\ r.errors = s.errors
        /\ r.reset = s.reset /\ r.denied = s.denied /\ r.feedback = s.feedback
    BY <2>1 DEF Readings
  <2>3. r \in Readings
    BY <2>1 DEF Readings
  <2> QED
    BY <1>1, <1>6, <2>2, <2>3 DEF Follows
<1>7. CASE c.by \in Collaborators /\ c.says = "allow"
  <2>1. r = IF s.process
            THEN [s EXCEPT !.allowed = @ \cup {PullAuthor},
                           !.denied = {k \in @ : thread[k].by # PullAuthor}]
            ELSE s
    BY <1>1, <1>7, ReadsAllow
  <2>2. CASE ~s.process
    BY <1>1, <1>7, <2>1, <2>2 DEF Follows
  <2>3. CASE s.process
    <3>1. r = [s EXCEPT !.allowed = @ \cup {PullAuthor},
                        !.denied = {k \in @ : thread[k].by # PullAuthor}]
      BY <2>1, <2>3
    <3>2. /\ r.allowed = s.allowed \cup {PullAuthor} /\ r.denied \subseteq s.denied
          /\ r.helps = s.helps /\ r.errors = s.errors /\ r.reset = s.reset
          /\ r.feedback = s.feedback
      BY <3>1 DEF Readings
    <3>3. r \in Readings
      BY <1>2, <3>1 DEF Readings
    <3> QED
      BY <1>1, <1>7, <3>2, <3>3 DEF Follows
  <2> QED
    BY <2>2, <2>3
<1>8. CASE c.by \in People /\ c.says = "help"
  <2>1. r = IF ~s.process THEN s
            ELSE IF c.by \in s.allowed THEN [s EXCEPT !.helps = @ \cup {c.by}]
            ELSE [s EXCEPT !.denied = @ \cup {i}]
    BY <1>1, <1>8, ReadsHelp
  <2>2. CASE ~s.process
    BY <1>1, <1>8, <2>1, <2>2 DEF Follows
  <2>3. CASE s.process /\ c.by \in s.allowed
    BY <1>1, <1>2, <1>8, <2>1, <2>3 DEF Follows, Readings
  <2>4. CASE s.process /\ c.by \notin s.allowed
    BY <1>1, <1>8, <2>1, <2>4 DEF Follows, Readings
  <2> QED
    BY <2>2, <2>3, <2>4
<1> QED
  BY <1>3, <1>4, <1>5, <1>6, <1>7, <1>8, VoiceIs

-----------------------------------------------------------------------------
(* A comment comes                                                          *)

LEMMA Domain ==
  ASSUME Typed
  PROVE  Len(thread) \in Nat /\ DOMAIN thread = 1 .. Len(thread)
  BY LenProperties DEF Typed, TypeOK

LEMMA Appended ==
  ASSUME Typed, NEW c, Comes(c)
  PROVE  /\ Len(thread') = Len(thread) + 1
         /\ thread'[Len(thread) + 1] = c
         /\ \A k \in 1 .. Len(thread) : thread'[k] = thread[k]
         /\ DOMAIN read' = 0 .. Len(thread) + 1
         /\ \A n \in 0 .. Len(thread) : read'[n] = read[n]
         /\ read'[Len(thread) + 1] = Reading(read[Len(thread)], c, Len(thread) + 1)
<1>1. Len(thread) \in Nat /\ thread \in Seq(Comment)
  BY Domain DEF Typed, TypeOK
<1>2. thread' = Append(thread, c)
  BY DEF Comes
<1>3. read' = [n \in 0 .. Len(thread) + 1 |->
                  IF n = Len(thread) + 1
                  THEN Reading(read[Len(thread) + 1 - 1], c, Len(thread) + 1) ELSE read[n]]
  BY DEF Comes
<1>4. thread \in Seq(Comment \cup {c}) /\ c \in Comment \cup {c}
  BY <1>1, SeqMonotonic
<1>5. /\ Len(thread') = Len(thread) + 1
      /\ thread'[Len(thread) + 1] = c
      /\ \A k \in 1 .. Len(thread) : thread'[k] = thread[k]
  BY <1>2, <1>4, AppendProperties
<1>6. Len(thread) + 1 - 1 = Len(thread)
  BY <1>1
<1> QED
  BY <1>1, <1>3, <1>5, <1>6

\* What the bot made of the comments before stays what it is.
LEMMA ReadsStays ==
  ASSUME Typed, NEW c, Comes(c), NEW n \in 0 .. Len(thread), NEW s, s = read[n]
  PROVE  /\ Trusted(s, n) => Trusted(s, n)'
         /\ Wanted(s, n) => Wanted(s, n)'
         /\ Remembered(s, n) => Remembered(s, n)'
<1>1. Len(thread) \in Nat
  BY Domain
<1>2. \A k \in 1 .. n : thread'[k] = thread[k]
  BY <1>1, Appended
<1>3. \A k \in 0 .. n : read'[k] = read[k]
  BY <1>1, Appended
<1>4. Trusted(s, n) => Trusted(s, n)'
  BY <1>2 DEF Trusted, Vouches
<1>5. Wanted(s, n) => Wanted(s, n)'
  <2> SUFFICES ASSUME Wanted(s, n) PROVE Wanted(s, n)'
    OBVIOUS
  <2>1. s \in Readings
    BY DEF Typed
  <2>2. (\A k \in s.errors : k \in 1 .. n) /\ (\A k \in s.denied : k \in 1 .. n)
    <3>1. s.errors \in SUBSET (1 .. MaxThread) /\ s.denied \in SUBSET (1 .. MaxThread)
      BY <2>1 DEF Readings
    <3>2. n \in Nat /\ \A k \in 1 .. MaxThread : k <= n => k \in 1 .. n
      BY <1>1, Constants
    <3> QED
      BY <3>1, <3>2 DEF Wanted
  <2>3. s.helps # {} => \E k \in 1 .. n :
            /\ thread'[k].says = "help"
            /\ \A e \in k + 1 .. n : thread'[e].says # "help answer"
    <3> SUFFICES ASSUME s.helps # {}
                 PROVE  \E k \in 1 .. n :
                            /\ thread'[k].says = "help"
                            /\ \A e \in k + 1 .. n : thread'[e].says # "help answer"
      OBVIOUS
    <3>1. PICK k \in 1 .. n : /\ thread[k].says = "help"
                              /\ \A e \in k + 1 .. n : thread[e].says # "help answer"
      BY DEF Wanted
    <3>2. \A e \in k + 1 .. n : e \in 1 .. n
      BY <1>1
    <3> QED
      BY <1>2, <3>1, <3>2
  <2> QED
    BY <1>2, <2>2, <2>3 DEF Wanted
<1>6. Remembered(s, n) => Remembered(s, n)'
  <2> SUFFICES ASSUME Remembered(s, n), NEW e \in 1 .. n, read'[e - 1].process
               PROVE  /\ thread[e].says = "error answer" => thread[e].date <= s.reset
                      /\ thread[e].says = "feedback" => s.feedback
                      /\ thread[e].says = "denial" => \A k \in s.denied : e <= k
    BY <1>2 DEF Remembered
  <2>1. e - 1 \in 0 .. n
    BY <1>1
  <2>2. read[e - 1].process
    BY <1>3, <2>1
  <2> QED
    BY <2>2 DEF Remembered
<1> QED
  BY <1>4, <1>5, <1>6

\* The comment is read as those before.
LEMMA ReadsNext ==
  ASSUME Typed, Reads(Len(thread)), NEW c, Comes(c), Voice(c),
         NEW i \in 1 .. MaxThread, i = Len(thread) + 1, c.date \in 0 .. MaxThread,
         \A k \in 1 .. Len(thread) : thread[k].date <= c.date
  PROVE  read'[i] \in Readings /\ Reads(i)'
<1>1. PICK n \in Nat : n = Len(thread)
  BY Domain
<1>2. i = n + 1 /\ i \in Nat
  BY <1>1, Constants
<1>3. PICK s \in Readings : s = read[n]
  BY <1>1 DEF Typed
<1>4. PICK r : r = Reading(s, c, i)
  OBVIOUS
<1>5. /\ thread'[i] = c /\ read'[i] = r /\ read'[n] = s
      /\ \A k \in 1 .. n : thread'[k] = thread[k]
  BY <1>1, <1>2, <1>3, <1>4, Appended
<1>6. Trusted(s, n) /\ Trusted(s, n)' /\ Wanted(s, n)' /\ Remembered(s, n)'
  BY <1>1, <1>3, ReadsStays DEF Reads
<1>7. r \in Readings /\ Follows(s, c, i, r)
  BY <1>4, <1>6, ReadingFollows DEF Trusted
<1>8. Trusted(r, i)'
  <2>1. \A k \in 1 .. n : k \in 1 .. i
    BY <1>2
  <2>2. PullAuthor \in s.allowed \ Collaborators => \E k \in 1 .. n : Vouches(k)'
    BY <1>6 DEF Trusted
  <2>3. \A asker \in s.helps \ Collaborators :
          /\ asker = PullAuthor
          /\ \E h, k \in 1 .. n :
                h < k /\ Vouches(h)' /\ thread'[k].says = "help" /\ thread'[k].by = asker
    BY <1>6 DEF Trusted
  <2>4. /\ Collaborators \cup {Bot} \subseteq r.allowed
        /\ r.allowed \subseteq Collaborators \cup {Bot, PullAuthor}
    BY <1>6, <1>7 DEF Trusted, Follows
  <2>5. PullAuthor \in r.allowed \ Collaborators => \E k \in 1 .. i : Vouches(k)'
    <3>1. CASE r.allowed = s.allowed
      BY <2>1, <2>2, <3>1
    <3>2. CASE c.says = "allow" /\ c.by \in Collaborators
      BY <1>2, <1>5, <3>2 DEF Vouches
    <3> QED
      BY <1>7, <3>1, <3>2 DEF Follows
  <2>6. ASSUME NEW asker \in r.helps \ Collaborators
        PROVE  /\ asker = PullAuthor
               /\ \E h, k \in 1 .. i :
                     h < k /\ Vouches(h)' /\ thread'[k].says = "help" /\ thread'[k].by = asker
    <3>1. CASE asker \in s.helps
      BY <2>1, <2>3, <2>6, <3>1
    <3>2. CASE c.says = "help" /\ asker = c.by /\ c.by \in s.allowed
      <4>1. asker # Bot
        <5>1. \/ c.by = Bot /\ c.says \in {"help answer", "error answer", "denial", "feedback"}
              \/ c.by \in People
          BY VoiceIs, Constants
        <5> QED
          BY <3>2, <5>1, Constants
      <4>2. asker = PullAuthor
        BY <1>6, <2>6, <3>2, <4>1 DEF Trusted
      <4>3. PICK h \in 1 .. n : Vouches(h)'
        BY <2>2, <2>6, <3>2, <4>2
      <4>4. h < i /\ h \in 1 .. i /\ i \in 1 .. i
        BY <1>2
      <4> QED
        BY <1>5, <3>2, <4>2, <4>3, <4>4
    <3> QED
      BY <1>7, <2>6, <3>1, <3>2 DEF Follows
  <2> QED
    BY <2>4, <2>5, <2>6 DEF Trusted
<1>9. Wanted(r, i)'
  <2>1. \A k \in s.errors : k <= n /\ thread'[k].says = "broken"
    BY <1>6 DEF Wanted
  <2>2. \A k \in s.denied : k <= n /\ thread'[k].by # Bot /\ thread'[k].says # "broken"
    BY <1>6 DEF Wanted
  <2>3. s.errors \in SUBSET Nat /\ s.denied \in SUBSET Nat
    BY Constants DEF Readings
  <2>4. \A k \in r.errors : k <= i /\ thread'[k].says = "broken"
    <3>1. \A k \in r.errors : k \in s.errors \/ (k = i /\ c.says = "broken")
      BY <1>7 DEF Follows
    <3> QED
      BY <1>2, <1>5, <2>1, <2>3, <3>1
  <2>5. \A k \in r.denied : k <= i /\ thread'[k].by # Bot /\ thread'[k].says # "broken"
    <3>1. \A k \in r.denied :
              k \in s.denied \/ (k = i /\ c.says = "help" /\ c.by \notin s.allowed)
      BY <1>7 DEF Follows
    <3>2. Bot \in s.allowed
      BY <1>6 DEF Trusted
    <3> QED
      BY <1>2, <1>5, <2>2, <2>3, <3>1, <3>2
  <2>6. ASSUME r.helps # {}
        PROVE  \E k \in 1 .. i : /\ thread'[k].says = "help"
                                 /\ \A e \in k + 1 .. i : thread'[e].says # "help answer"
    <3>1. CASE c.says = "help"
      <4>1. i \in 1 .. i /\ (i + 1 .. i) = {}
        BY <1>2
      <4> QED
        BY <1>5, <3>1, <4>1
    <3>2. CASE s.helps # {} /\ c.says # "help answer"
      <4>1. PICK k \in 1 .. n : /\ thread'[k].says = "help"
                                /\ \A e \in k + 1 .. n : thread'[e].says # "help answer"
        BY <1>6, <3>2 DEF Wanted
      <4>2. \A e \in k + 1 .. i : e \in k + 1 .. n \/ e = i
        BY <1>2
      <4>3. \A e \in k + 1 .. i : thread'[e].says # "help answer"
        BY <1>5, <3>2, <4>1, <4>2
      <4>4. k \in 1 .. i
        BY <1>2
      <4> QED
        BY <4>1, <4>3, <4>4
    <3> QED
      BY <1>7, <2>6, <3>1, <3>2 DEF Follows
  <2> QED
    BY <2>4, <2>5, <2>6 DEF Wanted
<1>10. Remembered(r, i)'
  <2> SUFFICES ASSUME NEW e \in 1 .. i, read'[e - 1].process
               PROVE  /\ thread'[e].says = "error answer" => thread'[e].date <= r.reset
                      /\ thread'[e].says = "feedback" => r.feedback
                      /\ thread'[e].says = "denial" => \A k \in r.denied : e <= k
    BY DEF Remembered
  <2>1. s.denied \in SUBSET Nat
    BY Constants DEF Readings
  <2>2. CASE e \in 1 .. n
    <3>1. /\ thread'[e].says = "error answer" => thread'[e].date <= s.reset
          /\ thread'[e].says = "feedback" => s.feedback
          /\ thread'[e].says = "denial" => \A k \in s.denied : e <= k
      BY <1>6, <2>2 DEF Remembered
    <3>2. thread'[e].date <= c.date
      BY <1>1, <1>5, <2>2
    <3>3. thread'[e].says = "error answer" => thread'[e].date <= r.reset
      BY <1>7, <3>1, <3>2 DEF Follows
    <3>4. thread'[e].says = "feedback" => r.feedback
      BY <1>7, <3>1 DEF Follows
    <3>5. thread'[e].says = "denial" => \A k \in r.denied : e <= k
      <4>1. \A k \in r.denied : k \in s.denied \/ k = i
        BY <1>7 DEF Follows
      <4>2. e <= i
        BY <1>2
      <4> QED
        BY <3>1, <4>1, <4>2
    <3> QED
      BY <3>3, <3>4, <3>5
  <2>3. CASE e = i
    <3>1. s.process
      BY <1>2, <1>5, <2>3
    <3>2. /\ c.says = "error answer" => r.reset = c.date
          /\ c.says = "feedback" => r.feedback
          /\ c.says = "denial" => r.denied = {}
      BY <1>7, <3>1 DEF Follows
    <3>3. thread'[e] = c /\ c.date <= c.date
      BY <1>5, <2>3
    <3> QED
      BY <3>2, <3>3
  <2>4. e \in 1 .. n \/ e = i
    BY <1>2
  <2> QED
    BY <2>2, <2>3, <2>4
<1>11. Reads(i)'
  BY <1>5, <1>8, <1>9, <1>10 DEF Reads
<1> QED
  BY <1>5, <1>7, <1>11

LEMMA NowIs ==
  ASSUME Typed, \A i \in 1 .. Len(thread) : Said(i)
  PROVE  /\ Now \in 0 .. Len(thread)
         /\ Len(thread) > 0 => Now >= 1
         /\ \A k \in 1 .. Len(thread) : thread[k].date <= Now
<1>1. thread \in Seq(Comment) /\ Len(thread) \in Nat
  BY Domain DEF Typed, TypeOK
<1>2. CASE thread = <<>>
  <2>1. Now = 0 /\ Len(thread) = 0
    BY <1>2 DEF Now
  <2> QED
    BY <2>1
<1>3. CASE thread # <<>>
  <2>1. PICK n \in Nat : n = Len(thread) /\ n \in 1 .. Len(thread)
    BY <1>1, <1>3, EmptySeq
  <2>2. Now = thread[n].date
    BY <1>3, <2>1 DEF Now, Last
  <2>3. thread[n].date \in 1 .. MaxThread /\ thread[n].date <= n
    <3>1. thread[n] \in Comment
      BY <1>1, <2>1, ElementOfSeq
    <3>2. Said(n)
      BY <2>1
    <3> QED
      BY <3>1, <3>2 DEF Comment, Said
  <2>4. \A k \in 1 .. n : thread[k].date <= thread[n].date
    BY <2>1 DEF Said
  <2> QED
    BY <1>1, <2>1, <2>2, <2>3, <2>4, Constants
<1> QED
  BY <1>2, <1>3

\* What AnswersNew says of one comment.
NewAnswer(d) ==
    LET says == thread[d].says IN
    CASE says \in Answers \ {"feedback"} ->
            \E k \in 1 .. thread[d].seen :
                Calls(says, k) /\ \A e \in 1 .. d - 1 : ~Covers(e, says, k)
      [] says = "feedback" ->
            \A e \in 1 .. d - 1 : thread[e].says = says => ~Minded(e)
      [] OTHER -> TRUE

LEMMA AnswersNewIs == AnswersNew <=> (troubles = 0 => \A d \in 1 .. Page : NewAnswer(d))
  BY Zenon DEF AnswersNew, NewAnswer, Page

LEMMA AnswersStay ==
  ASSUME Typed, NEW c, Comes(c), NEW d \in 1 .. Len(thread), Said(d), NewAnswer(d)
  PROVE  NewAnswer(d)'
<1>1. Len(thread) \in Nat /\ thread \in Seq(Comment)
  BY Domain DEF Typed, TypeOK
<1>2. PICK t \in Comment : t = thread[d] /\ t = thread'[d]
  BY <1>1, Appended, ElementOfSeq
<1>3. t.seen \in Nat /\ t.seen < d
  BY <1>2, Constants DEF Comment, Said
<1>4. \A k \in 1 .. d : thread'[k] = thread[k] /\ read'[k - 1] = read[k - 1]
  <2> SUFFICES ASSUME NEW k \in 1 .. d PROVE thread'[k] = thread[k] /\ read'[k - 1] = read[k - 1]
    OBVIOUS
  <2>1. k \in 1 .. Len(thread) /\ k - 1 \in 0 .. Len(thread)
    BY <1>1
  <2> QED
    BY <2>1, Appended
<1>5. \A k \in 1 .. t.seen : Calls(t.says, k)' <=> Calls(t.says, k)
  <2>1. \A k \in 1 .. t.seen : k \in 1 .. d
    BY <1>3
  <2> QED
    BY <1>4, <2>1 DEF Calls
<1>6. \A e \in 1 .. d - 1 : /\ thread'[e] = thread[e]
                            /\ Minded(e)' <=> Minded(e)
  <2>1. \A e \in 1 .. d - 1 : e \in 1 .. d
    OBVIOUS
  <2> QED
    BY <1>4, <2>1 DEF Minded
<1>7. \A e \in 1 .. d - 1, k \in 1 .. t.seen : Covers(e, t.says, k)' <=> Covers(e, t.says, k)
  <2>1. \A k \in 1 .. t.seen : thread'[k] = thread[k]
    BY <1>3, <1>4
  <2> QED
    BY <1>6, <2>1 DEF Covers
<1>8. CASE t.says \in Answers \ {"feedback"}
  <2>1. PICK k \in 1 .. t.seen :
            Calls(t.says, k) /\ \A e \in 1 .. d - 1 : ~Covers(e, t.says, k)
    BY <1>2, <1>8 DEF NewAnswer
  <2>2. Calls(t.says, k)' /\ \A e \in 1 .. d - 1 : ~Covers(e, t.says, k)'
    BY <1>5, <1>7, <2>1
  <2> QED
    BY <1>2, <1>8, <2>2 DEF NewAnswer
<1>9. CASE t.says = "feedback"
  <2>1. \A e \in 1 .. d - 1 : thread[e].says = t.says => ~Minded(e)
    BY <1>2, <1>9 DEF NewAnswer
  <2>2. \A e \in 1 .. d - 1 : thread'[e].says = t.says => ~Minded(e)'
    BY <1>6, <2>1
  <2> QED
    BY <1>2, <1>9, <2>2 DEF NewAnswer
<1>10. CASE t.says \notin Answers
  BY <1>2, <1>10 DEF NewAnswer, Answers
<1> QED
  BY <1>8, <1>9, <1>10

-----------------------------------------------------------------------------
(* Steps                                                                    *)

\* The run, without what it reads.
Placed ==
    /\ step \in {"idle", "security", "help", "errors", "denied"}
    /\ seen \in 0 .. PageSize /\ answered \in 0 .. seen
    /\ step = "idle" => seen = 0
    /\ troubles \in 0 .. MaxTrouble

\* What a step with a comment keeps of the invariant, if the comment is new.
LEMMA CommentKeeps ==
  ASSUME IInv, NEW c \in Comment, Comes(c), Voice(c), Len(thread) < MaxThread,
         c.seen <= Len(thread), c.date \in {Now, Now + 1},
         Placed', seen' \in {0, seen}, step' \in {"help", "errors", "denied"} => Allowed /\ seen' = seen,
         troubles' = 0 =>
             /\ troubles = 0
             /\ \A d \in 1 .. PageSize : d = Len(thread) + 1 => NewAnswer(d)'
  PROVE  /\ Typed'
         /\ \A i \in 1 .. Len(thread') : Said(i)'
         /\ \A n \in 0 .. Len(thread') : Reads(n)'
         /\ AnswersNew'
<1>1. Typed /\ (\A k \in 1 .. Len(thread) : Said(k)) /\ (\A k \in 0 .. Len(thread) : Reads(k))
  BY DEF IInv
<1>2. PICK n \in Nat : n = Len(thread)
  BY <1>1, Domain
<1>3. PICK i \in 1 .. MaxThread : i = n + 1
  BY <1>2, Constants
<1>4. /\ Len(thread') = i /\ thread'[i] = c
      /\ \A k \in 1 .. n : thread'[k] = thread[k]
      /\ DOMAIN read' = 0 .. i /\ \A k \in 0 .. n : read'[k] = read[k]
  BY <1>1, <1>2, <1>3, Appended
<1>5. c.date \in 0 .. MaxThread /\ c.date <= i /\ \A k \in 1 .. n : thread[k].date <= c.date
  <2>1. PICK today \in 0 .. n : today = Now
    BY <1>1, <1>2, NowIs
  <2>2. \A k \in 1 .. n : thread[k].date <= today
    BY <1>1, <1>2, <2>1, NowIs
  <2>3. \A k \in 1 .. n : thread[k].date \in Nat
    <3>1. \A k \in 1 .. n : thread[k] \in Comment
      BY <1>1, <1>2, ElementOfSeq DEF Typed, TypeOK
    <3> QED
      BY <3>1, Constants DEF Comment
  <2> QED
    BY <1>2, <1>3, <2>1, <2>2, <2>3, Constants
<1>6. read'[i] \in Readings /\ Reads(i)'
  BY <1>1, <1>2, <1>3, <1>5, ReadsNext
<1>7. Typed'
  <2>1. thread' \in Seq(Comment)
    BY <1>1, AppendProperties DEF Typed, TypeOK, Comes
  <2>2. read' \in [0 .. Len(thread') -> Readings]
    <3>1. \A k \in 0 .. n : read[k] \in Readings
      BY <1>1, <1>2 DEF Typed
    <3>2. \A k \in 0 .. i : read'[k] \in Readings
      <4>1. \A k \in 0 .. i : k \in 0 .. n \/ k = i
        BY <1>3
      <4> QED
        BY <1>4, <1>6, <3>1, <4>1
    <3>3. read' = [k \in DOMAIN read' |-> read'[k]]
      BY DEF Comes
    <3> QED
      BY <1>4, <3>2, <3>3
  <2>3. seen' <= Len(thread') /\ seen' \in 0 .. n
    BY <1>1, <1>2, <1>3, <1>4, Constants DEF Typed, TypeOK
  <2>4. step' \in {"help", "errors", "denied"} => Allowed'
    <3> SUFFICES ASSUME step' \in {"help", "errors", "denied"} PROVE Allowed'
      OBVIOUS
    <3>1. read'[seen'] = read[seen]
      BY <1>4, <2>3
    <3> QED
      BY <3>1 DEF Allowed, Current
  <2> QED
    BY <1>4, <2>1, <2>2, <2>3, <2>4, Constants DEF Typed, TypeOK, Placed
<1>8. ASSUME NEW k \in 1 .. Len(thread') PROVE Said(k)'
  <2>1. CASE k \in 1 .. n
    <3>1. Said(k)
      BY <1>1, <1>2, <2>1
    <3>2. \A m \in 1 .. k : thread'[m] = thread[m]
      BY <1>2, <1>4, <2>1
    <3> QED
      BY <2>1, <3>1, <3>2 DEF Said
  <2>2. CASE k = i
    <3>1. \A m \in 1 .. i : thread'[m].date <= c.date
      <4>1. \A m \in 1 .. i : m \in 1 .. n \/ m = i
        BY <1>3
      <4> QED
        BY <1>4, <1>5, <4>1
    <3>2. c.seen < i
      BY <1>2, <1>3, Constants DEF Comment
    <3>3. IF c.by = Bot THEN c.says \in Answers
          ELSE \E u \in Utterances : c.by = u.by /\ c.says = u.says
      <4>1. \A u \in Utterances : u.by # Bot
        BY Constants DEF Utterances
      <4> QED
        BY <4>1 DEF Voice
    <3> QED
      BY <1>4, <1>5, <2>2, <3>1, <3>2, <3>3 DEF Said
  <2> QED
    BY <1>3, <1>4, <2>1, <2>2
<1>9. ASSUME NEW k \in 0 .. Len(thread') PROVE Reads(k)'
  <2>1. CASE k \in 0 .. n
    <3>1. Reads(k)
      BY <1>1, <1>2, <2>1
    <3>2. PICK s : s = read[k] /\ s = read'[k]
      BY <1>4, <2>1
    <3>3. Trusted(s, k)' /\ Wanted(s, k)' /\ Remembered(s, k)'
      BY <1>1, <1>2, <2>1, <3>1, <3>2, ReadsStays DEF Reads
    <3> QED
      BY <3>2, <3>3 DEF Reads
  <2>2. CASE k = i
    BY <1>6, <2>2
  <2> QED
    BY <1>3, <1>4, <2>1, <2>2
<1>10. AnswersNew'
  <2> SUFFICES ASSUME troubles' = 0, NEW d \in 1 .. Page' PROVE NewAnswer(d)'
    BY Zenon DEF AnswersNew, NewAnswer, Page
  <2>1. d \in 1 .. i /\ d \in 1 .. PageSize
    BY <1>3, <1>4, Constants DEF Page
  <2>2. CASE d = i
    BY <1>2, <1>3, <2>1, <2>2
  <2>3. CASE d \in 1 .. n
    <3>1. d \in 1 .. Page
      BY <1>2, <2>1, <2>3, Constants DEF Page
    <3>2. NewAnswer(d)
      BY <3>1, AnswersNewIs DEF IInv
    <3>3. Said(d)
      BY <1>1, <1>2, <2>3
    <3> QED
      BY <1>1, <1>2, <2>3, <3>2, <3>3, AnswersStay
  <2> QED
    BY <1>3, <2>1, <2>2, <2>3
<1> QED
  BY <1>7, <1>8, <1>9, <1>10

\* A step without a comment.
LEMMA QuietKeeps ==
  ASSUME IInv, UNCHANGED <<thread, read>>, Placed', seen' <= Len(thread),
         step' \in {"help", "errors", "denied"} => Allowed',
         Fresh', troubles' = 0 => troubles = 0
  PROVE  IInv'
<1>1. Typed'
  BY DEF IInv, Typed, TypeOK, Placed
<1>2. \A i \in 1 .. Len(thread') : Said(i)'
  BY DEF IInv, Said
<1>3. ASSUME NEW n \in 0 .. Len(thread') PROVE Reads(n)'
  <2>1. PICK s : s = read[n]
    OBVIOUS
  <2>2. Trusted(s, n) /\ Wanted(s, n) /\ Remembered(s, n)
    BY <1>3, <2>1 DEF IInv, Reads
  <2>3. Trusted(s, n)'
    BY <2>2 DEF Trusted, Vouches
  <2>4. Wanted(s, n)'
    BY <2>2 DEF Wanted
  <2>5. Remembered(s, n)'
    BY <2>2 DEF Remembered
  <2> QED
    BY <2>1, <2>3, <2>4, <2>5 DEF Reads
<1>4. AnswersNew'
  <2> SUFFICES ASSUME troubles' = 0, NEW d \in 1 .. Page' PROVE NewAnswer(d)'
    BY Zenon DEF AnswersNew, NewAnswer, Page
  <2>1. NewAnswer(d)
    BY AnswersNewIs DEF IInv, Page
  <2> QED
    BY <2>1 DEF NewAnswer, Calls, Covers, Minded
<1> QED
  BY <1>1, <1>2, <1>3, <1>4 DEF IInv

\* A comment comes after what its author had read.
LEMMA Written ==
  ASSUME IInv, NEW e \in 1 .. Len(thread)
  PROVE  /\ thread[e].seen \in Nat /\ thread[e].to \in Nat /\ thread[e].date \in Nat
         /\ thread[e].seen < e
<1>1. thread[e] \in Comment
  BY Domain, ElementOfSeq DEF IInv, Typed, TypeOK
<1>2. PICK c \in Comment : c = thread[e]
  BY <1>1
<1>3. c.seen \in 0 .. PageSize /\ c.to \in 0 .. MaxThread /\ c.date \in 1 .. MaxThread
  BY DEF Comment
<1>4. thread[e].seen < e
  BY DEF IInv, Said
<1> QED
  BY <1>2, <1>3, <1>4, Constants

\* What the bot answered before the run read the thread, and since.
LEMMA BotSays ==
  ASSUME IInv, NEW e \in 1 .. Len(thread), thread[e].says \in Answers
  PROVE  thread[e].by = Bot
<1>1. \A u \in Utterances : u.says \notin Answers
  BY DEF Utterances, Answers
<1> QED
  BY <1>1 DEF IInv, Said

LEMMA SinceRead ==
  ASSUME IInv, troubles = 0, step # "idle", NEW e \in 1 .. Len(thread),
         seen < e, e <= PageSize, thread[e].says \in Answers
  PROVE  /\ step \in {"errors", "denied"}
         /\ \/ thread[e].says = "help answer"
            \/ thread[e].says = "error answer" /\ (step = "denied" \/ thread[e].to <= answered)
<1>1. seen \in Nat /\ Len(thread) \in Nat
  BY Domain, Constants DEF IInv, Typed, TypeOK
<1>2. e \in seen + 1 .. Page
  BY <1>1, Constants DEF Page
<1> QED
  BY <1>2, BotSays DEF IInv, Fresh, Recent

\* A comment during the run.
LEMMA FreshComment ==
  ASSUME IInv, NEW c, Comes(c), seen' = seen, troubles' = 0 => troubles = 0,
         NEW n \in Nat, n = Len(thread),
         troubles' = 0 => Recent(n + 1)' /\ \A e \in 1 .. n : Recent(e) => Recent(e)'
  PROVE  Fresh'
<1>1. Len(thread') = n + 1
  BY Appended DEF IInv
<1>2. seen \in Nat
  BY Constants DEF IInv, Typed, TypeOK
<1> SUFFICES ASSUME troubles' = 0, NEW e \in seen' + 1 .. Page' PROVE Recent(e)'
  BY DEF Fresh
<1>3. e \in Nat /\ seen + 1 <= e /\ e <= n + 1 /\ e <= PageSize
  BY <1>1, <1>2, Constants DEF Page
<1>4. CASE e = n + 1
  BY <1>4
<1>5. CASE e <= n
  <2>1. e \in seen + 1 .. Page /\ e \in 1 .. n
    BY <1>2, <1>3, <1>5, Constants DEF Page
  <2> QED
    BY <2>1 DEF IInv, Fresh
<1> QED
  BY <1>3, <1>4, <1>5

\* People write, during the run or not.
LEMMA SayKeeps == ASSUME IInv, Say PROVE IInv'
<1>1. PICK u \in Utterances :
          Comes([by |-> u.by, says |-> u.says, date |-> Now + 1, seen |-> 0, to |-> 0])
  BY Zenon DEF Say
<1>2. PICK today \in 0 .. Len(thread) : today = Now
  BY NowIs DEF IInv
<1>3. PICK c : c = [by |-> u.by, says |-> u.says, date |-> today + 1, seen |-> 0, to |-> 0]
  OBVIOUS
<1>4. Len(thread) < MaxThread /\ Len(thread) \in Nat /\ UNCHANGED <<run, troubles>>
  BY Domain DEF Say, IInv, Typed
<1>5. /\ c \in Comment /\ c.by # Bot /\ c.says \notin Answers /\ Voice(c)
      /\ c.seen = 0 /\ c.date = today + 1
  <2>1. u.by \in People /\ u.says \notin Answers
    BY Constants DEF Utterances, Answers
  <2>2. today + 1 \in 1 .. MaxThread
    BY <1>4, Constants
  <2>3. c.by = u.by /\ c.says = u.says /\ c.date = today + 1 /\ c.seen = 0 /\ c.to = 0
    BY <1>3
  <2>4. c \in Comment
    BY <1>3, <2>1, <2>2, Constants DEF Comment
  <2> QED
    BY <2>1, <2>3, <2>4, Constants DEF Voice
<1>6. Comes(c)
  BY <1>1, <1>2, <1>3
<1>7. Typed /\ UNCHANGED <<step, seen, answered, troubles>>
  BY <1>4 DEF IInv, run
<1>8. PICK n \in Nat : n = Len(thread)
  BY <1>4
<1>9. /\ thread'[n + 1] = c
      /\ \A k \in 1 .. n : thread'[k] = thread[k]
  BY <1>6, <1>7, <1>8, Appended
<1>10. \A d \in 1 .. PageSize : d = Len(thread) + 1 => NewAnswer(d)'
  BY <1>5, <1>8, <1>9 DEF NewAnswer, Answers
<1>11. /\ Typed' /\ (\A i \in 1 .. Len(thread') : Said(i)')
       /\ (\A k \in 0 .. Len(thread') : Reads(k)') /\ AnswersNew'
  <2>1. Placed' /\ (step' \in {"help", "errors", "denied"} => Allowed /\ seen' = seen)
    BY <1>7 DEF Typed, TypeOK, Placed
  <2> QED
    BY <1>2, <1>4, <1>5, <1>6, <1>7, <1>10, <2>1, CommentKeeps
<1>12. Fresh'
  <2>1. Recent(n + 1)' /\ \A e \in 1 .. n : Recent(e) => Recent(e)'
    BY <1>5, <1>7, <1>9 DEF Recent
  <2> QED
    BY <1>6, <1>7, <1>8, <2>1, FreshComment
<1> QED
  BY <1>11, <1>12 DEF IInv

\* The bot writes.
LEMMA PostIs ==
  ASSUME IInv, NEW says \in Answers, NEW to \in 0 .. MaxThread, NEW date \in {Now, Now + 1},
         date >= 1, Post(says, to, date)
  PROVE  \E c \in Comment :
            /\ c.by = Bot /\ c.says = says /\ c.to = to /\ c.date = date /\ c.seen = seen
            /\ Comes(c) /\ Voice(c) /\ c.seen <= Len(thread) /\ Len(thread) < MaxThread
<1>1. Len(thread) < MaxThread /\ Len(thread) \in Nat
  BY Domain DEF Post, IInv, Typed
<1>2. PICK d \in 1 .. MaxThread : d = date
  <2>1. Now \in 0 .. Len(thread)
    BY NowIs DEF IInv
  <2> QED
    BY <1>1, <2>1, Constants
<1>3. PICK now \in 0 .. PageSize : now = seen /\ seen <= Len(thread)
  BY DEF IInv, Typed, TypeOK
<1>4. PICK c : c = [by |-> Bot, says |-> says, date |-> d, seen |-> now, to |-> to]
  OBVIOUS
<1>5. c \in Comment
  BY <1>4 DEF Comment
<1>6. Comes(c)
  BY <1>2, <1>3, <1>4 DEF Post
<1>7. c.by = Bot /\ c.says = says /\ c.to = to /\ c.date = d /\ c.seen = now
  BY <1>4
<1> QED
  BY <1>1, <1>2, <1>3, <1>5, <1>6, <1>7 DEF Voice

\* What the bot knows of an answer it gave before: it had read it, or given it in this
\* run, so it has obeyed its instructions.
LEMMA AnswerRead ==
  ASSUME IInv, NEW e \in 1 .. seen, read[e - 1].process
  PROVE  /\ thread[e].says = "error answer" => thread[e].date <= Current.reset
         /\ thread[e].says = "feedback" => Current.feedback
         /\ thread[e].says = "denial" => \A k \in Current.denied : e <= k
<1>1. PICK n \in 0 .. Len(thread) : n = seen
  BY Domain, Constants DEF IInv, Typed, TypeOK
<1>2. Remembered(read[n], n)
  BY <1>1 DEF IInv, Reads
<1> QED
  BY <1>1, <1>2 DEF Remembered, Current

LEMMA CurrentIs ==
  ASSUME IInv
  PROVE  /\ seen \in 0 .. Len(thread) /\ Current \in Readings
         /\ Trusted(Current, seen) /\ Wanted(Current, seen)
<1>1. PICK n \in 0 .. Len(thread) : n = seen
  BY Domain, Constants DEF IInv, Typed, TypeOK
<1>2. Trusted(read[n], n) /\ Wanted(read[n], n) /\ read[n] \in Readings
  BY <1>1 DEF IInv, Reads, Typed
<1> QED
  BY <1>1, <1>2 DEF Current

LEMMA Inside ==
  /\ \A n \in Nat : \A m \in 0 .. n : \A k \in 1 .. m : k \in 1 .. n
  /\ \A n \in Nat : \A e \in 1 .. (n + 1) - 1 : e \in 1 .. n /\ e - 1 \in 0 .. n
  OBVIOUS

\* An answer is new if a comment that it is for, and that the run read, has none yet.
LEMMA Answering ==
  ASSUME IInv, NEW says, NEW k \in 1 .. seen, says \in {"help answer", "error answer", "denial"},
         NEW c, Comes(c), c.says = says, c.seen = seen, NEW n \in Nat, n = Len(thread),
         Calls(says, k), \A e \in 1 .. n : ~Covers(e, says, k)
  PROVE  NewAnswer(n + 1)'
<1>1. Typed /\ seen \in 0 .. n
  BY CurrentIs DEF IInv
<1>2. /\ thread'[n + 1] = c
      /\ \A i \in 1 .. n : thread'[i] = thread[i]
      /\ \A i \in 0 .. n : read'[i] = read[i]
  BY <1>1, Appended
<1>3. k \in 1 .. n /\ thread'[k] = thread[k]
  <2>1. k \in 1 .. n
    BY <1>1, Inside, Zenon
  <2> QED
    BY <1>2, <2>1
<1>4. Calls(says, k)'
  BY <1>3 DEF Calls
<1>5. \A e \in 1 .. (n + 1) - 1 : ~Covers(e, says, k)'
  <2> SUFFICES ASSUME NEW e \in 1 .. (n + 1) - 1 PROVE ~Covers(e, says, k)'
    OBVIOUS
  <2>1. e \in 1 .. n /\ e - 1 \in 0 .. n
    BY Inside, Zenon
  <2>2. thread'[e] = thread[e] /\ read'[e - 1] = read[e - 1] /\ ~Covers(e, says, k)
    BY <1>2, <2>1
  <2> QED
    BY <1>3, <2>2 DEF Covers, Minded
<1> QED
  BY <1>2, <1>4, <1>5 DEF NewAnswer, Answers

LEMMA SecurityCommentsKeeps == ASSUME IInv, SecurityComments PROVE IInv'
<1>1. /\ step = "security" /\ ~Current.feedback
      /\ \/ step' = "idle" /\ seen' = 0 /\ answered' = 0 /\ UNCHANGED troubles
         \/ Trouble /\ UNCHANGED <<step, seen, answered>>
  BY DEF SecurityComments, Ends, Again, run
<1>2. Now \in 0 .. Len(thread) /\ Now + 1 \in {Now, Now + 1} /\ Now + 1 >= 1
  BY NowIs DEF IInv
<1>3. PICK c \in Comment :
          /\ c.by = Bot /\ c.says = "feedback" /\ c.date = Now + 1 /\ c.seen = seen
          /\ Comes(c) /\ Voice(c) /\ c.seen <= Len(thread) /\ Len(thread) < MaxThread
  <2>1. "feedback" \in Answers /\ 0 \in 0 .. MaxThread /\ Post("feedback", 0, Now + 1)
    BY Constants DEF Answers, SecurityComments
  <2> QED
    BY <1>2, <2>1, PostIs
<1>4. Typed /\ troubles \in Nat
  BY Constants DEF IInv, Typed, TypeOK
<1>5. PICK n \in Nat : n = Len(thread) /\ seen \in 0 .. n
  BY <1>4, Domain, CurrentIs
<1>6. /\ thread'[n + 1] = c
      /\ \A k \in 1 .. n : thread'[k] = thread[k]
      /\ \A k \in 0 .. n : read'[k] = read[k]
  BY <1>3, <1>4, <1>5, Appended
<1>7. troubles' = 0 => troubles = 0 /\ step' = "idle"
  BY <1>1, <1>4 DEF Trouble
<1>8. ASSUME troubles' = 0, n + 1 <= PageSize
      PROVE  NewAnswer(n + 1)'
  <2>1. ASSUME NEW e \in 1 .. n, thread[e].says = "feedback", read[e - 1].process
        PROVE  FALSE
    <3>1. CASE e <= seen
      <4>1. e \in 1 .. seen
        BY <1>5, <3>1
      <4> QED
        BY <1>1, <2>1, <4>1, AnswerRead
    <3>2. CASE seen < e
      <4>1. e \in 1 .. Len(thread) /\ e <= PageSize
        BY <1>5, <1>8, Constants
      <4> QED
        BY <1>1, <1>7, <1>8, <2>1, <3>2, <4>1, SinceRead DEF Answers
    <3> QED
      BY <1>5, <3>1, <3>2
  <2>2. \A e \in 1 .. (n + 1) - 1 : thread'[e].says = "feedback" => ~Minded(e)'
    <3>1. \A e \in 1 .. (n + 1) - 1 : e \in 1 .. n /\ e - 1 \in 0 .. n
      OBVIOUS
    <3> QED
      BY <1>6, <2>1, <3>1 DEF Minded
  <2> QED
    BY <1>3, <1>6, <2>2 DEF NewAnswer
<1>9. /\ Typed' /\ (\A i \in 1 .. Len(thread') : Said(i)')
      /\ (\A k \in 0 .. Len(thread') : Reads(k)') /\ AnswersNew'
  <2>1. Placed' /\ seen' \in {0, seen} /\ step' \notin {"help", "errors", "denied"}
    BY <1>1, <1>4, Constants DEF Typed, TypeOK, Placed, Trouble
  <2>2. troubles' = 0 => \A d \in 1 .. PageSize : d = Len(thread) + 1 => NewAnswer(d)'
    BY <1>5, <1>8
  <2> QED
    BY <1>3, <1>7, <2>1, <2>2, CommentKeeps
<1>10. Fresh'
  BY <1>7 DEF Fresh, Recent
<1> QED
  BY <1>9, <1>10 DEF IInv

LEMMA HelpKeeps == ASSUME IInv, Help PROVE IInv'
<1>1. /\ step = "help" /\ Current.helps # {}
      /\ \/ step' = "errors" /\ UNCHANGED <<seen, answered, troubles>>
         \/ Trouble /\ UNCHANGED <<step, seen, answered>>
  BY DEF Help, Again, run
<1>2. Now \in 0 .. Len(thread) /\ Now + 1 \in {Now, Now + 1} /\ Now + 1 >= 1
  BY NowIs DEF IInv
<1>3. PICK c \in Comment :
          /\ c.by = Bot /\ c.says = "help answer" /\ c.date = Now + 1 /\ c.seen = seen
          /\ Comes(c) /\ Voice(c) /\ c.seen <= Len(thread) /\ Len(thread) < MaxThread
  <2>1. "help answer" \in Answers /\ 0 \in 0 .. MaxThread
    BY Constants DEF Answers
  <2>2. Post("help answer", 0, Now + 1)
    BY DEF Help
  <2> QED
    BY <1>2, <2>1, <2>2, PostIs
<1>4. Typed /\ troubles \in Nat
  BY Constants DEF IInv, Typed, TypeOK
<1>5. PICK n \in Nat : n = Len(thread) /\ seen \in 0 .. n
  BY <1>4, Domain, CurrentIs
<1>6. /\ thread'[n + 1] = c
      /\ \A k \in 1 .. n : thread'[k] = thread[k]
  BY <1>3, <1>4, <1>5, Appended
<1>7. troubles' = 0 => troubles = 0 /\ step' = "errors"
  BY <1>1, <1>4 DEF Trouble
<1>8. ASSUME troubles' = 0, n + 1 <= PageSize
      PROVE  NewAnswer(n + 1)'
  <2>1. PICK k \in 1 .. seen : /\ thread[k].says = "help"
                              /\ \A e \in k + 1 .. seen : thread[e].says # "help answer"
    BY <1>1, CurrentIs DEF Wanted
  <2>2. ASSUME NEW e \in 1 .. n, thread[e].says = "help answer", thread[e].seen >= k
        PROVE  FALSE
    <3> DEFINE s == thread[e].seen
    <3>1. k < e /\ k \in Nat
      <4>1. e \in 1 .. Len(thread)
        BY <1>5
      <4>2. s < e /\ s \in Nat /\ k <= s
        BY <2>2, <4>1, Written
      <4>3. k \in Nat
        BY <1>5
      <4> HIDE DEF s
      <4> QED
        BY <4>2, <4>3
    <3>2. ~(e <= seen)
      <4> SUFFICES ASSUME e <= seen PROVE FALSE
        OBVIOUS
      <4>1. e \in k + 1 .. seen
        BY <1>5, <3>1
      <4> QED
        BY <2>1, <2>2, <4>1
    <3>3. seen < e /\ e \in 1 .. Len(thread) /\ e <= PageSize
      BY <1>5, <1>8, <3>2, Constants
    <3> QED
      BY <1>1, <1>7, <1>8, <2>2, <3>3, SinceRead DEF Answers
  <2>3. \A e \in 1 .. n : ~Covers(e, "help answer", k)
    BY <2>2 DEF Covers
  <2> QED
    BY <1>3, <1>5, <2>1, <2>3, Answering DEF Calls
<1>9. /\ Typed' /\ (\A i \in 1 .. Len(thread') : Said(i)')
      /\ (\A k \in 0 .. Len(thread') : Reads(k)') /\ AnswersNew'
  <2>1. Placed' /\ seen' \in {0, seen} /\ seen' = seen /\ Allowed
    BY <1>1, <1>4, Constants DEF Typed, TypeOK, Placed, Trouble
  <2>2. troubles' = 0 => \A d \in 1 .. PageSize : d = Len(thread) + 1 => NewAnswer(d)'
    BY <1>5, <1>8
  <2> QED
    BY <1>3, <1>7, <2>1, <2>2, CommentKeeps
<1>10. Fresh'
  <2>1. troubles' = 0 => Recent(n + 1)' /\ \A e \in 1 .. n : Recent(e) => Recent(e)'
    BY <1>1, <1>3, <1>6, <1>7 DEF Recent
  <2> QED
    BY <1>1, <1>3, <1>5, <1>7, <2>1, FreshComment
<1> QED
  BY <1>9, <1>10 DEF IInv

\* The loop over the errors: the first that is left.
LEMMA ErrorCommentedKeeps == ASSUME IInv, ErrorCommented PROVE IInv'
<1>1. PICK error \in Pending :
          /\ \A k \in Pending : error <= k
          /\ \E date \in {Now, Now + 1} : Post("error answer", error, date)
          /\ (answered' = error /\ UNCHANGED <<step, seen, troubles>>) \/ Again
  BY Zenon DEF ErrorCommented
<1>2. PICK date \in {Now, Now + 1} : Post("error answer", error, date)
  BY <1>1
<1>3. /\ step = "errors"
      /\ \/ answered' = error /\ UNCHANGED <<step, seen, troubles>>
         \/ Trouble /\ UNCHANGED <<step, seen, answered>>
  BY <1>1 DEF ErrorCommented, Again, run
<1>4. Typed /\ troubles \in Nat /\ answered \in Nat
  BY Constants DEF IInv, Typed, TypeOK
<1>5. PICK n \in Nat : n = Len(thread) /\ seen \in 0 .. n
  BY <1>4, Domain, CurrentIs
<1>6. /\ error \in 1 .. seen /\ error \in 1 .. n /\ error \in 0 .. MaxThread
      /\ thread[error].says = "broken" /\ answered < error
      /\ Current.reset = 0 \/ thread[error].date >= Current.reset
  <2>1. error \in Current.errors /\ error \in 1 .. MaxThread
    BY CurrentIs DEF Pending, Readings
  <2>2. error <= seen /\ thread[error].says = "broken"
    BY <2>1, CurrentIs DEF Wanted
  <2> QED
    BY <1>5, <2>1, <2>2, Constants DEF Pending
<1>7. date \in Nat /\ date >= 1 /\ date >= thread[error].date
  <2>1. Now \in 0 .. n /\ Now >= 1 /\ thread[error].date <= Now
    BY <1>5, <1>6, NowIs DEF IInv
  <2>2. PICK now \in Nat : now = Now
    BY <2>1
  <2>3. PICK early \in Nat : early = thread[error].date
    BY <1>5, <1>6, Written
  <2>4. early <= now /\ now >= 1 /\ date \in {now, now + 1}
    BY <2>1, <2>2, <2>3
  <2>5. date \in Nat /\ date >= 1 /\ date >= early
    BY <2>4
  <2> QED
    BY <2>3, <2>5
<1>8. PICK c \in Comment :
          /\ c.by = Bot /\ c.says = "error answer" /\ c.to = error /\ c.date = date /\ c.seen = seen
          /\ Comes(c) /\ Voice(c) /\ c.seen <= Len(thread) /\ Len(thread) < MaxThread
  <2>1. PICK says \in Answers : says = "error answer"
    BY DEF Answers
  <2>2. error \in 0 .. MaxThread /\ date >= 1 /\ Post(says, error, date)
    BY <1>2, <1>6, <1>7, <2>1
  <2>3. \E c \in Comment :
            /\ c.by = Bot /\ c.says = says /\ c.to = error /\ c.date = date /\ c.seen = seen
            /\ Comes(c) /\ Voice(c) /\ c.seen <= Len(thread) /\ Len(thread) < MaxThread
    BY <2>2, PostIs
  <2> QED
    BY <2>1, <2>3
<1>9. /\ thread'[n + 1] = c
      /\ \A k \in 1 .. n : thread'[k] = thread[k]
  BY <1>4, <1>5, <1>8, Appended
<1>10. troubles' = 0 => troubles = 0 /\ answered' = error
  BY <1>3, <1>4 DEF Trouble
<1>11. ASSUME troubles' = 0, n + 1 <= PageSize
       PROVE  NewAnswer(n + 1)'
  <2>1. ASSUME NEW e \in 1 .. n, thread[e].says = "error answer", Minded(e),
               thread[e].to = error, thread[e].date > thread[error].date
        PROVE  FALSE
    <3>1. read[e - 1].process
      BY <2>1 DEF Minded
    <3>2. ~(e <= seen)
      <4> SUFFICES ASSUME e <= seen PROVE FALSE
        OBVIOUS
      <4>1. e \in 1 .. seen
        BY <1>5
      <4>2. thread[e].date <= Current.reset
        BY <2>1, <3>1, <4>1, AnswerRead
      <4>3. PICK reset \in 0 .. MaxThread : reset = Current.reset
        BY CurrentIs DEF Readings
      <4>4. PICK early \in Nat : early = thread[error].date
        BY <1>5, <1>6, Written
      <4>5. PICK late \in Nat : late = thread[e].date
        BY <1>5, Written
      <4>6. late > early /\ late <= reset /\ (reset = 0 \/ early >= reset)
        BY <1>6, <2>1, <4>2, <4>3, <4>4, <4>5
      <4>7. reset \in Nat
        BY <4>3, Constants
      <4> QED
        BY <4>6, <4>7
    <3>3. seen < e /\ e \in 1 .. Len(thread) /\ e <= PageSize
      BY <1>5, <1>11, <3>2, Constants
    <3>4. thread[e].to <= answered
      BY <1>3, <1>10, <1>11, <2>1, <3>3, SinceRead DEF Answers
    <3>5. error <= answered
      BY <2>1, <3>4
    <3>6. error \in Nat /\ answered < error
      BY <1>6
    <3> QED
      BY <1>4, <3>5, <3>6
  <2>2. \A e \in 1 .. n : ~Covers(e, "error answer", error)
    BY <2>1 DEF Covers
  <2> QED
    BY <1>5, <1>6, <1>8, <2>2, Answering DEF Calls
<1>12. /\ Typed' /\ (\A i \in 1 .. Len(thread') : Said(i)')
       /\ (\A k \in 0 .. Len(thread') : Reads(k)') /\ AnswersNew'
  <2>1. Placed' /\ seen' = seen /\ Allowed
    BY <1>3, <1>4, <1>6, Constants DEF Typed, TypeOK, Placed, Trouble
  <2>2. troubles' = 0 => \A d \in 1 .. PageSize : d = Len(thread) + 1 => NewAnswer(d)'
    BY <1>5, <1>11
  <2> QED
    BY <1>2, <1>8, <1>10, <2>1, <2>2, CommentKeeps
<1>13. Fresh'
  <2>1. ASSUME troubles' = 0 PROVE Recent(n + 1)' /\ \A e \in 1 .. n : Recent(e) => Recent(e)'
    <3>1. step' = "errors" /\ answered' = error
      BY <1>3, <1>10, <2>1
    <3>2. Recent(n + 1)'
      <4>1. error <= error
        BY <1>6
      <4>2. /\ thread'[n + 1].says = "error answer" /\ thread'[n + 1].to = error
            /\ thread'[n + 1].by = Bot
        BY <1>8, <1>9
      <4> QED
        BY <3>1, <4>1, <4>2 DEF Recent
    <3>3. ASSUME NEW e \in 1 .. n, Recent(e) PROVE Recent(e)'
      <4>1. thread[e].to \in Nat
        BY <1>5, Written
      <4>2. thread[e].to <= answered => thread[e].to <= error
        BY <1>4, <1>5, <1>6, <4>1
      <4> QED
        BY <1>3, <1>9, <3>1, <3>3, <4>2 DEF Recent
    <3> QED
      BY <3>2, <3>3
  <2> QED
    BY <1>3, <1>5, <1>8, <1>10, <2>1, FreshComment
<1> QED
  BY <1>12, <1>13 DEF IInv

LEMMA DenyKeeps == ASSUME IInv, Deny PROVE IInv'
<1>1. /\ step = "denied"
      /\ \/ step' = "idle" /\ seen' = 0 /\ answered' = 0 /\ UNCHANGED troubles
         \/ Trouble /\ UNCHANGED <<step, seen, answered>>
  BY DEF Deny, Ends, Again, run
<1>2. Now \in 0 .. Len(thread) /\ Now + 1 \in {Now, Now + 1} /\ Now + 1 >= 1
  BY NowIs DEF IInv
<1>3. PICK c \in Comment :
          /\ c.by = Bot /\ c.says = "denial" /\ c.date = Now + 1 /\ c.seen = seen
          /\ Comes(c) /\ Voice(c) /\ c.seen <= Len(thread) /\ Len(thread) < MaxThread
  <2>1. "denial" \in Answers /\ 0 \in 0 .. MaxThread /\ Post("denial", 0, Now + 1)
    BY Constants DEF Answers, Deny
  <2> QED
    BY <1>2, <2>1, PostIs
<1>4. Typed /\ troubles \in Nat
  BY Constants DEF IInv, Typed, TypeOK
<1>5. PICK n \in Nat : n = Len(thread) /\ seen \in 0 .. n
  BY <1>4, Domain, CurrentIs
<1>6. PICK k \in 1 .. seen : /\ k \in Current.denied
                            /\ thread[k].by # Bot /\ thread[k].says # "broken"
  <2>1. PICK k \in 1 .. MaxThread : k \in Current.denied
    BY CurrentIs DEF Deny, Readings
  <2>2. k <= seen /\ thread[k].by # Bot /\ thread[k].says # "broken"
    BY <2>1, CurrentIs DEF Wanted
  <2> QED
    BY <1>5, <2>1, <2>2, Constants
<1>7. troubles' = 0 => troubles = 0 /\ step' = "idle"
  BY <1>1, <1>4 DEF Trouble
<1>8. ASSUME troubles' = 0, n + 1 <= PageSize
      PROVE  NewAnswer(n + 1)'
  <2>1. ASSUME NEW e \in 1 .. n, thread[e].says = "denial", Minded(e), thread[e].seen >= k
        PROVE  FALSE
    <3> DEFINE s == thread[e].seen
    <3>1. read[e - 1].process
      BY <2>1 DEF Minded
    <3>2. k < e /\ k \in Nat
      <4>1. e \in 1 .. Len(thread)
        BY <1>5
      <4>2. s < e /\ s \in Nat /\ k <= s
        BY <2>1, <4>1, Written
      <4>3. k \in Nat
        BY <1>5
      <4> HIDE DEF s
      <4> QED
        BY <4>2, <4>3
    <3>3. ~(e <= seen)
      <4> SUFFICES ASSUME e <= seen PROVE FALSE
        OBVIOUS
      <4>1. e \in 1 .. seen
        BY <1>5
      <4>2. e <= k
        BY <1>6, <2>1, <3>1, <4>1, AnswerRead
      <4> QED
        BY <3>2, <4>2
    <3>4. seen < e /\ e \in 1 .. Len(thread) /\ e <= PageSize
      BY <1>5, <1>8, <3>3, Constants
    <3> QED
      BY <1>1, <1>7, <1>8, <2>1, <3>4, SinceRead DEF Answers
  <2>2. \A e \in 1 .. n : ~Covers(e, "denial", k)
    BY <2>1 DEF Covers
  <2> QED
    BY <1>3, <1>5, <1>6, <2>2, Answering DEF Calls
<1>9. /\ Typed' /\ (\A i \in 1 .. Len(thread') : Said(i)')
      /\ (\A m \in 0 .. Len(thread') : Reads(m)') /\ AnswersNew'
  <2>1. /\ Placed' /\ seen' \in {0, seen}
        /\ step' \in {"help", "errors", "denied"} => Allowed /\ seen' = seen
    BY <1>1, <1>4, Constants DEF Typed, TypeOK, Placed, Trouble
  <2>2. troubles' = 0 => \A d \in 1 .. PageSize : d = Len(thread) + 1 => NewAnswer(d)'
    BY <1>5, <1>8
  <2> QED
    BY <1>3, <1>7, <2>1, <2>2, CommentKeeps
<1>10. Fresh'
  BY <1>7 DEF Fresh, Recent
<1> QED
  BY <1>9, <1>10 DEF IInv

\* The steps of a run that writes nothing.
LEMMA RunKeeps ==
  ASSUME IInv, \/ CommentsFetched \/ SecurityPasses \/ SecuritySkips \/ NoHelp
               \/ NoError \/ NoDenial \/ RunAbandoned
  PROVE  IInv'
<1>1. Typed /\ seen \in 0 .. Len(thread) /\ Len(thread) \in Nat /\ troubles \in Nat
  BY Domain, CurrentIs, Constants DEF IInv, Typed, TypeOK
<1>2. CASE CommentsFetched
  <2>1. UNCHANGED <<thread, read, answered, troubles>> /\ step' = "security" /\ seen' = Page
    BY <1>2 DEF CommentsFetched
  <2>2. Page \in 0 .. PageSize /\ Page <= Len(thread) /\ answered = 0
    BY <1>1, <1>2, Constants DEF Page, CommentsFetched, Typed, TypeOK
  <2>3. Placed'
    BY <1>1, <2>1, <2>2 DEF Placed, Typed, TypeOK
  <2>4. Page' = Page
    BY <2>1 DEF Page
  <2>5. Fresh'
    <3>1. \A e \in seen' + 1 .. Page' : FALSE
      BY <1>1, <2>1, <2>2, <2>4, Constants
    <3> QED
      BY <3>1 DEF Fresh
  <2> QED
    BY <2>1, <2>2, <2>3, <2>5, QuietKeeps
<1>3. ASSUME UNCHANGED <<thread, read, seen, answered, troubles>>,
             \/ step = "security" /\ Allowed /\ step' = "help"
             \/ step = "help" /\ step' = "errors"
             \/ step = "errors" /\ step' = "denied"
      PROVE  IInv'
  <2>1. Placed' /\ Allowed /\ Allowed'
    BY <1>1, <1>3 DEF Placed, Typed, TypeOK, Allowed, Current
  <2>2. Fresh'
    BY <1>3 DEF IInv, Fresh, Recent, Page
  <2> QED
    BY <1>1, <1>3, <2>1, <2>2, QuietKeeps
<1>4. ASSUME Ends, UNCHANGED <<thread, read>>, Trouble \/ UNCHANGED troubles
      PROVE  IInv'
  <2>1. Placed' /\ (troubles' = 0 => troubles = 0)
    BY <1>1, <1>4, Constants DEF Placed, Typed, TypeOK, Ends, Trouble
  <2>2. Fresh'
    BY <1>4 DEF Ends, Fresh, Recent
  <2> QED
    BY <1>1, <1>4, <2>1, <2>2, QuietKeeps DEF Ends
<1>5. CASE SecurityPasses \/ NoHelp \/ NoError
  BY <1>3, <1>5 DEF SecurityPasses, NoHelp, NoError, Goes
<1>6. CASE SecuritySkips \/ NoDenial \/ RunAbandoned
  BY <1>4, <1>6 DEF SecuritySkips, NoDenial, RunAbandoned
<1> QED
  BY <1>2, <1>5, <1>6

-----------------------------------------------------------------------------
(* Theorems                                                                 *)

LEMMA InitInvariant == ASSUME Init PROVE IInv
<1>1. /\ thread = <<>> /\ Len(thread) = 0 /\ read = [n \in {0} |-> Start]
      /\ step = "idle" /\ seen = 0 /\ answered = 0 /\ troubles = 0
  BY DEF Init, Idle
<1>2. Start \in Readings
  BY Constants DEF Start, Readings, Speakers
<1>3. Typed
  <2>1. 0 .. 0 = {0}
    OBVIOUS
  <2> QED
    BY <1>1, <1>2, <2>1, Constants DEF Typed, TypeOK
<1>4. Reads(0)
  <2>1. Trusted(Start, 0)
    BY Constants DEF Start, Trusted
  <2>2. Wanted(Start, 0)
    BY DEF Start, Wanted
  <2>3. Remembered(Start, 0)
    <3>1. \A e \in 1 .. 0 : FALSE
      OBVIOUS
    <3> QED
      BY <3>1 DEF Remembered
  <2>4. read[0] = Start
    BY <1>1
  <2> QED
    BY <2>1, <2>2, <2>3, <2>4 DEF Reads
<1>5. Page = 0
  BY <1>1, Constants DEF Page
<1>6. Fresh /\ AnswersNew
  BY <1>1, <1>5, AnswersNewIs DEF Fresh
<1> QED
  BY <1>1, <1>3, <1>4, <1>6 DEF IInv

LEMMA NextKeeps == ASSUME IInv, [Next]_vars PROVE IInv'
<1>1. CASE Say
  BY <1>1, SayKeeps
<1>2. CASE SecurityComments
  BY <1>2, SecurityCommentsKeeps
<1>3. CASE Help
  BY <1>3, HelpKeeps
<1>4. CASE ErrorCommented
  BY <1>4, ErrorCommentedKeeps
<1>5. CASE Deny
  BY <1>5, DenyKeeps
<1>6. CASE \/ CommentsFetched \/ SecurityPasses \/ SecuritySkips \/ NoHelp
           \/ NoError \/ NoDenial \/ RunAbandoned
  BY <1>6, RunKeeps
<1>7. CASE UNCHANGED vars
  <2>1. UNCHANGED <<thread, read, step, seen, answered, troubles>>
    BY <1>7 DEF vars, run
  <2>2. Placed' /\ (step' \in {"help", "errors", "denied"} => Allowed') /\ seen' <= Len(thread)
    BY <2>1 DEF IInv, Typed, TypeOK, Placed, Allowed, Current
  <2>3. Fresh'
    BY <2>1 DEF IInv, Fresh, Recent, Page
  <2> QED
    BY <2>1, <2>2, <2>3, QuietKeeps
<1> QED
  BY <1>1, <1>2, <1>3, <1>4, <1>5, <1>6, <1>7 DEF Next, RunStep

LEMMA Invariant == Spec => []IInv
<1>1. Init => IInv
  BY InitInvariant
<1>2. IInv /\ [Next]_vars => IInv'
  BY NextKeeps
<1> QED
  BY <1>1, <1>2, PTL DEF Spec

\* What the run keeps has its type, it has not read more comments than there are, and an
\* extension after Security runs only when the author is allowed (core.py:462-484).
THEOREM TypeCorrect == Spec => []TypeOK
<1>1. IInv => TypeOK
  BY DEF IInv, Typed
<1> QED
  BY <1>1, Invariant, PTL

\* Nobody is given help who was not allowed when he asked: he is a collaborator, or the
\* author of the pull request after a collaborator's allow (bot.py:172-237,
\* core.py:449-460, doc/security.rst:22).
THEOREM AllowedFirst == Spec => []AllowedAfter
<1>1. ASSUME IInv PROVE AllowedAfter
  <2>1. PICK s : s = Current /\ Trusted(s, seen)
    BY <1>1, CurrentIs
  <2> QED
    BY <2>1 DEF Trusted, AllowedAfter, Vouches
<1>2. IInv => AllowedAfter
  BY <1>1
<1> QED
  BY <1>2, Invariant, PTL

\* Unless something was lost, each answer of the bot is for a comment that it had not
\* answered before, or had by an answer that an ignore hid from it (core.py:107-193,
\* 449-484; bot.py:134-237).
THEOREM NoRepetition == Spec => []AnswersNew
<1>1. IInv => AnswersNew
  BY DEF IInv
<1> QED
  BY <1>1, Invariant, PTL
=============================================================================
