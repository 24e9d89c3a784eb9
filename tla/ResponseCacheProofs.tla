------------------------- MODULE ResponseCacheProofs -------------------------
(* What the file of GitHub's answers guarantees for any number of processes  *)
(* and workers: one writer, and a storage that can be used, until a lock is  *)
(* taken on a file that another process unlinks; and answers that are not    *)
(* older than the request.                                                   *)
EXTENDS ResponseCache, FiniteSetTheorems, TLAPS

-----------------------------------------------------------------------------
(* The inductive invariant                                                  *)

\* The process has its storage, or is about to open it: a lock that it holds
\* open is its own.
Locked(p) ==
    \/ at[p] \in {"shelve", "set", "close"}
    \/ at[p] = "up" /\ opened[p] /\ storage[p] # NoFile

\* Where a process stands in open and close tells what it has.
Stands(p) ==
    /\ at[p] = "set" => goal[p] \in Worker
    /\ at[p] \in {"down", "open", "flock", "shelve", "destroy"} => ~opened[p]
    /\ at[p] \in {"set", "close"} => opened[p] /\ storage[p] # NoFile
    /\ at[p] = "unlink" => storage[p] = NoFile
    /\ at[p] = "flock" => lock[p] # NoFile /\ \A i \in Inode : owner[i] # p
    /\ Locked(p) /\ Writer(p) => owner[lock[p]] = p

\* Until a process locks what another unlinks, the lock is the one at the path,
\* and who unlinks it is alone.
Exclusive ==
    /\ \A i \in Inode : owner[i] # Nobody => i = lockFile
    /\ \A p \in Process : at[p] = "unlink" =>
           /\ lockFile # NoFile
           /\ \A i \in Inode : owner[i] = Nobody
           /\ \A q \in Process : at[q] = "unlink" => q = p
    /\ StorageUsable

\* GitHub answers after the request.
Answered(w) ==
    /\ call[w].since <= version
    /\ call[w].pc = "replied" => call[w].got >= call[w].since

IInv ==
    /\ TypeOK
    /\ \A p \in Process : Stands(p)
    /\ raced \/ Exclusive
    /\ \A w \in Worker : Answered(w)

-----------------------------------------------------------------------------
(* Files and calls                                                          *)

LEMMA Constants ==
  /\ MaxVersion \in Nat \ {0} /\ MaxTrouble \in Nat
  /\ Of \in [Worker -> Process] /\ Nobody \notin Process
  /\ Torn \in 0 .. Corrupt /\ Corrupt \in 0 .. Corrupt /\ Empty \in 0 .. Corrupt
  /\ 0 .. MaxVersion \subseteq 0 .. Corrupt
  BY CacheAssumption DEF Torn, Corrupt, Empty

\* More inodes than processes: one is not in any of their hands.
LEMMA FreeInode ==
  ASSUME NEW held \in [Process -> Inode \cup {NoFile}]
  PROVE  \E i \in Inode : \A p \in Process : held[p] # i
<1> DEFINE Held1 == {held[p] : p \in Process}
<1>1. IsFiniteSet(Process) /\ Cardinality(Process) \in Nat
  BY CacheAssumption, FS_CardinalityType
<1>2. held \in Surjection(Process, Held1)
  BY DEF Surjection
<1>3. IsFiniteSet(Held1) /\ Cardinality(Held1) <= Cardinality(Process)
  BY <1>1, <1>2, FS_Surjection
<1>4. ASSUME Inode \subseteq Held1
      PROVE  FALSE
  <2>1. Cardinality(Inode) <= Cardinality(Held1) /\ Cardinality(Held1) \in Nat
    BY <1>3, <1>4, FS_Subset, FS_CardinalityType
  <2>2. Cardinality(Inode) = Cardinality(Process) + 1
    BY <1>1, FS_Interval DEF Inode
  <2> QED
    BY <1>1, <1>3, <2>1, <2>2
<1> QED
  BY <1>4

LEMMA FreeFiles ==
  ASSUME TypeOK
  PROVE  /\ lockFile = NoFile => FreeLock \in Inode /\ \A p \in Process : lock[p] # FreeLock
         /\ cacheFile = NoFile => FreeCache \in Inode
<1>1. NoFile \notin Inode
  BY DEF Inode, NoFile
<1>2. ASSUME lockFile = NoFile
      PROVE  FreeLock \in Inode /\ \A p \in Process : lock[p] # FreeLock
  <2>1. \E i \in Inode : \A p \in Process : lock[p] # i
    BY FreeInode DEF TypeOK
  <2>2. \E i \in Inode : i # lockFile /\ \A p \in Process : lock[p] # i
    BY <1>1, <1>2, <2>1
  <2> QED
    BY <2>2 DEF FreeLock
<1>3. ASSUME cacheFile = NoFile
      PROVE  FreeCache \in Inode
  <2>1. \E i \in Inode : \A p \in Process : storage[p] # i
    BY FreeInode DEF TypeOK
  <2>2. \E i \in Inode : i # cacheFile /\ \A p \in Process : storage[p] # i
    BY <1>1, <1>3, <2>1
  <2> QED
    BY <2>2 DEF FreeCache
<1> QED
  BY <1>2, <1>3

Call == [pc : {"idle", "ask", "sent", "replied"},
         etag : 0 .. MaxVersion, since : 0 .. MaxVersion, got : 0 .. MaxVersion]

LEMMA NoCallTyped ==
  /\ NoCall \in Call /\ NoCall.pc = "idle" /\ NoCall.since = 0
  /\ \A pc \in {"idle", "ask"} :
         /\ [NoCall EXCEPT !.pc = pc] \in Call
         /\ [NoCall EXCEPT !.pc = pc].pc = pc /\ [NoCall EXCEPT !.pc = pc].since = 0
<1>1. 0 \in 0 .. MaxVersion
  BY Constants
<1> QED
  BY <1>1 DEF NoCall, Call, Empty

\* What the steps of one process do to another.
LEMMA OthersStand ==
  ASSUME NEW p \in Process, NEW q \in Process, Stands(q),
         at'[q] = at[q], goal'[q] = goal[q], lock'[q] = lock[q],
         storage'[q] = storage[q], opened'[q] = opened[q],
         TypeOK,
         \A i \in Inode : owner[i] = q <=> owner'[i] = q
  PROVE  Stands(q)'
<1>1. lock[q] # NoFile => lock[q] \in Inode
  BY DEF TypeOK
<1> QED
  BY <1>1 DEF Stands, Locked, Writer

-----------------------------------------------------------------------------
(* Steps                                                                    *)

LEMMA InitStep == Init => IInv
<1> SUFFICES ASSUME Init
             PROVE  IInv
  OBVIOUS
<1>1. TypeOK
  <2>1. call \in [Worker -> Call]
    BY NoCallTyped DEF Init
  <2>2. Empty \in 0 .. Corrupt /\ version \in 1 .. MaxVersion /\ troubles \in 0 .. MaxTrouble
    BY Constants DEF Init
  <2>3. {lock, storage} \subseteq [Process -> Inode \cup {NoFile}]
    BY DEF Init
  <2> QED
    BY <2>1, <2>2, <2>3 DEF Init, TypeOK, Call
<1>2. \A p \in Process : Stands(p)
  BY DEF Init, Stands, Locked
<1>3. Exclusive
  BY DEF Init, Exclusive, StorageUsable
<1>4. \A w \in Worker : Answered(w)
  BY NoCallTyped DEF Init, Answered
<1> QED
  BY <1>1, <1>2, <1>3, <1>4 DEF IInv

\* GitHub's version changes, or a call gets on: the processes stay where they are.
LEMMA CallStands ==
  ASSUME IInv,
         UNCHANGED <<lockFile, owner, at, goal, lock, storage, opened, raced>>
  PROVE  (\A p \in Process : Stands(p)') /\ (raced' \/ Exclusive')
  BY DEF IInv, Stands, Locked, Writer, Exclusive, StorageUsable, Broken

LEMMA ChangeStep ==
  ASSUME IInv, Change
  PROVE  IInv'
<1>1. UNCHANGED <<lockFile, owner, cacheFile, entry, procs, call, troubles>>
      /\ version < MaxVersion /\ version' = version + 1
  BY DEF Change, disk
<1>2. version \in Nat /\ version' \in 1 .. MaxVersion
  BY <1>1, Constants DEF IInv, TypeOK
<1>3. TypeOK'
  BY <1>1, <1>2 DEF IInv, TypeOK, procs
<1>4. ASSUME NEW w \in Worker
      PROVE  Answered(w)'
  <2>1. call[w].since \in Nat
    BY Constants DEF IInv, TypeOK
  <2> QED
    BY <1>1, <1>2, <2>1 DEF IInv, Answered
<1> QED
  BY <1>1, <1>3, <1>4, CallStands DEF IInv, procs

\* What a worker sends, gets and returns.
LEMMA CallsStep ==
  ASSUME IInv, NEW w \in Worker, CallStep(w) \/ Ask(w) \/ Lost(w)
  PROVE  IInv'
<1>1. UNCHANGED <<version, lockFile, owner, cacheFile, procs>>
      /\ troubles' \in 0 .. MaxTrouble
  <2>1. troubles' = troubles \/ (troubles < MaxTrouble /\ troubles' = troubles + 1)
    BY DEF CallStep, GetHitOrMiss, GetTorn, GetClosed, Reply, Return, Ask, Lost, Trouble
  <2>2. troubles' \in 0 .. MaxTrouble
    BY <2>1, Constants DEF IInv, TypeOK
  <2> QED
    BY <2>2 DEF CallStep, GetHitOrMiss, GetTorn, GetClosed, Reply, Return, Ask, Lost, disk
<1>2. /\ call \in [Worker -> Call] /\ call[w] \in Call /\ version \in 0 .. MaxVersion
      /\ version \in Nat
      /\ Of[w] \in Process
  BY Constants DEF IInv, TypeOK, Call
<1>3. storage[Of[w]] # NoFile => storage[Of[w]] \in Inode /\ Held(w) \in 0 .. Corrupt
  BY <1>2 DEF IInv, TypeOK, Held
<1>4. PICK c \in Call : /\ call' = [call EXCEPT ![w] = c]
                        /\ c.since <= version
                        /\ c.pc = "replied" => c.got >= c.since
  <2>1. CASE call' = [call EXCEPT ![w] = NoCall]
    <3>1. NoCall \in Call /\ NoCall.since <= version /\ NoCall.pc # "replied"
      BY <1>2, NoCallTyped
    <3> QED
      BY <2>1, <3>1
  <2>2. CASE call' = [call EXCEPT ![w] = [NoCall EXCEPT !.pc = "ask"]]
    <3> DEFINE c == [NoCall EXCEPT !.pc = "ask"]
    <3>1. c \in Call /\ c.since = 0 /\ c.pc = "ask"
      BY NoCallTyped
    <3>2. call' = [call EXCEPT ![w] = c]
      BY <2>2
    <3>3. c.since <= version /\ c.pc # "replied"
      BY <1>2, <3>1
    <3> HIDE DEF c
    <3> QED
      BY <3>1, <3>2, <3>3
  <2>3. ASSUME NEW etag \in 0 .. MaxVersion, Sends(w, etag)
        PROVE  \E c \in Call : /\ call' = [call EXCEPT ![w] = c]
                               /\ c.since <= version
                               /\ c.pc = "replied" => c.got >= c.since
    <3> DEFINE c == [pc |-> "sent", etag |-> etag, since |-> version, got |-> Empty]
    <3>1. c \in Call /\ c.since = version /\ c.pc = "sent"
      BY <1>2, Constants DEF Call, Empty
    <3>2. call' = [call EXCEPT ![w] = c]
      BY <2>3 DEF Sends
    <3>3. c.since <= version /\ c.pc # "replied"
      BY <1>2, <3>1
    <3> HIDE DEF c
    <3> QED
      BY <3>1, <3>2, <3>3
  <2>4. CASE Reply(w)
    <3> DEFINE c == [call[w] EXCEPT !.pc = "replied", !.got = version]
    <3>1. c \in Call /\ c.since = call[w].since /\ c.got = version
      BY <1>2 DEF Call
    <3>2. call' = [call EXCEPT ![w] = c]
      BY <1>2, <2>4 DEF Reply
    <3>3. c.since <= version /\ c.got >= c.since
      BY <1>2, <3>1 DEF IInv, Answered
    <3> HIDE DEF c
    <3> QED
      BY <3>1, <3>2, <3>3
  <2>5. CASE GetHitOrMiss(w)
    <3>1. Held(w) \in 0 .. MaxVersion
      <4>1. storage[Of[w]] # NoFile
        BY <2>5 DEF GetHitOrMiss, Ready, Broken
      <4> QED
        BY <1>3, <2>5, <4>1, Constants DEF GetHitOrMiss, Corrupt
    <3>2. Sends(w, Held(w))
      BY <2>5 DEF GetHitOrMiss
    <3>3. PICK etag \in 0 .. MaxVersion : etag = Held(w)
      BY <3>1
    <3> QED
      BY <2>3, <3>2, <3>3
  <2>6. CASE GetTorn(w)
    <3>1. Sends(w, Empty) /\ Empty \in 0 .. MaxVersion
      BY <2>6, Constants DEF GetTorn, Empty
    <3> QED
      BY <2>3, <3>1
  <2> QED
    BY <2>1, <2>2, <2>4, <2>5, <2>6 DEF CallStep, GetClosed, Return, Returned, Ask, Lost
<1>5. entry' \in [Inode -> 0 .. Corrupt]
  <2>1. CASE UNCHANGED entry
    BY <2>1 DEF IInv, TypeOK
  <2>2. CASE GetTorn(w)
    BY <2>2, Constants DEF IInv, TypeOK, GetTorn
  <2>3. CASE Return(w)
    <3>1. Response(w) \in 0 .. Corrupt
      BY <1>2, Constants DEF Response, Call
    <3> QED
      BY <2>3, <3>1 DEF IInv, TypeOK, Return, Stores
  <2> QED
    BY <2>1, <2>2, <2>3 DEF CallStep, GetHitOrMiss, GetClosed, Reply, Ask, Lost, disk
<1>6. TypeOK'
  <2>1. call' \in [Worker -> Call]
    BY <1>2, <1>4
  <2> QED
    BY <1>1, <1>5, <2>1 DEF IInv, TypeOK, Call, procs
<1>7. ASSUME NEW x \in Worker
      PROVE  Answered(x)'
  <2>1. CASE x = w
    BY <1>1, <1>2, <1>4, <2>1 DEF Answered
  <2>2. CASE x # w
    BY <1>1, <1>2, <1>4, <2>2 DEF IInv, Answered
  <2> QED
    BY <2>1, <2>2
<1> QED
  BY <1>1, <1>6, <1>7, CallStands DEF IInv, procs

LEMMA NoFileIsNoInode == NoFile \notin Inode /\ Inode \subseteq Nat
<1>1. Cardinality(Process) \in Nat
  BY CacheAssumption, FS_CardinalityType
<1> QED
  BY <1>1 DEF Inode, NoFile

\* Calls that are interrupted start again, or are forgotten.
LEMMA CallsRestart ==
  ASSUME IInv, version' = version,
         NEW Over \in SUBSET Worker,
         \A w \in Worker : w \notin Over => call'[w] = call[w],
         \A w \in Over : \/ call'[w] = NoCall
                         \/ \E pc \in {"idle", "ask"} : call'[w] = [NoCall EXCEPT !.pc = pc]
  PROVE  \A w \in Worker : call'[w] \in Call /\ Answered(w)'
<1> TAKE w \in Worker
<1>1. version \in Nat /\ call[w] \in Call
  BY Constants DEF IInv, TypeOK, Call
<1>2. CASE w \notin Over
  BY <1>1, <1>2 DEF IInv, Answered
<1>3. CASE w \in Over
  <2>1. call'[w] \in Call /\ call'[w].since = 0 /\ call'[w].pc # "replied"
    <3>1. CASE call'[w] = NoCall
      BY <3>1, NoCallTyped
    <3>2. ASSUME NEW pc \in {"idle", "ask"}, call'[w] = [NoCall EXCEPT !.pc = pc]
          PROVE  call'[w] \in Call /\ call'[w].since = 0 /\ call'[w].pc # "replied"
      <4>1. /\ [NoCall EXCEPT !.pc = pc] \in Call
            /\ [NoCall EXCEPT !.pc = pc].pc = pc /\ [NoCall EXCEPT !.pc = pc].since = 0
        BY NoCallTyped
      <4> QED
        BY <3>2, <4>1
    <3> QED
      BY <1>3, <3>1, <3>2
  <2> QED
    BY <1>1, <2>1 DEF Answered
<1> QED
  BY <1>2, <1>3

LEMMA ReleasedProperties ==
  ASSUME TypeOK, NEW p \in Process
  PROVE  /\ Released(p) \in [Inode -> Process \cup {Nobody}]
         /\ \A i \in Inode : Released(p)[i] # p
         /\ \A i \in Inode : Released(p)[i] # Nobody => Released(p)[i] = owner[i]
         /\ \A q \in Process : q # p => \A i \in Inode : owner[i] = q <=> Released(p)[i] = q
  BY Constants DEF Released, TypeOK

\* A process ends: its lock goes with it.
LEMMA DownStep ==
  ASSUME IInv, NEW p \in Process, Down(p), version' = version, cacheFile' = cacheFile,
         lockFile' = lockFile \/ (at[p] = "unlink" /\ lockFile' = NoFile),
         entry' \in [Inode -> 0 .. Corrupt], troubles' \in 0 .. MaxTrouble
  PROVE  IInv'
<1>1. TypeOK /\ owner' = Released(p)
  BY Constants DEF IInv, Down
<1>2. /\ owner' \in [Inode -> Process \cup {Nobody}]
      /\ \A i \in Inode : owner'[i] # p
      /\ \A i \in Inode : owner'[i] # Nobody => owner'[i] = owner[i]
      /\ \A q \in Process : q # p => \A i \in Inode : owner[i] = q <=> owner'[i] = q
  BY <1>1, ReleasedProperties
<1>3. \A w \in Worker : call'[w] \in Call /\ Answered(w)'
  <2> DEFINE Over == {w \in Worker : Of[w] = p}
  <2>1. /\ \A w \in Worker : w \notin Over => call'[w] = call[w]
        /\ \A w \in Over : call'[w] = NoCall
    BY DEF Down
  <2>2. Over \in SUBSET Worker
    OBVIOUS
  <2> HIDE DEF Over
  <2> QED
    BY <2>1, <2>2, CallsRestart
<1>4. TypeOK'
  <2>1. call' \in [Worker -> Call]
    BY <1>3 DEF Down
  <2>2. /\ at' \in [Process -> {"down", "up", "open", "flock", "shelve", "set",
                                "close", "unlink", "destroy"}]
        /\ goal' \in [Process -> {"run", "exit"} \cup Worker]
        /\ lock' \in [Process -> Inode \cup {NoFile}]
        /\ storage' \in [Process -> Inode \cup {NoFile}]
        /\ opened' \in [Process -> BOOLEAN]
        /\ raced' \in BOOLEAN
    BY <1>1 DEF Down, TypeOK
  <2>3. \A i \in Inode : owner'[i] # Nobody => lock'[owner'[i]] = i
    BY <1>1, <1>2 DEF Down, TypeOK
  <2>4. version' \in 1 .. MaxVersion /\ lockFile' \in Inode \cup {NoFile}
        /\ cacheFile' \in Inode \cup {NoFile}
    BY <1>1 DEF TypeOK
  <2>5. {lock', storage'} \subseteq [Process -> Inode \cup {NoFile}]
    BY <2>2
  <2> QED
    BY <1>2, <2>1, <2>2, <2>3, <2>4, <2>5 DEF TypeOK, Call
<1>5. ASSUME NEW q \in Process
      PROVE  Stands(q)'
  <2>1. CASE q = p
    BY <1>1, <2>1 DEF TypeOK, Down, Stands, Locked
  <2>2. CASE q # p
    <3>1. /\ at'[q] = at[q] /\ goal'[q] = goal[q] /\ lock'[q] = lock[q]
          /\ storage'[q] = storage[q] /\ opened'[q] = opened[q]
      BY <1>1, <2>2 DEF TypeOK, Down
    <3>2. Stands(q) /\ \A i \in Inode : owner[i] = q <=> owner'[i] = q
      BY <1>2, <2>2 DEF IInv
    <3> QED
      BY <1>1, <3>1, <3>2, OthersStand
  <2> QED
    BY <2>1, <2>2
<1>6. ASSUME ~raced'
      PROVE  Exclusive'
  <2>1. Exclusive /\ ~raced
    BY <1>6 DEF IInv, Down
  <2>2. ASSUME NEW i \in Inode, owner'[i] # Nobody
        PROVE  i = lockFile'
    <3>1. owner[i] # Nobody
      BY <1>2, <2>2
    <3> QED
      BY <2>1, <3>1 DEF Exclusive
  <2>3. ASSUME NEW q \in Process, at'[q] = "unlink"
        PROVE  /\ lockFile' # NoFile
               /\ \A i \in Inode : owner'[i] = Nobody
               /\ \A r \in Process : at'[r] = "unlink" => r = q
    <3>1. q # p /\ at[q] = "unlink"
      BY <1>1, <2>3 DEF TypeOK, Down
    <3>2. /\ lockFile # NoFile
          /\ \A i \in Inode : owner[i] = Nobody
          /\ \A r \in Process : at[r] = "unlink" => r = q
      BY <2>1, <3>1 DEF Exclusive
    <3>3. \A r \in Process : at'[r] = "unlink" => at[r] = "unlink"
      BY <1>1 DEF TypeOK, Down
    <3> QED
      BY <1>2, <3>1, <3>2, <3>3
  <2>4. StorageUsable'
    BY <1>1, <2>1 DEF Exclusive, StorageUsable, Broken, TypeOK, Down
  <2> QED
    BY <2>2, <2>3, <2>4 DEF Exclusive
<1> QED
  BY <1>3, <1>4, <1>5, <1>6 DEF IInv

\* A process opens the lock file, a new one if there is none: it lets go of the
\* one it had.
LEMMA OpenLockStep ==
  ASSUME IInv, NEW p \in Process, OpenLock(p)
  PROVE  IInv'
<1> DEFINE file == IF lockFile = NoFile THEN FreeLock ELSE lockFile
<1>1. /\ UNCHANGED <<version, cacheFile, entry, goal, storage, opened, raced, call, troubles>>
      /\ lockFile' = file /\ lock' = [lock EXCEPT ![p] = file]
      /\ owner' = Released(p) /\ at' = [at EXCEPT ![p] = "flock"]
      /\ at[p] = "open" \/ (at[p] = "up" /\ ~opened[p])
  BY DEF OpenLock
<1>2. TypeOK /\ NoFile \notin Inode
  BY NoFileIsNoInode DEF IInv
<1>3. /\ owner' \in [Inode -> Process \cup {Nobody}]
      /\ \A i \in Inode : owner'[i] # p
      /\ \A i \in Inode : owner'[i] # Nobody => owner'[i] = owner[i]
      /\ \A q \in Process : q # p => \A i \in Inode : owner[i] = q <=> owner'[i] = q
  BY <1>1, <1>2, ReleasedProperties
<1>4. file \in Inode
  BY <1>2, FreeFiles DEF TypeOK
<1>5. TypeOK'
  <2>1. \A i \in Inode : owner'[i] # Nobody => lock'[owner'[i]] = i
    BY <1>1, <1>2, <1>3 DEF TypeOK
  <2>2. {lock', storage'} \subseteq [Process -> Inode \cup {NoFile}]
    BY <1>1, <1>2, <1>4 DEF TypeOK
  <2> HIDE DEF file
  <2> QED
    BY <1>1, <1>2, <1>3, <1>4, <2>1, <2>2 DEF TypeOK
<1> HIDE DEF file
<1>6. ASSUME NEW q \in Process
      PROVE  Stands(q)'
  <2>1. CASE q = p
    BY <1>1, <1>2, <1>3, <1>4, <2>1 DEF IInv, TypeOK, Stands, Locked, NoFile
  <2>2. CASE q # p
    <3>1. Stands(q) /\ at'[q] = at[q] /\ lock'[q] = lock[q]
      BY <1>1, <1>2, <2>2 DEF IInv, TypeOK
    <3> QED
      BY <1>1, <1>2, <1>3, <2>2, <3>1, OthersStand
  <2> QED
    BY <2>1, <2>2
<1>7. ASSUME ~raced'
      PROVE  Exclusive'
  <2>1. Exclusive
    BY <1>1, <1>7 DEF IInv
  <2>2. ASSUME NEW i \in Inode, owner'[i] # Nobody
        PROVE  i = lockFile'
    <3>1. i = lockFile
      BY <1>3, <2>1, <2>2 DEF Exclusive
    <3> QED
      BY <1>1, <1>2, <3>1 DEF file
  <2>3. ASSUME NEW q \in Process, at'[q] = "unlink"
        PROVE  /\ lockFile' # NoFile
               /\ \A i \in Inode : owner'[i] = Nobody
               /\ \A r \in Process : at'[r] = "unlink" => r = q
    <3>1. at[q] = "unlink" /\ \A r \in Process : at'[r] = "unlink" => at[r] = "unlink"
      BY <1>1, <1>2, <2>3 DEF TypeOK
    <3> QED
      BY <1>1, <1>2, <1>3, <1>4, <2>1, <3>1 DEF Exclusive
  <2>4. StorageUsable'
    BY <1>1, <1>2, <2>1 DEF Exclusive, StorageUsable, Broken, TypeOK
  <2> QED
    BY <2>2, <2>3, <2>4 DEF Exclusive
<1>8. \A w \in Worker : Answered(w)'
  BY <1>1 DEF IInv, Answered
<1> QED
  BY <1>5, <1>6, <1>7, <1>8 DEF IInv

\* A process takes the lock, or does without.
LEMMA FlockStep ==
  ASSUME IInv, NEW p \in Process, Flock(p)
  PROVE  IInv'
<1>1. /\ UNCHANGED <<version, lockFile, cacheFile, entry, goal, storage, opened, call,
                     troubles>>
      /\ at[p] = "flock" /\ at' = [at EXCEPT ![p] = "shelve"]
  BY DEF Flock
<1>2. /\ TypeOK /\ NoFile \notin Inode /\ lock[p] \in Inode
      /\ \A i \in Inode : owner[i] # p
  BY <1>1, NoFileIsNoInode DEF IInv, TypeOK, Stands
<1>3. ASSUME NEW q \in Process, q # p, lock'[q] = lock[q],
             \A i \in Inode : owner[i] = q <=> owner'[i] = q
      PROVE  Stands(q)'
  <2>1. Stands(q) /\ at'[q] = at[q]
    BY <1>1, <1>2, <1>3 DEF IInv, TypeOK
  <2> QED
    BY <1>1, <1>2, <1>3, <2>1, OthersStand
<1>4. \A w \in Worker : Answered(w)'
  BY <1>1 DEF IInv, Answered
<1>5. StorageUsable => StorageUsable'
  BY <1>1, <1>2 DEF StorageUsable, Broken, TypeOK
<1>6. \A q \in Process : at'[q] = "unlink" <=> at[q] = "unlink"
  BY <1>1, <1>2 DEF TypeOK
<1>7. CASE owner[lock[p]] = Nobody
  <2>1. /\ owner' = [owner EXCEPT ![lock[p]] = p] /\ lock' = lock
        /\ raced' = (raced \/ lock[p] # lockFile \/ \E q \in Process : at[q] = "unlink")
    BY <1>7 DEF Flock
  <2>2. /\ owner' \in [Inode -> Process \cup {Nobody}] /\ raced' \in BOOLEAN
        /\ \A i \in Inode : owner'[i] # Nobody => lock[owner'[i]] = i
    BY <1>2, <2>1 DEF TypeOK
  <2>3. TypeOK'
    BY <1>1, <1>2, <2>1, <2>2 DEF TypeOK
  <2>4. ASSUME NEW q \in Process
        PROVE  Stands(q)'
    <3>1. CASE q = p
      BY <1>1, <1>2, <2>1, <3>1 DEF IInv, TypeOK, Stands, Locked
    <3>2. CASE q # p
      <4>1. \A i \in Inode : owner[i] = q <=> owner'[i] = q
        BY <1>2, <1>7, <2>1, <3>2, Constants DEF TypeOK
      <4> QED
        BY <1>3, <2>1, <3>2, <4>1
    <3> QED
      BY <3>1, <3>2
  <2>5. ASSUME ~raced'
        PROVE  Exclusive'
    <3>1. ~raced /\ lock[p] = lockFile /\ \A q \in Process : at[q] # "unlink"
      BY <1>2, <2>1, <2>5 DEF TypeOK
    <3>2. Exclusive
      BY <3>1 DEF IInv
    <3>3. \A i \in Inode : owner'[i] # Nobody => i = lockFile'
      BY <1>1, <1>2, <2>1, <3>1, <3>2 DEF Exclusive, TypeOK
    <3> QED
      BY <1>5, <1>6, <3>1, <3>2, <3>3 DEF Exclusive
  <2> QED
    BY <1>4, <2>3, <2>4, <2>5 DEF IInv
<1>8. CASE owner[lock[p]] # Nobody
  <2>1. lock' = [lock EXCEPT ![p] = NoFile] /\ owner' = owner /\ raced' = raced
    BY <1>8 DEF Flock
  <2>2. TypeOK'
    <3>1. {lock', storage'} \subseteq [Process -> Inode \cup {NoFile}]
      BY <1>1, <1>2, <2>1 DEF TypeOK
    <3>2. \A i \in Inode : owner'[i] # Nobody => lock'[owner'[i]] = i
      BY <1>2, <2>1 DEF TypeOK
    <3> QED
      BY <1>1, <1>2, <2>1, <3>1, <3>2 DEF TypeOK
  <2>3. ASSUME NEW q \in Process
        PROVE  Stands(q)'
    <3>1. CASE q = p
      BY <1>1, <1>2, <2>1, <3>1 DEF IInv, TypeOK, Stands, Locked, Writer
    <3>2. CASE q # p
      BY <1>2, <1>3, <2>1, <3>2 DEF TypeOK
    <3> QED
      BY <3>1, <3>2
  <2>4. Exclusive => Exclusive'
    BY <1>1, <1>5, <1>6, <2>1 DEF Exclusive
  <2> QED
    BY <1>4, <2>1, <2>2, <2>3, <2>4 DEF IInv
<1> QED
  BY <1>7, <1>8

\* A process opens the storage, for its calls, for a write or to exit.
LEMMA OpenStorageStep ==
  ASSUME IInv, NEW p \in Process, OpenStorage(p)
  PROVE  IInv'
<1> DEFINE file == IF cacheFile = NoFile THEN FreeCache ELSE cacheFile
           next == CASE goal[p] = "run"  -> "up"
                     [] goal[p] = "exit" -> "close"
                     [] OTHER            -> "set"
<1>1. /\ UNCHANGED <<version, lockFile, owner, goal, lock, raced, call, troubles>>
      /\ at[p] = "shelve" /\ at' = [at EXCEPT ![p] = next]
      /\ opened' = [opened EXCEPT ![p] = TRUE]
      /\ cacheFile' = file /\ storage' = [storage EXCEPT ![p] = file]
      /\ entry' = IF cacheFile = NoFile THEN [entry EXCEPT ![file] = Empty] ELSE entry
  BY DEF OpenStorage
<1>2. TypeOK /\ NoFile \notin Inode
  BY NoFileIsNoInode DEF IInv
<1>3. file \in Inode
  BY <1>2, FreeFiles DEF TypeOK
<1>4. next \in {"up", "close", "set"} /\ (next = "set" => goal[p] \in Worker)
  BY <1>2 DEF TypeOK
<1> HIDE DEF file, next
<1>5. TypeOK'
  <2>1. {lock', storage'} \subseteq [Process -> Inode \cup {NoFile}]
    BY <1>1, <1>2, <1>3 DEF TypeOK
  <2>2. entry' \in [Inode -> 0 .. Corrupt]
    BY <1>1, <1>2, Constants DEF TypeOK
  <2>3. /\ at' \in [Process -> {"down", "up", "open", "flock", "shelve", "set",
                                "close", "unlink", "destroy"}]
        /\ opened' \in [Process -> BOOLEAN]
    BY <1>1, <1>2, <1>4 DEF TypeOK
  <2> QED
    BY <1>1, <1>2, <1>3, <2>1, <2>2, <2>3 DEF TypeOK
<1>6. ASSUME NEW q \in Process
      PROVE  Stands(q)'
  <2>1. CASE q = p
    <3>1. at'[p] = next /\ opened'[p] /\ storage'[p] # NoFile
      BY <1>1, <1>2, <1>3 DEF TypeOK
    <3>2. lock[p] # NoFile => owner[lock[p]] = p
      BY <1>1 DEF IInv, Stands, Locked, Writer
    <3> QED
      BY <1>1, <1>4, <2>1, <3>1, <3>2 DEF Stands, Locked, Writer
  <2>2. CASE q # p
    <3>1. Stands(q) /\ at'[q] = at[q] /\ storage'[q] = storage[q] /\ opened'[q] = opened[q]
      BY <1>1, <1>2, <2>2 DEF IInv, TypeOK
    <3> QED
      BY <1>1, <1>2, <3>1, OthersStand
  <2> QED
    BY <2>1, <2>2
<1>7. Exclusive => Exclusive'
  <2>1. \A q \in Process : at'[q] = "unlink" <=> at[q] = "unlink"
    BY <1>1, <1>2, <1>4 DEF TypeOK
  <2>2. StorageUsable => StorageUsable'
    BY <1>1, <1>2, <1>3 DEF StorageUsable, Broken, TypeOK
  <2> QED
    BY <1>1, <2>1, <2>2 DEF Exclusive
<1>8. \A w \in Worker : Answered(w)'
  BY <1>1 DEF IInv, Answered
<1> QED
  BY <1>1, <1>5, <1>6, <1>7, <1>8 DEF IInv

\* A process is up again, and a call with it.
LEMMA ResumesStep ==
  ASSUME IInv, NEW p \in Process, NEW w, NEW pc \in {"idle", "ask"},
         Resumes(p, w, pc), at[p] \in {"shelve", "set", "destroy", "unlink"},
         at[p] = "unlink" => lockFile = NoFile,
         UNCHANGED <<version, lockFile, owner, entry, lock, storage, opened, raced,
                     troubles>>,
         cacheFile' \in {cacheFile, NoFile}
  PROVE  IInv'
<1>1. /\ at' = [at EXCEPT ![p] = "up"] /\ goal' = [goal EXCEPT ![p] = "run"]
      /\ call' = [call EXCEPT ![w] = [NoCall EXCEPT !.pc = pc]]
  BY DEF Resumes
<1>2. TypeOK /\ NoFile \notin Inode
  BY NoFileIsNoInode DEF IInv
<1>3. \A x \in Worker : call'[x] \in Call /\ Answered(x)'
  <2> DEFINE Over == {x \in Worker : x = w}
  <2>1. \A x \in Worker : x \notin Over => call'[x] = call[x]
    BY <1>1, <1>2 DEF TypeOK
  <2>2. ASSUME NEW x \in Over
        PROVE  call'[x] = [NoCall EXCEPT !.pc = pc]
    BY <1>1, <1>2 DEF TypeOK
  <2>3. Over \in SUBSET Worker
    OBVIOUS
  <2> HIDE DEF Over
  <2> QED
    BY <2>1, <2>2, <2>3, CallsRestart
<1>4. TypeOK'
  <2>1. call' \in [Worker -> Call]
    BY <1>1, <1>2, <1>3 DEF TypeOK
  <2> QED
    BY <1>1, <1>2, <2>1 DEF TypeOK, Call
<1>5. ASSUME NEW q \in Process
      PROVE  Stands(q)'
  <2>1. CASE q = p
    BY <1>1, <1>2, <2>1 DEF IInv, TypeOK, Stands, Locked, Writer
  <2>2. CASE q # p
    <3>1. Stands(q) /\ at'[q] = at[q] /\ goal'[q] = goal[q]
      BY <1>1, <1>2, <2>2 DEF IInv, TypeOK
    <3> QED
      BY <1>2, <3>1, OthersStand
  <2> QED
    BY <2>1, <2>2
<1>6. ASSUME Exclusive
      PROVE  Exclusive'
  <2>1. at[p] # "unlink"
    BY <1>6 DEF Exclusive
  <2>2. \A q \in Process : at'[q] = "unlink" <=> at[q] = "unlink"
    BY <1>1, <1>2, <2>1 DEF TypeOK
  <2>3. ~(opened[p] /\ storage[p] = NoFile)
    BY <2>1 DEF IInv, Stands
  <2>4. StorageUsable'
    BY <1>1, <1>2, <1>6, <2>3 DEF Exclusive, StorageUsable, Broken, TypeOK
  <2> QED
    BY <1>6, <2>2, <2>4 DEF Exclusive
<1> QED
  BY <1>3, <1>4, <1>5, <1>6 DEF IInv

\* A writer closes the storage and lets go of the lock.
LEMMA ReleaseStep ==
  ASSUME IInv, NEW p \in Process, Release(p)
  PROVE  IInv'
<1>1. /\ UNCHANGED <<version, lockFile, cacheFile, entry, goal, lock, opened, raced, call,
                     troubles>>
      /\ at[p] = "close" /\ lock[p] # NoFile /\ at' = [at EXCEPT ![p] = "unlink"]
      /\ storage' = [storage EXCEPT ![p] = NoFile] /\ owner' = Released(p)
  BY DEF Release, Writer
<1>2. TypeOK /\ NoFile \notin Inode /\ lock[p] \in Inode /\ owner[lock[p]] = p
  BY <1>1, NoFileIsNoInode DEF IInv, TypeOK, Stands, Locked, Writer
<1>3. /\ owner' \in [Inode -> Process \cup {Nobody}]
      /\ \A i \in Inode : owner'[i] # p
      /\ \A i \in Inode : owner'[i] # Nobody => owner'[i] = owner[i]
      /\ \A q \in Process : q # p => \A i \in Inode : owner[i] = q <=> owner'[i] = q
  BY <1>1, <1>2, ReleasedProperties
<1>4. TypeOK'
  <2>1. {lock', storage'} \subseteq [Process -> Inode \cup {NoFile}]
    BY <1>1, <1>2 DEF TypeOK
  <2>2. \A i \in Inode : owner'[i] # Nobody => lock'[owner'[i]] = i
    BY <1>1, <1>2, <1>3 DEF TypeOK
  <2> QED
    BY <1>1, <1>2, <1>3, <2>1, <2>2 DEF TypeOK
<1>5. ASSUME NEW q \in Process
      PROVE  Stands(q)'
  <2>1. CASE q = p
    BY <1>1, <1>2, <2>1 DEF TypeOK, Stands, Locked
  <2>2. CASE q # p
    <3>1. Stands(q) /\ at'[q] = at[q] /\ storage'[q] = storage[q]
      BY <1>1, <1>2, <2>2 DEF IInv, TypeOK
    <3> QED
      BY <1>1, <1>2, <1>3, <2>2, <3>1, OthersStand
  <2> QED
    BY <2>1, <2>2
<1>6. ASSUME Exclusive
      PROVE  Exclusive'
  <2>1. lock[p] = lockFile /\ lockFile # NoFile
    BY <1>2, <1>6, Constants DEF Exclusive
  <2>2. ASSUME NEW i \in Inode
        PROVE  owner'[i] = Nobody
    <3>1. owner[i] # Nobody => owner[i] = p
      BY <1>2, <1>6, <2>1 DEF Exclusive
    <3> QED
      BY <1>3, <3>1
  <2>3. \A q \in Process : at[q] # "unlink"
    BY <1>2, <1>6, Constants DEF Exclusive
  <2>4. \A q \in Process : at'[q] = "unlink" => q = p
    BY <1>1, <1>2, <2>3 DEF TypeOK
  <2>5. StorageUsable'
    BY <1>1, <1>2, <1>6 DEF Exclusive, StorageUsable, Broken, TypeOK
  <2> QED
    BY <1>1, <2>1, <2>2, <2>4, <2>5 DEF Exclusive
<1>7. \A w \in Worker : Answered(w)'
  BY <1>1 DEF IInv, Answered
<1> QED
  BY <1>1, <1>4, <1>5, <1>6, <1>7 DEF IInv

\* It unlinks the lock file, to destroy the cache.
LEMMA UnlinkStep ==
  ASSUME IInv, NEW p \in Process, at[p] = "unlink", lockFile' = NoFile,
         opened' = [opened EXCEPT ![p] = FALSE], at' = [at EXCEPT ![p] = "destroy"],
         UNCHANGED <<version, owner, cacheFile, entry, goal, lock, storage, raced, call,
                     troubles>>
  PROVE  IInv'
<1>1. TypeOK
  BY DEF IInv
<1>2. TypeOK'
  BY <1>1 DEF TypeOK
<1>3. ASSUME NEW q \in Process
      PROVE  Stands(q)'
  <2>1. CASE q = p
    BY <1>1, <2>1 DEF TypeOK, Stands, Locked
  <2>2. CASE q # p
    <3>1. Stands(q) /\ at'[q] = at[q] /\ opened'[q] = opened[q]
      BY <1>1, <2>2 DEF IInv, TypeOK
    <3> QED
      BY <1>1, <3>1, OthersStand
  <2> QED
    BY <2>1, <2>2
<1>4. ASSUME Exclusive
      PROVE  Exclusive'
  <2>1. /\ \A i \in Inode : owner[i] = Nobody
        /\ \A q \in Process : at[q] = "unlink" => q = p
    BY <1>4 DEF Exclusive
  <2>2. \A q \in Process : at'[q] # "unlink"
    BY <1>1, <2>1 DEF TypeOK
  <2>3. StorageUsable'
    BY <1>1, <1>4 DEF Exclusive, StorageUsable, Broken, TypeOK
  <2> QED
    BY <2>1, <2>2, <2>3 DEF Exclusive
<1>5. \A w \in Worker : Answered(w)'
  BY DEF IInv, Answered
<1> QED
  BY <1>2, <1>3, <1>4, <1>5 DEF IInv

\* It goes on to open what it destroyed; starts; or closes after a failed write.
LEMMA GoesOnStep ==
  ASSUME IInv, NEW p \in Process, NEW to \in {"open", "up", "close"},
         NEW g \in Worker \cup {"run", "exit"},
         at' = [at EXCEPT ![p] = to], goal' = [goal EXCEPT ![p] = g],
         \/ at[p] = "destroy" /\ to = "open"
         \/ at[p] = "down" /\ to = "up"
         \/ at[p] = "up" /\ ~opened[p] /\ to = "open"
         \/ at[p] = "up" /\ opened[p] /\ storage[p] # NoFile /\ to = "close",
         UNCHANGED <<version, lockFile, owner, entry, lock, storage, opened, raced>>,
         cacheFile' \in {cacheFile, NoFile}, troubles' \in 0 .. MaxTrouble,
         NEW Over \in SUBSET Worker,
         call' = [w \in Worker |-> IF w \in Over THEN NoCall ELSE call[w]]
  PROVE  IInv'
<1>1. TypeOK
  BY DEF IInv
<1>2. \A w \in Worker : call'[w] \in Call /\ Answered(w)'
  <2>1. /\ \A w \in Worker : w \notin Over => call'[w] = call[w]
        /\ \A w \in Over : call'[w] = NoCall
    OBVIOUS
  <2> QED
    BY <2>1, CallsRestart
<1>3. TypeOK'
  <2>1. call' \in [Worker -> Call]
    BY <1>2
  <2> QED
    BY <1>1, <2>1 DEF TypeOK, Call
<1>4. ASSUME NEW q \in Process
      PROVE  Stands(q)'
  <2>1. CASE q = p
    <3>1. at'[p] = to
      BY <1>1 DEF TypeOK
    <3> QED
      BY <2>1, <3>1 DEF IInv, Stands, Locked, Writer
  <2>2. CASE q # p
    <3>1. Stands(q) /\ at'[q] = at[q] /\ goal'[q] = goal[q]
      BY <1>1, <2>2 DEF IInv, TypeOK
    <3> QED
      BY <1>1, <3>1, OthersStand
  <2> QED
    BY <2>1, <2>2
<1>5. ASSUME Exclusive
      PROVE  Exclusive'
  <2>1. \A q \in Process : at'[q] = "unlink" <=> at[q] = "unlink"
    BY <1>1 DEF TypeOK
  <2>2. at[p] = "down" => ~opened[p]
    BY DEF IInv, Stands
  <2>3. StorageUsable'
    BY <1>1, <1>5, <2>2 DEF Exclusive, StorageUsable, Broken, TypeOK
  <2> QED
    BY <1>5, <2>1, <2>3 DEF Exclusive
<1> QED
  BY <1>2, <1>3, <1>4, <1>5 DEF IInv

\* It writes again what it could not write.
LEMMA WritesStep ==
  ASSUME IInv, NEW p \in Process, at[p] = "set",
         Returned(goal[p]), Stores(goal[p]),
         at' = [at EXCEPT ![p] = "up"], goal' = [goal EXCEPT ![p] = "run"],
         UNCHANGED <<version, lockFile, owner, cacheFile, lock, storage, opened, raced,
                     troubles>>
  PROVE  IInv'
<1>1. TypeOK /\ goal[p] \in Worker
  BY DEF IInv, Stands
<1>2. PICK w \in Worker : w = goal[p]
  BY <1>1
<1>3. call' = [call EXCEPT ![w] = NoCall] /\ Stores(w)
  BY <1>2 DEF Returned
<1>4. \A x \in Worker : call'[x] \in Call /\ Answered(x)'
  <2> DEFINE Over == {w}
  <2>1. /\ \A x \in Worker : x \notin Over => call'[x] = call[x]
        /\ \A x \in Over : call'[x] = NoCall
    BY <1>1, <1>3 DEF TypeOK
  <2>2. Over \in SUBSET Worker
    OBVIOUS
  <2> HIDE DEF Over
  <2> QED
    BY <2>1, <2>2, CallsRestart
<1>5. TypeOK'
  <2>1. call' \in [Worker -> Call]
    BY <1>1, <1>3, <1>4 DEF TypeOK
  <2>2. Response(w) \in 0 .. Corrupt
    BY <1>1, Constants DEF Response, TypeOK
  <2>3. entry' \in [Inode -> 0 .. Corrupt]
    BY <1>1, <1>3, <2>2 DEF Stores, TypeOK
  <2> QED
    BY <1>1, <2>1, <2>3 DEF TypeOK, Call
<1>6. ASSUME NEW q \in Process
      PROVE  Stands(q)'
  <2>1. CASE q = p
    BY <1>1, <2>1 DEF IInv, TypeOK, Stands, Locked, Writer
  <2>2. CASE q # p
    <3>1. Stands(q) /\ at'[q] = at[q] /\ goal'[q] = goal[q]
      BY <1>1, <2>2 DEF IInv, TypeOK
    <3> QED
      BY <1>1, <3>1, OthersStand
  <2> QED
    BY <2>1, <2>2
<1>7. ASSUME Exclusive
      PROVE  Exclusive'
  <2>1. \A q \in Process : at'[q] = "unlink" <=> at[q] = "unlink"
    BY <1>1 DEF TypeOK
  <2>2. storage[p] # NoFile
    BY DEF IInv, Stands
  <2>3. StorageUsable'
    BY <1>1, <1>7, <2>2 DEF Exclusive, StorageUsable, Broken, TypeOK
  <2> QED
    BY <1>7, <2>1, <2>3 DEF Exclusive
<1> QED
  BY <1>4, <1>5, <1>6, <1>7 DEF IInv

\* The steps of open and close.
LEMMA FilesStep ==
  ASSUME IInv, NEW p \in Process, FileStep(p)
  PROVE  IInv'
<1> USE DEF disk, procs
<1>1. TypeOK /\ entry \in [Inode -> 0 .. Corrupt] /\ troubles \in 0 .. MaxTrouble
  BY DEF IInv, TypeOK
<1>2. PICK g \in Worker \cup {"run", "exit"} : g = goal[p]
  BY <1>1 DEF TypeOK
<1>3. CASE OpenFails(p)
  <2>1. CASE goal[p] = "exit" /\ Down(p)
    BY <1>1, <1>3, <2>1, DownStep DEF OpenFails
  <2>2. ASSUME NEW w \in Worker, Resumes(p, w, "idle"),
               UNCHANGED <<owner, lock, storage, opened, raced>>
        PROVE  IInv'
    BY <1>3, <2>2, ResumesStep DEF OpenFails
  <2> QED
    BY <1>3, <2>1, <2>2 DEF OpenFails
<1>4. CASE ReaderExits(p)
  BY <1>1, <1>4, DownStep DEF ReaderExits
<1>5. CASE Unlink(p)
  <2>1. CASE goal[p] = "exit" /\ Down(p)
    BY <1>1, <1>5, <2>1, DownStep DEF Unlink
  <2>2. CASE opened' = [opened EXCEPT ![p] = FALSE] /\ at' = [at EXCEPT ![p] = "destroy"]
             /\ UNCHANGED <<owner, goal, lock, storage, raced, call>>
    BY <1>5, <2>2, UnlinkStep DEF Unlink
  <2>3. CASE lockFile = NoFile /\ Resumes(p, goal[p], "ask")
             /\ UNCHANGED <<owner, lock, storage, opened, raced>>
    <3>1. lockFile' = lockFile
      BY <1>5, <2>3 DEF Unlink
    <3> QED
      BY <1>2, <1>5, <2>3, <3>1, ResumesStep DEF Unlink
  <2> QED
    BY <1>5, <2>1, <2>2, <2>3 DEF Unlink
<1>6. CASE Destroy(p)
  <2>1. CASE cacheFile = NoFile
    BY <1>2, <1>6, <2>1, ResumesStep DEF Destroy
  <2>2. CASE cacheFile # NoFile
    <3>1. goal' = [goal EXCEPT ![p] = g]
      BY <1>1, <1>2, <1>6, <2>2 DEF Destroy, TypeOK
    <3>2. call' = [w \in Worker |-> IF w \in {} THEN NoCall ELSE call[w]]
      BY <1>1, <1>6, <2>2 DEF Destroy, TypeOK
    <3>3. at[p] = "destroy" /\ at' = [at EXCEPT ![p] = "open"] /\ troubles' \in 0 .. MaxTrouble
          /\ UNCHANGED <<version, lockFile, owner, entry, lock, storage, opened, raced>>
          /\ cacheFile' \in {cacheFile, NoFile} /\ {} \in SUBSET Worker
      BY <1>1, <1>6, <2>2 DEF Destroy
    <3> QED
      BY <3>1, <3>2, <3>3, GoesOnStep
  <2> QED
    BY <2>1, <2>2
<1>7. CASE SetAgain(p)
  <2>1. CASE Writer(p)
    BY <1>7, <2>1, WritesStep DEF SetAgain
  <2>2. CASE ~Writer(p)
    BY <1>2, <1>7, <2>2, ResumesStep DEF SetAgain
  <2> QED
    BY <2>1, <2>2
<1> QED
  BY <1>3, <1>4, <1>5, <1>6, <1>7, OpenLockStep, FlockStep, OpenStorageStep, ReleaseStep
  DEF FileStep

\* A process starts, exits or crashes, or a write fails.
LEMMA LifeStep ==
  ASSUME IInv, NEW p \in Process,
         Start(p) \/ Exit(p) \/ Crash(p) \/ \E w \in Worker : Of[w] = p /\ SetFails(w)
  PROVE  IInv'
<1> USE DEF disk, procs
<1>1. /\ TypeOK /\ entry \in [Inode -> 0 .. Corrupt] /\ troubles \in 0 .. MaxTrouble
      /\ call \in [Worker -> Call]
  BY DEF IInv, TypeOK, Call
<1>2. call = [w \in Worker |-> IF w \in {} THEN NoCall ELSE call[w]]
      /\ {} \in SUBSET Worker
  BY <1>1
<1>3. CASE Start(p)
  <2>1. PICK g \in Worker \cup {"run", "exit"} : g = goal[p]
    BY <1>1 DEF TypeOK
  <2>2. goal' = [goal EXCEPT ![p] = g]
    BY <1>1, <1>3, <2>1 DEF Start, TypeOK
  <2> QED
    BY <1>1, <1>2, <1>3, <2>2, GoesOnStep DEF Start
<1>4. CASE Exit(p)
  <2>1. CASE Broken(p)
    BY <1>1, <1>4, <2>1, DownStep DEF Exit
  <2>2. CASE ~Broken(p)
    <3> DEFINE Over == {w \in Worker : Of[w] = p}
    <3>1. /\ at[p] = "up" /\ goal' = [goal EXCEPT ![p] = "exit"]
          /\ at' = [at EXCEPT ![p] = IF opened[p] THEN "close" ELSE "open"]
          /\ UNCHANGED <<version, lockFile, owner, cacheFile, entry, lock, storage, opened,
                         raced, troubles>>
          /\ opened[p] => storage[p] # NoFile
      BY <1>4, <2>2 DEF Exit, Broken
    <3>2. call' = [w \in Worker |-> IF w \in Over THEN NoCall ELSE call[w]]
      BY <1>4, <2>2 DEF Exit
    <3>3. Over \in SUBSET Worker
      OBVIOUS
    <3> HIDE DEF Over
    <3>4. CASE opened[p]
      BY <1>1, <3>1, <3>2, <3>3, <3>4, GoesOnStep
    <3>5. CASE ~opened[p]
      BY <1>1, <3>1, <3>2, <3>3, <3>5, GoesOnStep
    <3> QED
      BY <3>4, <3>5
  <2> QED
    BY <2>1, <2>2
<1>5. CASE Crash(p)
  <2>1. troubles' \in 0 .. MaxTrouble
    BY <1>1, <1>5, Constants DEF Crash, Trouble
  <2>2. entry' \in [Inode -> 0 .. Corrupt]
    BY <1>1, <1>5, Constants DEF Crash
  <2> QED
    BY <1>5, <2>1, <2>2, DownStep DEF Crash
<1>6. ASSUME NEW w \in Worker, Of[w] = p, SetFails(w)
      PROVE  IInv'
  <2>1. troubles' \in 0 .. MaxTrouble
    BY <1>1, <1>6, Constants DEF SetFails, Trouble
  <2>2. /\ at[p] = "up" /\ opened[p] /\ storage[p] # NoFile
        /\ at' = [at EXCEPT ![p] = "close"] /\ goal' = [goal EXCEPT ![p] = w]
        /\ UNCHANGED <<version, lockFile, owner, cacheFile, entry, lock, storage, opened,
                       raced, call>>
    BY <1>6 DEF SetFails, Ready, Broken
  <2> QED
    BY <1>2, <2>1, <2>2, GoesOnStep
<1> QED
  BY <1>3, <1>4, <1>5, <1>6

LEMMA NextStep == IInv /\ [Next]_vars => IInv'
<1> SUFFICES ASSUME IInv, [Next]_vars
             PROVE  IInv'
  OBVIOUS
<1>1. CASE UNCHANGED vars
  BY <1>1
  DEF vars, disk, procs, IInv, TypeOK, Stands, Locked, Writer, Exclusive, StorageUsable,
      Broken, Answered
<1>2. ASSUME NEW w \in Worker, SetFails(w)
      PROVE  IInv'
  <2>1. PICK p \in Process : p = Of[w]
    BY Constants
  <2> QED
    BY <1>2, <2>1, LifeStep
<1> QED
  BY <1>1, <1>2, ChangeStep, CallsStep, FilesStep, LifeStep DEF Next

-----------------------------------------------------------------------------
(* Results                                                                  *)

\* The invariant holds throughout.
THEOREM Invariant == Spec => []IInv
  BY InitStep, NextStep, PTL DEF Spec

\* Whoever owns a lock has it in self.lock (cache.py:47-99).
THEOREM TypeCorrect == Spec => []TypeOK
<1>1. IInv => TypeOK
  BY DEF IInv
<1> QED
  BY <1>1, Invariant, PTL

\* Until a process locks a file that another is about to unlink, or has, one
\* process writes and no storage is closed for good (cache.py:92-99).
THEOREM SoundCache == Spec => []CacheSound
<1>1. IInv => CacheSound
  <2> SUFFICES ASSUME TypeOK, Exclusive
               PROVE  OneWriter /\ StorageUsable
    BY DEF IInv, CacheSound
  <2> DEFINE Writers == {p \in Process : \E i \in Inode : owner[i] = p}
  <2>1. Writers \subseteq {owner[lockFile]}
    BY Constants DEF Exclusive
  <2>2. IsFiniteSet({owner[lockFile]}) /\ Cardinality({owner[lockFile]}) = 1
    BY FS_Singleton
  <2> HIDE DEF Writers
  <2>3. Cardinality(Writers) <= 1
    BY <2>1, <2>2, FS_Subset
  <2> QED
    BY <2>3 DEF Writers, OneWriter, Exclusive
<1> QED
  BY <1>1, Invariant, PTL

\* A call never returns a version older than its request (github.py:82-111).
THEOREM Fresh == Spec => []FreshAnswer
<1>1. IInv => FreshAnswer
  BY DEF IInv, Answered, FreshAnswer, Response, NotModified
<1> QED
  BY <1>1, Invariant, PTL
=============================================================================
