---------------------------- MODULE ResponseCache ----------------------------
(***************************************************************************)
(* The file that caches GitHub's answers: FileCache, shared by the daemon  *)
(* and the commands an operator runs beside it, and cached_arequest, which *)
(* revalidates an entry with its Etag.                                     *)
(*                                                                         *)
(* A process takes a flock on CACHE_PATH.lock to write, and reads only if  *)
(* it is taken.  A file is an inode: a path can be unlinked while it is    *)
(* open, or locked.  System calls of two processes interleave; within a    *)
(* process, coroutines interleave at the request alone.  One resource of   *)
(* GitHub, so one cache entry, is enough: keys do not interfere.           *)
(***************************************************************************)
EXTENDS Integers, FiniteSets

CONSTANTS Process,     \* processes that share CACHE_PATH
          Worker,      \* their coroutines that call GitHub
          Of,          \* [Worker -> Process]
          Nobody,      \* no process, no worker
          MaxVersion,  \* bound: versions of the resource on GitHub
          MaxTrouble   \* bound: crashes, lost answers and failed writes

ASSUME CacheAssumption ==
    /\ Of \in [Worker -> Process]
    /\ Nobody \notin Process \cup Worker
    /\ IsFiniteSet(Process)
    /\ MaxVersion \in Nat \ {0} /\ MaxTrouble \in Nat

VARIABLES
    version,    \* GitHub: the version of the resource, which its Etag names
    lockFile,   \* the inode of CACHE_PATH.lock, or NoFile
    owner,      \* [inode -> process that holds its flock]
    cacheFile,  \* the inode of the cache, or NoFile
    entry,      \* [inode -> what a cache file holds]
    at,         \* [process -> where it stands in open and close]
    goal,       \* [process -> "run", "exit", or the worker whose set failed]
    lock,       \* [process -> inode of self.lock, or NoFile]
    storage,    \* [process -> inode of self.storage, NoFile once closed]
    opened,     \* [process -> self.opened]
    raced,      \* has a process locked a file that another unlinks, or is about to?
    call,       \* [worker -> its call of cached_arequest]
    troubles

disk  == <<lockFile, owner, cacheFile, entry>>
procs == <<at, goal, lock, storage, opened, raced>>
vars  == <<version, disk, procs, call, troubles>>

\* One at the path, one open in each process.
Inode  == 1 .. Cardinality(Process) + 1
NoFile == 0

\* What a cache file holds: a version, nothing yet, a value that cannot be
\* unpickled, or a file that shelve cannot open.
Empty   == 0
Torn    == MaxVersion + 1
Corrupt == MaxVersion + 2

NoCall == [pc |-> "idle", etag |-> Empty, since |-> Empty, got |-> Empty]

Init ==
    /\ version = 1
    /\ lockFile = NoFile /\ owner = [i \in Inode |-> Nobody]
    /\ cacheFile = NoFile /\ entry = [i \in Inode |-> Empty]
    /\ at = [p \in Process |-> "down"] /\ goal = [p \in Process |-> "run"]
    /\ lock = [p \in Process |-> NoFile]
    /\ storage = [p \in Process |-> NoFile]
    /\ opened = [p \in Process |-> FALSE]
    /\ raced = FALSE
    /\ call = [w \in Worker |-> NoCall]
    /\ troubles = 0

Trouble == troubles < MaxTrouble /\ troubles' = troubles + 1

FreeLock  == CHOOSE i \in Inode : i # lockFile /\ \A p \in Process : lock[p] # i
FreeCache == CHOOSE i \in Inode : i # cacheFile /\ \A p \in Process : storage[p] # i

Change ==
    /\ version < MaxVersion
    /\ version' = version + 1
    /\ UNCHANGED <<disk, procs, call, troubles>>

-----------------------------------------------------------------------------
(* FileCache.open                                                          *)

Calling(p) == {w \in Worker : Of[w] = p /\ call[w].pc \in {"ask", "replied"}}

Released(p) == [i \in Inode |-> IF owner[i] = p THEN Nobody ELSE owner[i]]

\* Faulty variant: a file left in self.lock keeps its flock.
OpenLockAgain(p) ==
    /\ \/ at[p] = "open"
       \/ at[p] = "up" /\ ~opened[p] /\ Calling(p) # {}
    /\ LET i == IF lockFile = NoFile THEN FreeLock ELSE lockFile IN
         /\ lockFile' = i
         /\ lock' = [lock EXCEPT ![p] = i]
    /\ at' = [at EXCEPT ![p] = "flock"]
    /\ UNCHANGED <<version, owner, cacheFile, entry, goal, storage, opened, raced,
                   call, troubles>>

\* open(CACHE_PATH + '.lock', 'ab'); a file left in self.lock is closed.
OpenLock(p) ==
    /\ \/ at[p] = "open"
       \/ at[p] = "up" /\ ~opened[p] /\ Calling(p) # {}
    /\ LET i == IF lockFile = NoFile THEN FreeLock ELSE lockFile IN
         /\ lockFile' = i
         /\ lock' = [lock EXCEPT ![p] = i]
    /\ owner' = Released(p)
    /\ at' = [at EXCEPT ![p] = "flock"]
    /\ UNCHANGED <<version, cacheFile, entry, goal, storage, opened, raced,
                   call, troubles>>

\* LOCK_EX | LOCK_NB, or read-only.
Flock(p) ==
    /\ at[p] = "flock"
    /\ at' = [at EXCEPT ![p] = "shelve"]
    /\ IF owner[lock[p]] = Nobody
       THEN /\ owner' = [owner EXCEPT ![lock[p]] = p]
            /\ raced' = (raced \/ lock[p] # lockFile \/ \E q \in Process : at[q] = "unlink")
            /\ UNCHANGED lock
       ELSE /\ lock' = [lock EXCEPT ![p] = NoFile]
            /\ UNCHANGED <<owner, raced>>
    /\ UNCHANGED <<version, lockFile, cacheFile, entry, goal, storage, opened,
                   call, troubles>>

\* Is self.lock set?  A lock file stays there once it is closed.
Writer(p) == lock[p] # NoFile

\* shelve.open: 'c' creates the file, 'r' does not.  What truncate(0) empties
\* when the file is corrupted is the lock file: the second try fails as well.
ShelveFails(p) ==
    IF cacheFile = NoFile THEN ~Writer(p) ELSE entry[cacheFile] = Corrupt

OpenStorage(p) ==
    /\ at[p] = "shelve" /\ ~ShelveFails(p)
    /\ LET i == IF cacheFile = NoFile THEN FreeCache ELSE cacheFile IN
         /\ cacheFile' = i
         /\ entry' = IF cacheFile = NoFile THEN [entry EXCEPT ![i] = Empty] ELSE entry
         /\ storage' = [storage EXCEPT ![p] = i]
    /\ opened' = [opened EXCEPT ![p] = TRUE]
    /\ at' = [at EXCEPT ![p] = CASE goal[p] = "run"  -> "up"
                                 [] goal[p] = "exit" -> "close"
                                 [] OTHER            -> "set"]
    /\ UNCHANGED <<version, lockFile, owner, goal, lock, raced, call, troubles>>

\* The process ends: the kernel closes its files.
Down(p) ==
    /\ at' = [at EXCEPT ![p] = "down"]
    /\ goal' = [goal EXCEPT ![p] = "run"]
    /\ lock' = [lock EXCEPT ![p] = NoFile]
    /\ storage' = [storage EXCEPT ![p] = NoFile]
    /\ opened' = [opened EXCEPT ![p] = FALSE]
    /\ owner' = Released(p)
    /\ call' = [w \in Worker |-> IF Of[w] = p THEN NoCall ELSE call[w]]
    /\ UNCHANGED raced

\* The event loop goes on, and the call of w: again, or it is over.
Resumes(p, w, pc) ==
    /\ at' = [at EXCEPT ![p] = "up"]
    /\ goal' = [goal EXCEPT ![p] = "run"]
    /\ call' = [call EXCEPT ![w] = [NoCall EXCEPT !.pc = pc]]

\* Not an error that is retried.
OpenFails(p) ==
    /\ at[p] = "shelve" /\ ShelveFails(p)
    /\ \/ goal[p] = "exit" /\ Down(p)
       \/ /\ \E w \in IF goal[p] = "run" THEN Calling(p) ELSE {goal[p]} :
               w \in Worker /\ Resumes(p, w, "idle")
          /\ UNCHANGED <<owner, lock, storage, opened, raced>>
    /\ UNCHANGED <<version, lockFile, cacheFile, entry, troubles>>

-----------------------------------------------------------------------------
(* FileCache.close and destroy                                             *)

\* storage.close and lock.close; lockf(LOCK_UN) is no flock.
Release(p) ==
    /\ at[p] = "close" /\ Writer(p)
    /\ storage' = [storage EXCEPT ![p] = NoFile]
    /\ owner' = Released(p)
    /\ at' = [at EXCEPT ![p] = "unlink"]
    /\ UNCHANGED <<version, lockFile, cacheFile, entry, goal, lock, opened,
                   raced, call, troubles>>

\* Faulty variant: readers unlink the lock file as well.
ReaderUnlinks(p) ==
    /\ at[p] = "close" /\ ~Writer(p)
    /\ Down(p)
    /\ lockFile' = NoFile
    /\ UNCHANGED <<version, cacheFile, entry, troubles>>

\* A reader is done with storage.close: only its exit closes it.
ReaderExits(p) ==
    /\ at[p] = "close" /\ ~Writer(p)
    /\ Down(p)
    /\ UNCHANGED <<version, lockFile, cacheFile, entry, troubles>>

\* Faulty variant: close leaves opened set, and the open of destroy does nothing.
UnlinkStaysOpened(p) ==
    /\ at[p] = "unlink"
    /\ lockFile' = NoFile
    /\ \/ goal[p] = "exit" /\ Down(p) /\ UNCHANGED cacheFile
       \/ /\ goal[p] # "exit" /\ cacheFile' = NoFile
          /\ Resumes(p, goal[p], "ask")
          /\ UNCHANGED <<owner, lock, storage, opened, raced>>
    /\ UNCHANGED <<version, entry, troubles>>

\* os.unlink(self.lock.name).  FileNotFoundError ends an exit; in destroy it
\* leaves opened set over a closed storage, and is retried.
Unlink(p) ==
    /\ at[p] = "unlink"
    /\ lockFile' = NoFile
    /\ \/ goal[p] = "exit" /\ Down(p)
       \/ /\ goal[p] # "exit" /\ lockFile # NoFile
          /\ opened' = [opened EXCEPT ![p] = FALSE]
          /\ at' = [at EXCEPT ![p] = "destroy"]
          /\ UNCHANGED <<owner, goal, lock, storage, raced, call>>
       \/ /\ goal[p] # "exit" /\ lockFile = NoFile
          /\ Resumes(p, goal[p], "ask")
          /\ UNCHANGED <<owner, lock, storage, opened, raced>>
    /\ UNCHANGED <<version, cacheFile, entry, troubles>>

\* os.unlink(CACHE_PATH + '.db').
Destroy(p) ==
    /\ at[p] = "destroy"
    /\ cacheFile' = NoFile
    /\ IF cacheFile = NoFile
       THEN Resumes(p, goal[p], "ask")
       ELSE at' = [at EXCEPT ![p] = "open"] /\ UNCHANGED <<goal, call>>
    /\ UNCHANGED <<version, lockFile, owner, entry, lock, storage, opened,
                   raced, troubles>>

\* script.py closes the cache whatever happens, which opens it if it is not.
\* The lock file of a storage closed for good is closed as well: an error.
Broken(p) == opened[p] /\ storage[p] = NoFile

Exit(p) ==
    /\ at[p] = "up"
    /\ IF Broken(p) THEN Down(p)
       ELSE /\ goal' = [goal EXCEPT ![p] = "exit"]
            /\ at' = [at EXCEPT ![p] = IF opened[p] THEN "close" ELSE "open"]
            /\ call' = [w \in Worker |-> IF Of[w] = p THEN NoCall ELSE call[w]]
            /\ UNCHANGED <<owner, lock, storage, opened, raced>>
    /\ UNCHANGED <<version, lockFile, cacheFile, entry, troubles>>

Start(p) ==
    /\ at[p] = "down"
    /\ at' = [at EXCEPT ![p] = "up"]
    /\ UNCHANGED <<version, disk, goal, lock, storage, opened, raced, call, troubles>>

\* Killed, maybe in the middle of a write.
Crash(p) ==
    /\ at[p] # "down" /\ Trouble
    /\ Down(p)
    /\ \/ UNCHANGED entry
       \/ /\ Writer(p) /\ storage[p] # NoFile
          /\ \E damage \in {Torn, Corrupt} : entry' = [entry EXCEPT ![storage[p]] = damage]
    /\ UNCHANGED <<version, lockFile, cacheFile>>

-----------------------------------------------------------------------------
(* cached_arequest                                                         *)

Ask(w) ==
    /\ at[Of[w]] = "up" /\ call[w].pc = "idle"
    /\ call' = [call EXCEPT ![w] = [NoCall EXCEPT !.pc = "ask"]]
    /\ UNCHANGED <<version, disk, procs, troubles>>

Held(w) == entry[storage[Of[w]]]

Sends(w, etag) ==
    call' = [call EXCEPT ![w] = [pc |-> "sent", etag |-> etag, since |-> version, got |-> Empty]]

Ready(w) == at[Of[w]] = "up" /\ opened[Of[w]]

\* CACHE.get, and the request.
GetHitOrMiss(w) ==
    /\ Ready(w) /\ call[w].pc = "ask" /\ ~Broken(Of[w])
    /\ Held(w) <= MaxVersion
    /\ Sends(w, Held(w))
    /\ UNCHANGED <<version, disk, procs, troubles>>

\* Faulty variant: a corrupted key is not dropped.
GetTornAgain(w) ==
    /\ Ready(w) /\ call[w].pc = "ask" /\ ~Broken(Of[w])
    /\ Held(w) = Torn /\ Writer(Of[w])
    /\ UNCHANGED vars

\* A corrupted key is dropped; a reader cannot drop it, and tries again.
GetTorn(w) ==
    /\ Ready(w) /\ call[w].pc = "ask" /\ ~Broken(Of[w])
    /\ Held(w) = Torn /\ Writer(Of[w])
    /\ entry' = [entry EXCEPT ![storage[Of[w]]] = Empty]
    /\ Sends(w, Empty)
    /\ UNCHANGED <<version, lockFile, owner, cacheFile, procs, troubles>>

\* ValueError, from a closed storage: not retried.
GetClosed(w) ==
    /\ Ready(w) /\ call[w].pc = "ask" /\ Broken(Of[w])
    /\ call' = [call EXCEPT ![w] = NoCall]
    /\ UNCHANGED <<version, disk, procs, troubles>>

\* GitHub answers with a version; 304 if it has the Etag of the request.
Reply(w) ==
    /\ call[w].pc = "sent"
    /\ call' = [call EXCEPT ![w].pc = "replied", ![w].got = version]
    /\ UNCHANGED <<version, disk, procs, troubles>>

\* A timeout, a disconnection or an error 500: retried.
Lost(w) ==
    /\ call[w].pc = "sent" /\ Trouble
    /\ call' = [call EXCEPT ![w] = [NoCall EXCEPT !.pc = "ask"]]
    /\ UNCHANGED <<version, disk, procs>>

NotModified(w) == call[w].got = call[w].etag

\* Faulty variant: on 304 the entry is read again.
ResponseReread(w) ==
    IF NotModified(w) /\ storage[Of[w]] # NoFile THEN Held(w) ELSE call[w].got

\* On 304, the copy read before the request.
Response(w) == IF NotModified(w) THEN call[w].etag ELSE call[w].got

Returned(w) == call' = [call EXCEPT ![w] = NoCall]

Stores(w) ==
    LET i == storage[Of[w]] IN
    entry' = IF Writer(Of[w]) /\ i # NoFile THEN [entry EXCEPT ![i] = Response(w)] ELSE entry

Return(w) ==
    /\ Ready(w) /\ call[w].pc = "replied"
    /\ Returned(w) /\ Stores(w)
    /\ UNCHANGED <<version, lockFile, owner, cacheFile, procs, troubles>>

\* dbm.error, an OSError: the cache is destroyed, opened, and written again.
SetFails(w) ==
    LET p == Of[w] IN
    /\ Ready(w) /\ call[w].pc = "replied"
    /\ Writer(p) /\ ~Broken(p) /\ Trouble
    /\ at' = [at EXCEPT ![p] = "close"]
    /\ goal' = [goal EXCEPT ![p] = w]
    /\ UNCHANGED <<version, disk, lock, storage, opened, raced, call>>

\* Another process may have taken the lock in between: the storage is then
\* read-only, and the call is made again.
SetAgain(p) ==
    /\ at[p] = "set"
    /\ IF Writer(p)
       THEN /\ Returned(goal[p]) /\ Stores(goal[p])
            /\ at' = [at EXCEPT ![p] = "up"]
            /\ goal' = [goal EXCEPT ![p] = "run"]
       ELSE Resumes(p, goal[p], "ask") /\ UNCHANGED entry
    /\ UNCHANGED <<version, lockFile, owner, cacheFile, lock, storage, opened, raced, troubles>>

-----------------------------------------------------------------------------
FileStep(p) ==
    \/ OpenLock(p) \/ Flock(p) \/ OpenStorage(p) \/ OpenFails(p)
    \/ Release(p) \/ ReaderExits(p) \/ Unlink(p) \/ Destroy(p) \/ SetAgain(p)

CallStep(w) == GetHitOrMiss(w) \/ GetTorn(w) \/ GetClosed(w) \/ Reply(w) \/ Return(w)

Next ==
    \/ Change
    \/ \E p \in Process : FileStep(p) \/ Start(p) \/ Exit(p) \/ Crash(p)
    \/ \E w \in Worker : CallStep(w) \/ Ask(w) \/ Lost(w) \/ SetFails(w)

Spec == Init /\ [][Next]_vars

\* A process goes on, and GitHub answers; nobody has to ask, start or exit.
FairSpec ==
    /\ Spec
    /\ \A p \in Process : WF_vars(FileStep(p))
    /\ \A w \in Worker : WF_vars(CallStep(w))

-----------------------------------------------------------------------------
(* Properties                                                              *)

TypeOK ==
    /\ version \in 1 .. MaxVersion
    /\ lockFile \in Inode \cup {NoFile} /\ cacheFile \in Inode \cup {NoFile}
    /\ owner \in [Inode -> Process \cup {Nobody}]
    /\ entry \in [Inode -> 0 .. Corrupt]
    /\ at \in [Process -> {"down", "up", "open", "flock", "shelve", "set",
                           "close", "unlink", "destroy"}]
    /\ goal \in [Process -> {"run", "exit"} \cup Worker]
    /\ {lock, storage} \subseteq [Process -> Inode \cup {NoFile}]
    /\ opened \in [Process -> BOOLEAN]
    /\ raced \in BOOLEAN
    /\ call \in [Worker -> [pc : {"idle", "ask", "sent", "replied"},
                            etag : 0 .. MaxVersion, since : 0 .. MaxVersion,
                            got : 0 .. MaxVersion]]
    /\ troubles \in 0 .. MaxTrouble
    /\ \A i \in Inode : owner[i] # Nobody => lock[owner[i]] = i

\* One process at a time may write (doc/troubleshoot.rst:44).
OneWriter == Cardinality({p \in Process : \E i \in Inode : owner[i] = p}) <= 1

\* A process never holds a closed storage for an open one, with which every
\* later call fails until it restarts (cache.py:68-70, 101-103).
StorageUsable == \A p \in Process : at[p] = "up" => ~Broken(p)

\* Both hold, whoever starts, exits, crashes or destroys the cache, until a
\* process locks a file in between the lock.close and the unlink of the one that
\* leaves (cache.py:92-99).
CacheSound == raced \/ (OneWriter /\ StorageUsable)

\* What a call returns is not older than GitHub's version when the request was
\* sent, though other calls overwrite the entry meanwhile, even with an older
\* version, and though the cache is read only (github.py:82-111).
FreshAnswer ==
    \A w \in Worker : call[w].pc = "replied" => Response(w) >= call[w].since

\* A call ends, unless its process meets a cache that shelve cannot open, and one
\* of its calls raises, or an entry that it cannot read, nor drop for want of the
\* lock (cache.py:15-27, 82-89).
CannotOpen(p) == at[p] = "shelve" /\ ShelveFails(p)

CannotRead(p) ==
    /\ storage[p] # NoFile
    /\ entry[storage[p]] \in IF Writer(p) THEN {Corrupt} ELSE {Torn, Corrupt}

CallsEnd ==
    \A w \in Worker :
        call[w].pc = "ask" ~> call[w].pc = "idle" \/ CannotOpen(Of[w]) \/ CannotRead(Of[w])
=============================================================================
