------------------------------- MODULE JsonStore -------------------------------
(***************************************************************************)
(* danyapi/store.py: one JsonStore, the in-memory dictionary that mirrors  *)
(* itself into a JSON file behind the back of its users.  The event loop   *)
(* hands its writes to one background worker; a worker thread (the         *)
(* responses store is set from asyncio.to_thread) writes the file itself.  *)
(* A content of the dictionary is abstracted to a version: every change    *)
(* of the data makes the next one.  Threads interleave between the         *)
(* sections of _lock and of the lock of the path.                          *)
(***************************************************************************)
EXTENDS Naturals, Integers

CONSTANTS
  Loop,        \* the event loop thread
  Flusher,     \* the only worker of _FLUSH_EXECUTOR
  Threads,     \* asyncio.to_thread workers that call set
  Remover,     \* the thread that calls remove
  Nobody,
  MaxChanges,  \* bound: versions of the data
  MaxCrashes   \* bound: how often the process dies

Writers == {Loop, Flusher} \cup Threads

ASSUME StoreAssumption ==
  /\ MaxChanges \in Nat /\ MaxCrashes \in Nat
  /\ Loop # Flusher /\ Loop \notin Threads /\ Flusher \notin Threads
  /\ Remover \notin Writers /\ Nobody \notin Writers

VARIABLES
  threaded,   \* the store is also set from worker threads; never changes
  mem,        \* version in self._data
  disk,       \* version in the file, 0 for no file or an empty one
  tmp,        \* who opened the temporary file last, Nobody when there is none
  gen,        \* self._generation
  committed,  \* self._committed_generation
  failed,     \* self._commit_failed
  dirty,      \* self._dirty
  pending,    \* self._pending, and not self._idle
  removed,    \* self._removed
  executor,   \* _FLUSH_EXECUTOR still takes jobs
  jobs,       \* jobs it has not started
  pathLock,   \* holder of the lock of the path
  seen,       \* generation at the start of the round of the background flush
  settled,    \* nothing changed during the debounce
  pc,         \* where each thread is
  snap,       \* the snapshot each writer is committing
  snapGen,    \* and its generation
  crashes     \* how often the process has died

flags  == <<dirty, pending>>
round  == <<seen, settled>>
shots  == <<snap, snapGen>>
file   == <<disk, tmp>>
marks  == <<committed, failed>>
fixed  == <<threaded, crashes>>
vars == <<threaded, mem, disk, tmp, gen, committed, failed, dirty, pending, removed,
          executor, jobs, pathLock, seen, settled, pc, snap, snapGen, crashes>>

Places == {"idle", "changed", "flushing", "flushed", "write", "commit", "replace",
           "cleanup", "publish", "raise", "begin", "debounce", "clear",
           "removing", "cleared", "gone", "kept"}

TypeOK ==
  /\ threaded \in BOOLEAN
  /\ mem \in 0 .. MaxChanges
  /\ disk \in 0 .. MaxChanges
  /\ tmp \in Writers \cup {Nobody}
  /\ gen \in Nat
  /\ committed \in Nat \cup {-1}
  /\ failed \in BOOLEAN
  /\ dirty \in BOOLEAN
  /\ pending \in BOOLEAN
  /\ removed \in BOOLEAN
  /\ executor \in BOOLEAN
  /\ jobs \in 0 .. 1
  /\ pathLock \in Writers \cup {Nobody}
  /\ seen \in Nat
  /\ settled \in BOOLEAN
  /\ pc \in [Writers \cup {Remover} -> Places]
  /\ snap \in [Writers -> 0 .. MaxChanges]
  /\ snapGen \in [Writers -> Nat]
  /\ crashes \in 0 .. MaxCrashes

\* the store of a fresh process: nothing noted, nothing committed
Fresh ==
  /\ tmp = Nobody /\ gen = 0 /\ committed = -1 /\ failed = FALSE
  /\ dirty = FALSE /\ pending = FALSE /\ removed = FALSE /\ executor = TRUE
  /\ jobs = 0 /\ pathLock = Nobody /\ seen = 0 /\ settled = FALSE
  /\ pc = [w \in Writers \cup {Remover} |-> "idle"]
  /\ snap = [w \in Writers |-> 0] /\ snapGen = [w \in Writers |-> 0]

Init == threaded \in BOOLEAN /\ crashes = 0 /\ mem = 0 /\ disk = 0 /\ Fresh

Goto(w, place) == pc' = [pc EXCEPT ![w] = place]

-------------------------------------------------------------------------------
(* set, pop, discard, clear *)

MaySet(w) == w = Loop \/ (threaded /\ w \in Threads)

\* the data changes under _lock
Change(w) ==
  /\ MaySet(w) /\ pc[w] = "idle" /\ mem < MaxChanges
  /\ mem' = mem + 1
  /\ Goto(w, "changed")
  /\ UNCHANGED <<fixed, file, gen, marks, flags, removed, executor, jobs, pathLock, round, shots>>

\* a call that leaves the data as it is goes on only after a failed commit
Again(w) ==
  /\ MaySet(w) /\ pc[w] = "idle" /\ failed /\ gen < MaxChanges
  /\ Goto(w, "changed")
  /\ UNCHANGED <<fixed, mem, file, gen, marks, flags, removed, executor, jobs, pathLock, round,
                 shots>>

\* _note_changed of a removed store
NoteRemoved(w) ==
  /\ pc[w] = "changed" /\ removed
  /\ Goto(w, "idle")
  /\ UNCHANGED <<fixed, mem, file, gen, marks, flags, removed, executor, jobs, pathLock, round,
                 shots>>

\* a faulty NoteOnLoop: a second job for the same store
NoteTwice ==
  /\ pc[Loop] = "changed" /\ ~removed
  /\ gen' = gen + 1
  /\ dirty' = TRUE /\ pending' = TRUE
  /\ jobs' = jobs + 1
  /\ Goto(Loop, "idle")
  /\ UNCHANGED <<fixed, mem, file, marks, removed, executor, pathLock, round, shots>>

\* a faulty NoteOnLoop: the loop writes although a job is on its way
NoteImpatient ==
  /\ pc[Loop] = "changed" /\ ~removed
  /\ gen' = gen + 1
  /\ IF executor
     THEN /\ dirty' = TRUE /\ pending' = TRUE
          /\ jobs' = IF pending THEN jobs ELSE jobs + 1
          /\ Goto(Loop, "idle")
     ELSE Goto(Loop, "write") /\ UNCHANGED <<flags, jobs>>
  /\ UNCHANGED <<fixed, mem, file, marks, removed, executor, pathLock, round, shots>>

\* _note_changed on the event loop: a job for the background worker, unless one
\* is on its way; the loop writes the file itself once the executor is shut down
NoteOnLoop ==
  /\ pc[Loop] = "changed" /\ ~removed
  /\ gen' = gen + 1
  /\ \/ /\ pending
        /\ dirty' = TRUE
        /\ Goto(Loop, "idle")
        /\ UNCHANGED <<pending, jobs>>
     \/ /\ ~pending /\ executor
        /\ dirty' = TRUE /\ pending' = TRUE
        /\ jobs' = jobs + 1
        /\ Goto(Loop, "idle")
     \/ /\ ~pending /\ ~executor
        /\ dirty' = FALSE
        /\ Goto(Loop, "write")
        /\ UNCHANGED <<pending, jobs>>
  /\ UNCHANGED <<fixed, mem, file, marks, removed, executor, pathLock, round, shots>>

\* _note_changed without a running loop
NoteOnThread(w) ==
  /\ w \in Threads /\ pc[w] = "changed" /\ ~removed
  /\ gen' = gen + 1
  /\ Goto(w, "write")
  /\ UNCHANGED <<fixed, mem, file, marks, flags, removed, executor, jobs, pathLock, round, shots>>

\* _write: snapshot and generation under one _lock
Write(w) ==
  /\ pc[w] = "write"
  /\ \/ /\ removed
        /\ Goto(w, "idle")
        /\ UNCHANGED shots
     \/ /\ ~removed
        /\ snap' = [snap EXCEPT ![w] = mem]
        /\ snapGen' = [snapGen EXCEPT ![w] = gen]
        /\ Goto(w, "commit")
  /\ UNCHANGED <<fixed, mem, file, gen, marks, flags, removed, executor, jobs, pathLock, round>>

-------------------------------------------------------------------------------
(* _commit *)

\* where a writer goes on after its commit
After(w) == IF w # Flusher THEN "idle" ELSE IF settled THEN "clear" ELSE "begin"

\* the commit is over, and its local variables are gone
EndCommit(w) ==
  /\ Goto(w, After(w))
  /\ snap' = [snap EXCEPT ![w] = 0]
  /\ snapGen' = [snapGen EXCEPT ![w] = 0]

\* the store was removed, or a newer snapshot is known to be on disk
SkipCommit(w) ==
  /\ pc[w] = "commit"
  /\ removed \/ (pathLock = Nobody /\ snapGen[w] < committed)
  /\ EndCommit(w)
  /\ UNCHANGED <<fixed, mem, file, gen, marks, flags, removed, executor, jobs, pathLock, round>>

\* a faulty OpenTmp: the store is not looked at again under the lock of the path
OpenTmpUnchecked(w) ==
  /\ pc[w] = "commit" /\ pathLock = Nobody
  /\ snapGen[w] >= committed
  /\ pathLock' = w
  /\ tmp' = w
  /\ Goto(w, "replace")
  /\ UNCHANGED <<fixed, mem, disk, gen, marks, flags, removed, executor, jobs, round, shots>>

\* under the lock of the path: the temporary file is written and synced
OpenTmp(w) ==
  /\ pc[w] = "commit" /\ pathLock = Nobody
  /\ ~removed /\ snapGen[w] >= committed
  /\ pathLock' = w
  /\ tmp' = w
  /\ Goto(w, "replace")
  /\ UNCHANGED <<fixed, mem, disk, gen, marks, flags, removed, executor, jobs, round, shots>>

\* os.replace, and the lock is released
Replace(w) ==
  /\ pc[w] = "replace" /\ tmp = w
  /\ disk' = snap[w]
  /\ tmp' = Nobody
  /\ pathLock' = Nobody
  /\ Goto(w, "publish")
  /\ UNCHANGED <<fixed, mem, gen, marks, flags, removed, executor, jobs, round, shots>>

\* a faulty CommitFails: the error is swallowed
CommitFailsQuietly(w) ==
  /\ pc[w] = "replace"
  /\ pathLock' = Nobody
  /\ Goto(w, "publish")
  /\ UNCHANGED <<fixed, mem, file, gen, marks, flags, removed, executor, jobs, round, shots>>

\* an OSError on the way, for one because another writer's cleanup took the
\* temporary file away, or after os.replace, in _fsync_dir; the lock is released
CommitFails(w) ==
  /\ pc[w] = "replace"
  /\ \/ UNCHANGED file
     \/ tmp = w /\ disk' = snap[w] /\ tmp' = Nobody
  /\ pathLock' = Nobody
  /\ Goto(w, "cleanup")
  /\ UNCHANGED <<fixed, mem, gen, marks, flags, removed, executor, jobs, round, shots>>

\* the handler of the error runs outside the lock
CleanUp(w) ==
  /\ pc[w] = "cleanup"
  /\ failed' = TRUE
  /\ tmp' = Nobody
  /\ EndCommit(w)
  /\ UNCHANGED <<fixed, mem, disk, gen, committed, flags, removed, executor, jobs, pathLock, round>>

\* outside the lock as well: the commit is known to have succeeded ...
Publish(w) ==
  /\ pc[w] = "publish"
  /\ failed' = FALSE
  /\ IF snapGen[w] > committed THEN Goto(w, "raise") /\ UNCHANGED shots ELSE EndCommit(w)
  /\ UNCHANGED <<fixed, mem, file, gen, committed, flags, removed, executor, jobs, pathLock, round>>

\* ... and its generation is
Raise(w) ==
  /\ pc[w] = "raise"
  /\ committed' = snapGen[w]
  /\ EndCommit(w)
  /\ UNCHANGED <<fixed, mem, file, gen, failed, flags, removed, executor, jobs, pathLock, round>>

-------------------------------------------------------------------------------
(* _flush_background *)

StartJob ==
  /\ pc[Flusher] = "idle" /\ jobs > 0
  /\ jobs' = jobs - 1
  /\ Goto(Flusher, "begin")
  /\ UNCHANGED <<fixed, mem, file, gen, marks, flags, removed, executor, pathLock, round, shots>>

BeginRound ==
  /\ pc[Flusher] = "begin"
  /\ seen' = gen
  /\ Goto(Flusher, "debounce")
  /\ UNCHANGED <<fixed, mem, file, gen, marks, flags, removed, executor, jobs, pathLock, settled,
                 shots>>

\* a faulty NothingToWrite: the job ends and the flags stay
NothingToWriteQuiet ==
  /\ pc[Flusher] = "debounce" /\ (removed \/ ~dirty)
  /\ Goto(Flusher, "idle")
  /\ UNCHANGED <<fixed, mem, file, gen, marks, flags, removed, executor, jobs, pathLock, round,
                 shots>>

NothingToWrite ==
  /\ pc[Flusher] = "debounce" /\ (removed \/ ~dirty)
  /\ dirty' = FALSE /\ pending' = FALSE
  /\ seen' = 0 /\ settled' = FALSE
  /\ Goto(Flusher, "idle")
  /\ UNCHANGED <<fixed, mem, file, gen, marks, removed, executor, jobs, pathLock, shots>>

TakeSnapshot ==
  /\ pc[Flusher] = "debounce" /\ ~removed /\ dirty
  /\ snap' = [snap EXCEPT ![Flusher] = mem]
  /\ snapGen' = [snapGen EXCEPT ![Flusher] = gen]
  /\ settled' = (gen = seen)
  /\ Goto(Flusher, "commit")
  /\ UNCHANGED <<fixed, mem, file, gen, marks, flags, removed, executor, jobs, pathLock, seen>>

\* a settled round ends the job
EndJob ==
  /\ pc[Flusher] = "clear"
  /\ dirty' = FALSE /\ pending' = FALSE
  /\ seen' = 0 /\ settled' = FALSE
  /\ Goto(Flusher, "idle")
  /\ UNCHANGED <<fixed, mem, file, gen, marks, removed, executor, jobs, pathLock, shots>>

-------------------------------------------------------------------------------
(* flush *)

Flush ==
  /\ pc[Loop] = "idle"
  /\ Goto(Loop, "flushing")
  /\ UNCHANGED <<fixed, mem, file, gen, marks, flags, removed, executor, jobs, pathLock, round,
                 shots>>

\* it returns once nothing is pending ...
FlushReturns ==
  /\ pc[Loop] = "flushing" /\ ~pending
  /\ Goto(Loop, "flushed")
  /\ UNCHANGED <<fixed, mem, file, gen, marks, flags, removed, executor, jobs, pathLock, round,
                 shots>>

\* ... or warns after _FLUSH_MAX_WAIT
FlushGivesUp ==
  /\ pc[Loop] = "flushing" /\ pending
  /\ Goto(Loop, "idle")
  /\ UNCHANGED <<fixed, mem, file, gen, marks, flags, removed, executor, jobs, pathLock, round,
                 shots>>

LeaveFlush ==
  /\ pc[Loop] = "flushed"
  /\ Goto(Loop, "idle")
  /\ UNCHANGED <<fixed, mem, file, gen, marks, flags, removed, executor, jobs, pathLock, round,
                 shots>>

-------------------------------------------------------------------------------
(* remove *)

\* its flush has returned, with or without a write still pending
MarkRemoved ==
  /\ pc[Remover] = "idle"
  /\ removed' = TRUE
  /\ Goto(Remover, "removing")
  /\ UNCHANGED <<fixed, mem, file, gen, marks, flags, executor, jobs, pathLock, round, shots>>

ClearRemoved ==
  /\ pc[Remover] = "removing"
  /\ mem' = 0
  /\ dirty' = FALSE /\ pending' = FALSE
  /\ Goto(Remover, "cleared")
  /\ UNCHANGED <<fixed, file, gen, marks, removed, executor, jobs, pathLock, round, shots>>

\* under the lock of the path; deleting the file may fail
Unlink ==
  /\ pc[Remover] = "cleared" /\ pathLock = Nobody
  /\ \/ disk' = 0 /\ Goto(Remover, "gone")
     \/ UNCHANGED disk /\ Goto(Remover, "kept")
  /\ UNCHANGED <<fixed, mem, tmp, gen, marks, flags, removed, executor, jobs, pathLock, round,
                 shots>>

-------------------------------------------------------------------------------
(* The process *)

\* the interpreter shuts the executor down: jobs it has are still run
Shutdown ==
  /\ executor
  /\ executor' = FALSE
  /\ UNCHANGED <<fixed, mem, file, gen, marks, flags, removed, jobs, pathLock, round, shots, pc>>

\* The process dies and a new one loads the file; a file that cannot be read, or
\* is not a JSON object, is ignored, which leaves a content of its own.
Restart ==
  /\ crashes < MaxCrashes
  /\ crashes' = crashes + 1
  /\ mem' \in {disk, disk + 1} \cap 0 .. MaxChanges
  /\ tmp' = Nobody /\ gen' = 0 /\ committed' = -1 /\ failed' = FALSE
  /\ dirty' = FALSE /\ pending' = FALSE /\ removed' = FALSE /\ executor' = TRUE
  /\ jobs' = 0 /\ pathLock' = Nobody /\ seen' = 0 /\ settled' = FALSE
  /\ pc' = [w \in Writers \cup {Remover} |-> "idle"]
  /\ snap' = [w \in Writers |-> 0] /\ snapGen' = [w \in Writers |-> 0]
  /\ UNCHANGED <<threaded, disk>>

-------------------------------------------------------------------------------
\* what a thread does next once it is inside a call
Continue(w) ==
  \/ NoteRemoved(w) \/ NoteOnThread(w) \/ Write(w)
  \/ SkipCommit(w) \/ OpenTmp(w) \/ Replace(w) \/ CommitFails(w) \/ CleanUp(w)
  \/ Publish(w) \/ Raise(w)

Background == StartJob \/ BeginRound \/ NothingToWrite \/ TakeSnapshot \/ EndJob

Next ==
  \/ \E w \in Writers : Change(w) \/ Again(w) \/ Continue(w)
  \/ NoteOnLoop \/ Background
  \/ Flush \/ FlushReturns \/ FlushGivesUp \/ LeaveFlush
  \/ MarkRemoved \/ ClearRemoved \/ Unlink
  \/ Shutdown \/ Restart

Spec == Init /\ [][Next]_vars

\* Threads that are inside a call are scheduled; nothing is asked of the lock of
\* the path, which writers hold for a moment each.
FairSpec ==
  /\ Spec
  /\ WF_vars(NoteOnLoop) /\ WF_vars(Background)
  /\ \A w \in Writers : WF_vars(Continue(w))

-------------------------------------------------------------------------------
(* Properties *)

\* A store that only the event loop sets never goes back on disk to an older
\* content, whatever fails, retries or shuts down.
DiskMovesForward == [][~threaded /\ ~removed => disk' >= disk]_vars

\* Whenever the store believes that its last generation is committed, and no change has
\* yet to be noted, the file has the data: a failed commit is never taken for a success
\* and no change goes without a generation of its own, even while the next round of the
\* background flush is under way (_commit, _flush_background, _note_changed).
CommittedIsOnDisk ==
  ~threaded /\ ~removed /\ pc[Loop] # "changed" /\ committed = gen => disk = mem

\* Once remove has deleted the file, no commit that was on its way brings it back.
NeverResurrected == pc[Remover] = "gone" => disk = 0

\* A pending write ends, so that flush returns, if changes stop being noted from some point
\* on, although every commit may fail.  The premise is needed: changes that land within
\* every debounce keep it pending for good.
PendingEnds == <>[][gen' = gen]_vars => (pending ~> ~pending)

\* When flush returns without a warning, everything set before is on disk.
FlushReachesDisk ==
  ~threaded /\ ~removed /\ pc[Loop] = "flushed" /\ ~failed => disk = mem

\* An older snapshot never overwrites a newer one on disk.
OlderNeverOverwrites == [][disk' < disk => removed]_vars
===============================================================================
