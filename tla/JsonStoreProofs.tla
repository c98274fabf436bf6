---------------------------- MODULE JsonStoreProofs ----------------------------
(* Proofs about JsonStore, for any threads and any number of changes and crashes. *)
EXTENDS JsonStore, TLAPS

-------------------------------------------------------------------------------
(* The inductive invariant *)

\* a writer holds a snapshot
Writing == {"commit", "replace", "cleanup", "publish", "raise"}

\* Where each thread can be; only the event loop and the flusher run in a store that
\* is not set from worker threads.
PlaceInv ==
  /\ pc[Flusher] \in {"idle", "begin", "debounce", "clear"} \cup Writing
  /\ pc[Loop] \in {"idle", "changed", "flushing", "flushed", "write"} \cup Writing
  /\ \A t \in Threads : pc[t] \in {"idle", "changed", "write"} \cup Writing
  /\ ~threaded => \A t \in Threads : pc[t] = "idle"

\* The lock of the path is held by the writer that is about to replace the file.
LockInv == \A w \in Writers : pc[w] = "replace" <=> pathLock = w

\* A removed store stays removed, and nobody replaces the file that was deleted.
RemoverInv ==
  /\ pc[Remover] \in {"idle", "removing", "cleared", "gone", "kept"}
  /\ pc[Remover] # "idle" => removed
  /\ pc[Remover] = "gone" => disk = 0 /\ pathLock = Nobody

\* There is one job at a time, and pending says so; the loop writes by itself only when
\* there will be no job any more.
JobInv ==
  ~removed =>
    /\ jobs > 0 => pending /\ pc[Flusher] = "idle"
    /\ pc[Flusher] # "idle" => pending
    /\ pc[Loop] \in {"write"} \cup Writing => ~pending /\ ~executor

\* Of a store that only the loop sets, the file is no newer than a snapshot that will
\* replace it, and a snapshot no newer than the data.
OrderInv ==
  ~threaded /\ ~removed =>
    /\ disk <= mem
    /\ \A w \in {Loop, Flusher} :
         /\ pc[w] \in Writing => snap[w] <= mem
         /\ pc[w] \in {"commit", "replace"} => disk <= snap[w]

\* ... and generations tell which snapshot has the data: the last one, from when the
\* change is noted on.
CommitInv ==
  ~threaded /\ ~removed =>
    /\ committed <= gen
    /\ \A w \in {Loop, Flusher} :
         /\ pc[w] \in Writing =>
              /\ committed <= snapGen[w] /\ snapGen[w] <= gen
              /\ snapGen[w] = gen /\ pc[Loop] # "changed" => snap[w] = mem
         /\ pc[w] \in {"publish", "raise"} => disk = snap[w]

IInv == TypeOK /\ PlaceInv /\ LockInv /\ RemoverInv /\ JobInv /\ OrderInv /\ CommitInv
          /\ CommittedIsOnDisk

-------------------------------------------------------------------------------
(* Types and places *)

\* A step of one thread moves its program counter alone.
LEMMA Moved ==
  ASSUME TypeOK, NEW w \in Writers \cup {Remover}, NEW p, Goto(w, p)
  PROVE  pc'[w] = p /\ \A v \in Writers \cup {Remover} : v # w => pc'[v] = pc[v]
BY DEF TypeOK, Goto

\* The loop, the flush worker, the other threads and the remover are told apart.
LEMMA Names ==
  /\ Loop \in Writers /\ Flusher \in Writers /\ Threads \subseteq Writers
  /\ Loop # Flusher /\ Loop \notin Threads /\ Flusher \notin Threads
  /\ Remover \notin Writers /\ Nobody \notin Writers
  /\ \A w \in Writers : w # Remover /\ (w = Loop \/ w = Flusher \/ w \in Threads)
BY StoreAssumption DEF Writers

\* A writer goes on after its commit at one of three places.
LEMMA AfterPlace == \A w \in Writers : After(w) \in {"idle", "clear", "begin"}
BY DEF After

\* Every step keeps the types; a counter is below its bound when it is raised.
LEMMA TypeStep ==
  ASSUME TypeOK, JobInv, [Next]_vars
  PROVE  TypeOK'
<1> USE StoreAssumption, Names DEF TypeOK, Goto, fixed, file, marks, flags, round, shots, Places
<1>1. ASSUME NEW w \in Writers, Change(w) \/ Again(w) PROVE TypeOK'
  BY <1>1 DEF Change, Again
<1>2. ASSUME NEW w \in Writers, NoteRemoved(w) \/ NoteOnThread(w) PROVE TypeOK'
  BY <1>2 DEF NoteRemoved, NoteOnThread
<1>3. ASSUME NEW w \in Writers, Write(w) PROVE TypeOK'
  BY <1>3 DEF Write
<1>4. ASSUME NEW w \in Writers, SkipCommit(w) \/ CleanUp(w) \/ Publish(w) \/ Raise(w)
      PROVE  TypeOK'
  <2>1. CASE SkipCommit(w)
    BY <2>1, AfterPlace DEF SkipCommit, EndCommit
  <2>2. CASE CleanUp(w)
    BY <2>2, AfterPlace DEF CleanUp, EndCommit
  <2>3. CASE Publish(w)
    <3>1. CASE snapGen[w] > committed
      BY <2>3, <3>1 DEF Publish
    <3>2. CASE ~(snapGen[w] > committed)
      <4>1. EndCommit(w) /\ failed' = FALSE
        BY <2>3, <3>2 DEF Publish
      <4>2. /\ pc' \in [Writers \cup {Remover} -> Places]
            /\ snap' \in [Writers -> 0 .. MaxChanges] /\ snapGen' \in [Writers -> Nat]
        BY <4>1, AfterPlace DEF EndCommit
      <4> QED
        BY <4>1, <4>2, <2>3 DEF Publish
    <3> QED
      BY <3>1, <3>2
  <2>4. CASE Raise(w)
    BY <2>4, AfterPlace DEF Raise, EndCommit
  <2> QED
    BY <1>4, <2>1, <2>2, <2>3, <2>4
<1>5. ASSUME NEW w \in Writers, OpenTmp(w) \/ Replace(w) \/ CommitFails(w) PROVE TypeOK'
  BY <1>5 DEF OpenTmp, Replace, CommitFails
<1>6. CASE NoteOnLoop
  <2>1. gen' \in Nat /\ UNCHANGED <<threaded, crashes, mem, disk, tmp, committed, failed, removed,
                                   executor, pathLock, seen, settled, snap, snapGen>>
    BY <1>6 DEF NoteOnLoop
  <2>2. pc' \in [Writers \cup {Remover} -> Places]
    BY <1>6 DEF NoteOnLoop
  <2>3. dirty' \in BOOLEAN /\ pending' \in BOOLEAN
    BY <1>6 DEF NoteOnLoop
  <2>4. jobs' \in 0 .. 1
    BY <1>6 DEF NoteOnLoop, JobInv
  <2> QED
    BY <2>1, <2>2, <2>3, <2>4
<1>7. CASE Background
  <2>1. CASE StartJob
    BY <2>1 DEF StartJob
  <2>2. CASE BeginRound
    BY <2>2 DEF BeginRound
  <2>3. CASE NothingToWrite
    BY <2>3 DEF NothingToWrite
  <2>4. CASE TakeSnapshot
    BY <2>4 DEF TakeSnapshot
  <2>5. CASE EndJob
    BY <2>5 DEF EndJob
  <2> QED
    BY <1>7, <2>1, <2>2, <2>3, <2>4, <2>5 DEF Background
<1>8. CASE Flush \/ FlushReturns \/ FlushGivesUp \/ LeaveFlush
  BY <1>8 DEF Flush, FlushReturns, FlushGivesUp, LeaveFlush
<1>9. CASE MarkRemoved \/ ClearRemoved \/ Unlink
  <2>1. CASE MarkRemoved
    BY <2>1 DEF MarkRemoved
  <2>2. CASE ClearRemoved
    <3>1. mem' = 0 /\ dirty' = FALSE /\ pending' = FALSE
      BY <2>2 DEF ClearRemoved
    <3>2. pc' \in [Writers \cup {Remover} -> Places]
      BY <2>2 DEF ClearRemoved
    <3>3. UNCHANGED <<threaded, crashes, disk, tmp, gen, committed, failed, removed, executor,
                      jobs, pathLock, seen, settled, snap, snapGen>>
      BY <2>2 DEF ClearRemoved
    <3>4. mem' \in 0 .. MaxChanges
      BY <3>1
    <3>5. dirty' \in BOOLEAN /\ pending' \in BOOLEAN
      BY <3>1
    <3> QED
      BY <3>2, <3>3, <3>4, <3>5
  <2>3. CASE Unlink
    BY <2>3 DEF Unlink
  <2> QED
    BY <1>9, <2>1, <2>2, <2>3
<1>10. CASE Shutdown
  BY <1>10 DEF Shutdown
<1>11. CASE Restart
  <2>1. /\ threaded' \in BOOLEAN /\ mem' \in 0 .. MaxChanges /\ disk' \in 0 .. MaxChanges
        /\ crashes' \in 0 .. MaxCrashes
    BY <1>11 DEF Restart
  <2>2. /\ tmp' \in Writers \cup {Nobody} /\ gen' \in Nat /\ committed' \in Nat \cup {-1}
        /\ jobs' \in 0 .. 1 /\ pathLock' \in Writers \cup {Nobody} /\ seen' \in Nat
    BY <1>11 DEF Restart
  <2>3. /\ failed' \in BOOLEAN /\ dirty' \in BOOLEAN /\ pending' \in BOOLEAN
        /\ removed' \in BOOLEAN /\ executor' \in BOOLEAN /\ settled' \in BOOLEAN
    BY <1>11 DEF Restart
  <2>4. /\ pc' \in [Writers \cup {Remover} -> Places]
        /\ snap' \in [Writers -> 0 .. MaxChanges] /\ snapGen' \in [Writers -> Nat]
    BY <1>11 DEF Restart
  <2> QED
    BY <2>1, <2>2, <2>3, <2>4
<1>12. CASE UNCHANGED vars
  BY <1>12 DEF vars
<1> QED
  BY <1>1, <1>2, <1>3, <1>4, <1>5, <1>6, <1>7, <1>8, <1>9, <1>10, <1>11, <1>12
     DEF Next, Continue

\* Who does a step is where the step begins.
LEMMA PlaceStep ==
  ASSUME TypeOK, PlaceInv, [Next]_vars
  PROVE  PlaceInv'
<1> USE Names, AfterPlace, Moved DEF PlaceInv, Writing
<1>1. ASSUME NEW w \in Writers, Change(w) \/ Again(w) PROVE PlaceInv'
  BY <1>1 DEF Change, Again, MaySet, fixed
<1>2. ASSUME NEW w \in Writers, Continue(w) PROVE PlaceInv'
  BY <1>2 DEF Continue, NoteRemoved, NoteOnThread, Write, SkipCommit, OpenTmp, Replace,
     CommitFails, CleanUp, Publish, Raise, EndCommit, fixed, After
<1>3. CASE NoteOnLoop \/ Background
  BY <1>3 DEF NoteOnLoop, Background, StartJob, BeginRound, NothingToWrite, TakeSnapshot,
     EndJob, fixed
<1>4. CASE Flush \/ FlushReturns \/ FlushGivesUp \/ LeaveFlush
  BY <1>4 DEF Flush, FlushReturns, FlushGivesUp, LeaveFlush, fixed
<1>5. CASE MarkRemoved \/ ClearRemoved \/ Unlink
  BY <1>5 DEF MarkRemoved, ClearRemoved, Unlink, fixed
<1>6. CASE Shutdown \/ Restart \/ UNCHANGED vars
  BY <1>6 DEF Shutdown, Restart, vars, fixed
<1> QED
  BY <1>1, <1>2, <1>3, <1>4, <1>5, <1>6 DEF Next

\* The lock of the path has one holder, which is inside the section.
LEMMA LockStep ==
  ASSUME TypeOK, PlaceInv, LockInv, [Next]_vars
  PROVE  LockInv'
<1> USE Names, AfterPlace, Moved DEF LockInv
<1>1. ASSUME NEW w \in Writers, Change(w) \/ Again(w) PROVE LockInv'
  BY <1>1 DEF Change, Again
<1>2. ASSUME NEW w \in Writers, Continue(w) PROVE LockInv'
  BY <1>2 DEF Continue, NoteRemoved, NoteOnThread, Write, SkipCommit, OpenTmp, Replace,
     CommitFails, CleanUp, Publish, Raise, EndCommit
<1>3. CASE NoteOnLoop \/ Background
  BY <1>3 DEF NoteOnLoop, Background, StartJob, BeginRound, NothingToWrite, TakeSnapshot, EndJob
<1>4. CASE Flush \/ FlushReturns \/ FlushGivesUp \/ LeaveFlush
  BY <1>4 DEF Flush, FlushReturns, FlushGivesUp, LeaveFlush
<1>5. CASE MarkRemoved \/ ClearRemoved \/ Unlink
  BY <1>5 DEF MarkRemoved, ClearRemoved, Unlink
<1>6. CASE Shutdown \/ Restart \/ UNCHANGED vars
  BY <1>6 DEF Shutdown, Restart, vars
<1> QED
  BY <1>1, <1>2, <1>3, <1>4, <1>5, <1>6 DEF Next

\* The remover unlinks under the lock of the path, after it has marked the store as removed.
LEMMA RemoverStep ==
  ASSUME TypeOK, PlaceInv, LockInv, RemoverInv, [Next]_vars
  PROVE  RemoverInv'
<1> USE Names, AfterPlace, Moved DEF RemoverInv, LockInv
<1>1. ASSUME NEW w \in Writers, Change(w) \/ Again(w) PROVE RemoverInv'
  BY <1>1 DEF Change, Again, file
<1>2. ASSUME NEW w \in Writers, Continue(w) PROVE RemoverInv'
  BY <1>2 DEF Continue, NoteRemoved, NoteOnThread, Write, SkipCommit, OpenTmp, Replace,
     CommitFails, CleanUp, Publish, Raise, EndCommit, file
<1>3. CASE NoteOnLoop \/ Background
  BY <1>3 DEF NoteOnLoop, Background, StartJob, BeginRound, NothingToWrite, TakeSnapshot, EndJob,
     file
<1>4. CASE Flush \/ FlushReturns \/ FlushGivesUp \/ LeaveFlush
  BY <1>4 DEF Flush, FlushReturns, FlushGivesUp, LeaveFlush, file
<1>5. CASE MarkRemoved \/ ClearRemoved \/ Unlink
  BY <1>5 DEF MarkRemoved, ClearRemoved, Unlink, file
<1>6. CASE Shutdown \/ Restart \/ UNCHANGED vars
  BY <1>6 DEF Shutdown, Restart, vars, file
<1> QED
  BY <1>1, <1>2, <1>3, <1>4, <1>5, <1>6 DEF Next

\* Every step keeps the flush job, its worker and the pending mark in accord.
LEMMA JobStep ==
  ASSUME TypeOK, PlaceInv, RemoverInv, JobInv, [Next]_vars
  PROVE  JobInv'
<1> USE Names, AfterPlace, Moved DEF JobInv, Writing, flags
<1>1. ASSUME NEW w \in Writers, Change(w) \/ Again(w) PROVE JobInv'
  BY <1>1 DEF Change, Again, MaySet, PlaceInv
<1>2. ASSUME NEW w \in Writers, Continue(w) PROVE JobInv'
  BY <1>2 DEF Continue, NoteRemoved, NoteOnThread, Write, SkipCommit, OpenTmp, Replace,
     CommitFails, CleanUp, Publish, Raise, EndCommit, PlaceInv, After
<1>3. CASE NoteOnLoop
  BY <1>3 DEF NoteOnLoop, TypeOK
<1>4. CASE Background
  BY <1>4 DEF Background, StartJob, BeginRound, NothingToWrite, TakeSnapshot, EndJob, TypeOK
<1>5. CASE Flush \/ FlushReturns \/ FlushGivesUp \/ LeaveFlush
  BY <1>5 DEF Flush, FlushReturns, FlushGivesUp, LeaveFlush
<1>6. CASE MarkRemoved \/ ClearRemoved \/ Unlink
  <2>1. CASE MarkRemoved
    BY <2>1 DEF MarkRemoved, TypeOK
  <2>2. CASE ClearRemoved
    BY <2>2 DEF ClearRemoved, RemoverInv, TypeOK
  <2>3. CASE Unlink
    BY <2>3 DEF Unlink, TypeOK
  <2> QED
    BY <1>6, <2>1, <2>2, <2>3
<1>7. CASE Shutdown \/ Restart \/ UNCHANGED vars
  BY <1>7 DEF Shutdown, Restart, vars
<1> QED
  BY <1>1, <1>2, <1>3, <1>4, <1>5, <1>6, <1>7 DEF Next

-------------------------------------------------------------------------------
(* Versions *)

\* Of a store that only the event loop sets, at most one of the loop and the flusher is
\* inside a commit: the loop writes by itself only when there is no job any more.
LEMMA OneCommitter ==
  ASSUME PlaceInv, JobInv, ~threaded, ~removed, NEW w \in Writers, pc[w] \in Writing
  PROVE  /\ w \in {Loop, Flusher}
         /\ \A v \in {Loop, Flusher} : v # w => pc[v] \notin {"write"} \cup Writing
BY Names DEF PlaceInv, JobInv, Writing

\* Without worker threads the snapshots reach the disk in the order of their generations.
LEMMA OrderStep ==
  ASSUME TypeOK, PlaceInv, RemoverInv, JobInv, OrderInv, [Next]_vars
  PROVE  OrderInv'
<1> USE Names, AfterPlace, Moved DEF OrderInv, Writing, fixed, file, shots
<1> mem \in Nat /\ disk \in Nat /\ \A w \in Writers : snap[w] \in Nat
  BY StoreAssumption DEF TypeOK
<1>1. ASSUME NEW w \in Writers, Change(w) \/ Again(w) PROVE OrderInv'
  BY <1>1 DEF Change, Again, MaySet
<1>2. ASSUME NEW w \in Writers, Continue(w) PROVE OrderInv'
  <2>1. CASE NoteRemoved(w) \/ NoteOnThread(w)
    BY <2>1 DEF NoteRemoved, NoteOnThread
  <2>2. CASE Write(w)
    <3> SUFFICES ASSUME ~threaded, ~removed PROVE OrderInv'
      BY <2>2 DEF Write
    <3>1. w = Loop
      BY <2>2 DEF Write, PlaceInv
    <3>2. snap'[w] = mem /\ \A v \in Writers : v # w => snap'[v] = snap[v]
      BY <2>2 DEF Write, TypeOK
    <3> QED
      BY <2>2, <3>1, <3>2 DEF Write
  <2>3. CASE OpenTmp(w)
    BY <2>3 DEF OpenTmp
  <2>4. CASE Replace(w)
    <3> SUFFICES ASSUME ~threaded, ~removed PROVE OrderInv'
      BY <2>4 DEF Replace
    <3>1. /\ w \in {Loop, Flusher}
          /\ \A v \in {Loop, Flusher} : v # w => pc[v] \notin {"write"} \cup Writing
      BY <2>4, OneCommitter DEF Replace
    <3> QED
      BY <2>4, <3>1 DEF Replace
  <2>5. CASE CommitFails(w)
    <3> SUFFICES ASSUME ~threaded, ~removed PROVE OrderInv'
      BY <2>5 DEF CommitFails
    <3>1. pc[w] \in Writing
      BY <2>5 DEF CommitFails
    <3>2. /\ w \in {Loop, Flusher}
          /\ \A v \in {Loop, Flusher} : v # w => pc[v] \notin {"write"} \cup Writing
      BY <3>1, OneCommitter
    <3> QED
      BY <2>5, <3>2 DEF CommitFails
  <2>6. CASE SkipCommit(w) \/ CleanUp(w) \/ Publish(w) \/ Raise(w)
    <3>1. /\ UNCHANGED <<threaded, removed, mem, disk>>
          /\ pc'[w] \notin {"commit", "replace"}
          /\ pc'[w] \in Writing => pc[w] \in Writing /\ snap'[w] = snap[w]
          /\ \A v \in Writers : v # w => pc'[v] = pc[v] /\ snap'[v] = snap[v]
      BY <2>6 DEF SkipCommit, CleanUp, Publish, Raise, EndCommit, TypeOK
    <3> QED
      BY <3>1
  <2> QED
    BY <1>2, <2>1, <2>2, <2>3, <2>4, <2>5, <2>6 DEF Continue
<1>3. CASE NoteOnLoop
  BY <1>3 DEF NoteOnLoop
<1>4. CASE Background
  <2>1. CASE TakeSnapshot
    <3>1. snap'[Flusher] = mem /\ \A v \in Writers : v # Flusher => snap'[v] = snap[v]
      BY <2>1 DEF TakeSnapshot, TypeOK
    <3> QED
      BY <2>1, <3>1 DEF TakeSnapshot
  <2>2. CASE ~TakeSnapshot
    BY <1>4, <2>2 DEF Background, StartJob, BeginRound, NothingToWrite, EndJob
  <2> QED
    BY <2>1, <2>2
<1>5. CASE Flush \/ FlushReturns \/ FlushGivesUp \/ LeaveFlush
  BY <1>5 DEF Flush, FlushReturns, FlushGivesUp, LeaveFlush
<1>6. CASE MarkRemoved \/ ClearRemoved \/ Unlink
  BY <1>6 DEF MarkRemoved, ClearRemoved, Unlink, RemoverInv
<1>7. CASE Shutdown \/ UNCHANGED vars
  BY <1>7 DEF Shutdown, vars
<1>8. CASE Restart
  <2>1. /\ disk' = disk /\ mem' \in {disk, disk + 1}
        /\ \A w \in Writers : pc'[w] = "idle"
    BY <1>8 DEF Restart
  <2> QED
    BY <2>1
<1> QED
  BY <1>1, <1>2, <1>3, <1>4, <1>5, <1>6, <1>7, <1>8 DEF Next

\* A generation counts as committed only when its snapshot replaced the file.
LEMMA CommitStep ==
  ASSUME TypeOK, PlaceInv, RemoverInv, JobInv, CommitInv, CommittedIsOnDisk, [Next]_vars
  PROVE  CommitInv' /\ CommittedIsOnDisk'
<1> USE Names, AfterPlace, Moved
    DEF CommitInv, CommittedIsOnDisk, Writing, fixed, file, shots, marks
<1> /\ mem \in Nat /\ disk \in Nat /\ gen \in Nat /\ committed \in Int
    /\ \A w \in Writers : snap[w] \in Nat /\ snapGen[w] \in Nat
  BY StoreAssumption DEF TypeOK
<1>1. ASSUME NEW w \in Writers, Change(w) \/ Again(w) PROVE CommitInv' /\ CommittedIsOnDisk'
  BY <1>1 DEF Change, Again, MaySet
<1>2. ASSUME NEW w \in Writers, Continue(w) PROVE CommitInv' /\ CommittedIsOnDisk'
  <2> SUFFICES ASSUME ~threaded, ~removed PROVE CommitInv' /\ CommittedIsOnDisk'
    BY <1>2 DEF Continue, NoteRemoved, NoteOnThread, Write, SkipCommit, OpenTmp, Replace,
       CommitFails, CleanUp, Publish, Raise
  <2>1. CASE NoteRemoved(w) \/ NoteOnThread(w)
    BY <2>1 DEF NoteRemoved, NoteOnThread, PlaceInv
  <2>2. CASE Write(w)
    <3>1. w = Loop
      BY <2>2 DEF Write, PlaceInv
    <3>2. /\ snap'[w] = mem /\ \A v \in Writers : v # w => snap'[v] = snap[v]
          /\ snapGen'[w] = gen /\ \A v \in Writers : v # w => snapGen'[v] = snapGen[v]
      BY <2>2 DEF Write, TypeOK
    <3>3. pc[Flusher] = "idle"
      BY <2>2, <3>1 DEF Write, JobInv
    <3> QED
      BY <2>2, <3>1, <3>2, <3>3 DEF Write
  <2>3. CASE OpenTmp(w)
    BY <2>3 DEF OpenTmp
  <2>4. CASE Replace(w) \/ CommitFails(w)
    <3>1. /\ w \in {Loop, Flusher}
          /\ \A v \in {Loop, Flusher} : v # w => pc[v] \notin {"write"} \cup Writing
      BY <2>4, OneCommitter DEF Replace, CommitFails
    <3>2. CommitInv'
      BY <2>4, <3>1 DEF Replace, CommitFails
    <3>3. CommittedIsOnDisk'
      BY <2>4, <3>1 DEF Replace, CommitFails
    <3> QED
      BY <3>2, <3>3
  <2>5. CASE SkipCommit(w) \/ CleanUp(w) \/ Publish(w)
    <3>1. /\ UNCHANGED <<threaded, removed, mem, disk, gen, committed>>
          /\ pc'[w] \in {"idle", "clear", "begin", "raise"}
          /\ pc'[w] = "raise" =>
               pc[w] = "publish" /\ snap'[w] = snap[w] /\ snapGen'[w] = snapGen[w]
          /\ \A v \in Writers :
               v # w => pc'[v] = pc[v] /\ snap'[v] = snap[v] /\ snapGen'[v] = snapGen[v]
          /\ pc[w] # "changed"
      BY <2>5 DEF SkipCommit, CleanUp, Publish, EndCommit, TypeOK
    <3> QED
      BY <3>1
  <2>6. CASE Raise(w)
    <3>1. /\ w \in {Loop, Flusher}
          /\ \A v \in {Loop, Flusher} : v # w => pc[v] \notin {"write"} \cup Writing
      BY <2>6, OneCommitter DEF Raise
    <3>2. /\ UNCHANGED <<threaded, removed, mem, disk, gen>> /\ committed' = snapGen[w]
          /\ pc'[w] \in {"idle", "clear", "begin"}
          /\ \A v \in Writers : v # w => pc'[v] = pc[v]
          /\ pc[w] = "raise"
      BY <2>6 DEF Raise, EndCommit
    <3> QED
      BY <3>1, <3>2
  <2> QED
    BY <1>2, <2>1, <2>2, <2>3, <2>4, <2>5, <2>6 DEF Continue
<1>3. CASE NoteOnLoop
  BY <1>3 DEF NoteOnLoop
<1>4. CASE Background
  <2>1. CASE TakeSnapshot
    <3>1. /\ snap'[Flusher] = mem /\ \A v \in Writers : v # Flusher => snap'[v] = snap[v]
          /\ snapGen'[Flusher] = gen
          /\ \A v \in Writers : v # Flusher => snapGen'[v] = snapGen[v]
      BY <2>1 DEF TakeSnapshot, TypeOK
    <3> QED
      BY <2>1, <3>1 DEF TakeSnapshot
  <2>2. CASE ~TakeSnapshot
    BY <1>4, <2>2 DEF Background, StartJob, BeginRound, NothingToWrite, EndJob
  <2> QED
    BY <2>1, <2>2
<1>5. CASE Flush \/ FlushReturns \/ FlushGivesUp \/ LeaveFlush
  BY <1>5 DEF Flush, FlushReturns, FlushGivesUp, LeaveFlush
<1>6. CASE MarkRemoved \/ ClearRemoved \/ Unlink
  BY <1>6 DEF MarkRemoved, ClearRemoved, Unlink, RemoverInv
<1>7. CASE Shutdown \/ UNCHANGED vars
  BY <1>7 DEF Shutdown, vars
<1>8. CASE Restart
  <2>1. gen' = 0 /\ committed' = -1 /\ \A w \in Writers : pc'[w] = "idle"
    BY <1>8 DEF Restart
  <2> QED
    BY <2>1
<1> QED
  BY <1>1, <1>2, <1>3, <1>4, <1>5, <1>6, <1>7, <1>8 DEF Next

-------------------------------------------------------------------------------
(* Theorems *)

\* The invariant holds for a store that was just opened.
LEMMA Initially == Init => IInv
<1> SUFFICES ASSUME Init PROVE IInv
  OBVIOUS
<1> USE StoreAssumption, Names DEF Init, Fresh
<1>1. TypeOK
  <2>1. /\ pc \in [Writers \cup {Remover} -> Places] /\ snap \in [Writers -> 0 .. MaxChanges]
        /\ snapGen \in [Writers -> Nat]
    BY DEF Places
  <2>2. mem \in 0 .. MaxChanges /\ disk \in 0 .. MaxChanges /\ crashes \in 0 .. MaxCrashes
    OBVIOUS
  <2>3. /\ failed \in BOOLEAN /\ dirty \in BOOLEAN /\ pending \in BOOLEAN
        /\ removed \in BOOLEAN /\ executor \in BOOLEAN /\ settled \in BOOLEAN
    OBVIOUS
  <2>4. gen \in Nat /\ committed \in Nat \cup {-1} /\ jobs \in 0 .. 1 /\ seen \in Nat
    OBVIOUS
  <2> QED
    BY <2>1, <2>2, <2>3, <2>4 DEF TypeOK
<1>2. PlaceInv /\ LockInv /\ RemoverInv /\ JobInv
  BY DEF PlaceInv, LockInv, RemoverInv, JobInv, Writing
<1>3. OrderInv /\ CommitInv /\ CommittedIsOnDisk
  BY DEF OrderInv, CommitInv, CommittedIsOnDisk, Writing
<1> QED
  BY <1>1, <1>2, <1>3 DEF IInv

\* Every step keeps the invariant.
LEMMA Step == IInv /\ [Next]_vars => IInv'
BY TypeStep, PlaceStep, LockStep, RemoverStep, JobStep, OrderStep, CommitStep DEF IInv

\* The invariant the other theorems follow from.
THEOREM Invariance == Spec => []IInv
BY Initially, Step, PTL DEF Spec

\* Types: in particular there is never a second job for a store (_note_changed).
THEOREM TypeCorrect == Spec => []TypeOK
<1>1. IInv => TypeOK
  BY DEF IInv
<1> QED
  BY Invariance, <1>1, PTL

\* Whatever fails, retries or shuts down, a store that believes that its last generation
\* is committed has its data in the file (_commit, _flush_background, _note_changed).
THEOREM CommitIsReal == Spec => []CommittedIsOnDisk
<1>1. IInv => CommittedIsOnDisk
  BY DEF IInv
<1> QED
  BY Invariance, <1>1, PTL

\* However many threads are inside a commit when remove deletes the file, none of them
\* brings it back (_commit looks at _removed again under the lock of the path).
THEOREM RemovedStaysRemoved == Spec => []NeverResurrected
<1>1. IInv => NeverResurrected
  BY DEF IInv, RemoverInv, NeverResurrected
<1> QED
  BY Invariance, <1>1, PTL

\* A commit replaces the file with a version that is not older.
LEMMA ForwardStep == IInv /\ [Next]_vars => (~threaded /\ ~removed => disk' >= disk)
<1> SUFFICES ASSUME IInv, [Next]_vars, ~threaded, ~removed PROVE disk' >= disk
  OBVIOUS
<1> USE Names DEF file
<1>0. disk \in Nat /\ \A w \in Writers : snap[w] \in Nat
  BY StoreAssumption DEF IInv, TypeOK
<1>1. ASSUME NEW w \in Writers, Replace(w) \/ CommitFails(w) PROVE disk' >= disk
  <2>1. w \in {Loop, Flusher}
    BY <1>1, OneCommitter DEF IInv, Replace, CommitFails, Writing
  <2>2. disk <= snap[w]
    BY <1>1, <2>1 DEF IInv, OrderInv, Replace, CommitFails
  <2> QED
    BY <1>0, <1>1, <2>2 DEF Replace, CommitFails, file
<1>2. CASE Unlink
  BY <1>2 DEF Unlink, IInv, RemoverInv
<1>3. CASE ~Unlink /\ ~ \E w \in Writers : Replace(w) \/ CommitFails(w)
  <2>1. disk' = disk
    BY <1>3 DEF Next, vars, Change, Again, Continue, NoteRemoved, NoteOnThread, Write, SkipCommit,
       OpenTmp, CommitFails, CleanUp, Publish, Raise, NoteOnLoop, Background, StartJob,
       BeginRound, NothingToWrite, TakeSnapshot, EndJob, Flush, FlushReturns, FlushGivesUp,
       LeaveFlush, MarkRemoved, ClearRemoved, Shutdown, Restart
  <2> QED
    BY <1>0, <2>1
<1> QED
  BY <1>1, <1>2, <1>3

\* The file of a store that only the event loop sets never goes back to an older content,
\* whichever of the loop and the background worker writes it, over any number of crashes.
THEOREM NeverBackwards == Spec => DiskMovesForward
BY Invariance, ForwardStep, PTL DEF Spec, DiskMovesForward
===============================================================================
