--------------------------- MODULE WorkspaceProofs ---------------------------
(***************************************************************************)
(* Theorems about what serves one workspace: the queue of TaskQueue, for   *)
(* every number of tasks and every bound, and the lock of WorkspaceLock,   *)
(* for every number of callers and process ids.                            *)
(*                                                                         *)
(* The queue: most steps are quiet, they give no task a place in it and do *)
(* not move the pass along its list. The first part says so and what a     *)
(* write to a record does; the second shows that QueueInv is inductive;    *)
(* then come the properties and the implementation of FifoQueue. The lock  *)
(* follows, with LockInv and what it implies.                              *)
(***************************************************************************)
EXTENDS TaskQueue, WorkspaceLock, FiniteSetTheorems, TLAPS

(***************************************************************************)
(* A step that at most changes statuses (never to queued) and deletes, and *)
(* leaves the pass alone or ends it.                                       *)
(***************************************************************************)
SamePlaces ==
  \A u \in Tasks :
    /\ tasks'[u].queue = tasks[u].queue
    /\ tasks'[u].at = tasks[u].at
    /\ tasks'[u].status = "queued" => tasks[u].status = "queued"
    /\ tasks[u].deleted => tasks'[u].deleted

Quiet ==
  /\ SamePlaces
  /\ \/ UNCHANGED passVars
     \/ phase' \in {"idle", "started"} /\ seen' \in {seen, NoRecords}

(***************************************************************************)
(* Writing one record.                                                     *)
(***************************************************************************)
\* A valid record written over another leaves the table well typed, and only it
\* changes.
LEMMA RecordWritten ==
  ASSUME TypeOK, NEW t \in Tasks, NEW r \in Task, Valid(r),
         tasks' = [tasks EXCEPT ![t] = r]
  PROVE  /\ tasks' \in [Tasks -> Task]
         /\ \A u \in Tasks : Valid(tasks'[u])
         /\ \A u \in Tasks : tasks'[u] = IF u = t THEN r ELSE tasks[u]
BY DEF TypeOK

\* UpdateTaskStatus, which never writes queued, moves no task in the queue.
LEMMA StatusWritten ==
  ASSUME TypeOK, NEW t \in Tasks, NEW status \in Statuses \ {"queued"},
         tasks' = WithStatus(t, status)
  PROVE  /\ tasks' \in [Tasks -> Task]
         /\ \A u \in Tasks : Valid(tasks'[u])
         /\ SamePlaces
<1> DEFINE r == [tasks[t] EXCEPT !.status = status]
<1>1. /\ r \in Task /\ Valid(r)
      /\ r.status = status /\ r.queue = tasks[t].queue
      /\ r.at = tasks[t].at /\ r.deleted = tasks[t].deleted
  BY DEF TypeOK, Task, Valid
<1>2. tasks' = [tasks EXCEPT ![t] = r]
  BY DEF WithStatus
<1> HIDE DEF r
<1>3. /\ tasks' \in [Tasks -> Task]
      /\ \A u \in Tasks : Valid(tasks'[u])
      /\ \A u \in Tasks : tasks'[u] = IF u = t THEN r ELSE tasks[u]
  BY <1>1, <1>2, RecordWritten
<1>4. SamePlaces
  <2> SUFFICES ASSUME NEW u \in Tasks
               PROVE  /\ tasks'[u].queue = tasks[u].queue
                      /\ tasks'[u].at = tasks[u].at
                      /\ tasks'[u].status = "queued" => tasks[u].status = "queued"
                      /\ tasks[u].deleted => tasks'[u].deleted
    BY DEF SamePlaces
  <2>1. CASE u = t
    BY <1>1, <1>3, <2>1
  <2>2. CASE u # t
    BY <1>3, <2>2
  <2> QED
    BY <2>1, <2>2
<1> QED
  BY <1>3, <1>4

\* Deleting moves no task in the queue either.
LEMMA DeleteWrites ==
  ASSUME TypeOK, NEW t \in Tasks, DeleteTask(t)
  PROVE  /\ tasks' \in [Tasks -> Task]
         /\ \A u \in Tasks : Valid(tasks'[u])
         /\ SamePlaces
<1> DEFINE r == [tasks[t] EXCEPT !.deleted = TRUE]
<1>1. r \in Task /\ Valid(r)
  BY DEF TypeOK, Task, Valid
<1>2. tasks' = [tasks EXCEPT ![t] = r]
  BY DEF DeleteTask
<1> HIDE DEF r
<1>3. tasks' \in [Tasks -> Task] /\ \A u \in Tasks : Valid(tasks'[u])
  BY <1>1, <1>2, RecordWritten
<1>4. SamePlaces
  BY DEF DeleteTask, SamePlaces, TypeOK, Task
<1> QED
  BY <1>3, <1>4

\* A released record is the listed one, superseded, on disk and on the list.
LEMMA ReleaseWrites ==
  ASSUME TypeOK, HeadInv, NEW t \in Tasks, Release(t)
  PROVE  LET r == [seen[t] EXCEPT !.queue = "superseded"]
         IN  /\ tasks' \in [Tasks -> Task]
             /\ \A u \in Tasks : Valid(tasks'[u])
             /\ \A u \in Tasks : tasks'[u] = IF u = t THEN r ELSE tasks[u]
             /\ DOMAIN seen' = DOMAIN seen /\ seen' \in [DOMAIN seen -> Task]
             /\ \A u \in DOMAIN seen : seen'[u] = IF u = t THEN r ELSE seen[u]
             /\ r.status = seen[t].status /\ r.queue = "superseded"
             /\ r.at = seen[t].at /\ r.deleted = seen[t].deleted
<1> DEFINE r == [seen[t] EXCEPT !.queue = "superseded"]
<1>1. t \in DOMAIN seen /\ seen[t] \in Task /\ Finished(seen[t])
  BY DEF TypeOK, Release, Releasable
<1>2. /\ r \in Task /\ Valid(r)
      /\ r.status = seen[t].status /\ r.queue = "superseded"
      /\ r.at = seen[t].at /\ r.deleted = seen[t].deleted
  BY <1>1 DEF Finished, Task, Valid, QueueStates
<1>3. seen' = [seen EXCEPT ![t] = r]
  BY DEF Release
<1>4. tasks' = [tasks EXCEPT ![t] = r]
  BY <1>1, <1>3 DEF Release
<1> HIDE DEF r
<1>5. /\ tasks' \in [Tasks -> Task]
      /\ \A u \in Tasks : Valid(tasks'[u])
      /\ \A u \in Tasks : tasks'[u] = IF u = t THEN r ELSE tasks[u]
  BY <1>2, <1>4, RecordWritten
<1>6. /\ DOMAIN seen' = DOMAIN seen /\ seen' \in [DOMAIN seen -> Task]
      /\ \A u \in DOMAIN seen : seen'[u] = IF u = t THEN r ELSE seen[u]
  BY <1>2, <1>3 DEF TypeOK
<1> QED
  BY <1>2, <1>5, <1>6 DEF r

\* The chosen task is ready and the active head.
LEMMA ChooseHeadWrites ==
  ASSUME TypeOK, NEW t \in Tasks, ChooseHead(t)
  PROVE  LET r == [seen[t] EXCEPT !.status = "ready", !.queue = "active"]
         IN  /\ tasks' \in [Tasks -> Task]
             /\ \A u \in Tasks : Valid(tasks'[u])
             /\ \A u \in Tasks : tasks'[u] = IF u = t THEN r ELSE tasks[u]
             /\ r.status = "ready" /\ r.queue = "active"
             /\ r.at = seen[t].at /\ r.deleted = seen[t].deleted
<1> DEFINE r == [seen[t] EXCEPT !.status = "ready", !.queue = "active"]
<1>1. t \in DOMAIN seen /\ seen[t] \in Task
  BY DEF TypeOK, ChooseHead, First, Candidates
<1>2. /\ r \in Task /\ Valid(r)
      /\ r.status = "ready" /\ r.queue = "active"
      /\ r.at = seen[t].at /\ r.deleted = seen[t].deleted
  BY <1>1 DEF Task, Valid, QueueStates, Statuses
<1>3. tasks' = [tasks EXCEPT ![t] = r]
  BY DEF ChooseHead
<1> HIDE DEF r
<1>4. /\ tasks' \in [Tasks -> Task]
      /\ \A u \in Tasks : Valid(tasks'[u])
      /\ \A u \in Tasks : tasks'[u] = IF u = t THEN r ELSE tasks[u]
  BY <1>2, <1>3, RecordWritten
<1> QED
  BY <1>2, <1>4 DEF r

\* The head that could not be started is paused and stays the active head.
LEMMA StartHeadFailsWrites ==
  ASSUME TypeOK, HeadInv, StartHeadFails
  PROVE  LET r == [seen[chosen] EXCEPT !.status = "paused", !.queue = "active"]
         IN  /\ chosen \in Tasks
             /\ tasks' \in [Tasks -> Task]
             /\ \A u \in Tasks : Valid(tasks'[u])
             /\ \A u \in Tasks : tasks'[u] = IF u = chosen THEN r ELSE tasks[u]
             /\ r.status = "paused" /\ r.queue = "active"
             /\ r.at = seen[chosen].at /\ r.deleted = seen[chosen].deleted
<1> DEFINE r == [seen[chosen] EXCEPT !.status = "paused", !.queue = "active"]
<1>1. chosen \in DOMAIN seen /\ chosen \in Tasks /\ seen[chosen] \in Task
  BY DEF TypeOK, HeadInv, StartHeadFails
<1>2. /\ r \in Task /\ Valid(r)
      /\ r.status = "paused" /\ r.queue = "active"
      /\ r.at = seen[chosen].at /\ r.deleted = seen[chosen].deleted
  BY <1>1 DEF Task, Valid, QueueStates, Statuses
<1>3. tasks' = [tasks EXCEPT ![chosen] = r]
  BY DEF StartHeadFails
<1> HIDE DEF r
<1>4. /\ tasks' \in [Tasks -> Task]
      /\ \A u \in Tasks : Valid(tasks'[u])
      /\ \A u \in Tasks : tasks'[u] = IF u = chosen THEN r ELSE tasks[u]
  BY <1>1, <1>2, <1>3, RecordWritten
<1> QED
  BY <1>1, <1>2, <1>4 DEF r

(***************************************************************************)
(* The number of places given.                                             *)
(***************************************************************************)
\* Finitely many tasks were enqueued.
LEMMA PlacedIsFinite == IsFiniteSet(Placed) /\ Cardinality(Placed) \in Nat
<1>1. Placed \subseteq Tasks
  BY DEF Placed
<1> QED
  BY <1>1, QueueAssumption, FS_Subset, FS_CardinalityType

\* Only a task's first place in the queue adds to Placed.
LEMMA PlacesKept ==
  ASSUME \A u \in Tasks : tasks'[u].queue # "none" <=> tasks[u].queue # "none"
  PROVE  Placed' = Placed
BY DEF Placed

\* What EnqueueTask writes is a valid record, behind every other.
LEMMA EnqueuedRecord ==
  ASSUME TypeOK, NEW t \in Tasks
  PROVE  /\ Enqueued(t) \in Task /\ Valid(Enqueued(t))
         /\ Enqueued(t).status = "queued" /\ Enqueued(t).queue = "waiting"
         /\ Enqueued(t).at = 1 + Cardinality(Placed)
<1>1. LastPlace \in Nat /\ LastPlace = 1 + Cardinality(Placed)
  BY PlacedIsFinite DEF LastPlace
<1>2. tasks[t] \in Task
  BY DEF TypeOK
<1> QED
  BY <1>1, <1>2 DEF Enqueued, Task, Valid, Statuses, QueueStates

(***************************************************************************)
(* Most steps are quiet.                                                   *)
(***************************************************************************)
\* A step is quiet unless it enqueues a task or the pass lists, releases,
\* chooses, or writes back the head it failed to start.
LEMMA QuietSteps ==
  ASSUME QueueInv, [Next]_vars
  PROVE  \/ Quiet
         \/ \E t \in Tasks : EnqueueTask(t) \/ Release(t) \/ ChooseHead(t)
         \/ StartPass \/ StartHeadFails
<1> USE DEF QueueInv
<1>1. ASSUME NEW t \in Tasks, StartRun(t) PROVE Quiet
  BY <1>1 DEF StartRun, Quiet, SamePlaces, passVars, diskVars
<1>2. ASSUME NEW t \in Tasks, ResumeRun(t) PROVE Quiet
  BY <1>2 DEF ResumeRun, Quiet, SamePlaces, passVars, diskVars
<1>3. ASSUME NEW t \in Tasks, CancelRun(t) PROVE Quiet
  BY <1>3 DEF CancelRun, Quiet, SamePlaces, passVars, diskVars
<1>4. ASSUME NEW t \in Tasks, CheckDelete(t) PROVE Quiet
  BY <1>4 DEF CheckDelete, Quiet, SamePlaces, passVars, diskVars
<1>5. ASSUME NEW t \in Tasks, MarkRunning(t) PROVE Quiet
  BY <1>5, StatusWritten DEF MarkRunning, Quiet, passVars, Statuses
<1>6. ASSUME NEW t \in Tasks, MarkTask(t) PROVE Quiet
  BY <1>6, StatusWritten DEF MarkTask, Quiet, passVars, Statuses, RunInv
<1>7. ASSUME NEW t \in Tasks, SkipTask(t) PROVE Quiet
  BY <1>7 DEF SkipTask, Quiet, SamePlaces, passVars, diskVars
<1>8. ASSUME NEW t \in Tasks, Undispatch(t) PROVE Quiet
  BY <1>8 DEF Undispatch, Quiet, SamePlaces, passVars, diskVars
<1>9. ASSUME NEW t \in Tasks, EnterRun(t) PROVE Quiet
  BY <1>9 DEF EnterRun, Quiet, SamePlaces, passVars, diskVars
<1>10. ASSUME NEW t \in Tasks, ResumeFails(t) PROVE Quiet
  BY <1>10 DEF ResumeFails, Quiet, SamePlaces, passVars, diskVars
<1>11. ASSUME NEW t \in Tasks, Settle(t) PROVE Quiet
  BY <1>11 DEF Settle, Quiet, SamePlaces, passVars, diskVars
<1>12. ASSUME NEW t \in Tasks, Abandon(t) PROVE Quiet
  BY <1>12 DEF Abandon, Quiet, SamePlaces, passVars, diskVars
<1>13. ASSUME NEW t \in Tasks, MarkCancelled(t) PROVE Quiet
  BY <1>13, StatusWritten DEF MarkCancelled, Quiet, passVars, Statuses
<1>14. ASSUME NEW t \in Tasks, DeleteTask(t) PROVE Quiet
  BY <1>14, DeleteWrites DEF DeleteTask, Quiet, passVars
<1>15. CASE LeaveQueue
  BY <1>15 DEF LeaveQueue, Quiet, SamePlaces, passVars, diskVars, PassEnds
<1>16. CASE StartHead
  BY <1>16 DEF StartHead, Quiet, SamePlaces, passVars, diskVars
<1>17. CASE HeadStarted
  BY <1>17 DEF HeadStarted, Quiet, SamePlaces, passVars, diskVars, PassEnds
<1>18. CASE Crash
  BY <1>18 DEF Crash, Quiet, SamePlaces, passVars, diskVars
<1>19. CASE Recovered
  BY <1>19 DEF Recovered, Quiet, SamePlaces, passVars, diskVars
<1>20. ASSUME NEW t \in Tasks, RecoverRun(t) PROVE Quiet
  BY <1>20 DEF RecoverRun, Quiet, SamePlaces, passVars, diskVars
<1>21. ASSUME NEW t \in Tasks, MarkRecovered(t) PROVE Quiet
  BY <1>21, StatusWritten DEF MarkRecovered, Quiet, passVars, Statuses
<1>22. CASE UNCHANGED vars
  BY <1>22 DEF vars, Quiet, SamePlaces, passVars, diskVars
<1> QED
  BY <1>1, <1>2, <1>3, <1>4, <1>5, <1>6, <1>7, <1>8, <1>9, <1>10, <1>11, <1>12, <1>13,
     <1>14, <1>15, <1>16, <1>17, <1>18, <1>19, <1>20, <1>21, <1>22
     DEF Next, User, Drive, Agent, Call, Pass, Recovery

(***************************************************************************)
(* The invariant of types, runs, the head and the line is inductive.       *)
(***************************************************************************)
\* A step keeps the type of every variable.
LEMMA TypeStep ==
  ASSUME QueueInv, [Next]_vars
  PROVE  TypeOK'
<1> USE QueueAssumption
    DEF QueueInv, TypeOK, Task, Valid, OneMore, Event, Statuses, QueueStates, RunStatuses,
        Drives, Phases, FreshTask, NoRecords, RunInv, HeadInv
<1>1. ASSUME NEW t \in Tasks, StartRun(t) PROVE TypeOK'
  BY <1>1 DEF StartRun, diskVars, callVars, passVars
<1>2. ASSUME NEW t \in Tasks, EnqueueTask(t) PROVE TypeOK'
  BY <1>2, EnqueuedRecord, RecordWritten DEF EnqueueTask, callVars, passVars
<1>3. ASSUME NEW t \in Tasks, ResumeRun(t) PROVE TypeOK'
  BY <1>3 DEF ResumeRun, diskVars, callVars, passVars
<1>4. ASSUME NEW t \in Tasks, CancelRun(t) PROVE TypeOK'
  BY <1>4 DEF CancelRun, diskVars, callVars, passVars
<1>5. ASSUME NEW t \in Tasks, CheckDelete(t) PROVE TypeOK'
  BY <1>5 DEF CheckDelete, diskVars, callVars, passVars
<1>6. ASSUME NEW t \in Tasks, MarkRunning(t) PROVE TypeOK'
  BY <1>6, StatusWritten DEF MarkRunning, callVars, passVars
<1>7. ASSUME NEW t \in Tasks, MarkTask(t) PROVE TypeOK'
  BY <1>7, StatusWritten DEF MarkTask, callVars, passVars
<1>8. ASSUME NEW t \in Tasks, SkipTask(t) PROVE TypeOK'
  BY <1>8 DEF SkipTask, diskVars, callVars, passVars
<1>9. ASSUME NEW t \in Tasks, Undispatch(t) PROVE TypeOK'
  BY <1>9 DEF Undispatch, diskVars, callVars, passVars
<1>10. ASSUME NEW t \in Tasks, EnterRun(t) PROVE TypeOK'
  BY <1>10 DEF EnterRun, diskVars, callVars, passVars
<1>11. ASSUME NEW t \in Tasks, ResumeFails(t) PROVE TypeOK'
  BY <1>11 DEF ResumeFails, diskVars, callVars, passVars
<1>12. ASSUME NEW t \in Tasks, Settle(t) PROVE TypeOK'
  BY <1>12 DEF Settle, diskVars, callVars, passVars
<1>13. ASSUME NEW t \in Tasks, Abandon(t) PROVE TypeOK'
  BY <1>13 DEF Abandon, diskVars, callVars, passVars
<1>14. ASSUME NEW t \in Tasks, MarkCancelled(t) PROVE TypeOK'
  BY <1>14, StatusWritten DEF MarkCancelled, callVars, passVars
<1>15. ASSUME NEW t \in Tasks, DeleteTask(t) PROVE TypeOK'
  <2>1. tasks' \in [Tasks -> Task] /\ \A u \in Tasks : Valid(tasks'[u])
    BY <1>15, DeleteWrites
  <2> QED
    BY <1>15, <2>1 DEF DeleteTask, callVars, passVars
<1>16. CASE StartPass
  BY <1>16 DEF StartPass, diskVars, callVars, passVars
<1>17. CASE LeaveQueue
  BY <1>17 DEF LeaveQueue, diskVars, callVars, passVars, PassEnds
<1>18. CASE StartHead
  BY <1>18 DEF StartHead, diskVars, callVars, passVars
<1>19. CASE StartHeadFails
  <2>1. tasks' \in [Tasks -> Task] /\ \A u \in Tasks : Valid(tasks'[u])
    BY <1>19, StartHeadFailsWrites
  <2> QED
    BY <1>19, <2>1 DEF StartHeadFails, PassEnds, callVars
<1>20. CASE HeadStarted
  BY <1>20 DEF HeadStarted, diskVars, callVars, passVars, PassEnds
<1>21. ASSUME NEW t \in Tasks, Release(t) PROVE TypeOK'
  <2>1. DOMAIN seen' \subseteq Tasks /\ seen' \in [DOMAIN seen' -> Task]
    BY <1>21, ReleaseWrites DEF Release
  <2>2. tasks' \in [Tasks -> Task] /\ \A u \in Tasks : Valid(tasks'[u])
    BY <1>21, ReleaseWrites
  <2> QED
    BY <1>21, <2>1, <2>2 DEF Release, callVars
<1>22. ASSUME NEW t \in Tasks, ChooseHead(t) PROVE TypeOK'
  <2>1. tasks' \in [Tasks -> Task] /\ \A u \in Tasks : Valid(tasks'[u])
    BY <1>22, ChooseHeadWrites
  <2> QED
    BY <1>22, <2>1 DEF ChooseHead, First, Candidates, callVars
<1>23. CASE Crash
  BY <1>23 DEF Crash, diskVars, callVars, passVars
<1>24. CASE Recovered
  BY <1>24 DEF Recovered, diskVars, callVars, passVars
<1>25. ASSUME NEW t \in Tasks, RecoverRun(t) PROVE TypeOK'
  BY <1>25 DEF RecoverRun, diskVars, callVars, passVars
<1>26. ASSUME NEW t \in Tasks, MarkRecovered(t) PROVE TypeOK'
  BY <1>26, StatusWritten DEF MarkRecovered, callVars, passVars
<1>27. CASE UNCHANGED vars
  BY <1>27 DEF vars, diskVars, callVars, passVars
<1> QED
  BY <1>1, <1>2, <1>3, <1>4, <1>5, <1>6, <1>7, <1>8, <1>9, <1>10, <1>11, <1>12, <1>13,
     <1>14, <1>15, <1>16, <1>17, <1>18, <1>19, <1>20, <1>21, <1>22, <1>23, <1>24, <1>25,
     <1>26, <1>27
     DEF Next, User, Drive, Agent, Call, Pass, Recovery

\* A goroutine exists only for a started run, and a task that waits has none.
LEMMA RunStep ==
  ASSUME QueueInv, [Next]_vars
  PROVE  RunInv'
<1> USE DEF QueueInv, TypeOK, Drives, RunStatuses, Statuses, Candidate, RunInv
<1>1. ASSUME NEW t \in Tasks, StartRun(t) PROVE RunInv'
  BY <1>1 DEF StartRun, diskVars
<1>2. ASSUME NEW t \in Tasks, EnqueueTask(t) PROVE RunInv'
  BY <1>2 DEF EnqueueTask
<1>3. ASSUME NEW t \in Tasks, ResumeRun(t) PROVE RunInv'
  BY <1>3 DEF ResumeRun, diskVars
<1>4. ASSUME NEW t \in Tasks, CancelRun(t) PROVE RunInv'
  BY <1>4 DEF CancelRun, diskVars
<1>5. ASSUME NEW t \in Tasks, CheckDelete(t) PROVE RunInv'
  BY <1>5 DEF CheckDelete, diskVars
<1>6. ASSUME NEW t \in Tasks, MarkRunning(t) PROVE RunInv'
  BY <1>6, StatusWritten DEF MarkRunning, SamePlaces
<1>7. ASSUME NEW t \in Tasks, MarkTask(t) PROVE RunInv'
  BY <1>7, StatusWritten DEF MarkTask, SamePlaces
<1>8. ASSUME NEW t \in Tasks, SkipTask(t) PROVE RunInv'
  BY <1>8 DEF SkipTask, diskVars
<1>9. ASSUME NEW t \in Tasks, Undispatch(t) PROVE RunInv'
  BY <1>9 DEF Undispatch, diskVars
<1>10. ASSUME NEW t \in Tasks, EnterRun(t) PROVE RunInv'
  BY <1>10 DEF EnterRun, diskVars
<1>11. ASSUME NEW t \in Tasks, ResumeFails(t) PROVE RunInv'
  BY <1>11 DEF ResumeFails, diskVars
<1>12. ASSUME NEW t \in Tasks, Settle(t) PROVE RunInv'
  BY <1>12 DEF Settle, diskVars
<1>13. ASSUME NEW t \in Tasks, Abandon(t) PROVE RunInv'
  BY <1>13 DEF Abandon, diskVars
<1>14. ASSUME NEW t \in Tasks, MarkCancelled(t) PROVE RunInv'
  BY <1>14, StatusWritten DEF MarkCancelled, SamePlaces
<1>15. ASSUME NEW t \in Tasks, DeleteTask(t) PROVE RunInv'
  BY <1>15, DeleteWrites DEF DeleteTask, SamePlaces
<1>16. CASE StartPass
  BY <1>16 DEF StartPass, diskVars
<1>17. CASE LeaveQueue
  BY <1>17 DEF LeaveQueue, diskVars, PassEnds
<1>18. CASE StartHead
  BY <1>18 DEF StartHead, HeadInv
<1>19. CASE StartHeadFails
  BY <1>19, StartHeadFailsWrites DEF StartHeadFails, PassEnds
<1>20. CASE HeadStarted
  BY <1>20 DEF HeadStarted, diskVars, PassEnds
<1>21. ASSUME NEW t \in Tasks, Release(t) PROVE RunInv'
  BY <1>21, ReleaseWrites DEF Release
<1>22. ASSUME NEW t \in Tasks, ChooseHead(t) PROVE RunInv'
  BY <1>22, ChooseHeadWrites DEF ChooseHead
<1>23. CASE Crash
  BY <1>23 DEF Crash, diskVars
<1>24. CASE Recovered
  BY <1>24 DEF Recovered, diskVars
<1>25. ASSUME NEW t \in Tasks, RecoverRun(t) PROVE RunInv'
  BY <1>25 DEF RecoverRun, diskVars
<1>26. ASSUME NEW t \in Tasks, MarkRecovered(t) PROVE RunInv'
  BY <1>26, StatusWritten DEF MarkRecovered, SamePlaces
<1>27. CASE UNCHANGED vars
  BY <1>27 DEF vars, diskVars
<1> QED
  BY <1>1, <1>2, <1>3, <1>4, <1>5, <1>6, <1>7, <1>8, <1>9, <1>10, <1>11, <1>12, <1>13,
     <1>14, <1>15, <1>16, <1>17, <1>18, <1>19, <1>20, <1>21, <1>22, <1>23, <1>24, <1>25,
     <1>26, <1>27
     DEF Next, User, Drive, Agent, Call, Pass, Recovery

\* One task at most is the head, and a pass that moves on has seen it.
LEMMA HeadStep ==
  ASSUME QueueInv, [Next]_vars
  PROVE  HeadInv'
<1> USE DEF QueueInv
<1>1. CASE Quiet
  BY <1>1 DEF Quiet, SamePlaces, TypeOK, HeadInv, IsHead, passVars, NoRecords
<1>2. ASSUME NEW t \in Tasks, EnqueueTask(t) PROVE HeadInv'
  <2>1. \A u \in Tasks : tasks'[u] = IF u = t THEN Enqueued(t) ELSE tasks[u]
    BY <1>2 DEF EnqueueTask, TypeOK
  <2>2. tasks[t].queue = "none"
    BY <1>2 DEF EnqueueTask, FreshTask
  <2> QED
    BY <1>2, <2>1, <2>2, EnqueuedRecord DEF EnqueueTask, HeadInv, IsHead, passVars, TypeOK
<1>3. ASSUME NEW t \in Tasks, Release(t) PROVE HeadInv'
  <2> DEFINE r == [seen[t] EXCEPT !.queue = "superseded"]
  <2>1. /\ \A u \in Tasks : tasks'[u] = IF u = t THEN r ELSE tasks[u]
        /\ DOMAIN seen' = DOMAIN seen
        /\ \A u \in DOMAIN seen : seen'[u] = IF u = t THEN r ELSE seen[u]
        /\ r.queue = "superseded"
    BY <1>3, ReleaseWrites
  <2>2. phase' = "releasing" /\ phase = "releasing"
    BY <1>3 DEF Release
  <2> HIDE DEF r
  <2> QED
    BY <2>1, <2>2 DEF HeadInv, IsHead
<1>4. ASSUME NEW t \in Tasks, ChooseHead(t) PROVE HeadInv'
  <2>1. \A u \in Tasks : ~IsHead(u)
    <3> SUFFICES ASSUME NEW u \in Tasks, IsHead(u) PROVE FALSE
      OBVIOUS
    <3>1. u \in DOMAIN seen /\ seen[u].queue = "active" /\ seen[u].status # "queued"
      BY <1>4 DEF ChooseHead, AllReleased, HeadInv
    <3>2. seen[u].status \in Statuses
      BY <3>1 DEF TypeOK, Task
    <3>3. ~Holds(seen[u]) /\ ~Releasable(seen[u])
      BY <1>4, <3>1 DEF ChooseHead, AllReleased, Busy
    <3> QED
      BY <3>1, <3>2, <3>3 DEF Holds, Releasable, Finished, Statuses
  <2> DEFINE r == [seen[t] EXCEPT !.status = "ready", !.queue = "active"]
  <2>2. /\ \A u \in Tasks : tasks'[u] = IF u = t THEN r ELSE tasks[u]
        /\ r.status = "ready" /\ r.queue = "active"
    BY <1>4, ChooseHeadWrites
  <2>3. /\ t \in DOMAIN seen /\ Candidate(seen[t])
        /\ seen' = seen /\ chosen' = t /\ phase' = "starting"
    BY <1>4 DEF ChooseHead, First, Candidates
  <2> HIDE DEF r
  <2> QED
    BY <2>1, <2>2, <2>3 DEF HeadInv, IsHead
<1>5. CASE StartPass
  <2>1. /\ DOMAIN seen' \subseteq Tasks
        /\ \A u \in Tasks : ~tasks[u].deleted => u \in DOMAIN seen'
        /\ \A u \in DOMAIN seen' : seen'[u] = tasks[u]
    BY <1>5 DEF StartPass
  <2> QED
    BY <1>5, <2>1 DEF StartPass, HeadInv, IsHead, diskVars
<1>6. CASE StartHeadFails
  BY <1>6, StartHeadFailsWrites DEF StartHeadFails, PassEnds, NoRecords, HeadInv, IsHead
<1> QED
  BY <1>1, <1>2, <1>3, <1>4, <1>5, <1>6, QuietSteps

\* Places are given in order and kept; a task that waits is on the list of the
\* pass or behind it.
LEMMA LineStep ==
  ASSUME QueueInv, [Next]_vars
  PROVE  LineInv'
<1> USE DEF QueueInv
<1>1. CASE Quiet
  <2>1. Placed' = Placed
    BY <1>1, PlacesKept DEF Quiet, SamePlaces
  <2> QED
    BY <1>1, <2>1
       DEF Quiet, SamePlaces, TypeOK, LineInv, Waiting, Candidate, passVars, NoRecords
<1>2. ASSUME NEW t \in Tasks, EnqueueTask(t) PROVE LineInv'
  <2>1. \A u \in Tasks : tasks'[u] = IF u = t THEN Enqueued(t) ELSE tasks[u]
    BY <1>2 DEF EnqueueTask, TypeOK
  <2>2. tasks[t].queue = "none" /\ seen' = seen /\ phase' = phase
    BY <1>2 DEF EnqueueTask, FreshTask, passVars
  <2>3. Placed' = Placed \cup {t} /\ t \notin Placed
    BY <2>1, <2>2, EnqueuedRecord DEF Placed
  <2>4. Cardinality(Placed') = Cardinality(Placed) + 1 /\ Cardinality(Placed) \in Nat
    BY <2>3, PlacedIsFinite, FS_AddElement
  <2>5. /\ \A u \in Tasks : tasks[u].at \in Nat
        /\ \A u \in DOMAIN seen : u \in Tasks /\ seen[u].at \in Nat
    BY DEF TypeOK, Task
  <2> QED
    BY <2>1, <2>2, <2>4, <2>5, EnqueuedRecord DEF LineInv, Waiting, Candidate
<1>3. ASSUME NEW t \in Tasks, Release(t) PROVE LineInv'
  <2>1. t \in DOMAIN seen /\ seen[t].queue = "active" /\ phase' = phase
    BY <1>3 DEF Release, Releasable
  <2>2. tasks[t].queue # "none" /\ tasks[t].at = seen[t].at
    BY <2>1 DEF LineInv
  <2>3. Placed' = Placed
    BY <1>3, <2>2, ReleaseWrites, PlacesKept
  <2> DEFINE r == [seen[t] EXCEPT !.queue = "superseded"]
  <2>4. /\ \A u \in Tasks : tasks'[u] = IF u = t THEN r ELSE tasks[u]
        /\ DOMAIN seen' = DOMAIN seen
        /\ \A u \in DOMAIN seen : seen'[u] = IF u = t THEN r ELSE seen[u]
        /\ r.queue = "superseded" /\ r.at = seen[t].at
    BY <1>3, ReleaseWrites
  <2>5. DOMAIN seen \subseteq Tasks
    BY DEF TypeOK
  <2> HIDE DEF r
  <2> QED
    BY <2>1, <2>2, <2>3, <2>4, <2>5 DEF LineInv, Waiting, Candidate
<1>4. ASSUME NEW t \in Tasks, ChooseHead(t) PROVE LineInv'
  <2>1. t \in DOMAIN seen /\ seen[t].queue # "none" /\ seen' = seen /\ phase' # "releasing"
    BY <1>4 DEF ChooseHead, First, Candidates, Candidate
  <2>2. tasks[t].queue # "none" /\ tasks[t].at = seen[t].at
    BY <2>1 DEF LineInv
  <2>3. Placed' = Placed
    BY <1>4, <2>2, ChooseHeadWrites, PlacesKept
  <2> DEFINE r == [seen[t] EXCEPT !.status = "ready", !.queue = "active"]
  <2>4. /\ \A u \in Tasks : tasks'[u] = IF u = t THEN r ELSE tasks[u]
        /\ r.queue = "active" /\ r.at = seen[t].at
    BY <1>4, ChooseHeadWrites
  <2>5. DOMAIN seen \subseteq Tasks
    BY DEF TypeOK
  <2> HIDE DEF r
  <2> QED
    BY <2>1, <2>2, <2>3, <2>4, <2>5 DEF LineInv
<1>5. CASE StartPass
  <2>1. /\ DOMAIN seen' \subseteq Tasks
        /\ \A u \in Tasks : ~tasks[u].deleted => u \in DOMAIN seen'
        /\ \A u \in DOMAIN seen' : seen'[u] = tasks[u]
    BY <1>5 DEF StartPass
  <2>2. Placed' = Placed /\ tasks' = tasks
    BY <1>5, PlacesKept DEF StartPass, diskVars
  <2> QED
    BY <2>1, <2>2 DEF LineInv, Waiting
<1>6. CASE StartHeadFails
  <2>1. chosen \in DOMAIN seen /\ seen[chosen].queue # "none"
    BY <1>6 DEF StartHeadFails, HeadInv, Candidate
  <2>2. tasks[chosen].queue # "none" /\ tasks[chosen].at = seen[chosen].at
    BY <2>1 DEF LineInv
  <2>3. Placed' = Placed
    BY <1>6, <2>2, StartHeadFailsWrites, PlacesKept
  <2> QED
    BY <1>6, <2>2, <2>3, StartHeadFailsWrites
       DEF StartHeadFails, PassEnds, NoRecords, LineInv, TypeOK
<1> QED
  BY <1>1, <1>2, <1>3, <1>4, <1>5, <1>6, QuietSteps

\* A workspace starts with ready tasks and no pass.
LEMMA QueueStart == Init => QueueInv
<1> SUFFICES ASSUME Init PROVE QueueInv
  OBVIOUS
<1>1. TypeOK
  BY QueueAssumption
     DEF Init, TypeOK, FreshTask, NoRecords, Task, Statuses, QueueStates, RunStatuses,
         Drives, Phases, Valid
<1>2. RunInv /\ HeadInv
  BY DEF Init, RunInv, HeadInv, IsHead, FreshTask, NoRecords, Candidate
<1>3. LineInv
  BY PlacedIsFinite DEF Init, LineInv, FreshTask, NoRecords
<1> QED
  BY <1>1, <1>2, <1>3 DEF QueueInv

(***************************************************************************)
(* The theorems.                                                           *)
(***************************************************************************)
\* The invariant of types, runs, the head and the line holds in every reachable
\* state, for any number of tasks and any number of crashes and user acts.
THEOREM QueueInvCorrect == Spec => []QueueInv
<1>1. QueueInv /\ [Next]_vars => QueueInv'
  BY TypeStep, RunStep, HeadStep, LineStep DEF QueueInv
<1> QED
  BY <1>1, QueueStart, PTL DEF Spec

\* Every variable keeps its type; no record on disk fails its validation.
THEOREM QueueTypeCorrect == Spec => []TypeOK
<1>1. QueueInv => TypeOK
  BY DEF QueueInv
<1> QED
  BY <1>1, QueueInvCorrect, PTL

\* One unfinished task at a time is the active head of the workspace, whatever
\* runs, users and crashes do between the steps of a pass.
THEOREM HeadCorrect == Spec => []AtMostOneHead
<1>1. QueueInv => AtMostOneHead
  BY DEF QueueInv, HeadInv, IsHead, AtMostOneHead
<1> QED
  BY <1>1, QueueInvCorrect, PTL

\* A task that waits in the queue has never been started.
THEOREM WaitingCorrect == Spec => []WaitingNeverRan
<1>1. QueueInv => WaitingNeverRan
  BY DEF QueueInv, RunInv, WaitingNeverRan
<1> QED
  BY <1>1, QueueInvCorrect, PTL

\* Tasks become the head in the order they were enqueued.
THEOREM FifoCorrect == Spec => QueueIsFifo
<1> DEFINE Earliest ==
      \A t, u \in Tasks :
        tasks[t].queue = "waiting" /\ tasks'[t].queue = "active" /\ Waiting(u)
          => tasks[t].at <= tasks[u].at
<1>1. QueueInv /\ [Next]_vars => [Earliest]_vars
  <2> SUFFICES ASSUME QueueInv, [Next]_vars, NEW t \in Tasks, NEW u \in Tasks,
                      tasks[t].queue = "waiting", tasks'[t].queue = "active", Waiting(u)
               PROVE  tasks[t].at <= tasks[u].at
    OBVIOUS
  <2> USE DEF QueueInv
  <2>1. ~Quiet
    BY DEF Quiet, SamePlaces
  <2>2. ~StartPass
    BY DEF StartPass, diskVars
  <2>3. ~StartHeadFails
    BY StartHeadFailsWrites DEF StartHeadFails, HeadInv
  <2>4. \A v \in Tasks : ~EnqueueTask(v)
    BY EnqueuedRecord DEF EnqueueTask, TypeOK
  <2>5. \A v \in Tasks : ~Release(v)
    BY ReleaseWrites
  <2>6. PICK v \in Tasks : ChooseHead(v)
    BY <2>1, <2>2, <2>3, <2>4, <2>5, QuietSteps
  <2>7. v = t
    BY <2>6, ChooseHeadWrites
  <2>8. /\ phase = "releasing" /\ t \in DOMAIN seen /\ seen[t].queue # "none"
        /\ \A w \in DOMAIN seen : Candidate(seen[w]) => seen[t].at <= seen[w].at
    BY <2>6, <2>7 DEF ChooseHead, AllReleased, First, Candidates, Candidate
  <2>9. tasks[t].at = seen[t].at
    BY <2>8 DEF LineInv
  <2>10. CASE u \in DOMAIN seen /\ Candidate(seen[u])
    <3>1. tasks[u].at = seen[u].at
      BY <2>10 DEF LineInv, Candidate
    <3> QED
      BY <2>8, <2>9, <2>10, <3>1
  <2>11. CASE \A w \in DOMAIN seen : seen[w].at < tasks[u].at
    <3>1. tasks[t].at \in Nat /\ tasks[u].at \in Nat
      BY DEF TypeOK, Task
    <3> QED
      BY <2>8, <2>9, <2>11, <3>1
  <2> QED
    BY <2>8, <2>10, <2>11 DEF LineInv
<1> QED
  BY <1>1, QueueInvCorrect, PTL DEF Spec, QueueIsFifo

(***************************************************************************)
(* TaskQueue implements FifoQueue. Steps that neither place, delete nor    *)
(* write back a record leave line, head and deletions as they are.         *)
(***************************************************************************)
Kept ==
  \A u \in Tasks :
    /\ tasks'[u].queue = tasks[u].queue
    /\ tasks'[u].at = tasks[u].at
    /\ tasks'[u].deleted = tasks[u].deleted
    /\ tasks[u].queue = "waiting" => tasks'[u].status = tasks[u].status

KeptPass ==
  \/ UNCHANGED passVars
  \/ phase' \in {"idle", "started"} /\ seen' \in {seen, NoRecords}

\* The status of a task that does not wait is nothing to the line.
LEMMA StatusKept ==
  ASSUME TypeOK, NEW t \in Tasks, NEW status \in Statuses, tasks' = WithStatus(t, status),
         tasks[t].queue # "waiting"
  PROVE  Kept
BY DEF TypeOK, WithStatus, Kept, Task

\* No goroutine and no cancellation belongs to a task that waits.
LEMMA NobodyRunsWaiting ==
  ASSUME QueueInv, ListInv, NEW t \in Tasks, drive[t] # "none" \/ t \in cancelling
  PROVE  tasks[t].queue # "waiting"
BY DEF QueueInv, RunInv, ListInv, Candidate

\* All steps but six kinds keep the line and its head.
LEMMA KeptSteps ==
  ASSUME QueueInv, ListInv, [Next]_vars
  PROVE  \/ Kept /\ KeptPass
         \/ \E t \in Tasks : EnqueueTask(t) \/ Release(t) \/ ChooseHead(t) \/ DeleteTask(t)
         \/ StartPass \/ StartHeadFails
<1> USE DEF KeptPass, diskVars, passVars
<1>1. ASSUME NEW t \in Tasks, StartRun(t) \/ ResumeRun(t) \/ CancelRun(t) \/ CheckDelete(t)
      PROVE  Kept /\ KeptPass
  BY <1>1 DEF StartRun, ResumeRun, CancelRun, CheckDelete, Kept
<1>2. ASSUME NEW t \in Tasks, MarkRunning(t) \/ MarkTask(t) \/ MarkRecovered(t)
      PROVE  Kept /\ KeptPass
  <2>1. tasks[t].queue # "waiting"
    BY <1>2, NobodyRunsWaiting DEF MarkRunning, MarkTask, MarkRecovered
  <2>2. PICK status \in Statuses : tasks' = WithStatus(t, status)
    BY <1>2 DEF MarkRunning, MarkTask, MarkRecovered, Statuses, QueueInv, RunInv
  <2>3. UNCHANGED passVars
    BY <1>2 DEF MarkRunning, MarkTask, MarkRecovered
  <2> QED
    BY <2>1, <2>2, <2>3, StatusKept DEF QueueInv
<1>3. ASSUME NEW t \in Tasks, MarkCancelled(t) PROVE Kept /\ KeptPass
  <2>1. tasks[t].queue # "waiting" /\ "cancelled" \in Statuses
    BY <1>3, NobodyRunsWaiting DEF MarkCancelled, Statuses
  <2>2. tasks' = WithStatus(t, "cancelled") /\ UNCHANGED passVars
    BY <1>3 DEF MarkCancelled
  <2> QED
    BY <2>1, <2>2, StatusKept DEF QueueInv
<1>4. ASSUME NEW t \in Tasks, SkipTask(t) \/ Undispatch(t) \/ EnterRun(t) \/ ResumeFails(t)
      PROVE  Kept /\ KeptPass
  BY <1>4 DEF SkipTask, Undispatch, EnterRun, ResumeFails, Kept
<1>5. ASSUME NEW t \in Tasks, Settle(t) \/ Abandon(t) \/ RecoverRun(t)
      PROVE  Kept /\ KeptPass
  BY <1>5 DEF Settle, Abandon, RecoverRun, Kept
<1>6. CASE LeaveQueue \/ HeadStarted \/ StartHead
  BY <1>6 DEF LeaveQueue, HeadStarted, StartHead, PassEnds, Kept
<1>7. CASE Crash \/ Recovered
  BY <1>7 DEF Crash, Recovered, Kept
<1>8. CASE UNCHANGED vars
  BY <1>8 DEF vars, Kept
<1> QED
  BY <1>1, <1>2, <1>3, <1>4, <1>5, <1>6, <1>7, <1>8
     DEF Next, User, Drive, Agent, Call, Pass, Recovery

\* A run that was started stays started, and only started runs are cancelled.
LEMMA CancelledRuns ==
  ASSUME QueueInv, \A t \in cancelling : runs[t] # "none", [Next]_vars
  PROVE  \A t \in cancelling' : runs'[t] # "none"
<1> USE DEF QueueInv, TypeOK, diskVars, callVars, RunStatuses
<1>1. ASSUME NEW t \in Tasks, StartRun(t) \/ ResumeRun(t) \/ CheckDelete(t) \/ EnqueueTask(t)
      PROVE  \A u \in cancelling' : runs'[u] # "none"
  BY <1>1 DEF StartRun, ResumeRun, CheckDelete, EnqueueTask
<1>2. ASSUME NEW t \in Tasks, CancelRun(t) \/ MarkCancelled(t) \/ DeleteTask(t)
      PROVE  \A u \in cancelling' : runs'[u] # "none"
  BY <1>2 DEF CancelRun, MarkCancelled, DeleteTask
<1>3. ASSUME NEW t \in Tasks,
             Drive(t) \/ Agent(t) \/ RecoverRun(t) \/ MarkRecovered(t)
      PROVE  \A u \in cancelling' : runs'[u] # "none"
  BY <1>3 DEF Drive, Agent, MarkRunning, MarkTask, SkipTask, Undispatch, EnterRun, ResumeFails,
     Settle, Abandon, RecoverRun, MarkRecovered
<1>4. CASE Pass
  BY <1>4 DEF Pass, StartPass, LeaveQueue, StartHead, StartHeadFails, HeadStarted, PassEnds,
     Release, ChooseHead
<1>5. CASE Crash \/ Recovered \/ UNCHANGED vars
  BY <1>5 DEF Crash, Recovered, vars
<1> QED
  BY <1>1, <1>2, <1>3, <1>4, <1>5 DEF Next, User, Call, Recovery

\* The list of a pass and the disk agree on the places.
LEMMA ListStep ==
  ASSUME QueueInv, ListInv, [Next]_vars
  PROVE  ListInv'
<1> USE DEF QueueInv
<1>1. \A t \in cancelling' : runs'[t] # "none"
  BY CancelledRuns DEF ListInv
<1>2. CASE Kept /\ KeptPass
  BY <1>1, <1>2 DEF Kept, KeptPass, ListInv, passVars, NoRecords, Waiting, Candidate, TypeOK,
     HeadInv
<1>3. ASSUME NEW t \in Tasks, EnqueueTask(t) PROVE ListInv'
  <2>1. \A u \in Tasks : tasks'[u] = IF u = t THEN Enqueued(t) ELSE tasks[u]
    BY <1>3 DEF EnqueueTask, TypeOK
  <2>2. tasks[t].queue = "none" /\ UNCHANGED passVars
    BY <1>3 DEF EnqueueTask, FreshTask
  <2>3. /\ \A u \in Tasks : tasks[u].at \in Nat /\ tasks[u].at <= Cardinality(Placed)
        /\ Cardinality(Placed) \in Nat
    BY PlacedIsFinite DEF TypeOK, Task, LineInv
  <2>4. phase = "starting" => chosen \in Tasks /\ chosen # t
    BY <2>2 DEF HeadInv, TypeOK
  <2>5. DOMAIN seen \subseteq Tasks /\ \A u \in DOMAIN seen : seen[u].queue # "none" => u # t
    BY <2>2 DEF TypeOK, LineInv
  <2> QED
    BY <1>1, <2>1, <2>2, <2>3, <2>4, <2>5, EnqueuedRecord
       DEF ListInv, passVars, Waiting, Candidate
<1>4. ASSUME NEW t \in Tasks, Release(t) PROVE ListInv'
  <2> DEFINE r == [seen[t] EXCEPT !.queue = "superseded"]
  <2>1. /\ \A u \in Tasks : tasks'[u] = IF u = t THEN r ELSE tasks[u]
        /\ DOMAIN seen' = DOMAIN seen
        /\ \A u \in DOMAIN seen : seen'[u] = IF u = t THEN r ELSE seen[u]
        /\ r.queue = "superseded" /\ r.deleted = seen[t].deleted
    BY <1>4, ReleaseWrites
  <2>2. phase' = "releasing" /\ phase = "releasing" /\ t \in DOMAIN seen
    BY <1>4 DEF Release
  <2> HIDE DEF r
  <2> QED
    BY <1>1, <2>1, <2>2 DEF ListInv, TypeOK
<1>5. ASSUME NEW t \in Tasks, ChooseHead(t) PROVE ListInv'
  <2> DEFINE r == [seen[t] EXCEPT !.status = "ready", !.queue = "active"]
  <2>1. /\ \A u \in Tasks : tasks'[u] = IF u = t THEN r ELSE tasks[u]
        /\ r.status = "ready" /\ r.queue = "active" /\ r.at = seen[t].at
    BY <1>5, ChooseHeadWrites
  <2>2. /\ phase = "releasing" /\ phase' = "starting" /\ seen' = seen /\ chosen' = t
        /\ t \in DOMAIN seen /\ Candidate(seen[t])
        /\ \A u \in DOMAIN seen : Candidate(seen[u]) => seen[t].at <= seen[u].at
    BY <1>5 DEF ChooseHead, AllReleased, First, Candidates
  <2> HIDE DEF r
  <2>3. ASSUME NEW u \in Tasks, Waiting(u)' PROVE tasks'[t].at <= tasks'[u].at
    <3>1. u # t
      BY <2>1, <2>3 DEF Waiting, Candidate
    <3>2. Waiting(u) /\ tasks'[u].at = tasks[u].at /\ tasks'[t].at = seen[t].at
      BY <2>1, <2>3, <3>1 DEF Waiting
    <3>3. tasks[u].at \in Nat /\ seen[t].at \in Nat
      BY <2>2 DEF TypeOK, Task
    <3>4. CASE u \in DOMAIN seen /\ Candidate(seen[u])
      BY <2>2, <3>2, <3>4 DEF LineInv, Candidate
    <3>5. CASE \A v \in DOMAIN seen : seen[v].at < tasks[u].at
      BY <2>2, <3>2, <3>3, <3>5
    <3> QED
      BY <2>2, <3>2, <3>4, <3>5 DEF LineInv
  <2> QED
    BY <1>1, <2>1, <2>2, <2>3 DEF ListInv
<1>6. ASSUME NEW t \in Tasks, DeleteTask(t) PROVE ListInv'
  <2>1. /\ \A u \in Tasks : /\ tasks'[u].queue = tasks[u].queue
                            /\ tasks'[u].status = tasks[u].status
                            /\ tasks'[u].at = tasks[u].at
                            /\ tasks[u].deleted => tasks'[u].deleted
        /\ UNCHANGED passVars
    BY <1>6 DEF DeleteTask, TypeOK, Task
  <2> QED
    BY <1>1, <2>1 DEF ListInv, passVars, Waiting, Candidate, TypeOK, HeadInv
<1>7. CASE StartPass
  <2>1. /\ \A u \in DOMAIN seen' : u \in Tasks /\ ~tasks[u].deleted /\ seen'[u] = tasks[u]
        /\ tasks' = tasks /\ phase' = "releasing"
    BY <1>7 DEF StartPass, diskVars
  <2> QED
    BY <1>1, <2>1 DEF ListInv
<1>8. CASE StartHeadFails
  BY <1>1, <1>8, StartHeadFailsWrites DEF StartHeadFails, PassEnds, NoRecords, ListInv
<1> QED
  BY <1>2, <1>3, <1>4, <1>5, <1>6, <1>7, <1>8, KeptSteps

\* A pass that chooses has seen that nobody is the head.
LEMMA FreeHead ==
  ASSUME QueueInv, NEW t \in Tasks, ChooseHead(t), NEW u \in Tasks
  PROVE  ~IsHead(u)
<1> SUFFICES ASSUME IsHead(u) PROVE FALSE
  OBVIOUS
<1>1. u \in DOMAIN seen /\ seen[u].queue = "active" /\ seen[u].status # "queued"
  BY DEF ChooseHead, AllReleased, QueueInv, HeadInv
<1>2. seen[u].status \in Statuses
  BY <1>1 DEF QueueInv, TypeOK, Task
<1>3. ~Holds(seen[u]) /\ ~Releasable(seen[u])
  BY <1>1 DEF ChooseHead, AllReleased, Busy
<1> QED
  BY <1>1, <1>2, <1>3 DEF Holds, Releasable, Finished, Statuses

\* The list and the disk agree in every reachable state.
LEMMA ListInvCorrect == Spec => [](QueueInv /\ ListInv)
<1>1. Init => ListInv
  BY DEF Init, ListInv, FreshTask, NoRecords
<1>2. QueueInv /\ ListInv /\ [Next]_vars => ListInv'
  BY ListStep
<1> QED
  BY <1>1, <1>2, QueueInvCorrect, PTL DEF Spec

\* The queue of records implements a line with one head: tasks join behind
\* everyone, the head steps forward from the front when the head is free, and a
\* record that a pass writes back over a deletion takes nobody's place.
THEOREM FifoImplemented == Spec => ImplementsFifo
<1> DEFINE line == {t \in Tasks : Waiting(t)}
           head == {t \in Tasks : IsHead(t)}
           gone == {t \in Tasks : tasks[t].deleted}
           ticket == [t \in Tasks |-> tasks[t].at]
<1>1. Init => Line!Init
  BY DEF Init, Line!Init, FreshTask, Waiting, Candidate, IsHead
<1>2. QueueInv /\ ListInv /\ [Next]_vars => [Line!Next]_(Line!vars)
  <2> SUFFICES ASSUME QueueInv, ListInv, [Next]_vars
               PROVE  Line!Next \/ UNCHANGED <<line, ticket, head, gone>>
    BY DEF Line!vars
  <2> USE DEF QueueInv
  <2>1. CASE Kept
    BY <2>1 DEF Kept, Waiting, Candidate, IsHead, ListInv
  <2>2. ASSUME NEW t \in Tasks, EnqueueTask(t) PROVE Line!Join(t)
    <3>1. \A u \in Tasks : tasks'[u] = IF u = t THEN Enqueued(t) ELSE tasks[u]
      BY <2>2 DEF EnqueueTask, TypeOK
    <3>2. ~tasks[t].deleted /\ tasks[t].queue = "none"
      BY <2>2 DEF EnqueueTask, FreshTask
    <3>3. Enqueued(t).deleted = FALSE
      BY <2>2 DEF EnqueueTask, Enqueued, FreshTask
    <3>4. /\ line' = line \cup {t} /\ head' = head /\ gone' = gone
          /\ t \notin line \cup head \cup gone
      BY <3>1, <3>2, <3>3, EnqueuedRecord DEF Waiting, Candidate, IsHead
    <3>5. ticket' = [ticket EXCEPT ![t] = ticket'[t]]
      BY <3>1
    <3>6. \A u \in Tasks \ {t} : ticket[u] < ticket'[t]
      <4>1. \A u \in Tasks : tasks[u].at \in Nat /\ tasks[u].at <= Cardinality(Placed)
        BY DEF TypeOK, Task, LineInv
      <4> QED
        BY <3>1, <4>1, EnqueuedRecord, PlacedIsFinite
    <3> QED
      BY <3>4, <3>5, <3>6 DEF Line!Join
  <2>3. ASSUME NEW t \in Tasks, DeleteTask(t) PROVE Line!Delete(t)
    <3>1. \A u \in Tasks : /\ tasks'[u].queue = tasks[u].queue
                           /\ tasks'[u].status = tasks[u].status
                           /\ tasks'[u].at = tasks[u].at
                           /\ tasks'[u].deleted = (tasks[u].deleted \/ u = t)
      BY <2>3 DEF DeleteTask, TypeOK, Task
    <3> QED
      BY <3>1 DEF Line!Delete, Waiting, Candidate, IsHead
  <2>4. ASSUME NEW t \in Tasks, Release(t)
        PROVE  Line!Release \/ Line!Return(t)
    <3> DEFINE r == [seen[t] EXCEPT !.queue = "superseded"]
    <3>1. /\ \A u \in Tasks : tasks'[u] = IF u = t THEN r ELSE tasks[u]
          /\ r.queue = "superseded" /\ r.at = seen[t].at /\ r.deleted = seen[t].deleted
      BY <2>4, ReleaseWrites
    <3>2. t \in DOMAIN seen /\ seen[t].queue = "active" /\ phase = "releasing"
      BY <2>4 DEF Release, Releasable
    <3> HIDE DEF r
    <3>3. tasks[t].queue = "active" /\ tasks[t].at = seen[t].at /\ ~seen[t].deleted
      BY <3>2 DEF ListInv, LineInv
    <3>4. line' = line /\ gone' = gone \ {t} /\ head' = head \ {t} /\ ticket' = ticket
      BY <3>1, <3>3 DEF Waiting, Candidate, IsHead
    <3>5. CASE tasks[t].deleted
      BY <3>4, <3>5 DEF Line!Return, IsHead
    <3>6. CASE ~tasks[t].deleted
      <4>1. head = {t}
        BY <3>3, <3>6 DEF HeadInv, IsHead
      <4> QED
        BY <3>4, <3>6, <4>1 DEF Line!Release
    <3> QED
      BY <3>5, <3>6
  <2>5. ASSUME NEW t \in Tasks, ChooseHead(t)
        PROVE  Line!StepForward(t) \/ Line!Return(t)
    <3>1. head = {}
      BY <2>5, FreeHead
    <3> DEFINE r == [seen[t] EXCEPT !.status = "ready", !.queue = "active"]
    <3>2. /\ \A u \in Tasks : tasks'[u] = IF u = t THEN r ELSE tasks[u]
          /\ r.queue = "active" /\ r.at = seen[t].at /\ r.deleted = seen[t].deleted
      BY <2>5, ChooseHeadWrites
    <3> HIDE DEF r
    <3>3. /\ phase = "releasing" /\ phase' = "starting" /\ chosen' = t
          /\ t \in DOMAIN seen /\ Candidate(seen[t])
      BY <2>5 DEF ChooseHead, AllReleased, First, Candidates
    <3>4. tasks[t].queue = "waiting" /\ tasks[t].at = seen[t].at /\ ~seen[t].deleted
      BY <3>3 DEF ListInv, LineInv, Candidate
    <3>5. /\ line' = line \ {t} /\ gone' = gone \ {t} /\ head' = head \cup {t}
          /\ ticket' = ticket
      BY <3>2, <3>4 DEF Waiting, Candidate, IsHead
    <3>6. \A u \in line : ticket[t] <= ticket[u]
      <4>1. \A u \in line' : ticket[t] <= ticket[u]
        BY <3>3, <3>5, ListStep DEF ListInv
      <4>2. ticket[t] <= ticket[t]
        BY DEF TypeOK, Task
      <4> QED
        BY <3>5, <4>1, <4>2
    <3>7. CASE tasks[t].deleted
      BY <3>1, <3>5, <3>6, <3>7 DEF Line!Return, Waiting
    <3>8. CASE ~tasks[t].deleted
      <4>1. t \in line
        BY <3>4, <3>8 DEF ListInv, Waiting, Candidate
      <4> QED
        BY <3>1, <3>5, <3>6, <3>8, <4>1 DEF Line!StepForward, Line!Front
    <3> QED
      BY <3>7, <3>8
  <2>6. CASE StartPass
    <3>1. tasks' = tasks
      BY <2>6 DEF StartPass, diskVars
    <3> QED
      BY <3>1 DEF Waiting, Candidate, IsHead
  <2>7. CASE StartHeadFails
    <3> DEFINE r == [seen[chosen] EXCEPT !.status = "paused", !.queue = "active"]
    <3>1. /\ chosen \in Tasks
          /\ \A u \in Tasks : tasks'[u] = IF u = chosen THEN r ELSE tasks[u]
          /\ r.queue = "active" /\ r.at = seen[chosen].at /\ r.deleted = seen[chosen].deleted
      BY <2>7, StartHeadFailsWrites
    <3> HIDE DEF r
    <3>2. /\ phase = "starting" /\ chosen \in DOMAIN seen /\ Candidate(seen[chosen])
          /\ tasks[chosen].queue = "active"
          /\ \A t \in Tasks : IsHead(t) => t = chosen
      BY <2>7 DEF StartHeadFails, HeadInv
    <3>3. tasks[chosen].at = seen[chosen].at /\ ~seen[chosen].deleted
      BY <3>2 DEF ListInv, LineInv, Candidate
    <3>4. /\ line' = line /\ gone' = gone \ {chosen} /\ head' = {chosen}
          /\ ticket' = ticket
      BY <3>1, <3>2, <3>3 DEF Waiting, Candidate, IsHead
    <3>5. CASE tasks[chosen].deleted
      <4>1. head = {} /\ chosen \in gone
        BY <3>1, <3>2, <3>5 DEF IsHead
      <4>2. \A u \in line : ticket[chosen] <= ticket[u]
        BY <3>1, <3>2 DEF ListInv
      <4>3. PICK t \in Tasks : t = chosen
        BY <3>1
      <4>4. Line!Return(t)
        BY <3>4, <4>1, <4>2, <4>3 DEF Line!Return
      <4> QED
        BY <4>4 DEF Line!Next
    <3>6. CASE ~tasks[chosen].deleted
      BY <3>1, <3>2, <3>4, <3>6 DEF IsHead
    <3> QED
      BY <3>5, <3>6
  <2> QED
    BY <2>1, <2>2, <2>3, <2>4, <2>5, <2>6, <2>7, KeptSteps DEF Line!Next
<1> QED
  BY <1>1, <1>2, ListInvCorrect, PTL DEF Spec, ImplementsFifo, Line!Spec

-------------------------------------------------------------------------------
(***************************************************************************)
(* The lock: among the goroutines of one process, and where signals probe  *)
(* a process, it excludes, for any number of callers, process ids, deaths  *)
(* and relaunches.                                                         *)
(***************************************************************************)
\* The assumption of single-process use, which every theorem of the lock states.
OneProcess == \A p, q \in Procs : p = q

LEMMA LockInitInv == LockInit => LockInv
BY LockAssumption
DEF LockAssumption, LockInit, LockInv, LockTypeOK, Absent, Files, Places, Inside, Holding

\* A caller's step: only the caller moves, and the mutex keeps the others out.
LEMMA CallerStepInv ==
  ASSUME OneProcess, LockInv, NEW c \in Callers, Step(c)
  PROVE  LockInv'
<1> USE LockAssumption DEF LockAssumption
<1>1. LockTypeOK'
  <2> USE DEF LockInv, LockTypeOK, Go, Leave, callerVars, procVars, Places
  <2>0. Absent \in Files BY DEF Files
  <2>1. CASE Begin(c) BY <2>1 DEF Begin
  <2>2. CASE Create(c)
    <3>1. pid[Home[c]] \in Pids BY <2>2 DEF Create, Inside, Up
    <3>2. [by |-> c, pid |-> pid[Home[c]], written |-> FALSE] \in Files BY <3>1 DEF Files
    <3> QED BY <2>2, <3>2 DEF Create
  <2>3. CASE Write(c)
    <3>1. file = [by |-> c, pid |-> pid[Home[c]], written |-> FALSE] BY <2>3 DEF Write
    <3>2. pid[Home[c]] \in Pids BY <2>3 DEF Write, Inside, Up
    <3>3. [file EXCEPT !.written = TRUE] \in Files BY <3>1, <3>2 DEF Files
    <3> QED BY <2>3, <3>3 DEF Write
  <2>4. CASE Read(c) BY <2>4 DEF Read
  <2>5. CASE RemoveStale(c) BY <2>5, <2>0 DEF RemoveStale
  <2>6. CASE BeginRelease(c) BY <2>6 DEF BeginRelease
  <2>7. CASE Check(c) BY <2>7 DEF Check
  <2>8. CASE Unlink(c) BY <2>8, <2>0 DEF Unlink
  <2> QED BY <2>1, <2>2, <2>3, <2>4, <2>5, <2>6, <2>7, <2>8 DEF Step
<1>2. \A d \in Callers : Home[d] = Home[c] /\ (Inside(c) /\ Inside(d) => d = c)
  BY DEF OneProcess, LockInv
<1>3. pid' = pid
  BY DEF Step, Begin, Create, Write, Read, RemoveStale, BeginRelease, Check, Unlink, procVars
<1>4. ASSUME NEW d \in Callers, d # c PROVE pc'[d] = pc[d]
  BY <1>4 DEF Step, Begin, Create, Write, Read, RemoveStale, BeginRelease, Check, Unlink,
     Go, Leave, LockInv, LockTypeOK
\* A held or a stale file: who could hold it while c is inside.
<1>5. Inside(c) \/ Inside(c)' =>
        \A d \in Callers : d # c => ~Inside(d) /\ pc[d] # "removing" /\ pc[d] # "writing"
  <2>1. CASE Inside(c) BY <1>2, <2>1 DEF Inside, Places
  <2>2. CASE ~Inside(c) /\ Inside(c)'
    <3>1. mu[Home[c]] = NoOne
      BY <2>2 DEF Step, Begin, Create, Write, Read, RemoveStale, BeginRelease, Check,
         Unlink, Inside, Places
    <3> QED BY <1>2, <3>1 DEF LockInv, Inside, Places
  <2> QED BY <2>1, <2>2
<1>6. Inside(c) \/ Inside(c)'
  BY DEF Step, Begin, Create, Write, Read, RemoveStale, BeginRelease, Check, Unlink,
     Go, Leave, LockInv, LockTypeOK, Inside, Places
<1>7. ASSUME NEW d \in Callers
      PROVE  /\ Inside(d)' => mu'[Home[d]] = d
             /\ Inside(d)' \/ Holding(d)' => Up(Home[d])'
             /\ pc'[d] = "writing" =>
                  file' = [by |-> d, pid |-> pid'[Home[d]], written |-> FALSE]
  <2>1. CASE d = c
    BY <2>1, <1>3 DEF Step, Begin, Create, Write, Read, RemoveStale, BeginRelease, Check,
       Unlink, Go, Leave, LockInv, LockTypeOK, Inside, Holding, Places, Up
  <2>2. CASE d # c
    BY <2>2, <1>3, <1>4, <1>5, <1>6 DEF LockInv, Inside, Holding, Places, Up
  <2> QED BY <2>1, <2>2
<1>8. ASSUME SignalsProbe, NEW d \in Callers, Holding(d)'
      PROVE  file' = [by |-> d, pid |-> pid'[Home[d]], written |-> TRUE]
  <2>1. CASE d = c
    <3> USE DEF Go, Leave, LockInv, LockTypeOK, Holding, Places
    <3>1. CASE Write(c)
      <4>1. file = [by |-> c, pid |-> pid[Home[c]], written |-> FALSE] BY <3>1 DEF Write
      <4>2. file' = [file EXCEPT !.written = TRUE] BY <4>1, <3>1 DEF Write
      <4> QED BY <4>1, <4>2, <1>3, <2>1
    <3>2. CASE BeginRelease(c) BY <1>8, <3>2, <1>3, <2>1 DEF BeginRelease
    <3>3. CASE Check(c) BY <1>8, <3>3, <1>3, <2>1 DEF Check
    <3>4. CASE Begin(c) \/ Create(c) \/ Read(c) \/ RemoveStale(c) \/ Unlink(c)
      BY <3>4, <1>8, <2>1 DEF Begin, Create, Read, RemoveStale, Unlink
    <3> QED BY <3>1, <3>2, <3>3, <3>4 DEF Step
  <2>2. CASE d # c
    <3>1. Holding(d) BY <2>2, <1>4, <1>8 DEF Holding
    <3>2. file = [by |-> d, pid |-> pid[Home[d]], written |-> TRUE] BY <3>1, <1>8 DEF LockInv
    <3>3. file' = file
      <4>1. file # Absent /\ file.by # c /\ file.written
        BY <3>2, <2>2 DEF Absent
      <4>2. pc[c] # "removing" BY <3>1, <1>8 DEF LockInv
      <4>3. pc[c] # "unlinking" BY <4>1, <1>8 DEF LockInv, Holding
      <4>4. pc[c] # "writing" BY <4>1 DEF LockInv
      <4> QED BY <4>1, <4>2, <4>3, <4>4 DEF Step, Begin, Create, Write, Read, RemoveStale,
            BeginRelease, Check, Unlink
    <3> QED BY <3>2, <3>3, <1>3
  <2> QED BY <2>1, <2>2
<1>9. ASSUME SignalsProbe, NEW d \in Callers, pc'[d] = "removing", NEW e \in Callers
      PROVE  ~Holding(e)'
  <2>1. d = c BY <1>4, <1>5, <1>6, <1>9
  <2>2. Read(c)
    BY <1>9, <2>1 DEF Step, Begin, Create, Write, Read, RemoveStale, BeginRelease, Check,
       Unlink, Go, Leave, LockInv, LockTypeOK
  <2>3. file.written /\ ~Alive(file.pid)
    BY <1>9, <2>1, <2>2 DEF Read, Go, Leave, LockInv, LockTypeOK
  <2>4. CASE e = c BY <2>4, <1>9, <2>1 DEF Holding
  <2>5. CASE e # c
    <3>1. ~Holding(e)
      <4> SUFFICES ASSUME Holding(e) PROVE FALSE OBVIOUS
      <4>1. file.pid = pid[Home[e]] BY <1>9 DEF LockInv
      <4>2. Home[e] \in Procs OBVIOUS
      <4> QED BY <1>9, <4>1, <4>2, <2>3 DEF Alive, Taken
    <3> QED BY <3>1, <2>5, <1>4 DEF Holding
  <2> QED BY <2>4, <2>5
<1> QED BY <1>1, <1>7, <1>8, <1>9 DEF LockInv

\* Crashes end every caller of the only process; launches find none.
LEMMA SystemStepInv ==
  ASSUME OneProcess, LockInv, System
  PROVE  LockInv'
<1> USE LockAssumption DEF LockAssumption, LockInv, LockTypeOK, callerVars, procVars
<1>1. ASSUME NEW p \in Procs, Die(p) PROVE LockInv'
  <2>1. \A c \in Callers : Home[c] = p BY DEF OneProcess
  <2>2. \A c \in Callers : pc'[c] = "idle" /\ attempt'[c] = 1 BY <1>1, <2>1 DEF Die
  <2>3. LockTypeOK' BY <1>1, <2>1 DEF Die, Places
  <2> QED BY <2>2, <2>3 DEF Inside, Holding
<1>2. ASSUME NEW p \in Procs, NEW id \in Pids, Launch(p, id) PROVE LockInv'
  <2>1. \A c \in Callers : ~Inside(c) /\ ~Holding(c)
    BY <1>2 DEF Launch, OneProcess, Up, Holding
  <2>2. LockTypeOK' BY <1>2 DEF Launch, Counted, Places
  <2> QED BY <2>1, <2>2, <1>2 DEF Launch, Inside, Holding, Places
<1>3. ASSUME NEW id \in Pids, OtherStarts(id) \/ OtherEnds(id) PROVE LockInv'
  <2>1. LockTypeOK' BY <1>3 DEF OtherStarts, OtherEnds, Counted
  <2>2. UNCHANGED <<file, pc, mu, pid>> BY <1>3 DEF OtherStarts, OtherEnds
  <2> QED BY <2>1, <2>2 DEF Inside, Holding, Up
<1> QED BY <1>1, <1>2, <1>3 DEF System

\* The invariant behind the lock, for one process: what of it needs signals that
\* probe says so.
THEOREM LockInvCorrect == ASSUME OneProcess PROVE LockSpec => []LockInv
<1>1. LockInv /\ [LockNext]_lockVars => LockInv'
  <2> SUFFICES ASSUME LockInv, [LockNext]_lockVars PROVE LockInv' OBVIOUS
  <2>1. CASE UNCHANGED lockVars
    BY <2>1 DEF lockVars, callerVars, procVars, LockInv, LockTypeOK, Inside, Holding, Up
  <2>2. CASE System BY <2>2, SystemStepInv
  <2>3. CASE \E c \in Callers : Step(c) BY <2>3, CallerStepInv
  <2> QED BY <2>1, <2>2, <2>3 DEF LockNext
<1> QED BY <1>1, LockInitInv, PTL DEF LockSpec

\* Two writing steps of one process never work in the workspace at once,
\* whatever crashed before and whichever ids were reused. Not so on Windows, where
\* the lock of a live process is removed as stale.
THEOREM MutualExclusionCorrect ==
  ASSUME OneProcess, SignalsProbe PROVE LockSpec => []MutualExclusion
<1>1. LockInv => MutualExclusion
  BY DEF LockInv, MutualExclusion
<1> QED BY <1>1, LockInvCorrect, PTL

\* A step that ends lets the next one in: what a holder finds when it releases
\* is its own file, whatever was removed as stale or died before. Not so on
\* Windows, where it may find the file of the caller that removed its own.
THEOREM ReleaseCorrect ==
  ASSUME OneProcess, SignalsProbe PROVE LockSpec => ReleaseFreesWorkspace
<1> DEFINE Freed ==
      \A c \in Callers : Holding(c) /\ pc'[c] = "idle" /\ Up(Home[c])' => file' = Absent
<1>1. LockInv /\ [LockNext]_lockVars => [Freed]_lockVars
  <2> SUFFICES ASSUME LockInv, [LockNext]_lockVars, NEW c \in Callers,
                      Holding(c), pc'[c] = "idle", Up(Home[c])'
               PROVE  file' = Absent
    OBVIOUS
  <2> USE LockAssumption DEF LockAssumption, LockInv, LockTypeOK
  <2>1. ~System
    <3>1. \A p \in Procs : ~Die(p)
      BY DEF Die, OneProcess, Up
    <3>2. pc'[c] = pc[c] => pc'[c] # "idle"
      BY DEF Holding
    <3> QED
      BY <3>1, <3>2 DEF System, Launch, OtherStarts, OtherEnds, callerVars
  <2>2. pc'[c] # pc[c]
    BY DEF Holding
  <2>3. PICK d \in Callers : Step(d)
    BY <2>1, <2>2 DEF LockNext, lockVars, callerVars
  <2>4. d = c
    BY <2>2, <2>3 DEF Step, Begin, Create, Write, Read, RemoveStale, BeginRelease, Check,
       Unlink, Go, Leave
  <2>5. Owns(c)
    BY DEF Owns
  <2>6. Unlink(c)
    BY <2>3, <2>4, <2>5 DEF Step, Begin, Create, Write, Read, RemoveStale, BeginRelease,
       Check, Go, Leave, Holding
  <2> QED
    BY <2>6 DEF Unlink
<1> QED
  BY <1>1, LockInvCorrect, PTL DEF LockSpec, ReleaseFreesWorkspace
===============================================================================
