------------------------------ MODULE TaskQueue ------------------------------
(***************************************************************************)
(* The task queue of one workspace (internal/service/desktop/queue.go):    *)
(* task records on disk, their runs, the goroutines that drive those runs, *)
(* the serialised pass that picks the next task, the user who starts,      *)
(* enqueues, resumes, cancels and deletes tasks, and the death and         *)
(* relaunch of the process.                                                *)
(*                                                                         *)
(* Task records have no revision. UpdateTaskStatus and DeleteTask change   *)
(* the record they find; the pass writes back whole records it read when   *)
(* it began. What a drive does inside is RunScheduler's matter: here it    *)
(* ends completed or paused, and writes its task or fails to.              *)
(* One run per task: a second start of the same task is not modelled.      *)
(***************************************************************************)
EXTENDS Naturals, FiniteSets

CONSTANTS
  Tasks,        \* tasks of the workspace
  Immediate,    \* bound: the tasks the user starts at once; the others are enqueued
  NoTask,       \* the pass has chosen no task
  MaxWanted,    \* bound: callers that wait for the pass in progress
  MaxEvents     \* bound: resumes, cancellations, deletions, crashes and drives
                \* that end without writing their task, together

ASSUME QueueAssumption ==
  /\ IsFiniteSet(Tasks) /\ Immediate \subseteq Tasks
  /\ NoTask \notin Tasks
  /\ MaxWanted \in Nat \ {0}
  /\ MaxEvents \in Nat

VARIABLES
  tasks,       \* the task records on disk
  runs,        \* the status of each task's run on disk
  drive,       \* where the goroutine of the run (or its starter) is
  cancelling,  \* cancelled runs whose task has not been written yet
  deleting,    \* tasks that passed DeleteTask's test of activity
  wanted,      \* callers of reconcileWorkspaceQueue that wait for queueMu
  phase,       \* where the pass that holds queueMu is
  seen,        \* the records the pass listed
  chosen,      \* the task it makes the active head
  system,      \* the process serves its user, or repairs interrupted runs
  events       \* counter of the bound

diskVars  == <<tasks, runs>>
callVars  == <<cancelling, deleting>>
passVars  == <<phase, seen, chosen>>
vars == <<diskVars, drive, callVars, wanted, passVars, system, events>>

\* Status "failed" is declared and never written.
Statuses == {"ready", "queued", "running", "paused", "completed", "cancelled"}
QueueStates == {"none", "waiting", "active", "superseded"}

\* `at` is the place in the order of EnqueuedAt; times are taken to differ.
Task == [status : Statuses, mode : {"immediate", "queued"}, queue : QueueStates,
         at : Nat, deleted : BOOLEAN]

RunStatuses == {"none", "running", "paused", "completed", "cancelled"}
Drives == {"none", "starting", "driving", "settled", "ending",
           "resuming", "resumed", "recovered"}
Phases == {"idle", "releasing", "starting", "started"}

\* domaintasks.Validate: a queued task has a place in the queue.
Valid(task) == task.status = "queued" => task.mode = "queued" /\ task.queue # "none"

TypeOK ==
  /\ tasks \in [Tasks -> Task] /\ \A t \in Tasks : Valid(tasks[t])
  /\ runs \in [Tasks -> RunStatuses]
  /\ drive \in [Tasks -> Drives]
  /\ cancelling \in SUBSET Tasks /\ deleting \in SUBSET Tasks
  /\ wanted \in 0..MaxWanted
  /\ phase \in Phases
  /\ DOMAIN seen \subseteq Tasks /\ seen \in [DOMAIN seen -> Task]
  /\ chosen \in Tasks \cup {NoTask}
  /\ system \in {"up", "recovering"}
  /\ events \in 0..MaxEvents

\* A task as CreateTask saves it.
FreshTask ==
  [status |-> "ready", mode |-> "immediate", queue |-> "none", at |-> 0, deleted |-> FALSE]

NoRecords == [t \in {} |-> FreshTask]

Init ==
  /\ tasks = [t \in Tasks |-> FreshTask]
  /\ runs = [t \in Tasks |-> "none"]
  /\ drive = [t \in Tasks |-> "none"]
  /\ cancelling = {} /\ deleting = {}
  /\ wanted = 0
  /\ phase = "idle" /\ seen = NoRecords /\ chosen = NoTask
  /\ system = "up"
  /\ events = 0

-------------------------------------------------------------------------------
(***************************************************************************)
(* What the records say.                                                   *)
(***************************************************************************)
Shown(t) == system = "up" /\ ~tasks[t].deleted

\* a.active holds the run.
IsActive(t) == drive[t] \in {"driving", "settled", "ending", "resuming", "resumed"}

Finished(task) == task.status \in {"completed", "cancelled"}

\* The record keeps the workspace from the next queued task.
Holds(task) ==
  \/ task.mode = "immediate" /\ task.status \in {"running", "paused"}
  \/ task.queue = "active" /\ task.status \in {"running", "paused", "ready"}

\* Its mode is queued: Valid. Its workspace is the queue's.
Candidate(task) == task.status = "queued" /\ task.queue = "waiting"

Releasable(task) == task.queue = "active" /\ Finished(task)

Waiting(t) == ~tasks[t].deleted /\ Candidate(tasks[t])

\* A caller more waits for queueMu; those beyond MaxWanted are taken as one.
OneMore == IF wanted < MaxWanted THEN wanted + 1 ELSE wanted

Event == events < MaxEvents /\ events' = events + 1

\* UpdateTaskStatus.
WithStatus(t, status) == [tasks EXCEPT ![t].status = status]

-------------------------------------------------------------------------------
(***************************************************************************)
(* The user starts a task at once, or puts it at the end of the queue. The *)
(* window enqueues a task right after creating it, and never starts one    *)
(* that shows as queued. EnqueueTask also takes a task that is already     *)
(* queued, or a ready head; nothing in the program asks for that.          *)
(***************************************************************************)
StartRun(t) ==
  /\ Shown(t)
  /\ tasks[t].status # "queued" /\ (t \in Immediate \/ tasks[t].mode = "queued")
  /\ runs[t] = "none" /\ chosen # t
  /\ runs' = [runs EXCEPT ![t] = "running"]
  /\ drive' = [drive EXCEPT ![t] = "starting"]
  /\ UNCHANGED <<tasks, callVars, wanted, passVars, system, events>>

\* The tasks that have been enqueued, and the place after them.
Placed == {t \in Tasks : tasks[t].queue # "none"}
LastPlace == 1 + Cardinality(Placed)

Enqueued(t) ==
  [tasks[t] EXCEPT !.status = "queued", !.mode = "queued", !.queue = "waiting", !.at = LastPlace]

EnqueueTask(t) ==
  /\ Shown(t)
  /\ t \notin Immediate
  /\ tasks[t] = FreshTask
  /\ runs[t] = "none"
  /\ tasks' = [tasks EXCEPT ![t] = Enqueued(t)]
  /\ wanted' = OneMore
  /\ UNCHANGED <<runs, drive, callVars, passVars, system, events>>

-------------------------------------------------------------------------------
(***************************************************************************)
(* A run from its dispatch to the end of its goroutine.                    *)
(***************************************************************************)
MarkRunning(t) ==
  /\ drive[t] \in {"starting", "resumed"}
  /\ tasks' = WithStatus(t, "running")
  /\ drive' = [drive EXCEPT ![t] = "driving"]
  /\ UNCHANGED <<runs, callVars, wanted, passVars, system, events>>

\* The scheduler writes the run completed or paused.
Settle(t) ==
  /\ drive[t] = "driving"
  /\ \E status \in {"completed", "paused"} : runs' = [runs EXCEPT ![t] = status]
  /\ drive' = [drive EXCEPT ![t] = "settled"]
  /\ UNCHANGED <<tasks, callVars, wanted, passVars, system, events>>

\* Its context has ended and a read or a write fails: the run stays running.
Abandon(t) ==
  /\ drive[t] = "driving"
  /\ Event
  /\ drive' = [drive EXCEPT ![t] = "ending"]
  /\ UNCHANGED <<diskVars, callVars, wanted, passVars, system>>

MarkTask(t) ==
  /\ drive[t] = "settled"
  /\ tasks' = WithStatus(t, runs[t])
  /\ drive' = [drive EXCEPT ![t] = "ending"]
  /\ UNCHANGED <<runs, callVars, wanted, passVars, system, events>>

\* pause finds the run no longer running and leaves the task as it is.
SkipTask(t) ==
  /\ drive[t] = "settled"
  /\ Event
  /\ drive' = [drive EXCEPT ![t] = "ending"]
  /\ UNCHANGED <<diskVars, callVars, wanted, passVars, system>>

\* Fault: the end of a run does not ask for a pass.
UndispatchQuietly(t) ==
  /\ drive[t] = "ending"
  /\ drive' = [drive EXCEPT ![t] = "none"]
  /\ UNCHANGED <<diskVars, callVars, wanted, passVars, system, events>>

\* The goroutine removes the run from a.active and asks for a pass. The
\* resume of a pending follow-up in between is a ResumeRun like the user's.
Undispatch(t) ==
  /\ drive[t] = "ending"
  /\ drive' = [drive EXCEPT ![t] = "none"]
  /\ wanted' = OneMore
  /\ UNCHANGED <<diskVars, callVars, passVars, system, events>>

ResumeRun(t) ==
  /\ Shown(t)
  /\ runs[t] \in {"paused", "completed"}
  /\ drive[t] = "none"
  /\ Event
  /\ drive' = [drive EXCEPT ![t] = "resuming"]
  /\ UNCHANGED <<diskVars, callVars, wanted, passVars, system>>

\* ResumeRunWithProfile writes the run before its task.
EnterRun(t) ==
  /\ drive[t] = "resuming"
  /\ runs[t] # "cancelled"
  /\ runs' = [runs EXCEPT ![t] = "running"]
  /\ drive' = [drive EXCEPT ![t] = "resumed"]
  /\ UNCHANGED <<tasks, callVars, wanted, passVars, system, events>>

\* Settings are refused, or the run has been cancelled since the test.
ResumeFails(t) ==
  /\ drive[t] = "resuming"
  /\ drive' = [drive EXCEPT ![t] = "ending"]
  /\ UNCHANGED <<diskVars, callVars, wanted, passVars, system, events>>

-------------------------------------------------------------------------------
(***************************************************************************)
(* Cancelling and deleting test that the run is not active and act later.  *)
(***************************************************************************)
\* The test of a.active may precede a dispatch that has not written yet.
CancelRun(t) ==
  /\ Shown(t)
  /\ runs[t] = "paused"
  /\ drive[t] \in {"none", "resuming"}
  /\ Event
  /\ runs' = [runs EXCEPT ![t] = "cancelled"]
  /\ cancelling' = cancelling \cup {t}
  /\ UNCHANGED <<tasks, drive, deleting, wanted, passVars, system>>

MarkCancelled(t) ==
  /\ t \in cancelling
  /\ tasks' = WithStatus(t, "cancelled")
  /\ cancelling' = cancelling \ {t}
  /\ wanted' = OneMore
  /\ UNCHANGED <<runs, drive, deleting, passVars, system, events>>

CheckDelete(t) ==
  /\ Shown(t)
  /\ ~IsActive(t) /\ runs[t] # "running"
  /\ t \notin deleting
  /\ Event
  /\ deleting' = deleting \cup {t}
  /\ UNCHANGED <<diskVars, drive, cancelling, wanted, passVars, system>>

DeleteTask(t) ==
  /\ t \in deleting
  /\ tasks' = [tasks EXCEPT ![t].deleted = TRUE]
  /\ deleting' = deleting \ {t}
  /\ wanted' = OneMore
  /\ UNCHANGED <<runs, drive, cancelling, passVars, system, events>>

-------------------------------------------------------------------------------
(***************************************************************************)
(* reconcileWorkspaceQueue: one pass at a time. It lists the records once  *)
(* and decides, and writes, from that list.                                *)
(***************************************************************************)
StartPass ==
  /\ system = "up"
  /\ phase = "idle" /\ wanted > 0
  /\ wanted' = wanted - 1
  /\ phase' = "releasing"
  /\ seen' = [t \in {u \in Tasks : ~tasks[u].deleted} |-> tasks[t]]
  /\ UNCHANGED <<diskVars, drive, callVars, chosen, system, events>>

\* The whole record goes back, whatever has changed on disk since.
Release(t) ==
  /\ phase = "releasing"
  /\ t \in DOMAIN seen /\ Releasable(seen[t])
  /\ seen' = [seen EXCEPT ![t].queue = "superseded"]
  /\ tasks' = [tasks EXCEPT ![t] = seen'[t]]
  /\ UNCHANGED <<runs, drive, callVars, wanted, phase, chosen, system, events>>

AllReleased == phase = "releasing" /\ \A t \in DOMAIN seen : ~Releasable(seen[t])

Busy == \E t \in DOMAIN seen : Holds(seen[t])

Candidates == {t \in DOMAIN seen : Candidate(seen[t])}

\* Fault: the order of the list, most recently updated first.
FirstListed(t) == t \in Candidates /\ \A u \in Candidates : seen[t].at >= seen[u].at

\* The order of the candidates: EnqueuedAt.
First(t) == t \in Candidates /\ \A u \in Candidates : seen[t].at <= seen[u].at

ChooseHead(t) ==
  /\ AllReleased /\ ~Busy /\ First(t)
  /\ tasks' = [tasks EXCEPT ![t] = [seen[t] EXCEPT !.status = "ready", !.queue = "active"]]
  /\ chosen' = t
  /\ phase' = "starting"
  /\ UNCHANGED <<runs, drive, callVars, wanted, seen, system, events>>

PassEnds ==
  /\ phase' = "idle" /\ seen' = NoRecords /\ chosen' = NoTask
  /\ UNCHANGED <<runs, drive, callVars, wanted, system, events>>

LeaveQueue ==
  /\ AllReleased /\ (Busy \/ Candidates = {})
  /\ PassEnds
  /\ UNCHANGED tasks

StartHead ==
  /\ phase = "starting"
  /\ runs' = [runs EXCEPT ![chosen] = "running"]
  /\ drive' = [drive EXCEPT ![chosen] = "starting"]
  /\ phase' = "started"
  /\ UNCHANGED <<tasks, callVars, wanted, seen, chosen, system, events>>

\* Settings, the definition or the workspace are refused.
StartHeadFails ==
  /\ phase = "starting"
  /\ tasks' = [tasks EXCEPT ![chosen] = [seen[chosen] EXCEPT !.status = "paused", !.queue = "active"]]
  /\ PassEnds

HeadStarted ==
  /\ phase = "started"
  /\ drive[chosen] # "starting"
  /\ PassEnds
  /\ UNCHANGED tasks

-------------------------------------------------------------------------------
(***************************************************************************)
(* The process dies and is launched again: RecoverInterruptedRuns pauses   *)
(* every run left running, then asks for a pass.                           *)
(***************************************************************************)
Crash ==
  /\ Event
  /\ system' = "recovering"
  /\ drive' = [t \in Tasks |-> "none"]
  /\ cancelling' = {} /\ deleting' = {}
  /\ wanted' = 0
  /\ phase' = "idle" /\ seen' = NoRecords /\ chosen' = NoTask
  /\ UNCHANGED diskVars

RecoverRun(t) ==
  /\ system = "recovering"
  /\ \A u \in Tasks : drive[u] = "none"
  /\ runs[t] = "running"
  /\ runs' = [runs EXCEPT ![t] = "paused"]
  /\ drive' = [drive EXCEPT ![t] = "recovered"]
  /\ UNCHANGED <<tasks, callVars, wanted, passVars, system, events>>

MarkRecovered(t) ==
  /\ drive[t] = "recovered"
  /\ tasks' = WithStatus(t, "paused")
  /\ drive' = [drive EXCEPT ![t] = "none"]
  /\ UNCHANGED <<runs, callVars, wanted, passVars, system, events>>

Recovered ==
  /\ system = "recovering"
  /\ \A t \in Tasks : runs[t] # "running" /\ drive[t] = "none"
  /\ system' = "up"
  /\ wanted' = OneMore
  /\ UNCHANGED <<diskVars, drive, callVars, passVars, events>>

-------------------------------------------------------------------------------
User(t) == StartRun(t) \/ EnqueueTask(t) \/ ResumeRun(t) \/ CancelRun(t) \/ CheckDelete(t)

Drive(t) ==
  \/ MarkRunning(t) \/ MarkTask(t) \/ SkipTask(t) \/ Undispatch(t)
  \/ EnterRun(t) \/ ResumeFails(t)

Agent(t) == Settle(t) \/ Abandon(t)

Call(t) == MarkCancelled(t) \/ DeleteTask(t)

Pass ==
  \/ StartPass \/ LeaveQueue \/ StartHead \/ StartHeadFails \/ HeadStarted
  \/ \E t \in Tasks : Release(t) \/ ChooseHead(t)

Recovery == Crash \/ Recovered \/ \E t \in Tasks : RecoverRun(t) \/ MarkRecovered(t)

Next ==
  \/ \E t \in Tasks : User(t) \/ Drive(t) \/ Agent(t) \/ Call(t)
  \/ Pass
  \/ Recovery

Spec == Init /\ [][Next]_vars

\* Some goroutine of the service that can move does; nothing makes an agent
\* end, a user act or a dead process come back.
FairSpec == Spec /\ WF_vars(Pass \/ \E t \in Tasks : Drive(t) \/ Call(t))

-------------------------------------------------------------------------------
(***************************************************************************)
(* The inductive invariant of the queue.                                   *)
(***************************************************************************)
\* A goroutine exists only for a run that was started.
RunInv ==
  \A t \in Tasks :
    /\ drive[t] # "none" => runs[t] # "none"
    /\ drive[t] = "settled" => runs[t] \in {"completed", "paused"}
    /\ Candidate(tasks[t]) => runs[t] = "none"

IsHead(t) == tasks[t].queue = "active" /\ ~tasks[t].deleted

\* One head; a pass that releases has listed it; a pass that starts a task has
\* made it the head, or the task was deleted since.
HeadInv ==
  /\ \A t, u \in Tasks : IsHead(t) /\ IsHead(u) => t = u
  /\ \A t \in Tasks : tasks[t].queue = "active" => tasks[t].status # "queued"
  /\ \A t \in DOMAIN seen : seen[t].queue = "active" => seen[t].status # "queued"
  /\ phase = "releasing" =>
       \A t \in Tasks : IsHead(t) => t \in DOMAIN seen /\ seen[t].queue = "active"
  /\ phase = "starting" =>
       /\ chosen \in DOMAIN seen /\ Candidate(seen[chosen])
       /\ tasks[chosen].queue = "active"
       /\ \A t \in Tasks : IsHead(t) => t = chosen

\* Places are given once and never change; a task that waits is on the list of
\* the pass, or was enqueued behind everything on it.
LineInv ==
  /\ \A t \in Tasks : tasks[t].at <= Cardinality(Placed)
  /\ \A t \in DOMAIN seen :
       /\ seen[t].at <= Cardinality(Placed)
       /\ seen[t].queue # "none" => tasks[t].queue # "none" /\ tasks[t].at = seen[t].at
  /\ phase = "releasing" =>
       \A t \in Tasks : Waiting(t) =>
         \/ t \in DOMAIN seen /\ Candidate(seen[t])
         \/ \A u \in DOMAIN seen : seen[u].at < tasks[t].at

QueueInv == TypeOK /\ RunInv /\ HeadInv /\ LineInv

\* What the refinement needs beyond it: a waiting record stays queued, the list
\* of a pass that releases agrees with the disk on every place it has seen
\* given, and nobody who waits is before the task that is being started.
ListInv ==
  /\ \A t \in Tasks : tasks[t].queue = "waiting" => tasks[t].status = "queued"
  /\ \A t \in cancelling : runs[t] # "none"
  /\ \A t \in DOMAIN seen : ~seen[t].deleted
  /\ phase = "releasing" =>
       \A t \in DOMAIN seen : seen[t].queue # "none" => tasks[t].queue = seen[t].queue
  /\ phase = "starting" =>
       \A u \in Tasks : Waiting(u) => tasks[chosen].at <= tasks[u].at

-------------------------------------------------------------------------------
\* One task at a time is the active head: until it completes, is cancelled or
\* is deleted, no pass makes another task the head (queue.go:74-76), although
\* each pass decides from records that change while it runs.
AtMostOneHead ==
  \A t, u \in Tasks :
    /\ tasks[t].queue = "active" /\ ~tasks[t].deleted /\ ~Finished(tasks[t])
    /\ tasks[u].queue = "active" /\ ~tasks[u].deleted /\ ~Finished(tasks[u])
    => t = u

\* A task that waits has never run, so starting it starts it once: no stale
\* record a pass writes puts a started task back in line.
WaitingNeverRan == \A t \in Tasks : Candidate(tasks[t]) => runs[t] = "none"

\* A task becomes the head only when no task enqueued before it still waits,
\* whatever was enqueued or deleted while the pass ran.
QueueIsFifo ==
  [][\A t, u \in Tasks :
       tasks[t].queue = "waiting" /\ tasks'[t].queue = "active" /\ Waiting(u)
         => tasks[t].at <= tasks[u].at]_vars

\* A queue that nothing holds moves on: while tasks wait, the workspace has a head
\* again and again. Every end of a run, cancellation and deletion must have asked
\* for a pass that sees it.
QueueMoves ==
  []<>(system = "up" /\ (\E t \in Tasks : Waiting(t))
         => \E u \in Tasks : ~tasks[u].deleted /\ Holds(tasks[u]))

\* Only a completed or cancelled head leaves the queue to the next task. The
\* pass writes its old record over a head resumed in between.
ReleasedTaskIsFinished ==
  [][\A t \in Tasks :
       tasks[t].queue = "active" /\ tasks'[t].queue = "superseded" => Finished(tasks[t])]_vars
-------------------------------------------------------------------------------
\* The line and its head behind the records: a deleted task has left both.
Line == INSTANCE FifoQueue WITH
  line <- {t \in Tasks : Waiting(t)},
  ticket <- [t \in Tasks |-> tasks[t].at],
  head <- {t \in Tasks : IsHead(t)},
  gone <- {t \in Tasks : tasks[t].deleted}

\* The records, with passes that decide from old ones, implement one line with
\* one head: whatever is resumed, cancelled, deleted or lost in a crash.
ImplementsFifo == Line!Spec
===============================================================================
