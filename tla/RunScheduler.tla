---------------------------- MODULE RunScheduler -----------------------------
(***************************************************************************)
(* One run of one task: the scheduler goroutine that drives it             *)
(* (internal/usecase/workflows/scheduler.go), the operations that start,   *)
(* resume, recover and cancel it (usecase.go), the queue of human          *)
(* instructions it claims from (internal/repo/workflows/instructions.go),  *)
(* the goroutines that execute its steps, the user who interrupts it and   *)
(* writes to it, and the death of the process.                             *)
(*                                                                         *)
(* `run` and `task` are the records on disk; `queue` is the durable        *)
(* instruction queue. The scheduler's own copy of the run differs from the *)
(* record only by messages it has claimed and not yet written: `claimed`.  *)
(* Everything below `queue` is memory of the process and dies with it.     *)
(***************************************************************************)
EXTENDS WorkflowEngine

CONSTANTS
  Target,          \* the step each instruction names, or NoStep
  NoStep,
  MaxConcurrency,  \* steps in flight at once
  LoopModes,       \* loop settings a user may choose for the run
  MaxResumes,      \* bound: resumes in a behaviour
  MaxCrashes       \* bound: crashes in a behaviour

ASSUME SchedulerAssumption ==
  /\ NoStep \notin Steps
  /\ Target \in [Instructions -> Steps \cup {NoStep}]
  /\ MaxConcurrency \in Nat \ {0}
  /\ LoopModes \in SUBSET BOOLEAN
  /\ MaxResumes \in Nat
  /\ MaxCrashes \in Nat

VARIABLES
  run,              \* run.json
  task,             \* the task's status on disk
  queue,            \* instructions.json: the status of each instruction
  driver,           \* where the drive (or the operation on a stopped run) is
  ctxDone,          \* the drive's context has been cancelled
  inflight,         \* steps whose goroutine has not been received yet
  prompt,           \* the inbox each step in flight was started with
  result,           \* what a finished goroutine is waiting to hand over
  batch,            \* steps about to start
  claimed,          \* instructions claimed and not yet written to the run
  includeFollowUp,  \* this dispatch may still take one follow-up
  pauseReason,      \* infrastructure condition that stops the run
  ending,           \* how the drive left its loop
  resumes, crashes, \* counters of the two bounds
  read, lost        \* history: instructions some attempt was started with, and
                    \* instructions an abandoned write left behind

diskVars    == <<run, task, queue>>
stepVars    == <<inflight, prompt, result>>
claimVars   == <<batch, claimed, includeFollowUp>>
endVars     == <<pauseReason, ending>>
boundVars   == <<resumes, crashes>>
historyVars == <<read, lost>>
vars == <<diskVars, driver, ctxDone, stepVars, claimVars, endVars, boundVars, historyVars>>

TaskStatus == {"running", "paused", "completed", "cancelled"}
InstructionStatus == {"absent", "ready", "pending", "follow_up", "applied", "removed"}
DriveStates ==
  {"entering", "schedule", "starting", "claimed", "reopening", "delivering",
   "settling", "finishing"}
DriverStates == DriveStates \cup {"idle", "cancelling", "recovering", "down"}

\* What a step's goroutine reports. A protocol failure is a failure that also
\* earns the step a reminder; infra is a condition retrying cannot fix.
None == [kind |-> "none", target |-> NoStep]
Plain(kind) == [kind |-> kind, target |-> NoStep]
SentBack(t) == [kind |-> "rework", target |-> t]
Results ==
  {Plain(k) : k \in {"none", "pass", "ask_human", "failure", "protocol_failure",
                     "infra", "cancelled"}}
    \cup {SentBack(t) : t \in Steps}

Endings ==
  {"", "interrupted", "infrastructure", "blocked", "execution_settings_invalid",
   "paused", "completed"}

TypeOK ==
  /\ run \in Run
  /\ task \in TaskStatus
  /\ queue \in [Instructions -> InstructionStatus]
  /\ driver \in DriverStates
  /\ ctxDone \in BOOLEAN
  /\ inflight \in SUBSET Steps
  /\ prompt \in [Steps -> SUBSET Messages]
  /\ result \in [Steps -> Results]
  /\ batch \in SUBSET Steps
  /\ claimed \in SUBSET Instructions
  /\ includeFollowUp \in BOOLEAN
  /\ pauseReason \in {"", "infrastructure"}
  /\ ending \in Endings
  /\ resumes \in 0..MaxResumes
  /\ crashes \in 0..MaxCrashes
  /\ read \in SUBSET Instructions
  /\ lost \in SUBSET Instructions

-------------------------------------------------------------------------------
(***************************************************************************)
(* StartTask has written the run and the task, and ExecuteRun is loading   *)
(* them to drive the run.                                                  *)
(***************************************************************************)
Init ==
  /\ run \in {StartedRun(loop) : loop \in LoopModes}
  /\ task = "running"
  /\ queue = [i \in Instructions |-> "absent"]
  /\ driver = "entering"
  /\ ctxDone = FALSE
  /\ inflight = {}
  /\ prompt = [s \in Steps |-> {}]
  /\ result = [s \in Steps |-> None]
  /\ batch = {}
  /\ claimed = {}
  /\ includeFollowUp = FALSE
  /\ pauseReason = ""
  /\ ending = ""
  /\ resumes = 0
  /\ crashes = 0
  /\ read = {}
  /\ lost = {}

Driving == driver \in DriveStates

(***************************************************************************)
(* The context the steps run under. The code cancels it with the drive's   *)
(* own context and, after a result, when the run must stop; the conditions *)
(* it tests then hold until the drive returns.                             *)
(***************************************************************************)
StepsCancelled ==
  \/ ctxDone
  \/ pauseReason # ""
  \/ run.status \notin {"running", "completed"}

Live == ~ctxDone /\ pauseReason = ""

\* Memory a drive leaves behind when it returns or its process dies.
Forget ==
  /\ ctxDone' = FALSE
  /\ inflight' = {}
  /\ prompt' = [s \in Steps |-> {}]
  /\ result' = [s \in Steps |-> None]
  /\ batch' = {}
  /\ claimed' = {}
  /\ includeFollowUp' = FALSE
  /\ pauseReason' = ""
  /\ ending' = ""

\* The drive returns without writing the run: what it had claimed is gone.
Return(status) ==
  /\ Forget
  /\ driver' = "idle"
  /\ lost' = lost \cup claimed
  /\ task' = status
  /\ UNCHANGED <<run, queue, boundVars, read>>

Abandon == Return(task)

-------------------------------------------------------------------------------
(***************************************************************************)
(* Instructions. A claim takes everything ready or pending; when there is  *)
(* nothing and the dispatch may, it takes one follow-up.                   *)
(***************************************************************************)
BoundaryGuidance == {i \in Instructions : queue[i] \in {"ready", "pending"}}
FollowUps == {i \in Instructions : queue[i] = "follow_up"}

\* Fault: a follow-up joins any dispatch.
ClaimsAnyTime(withFollowUp) ==
  IF BoundaryGuidance # {} THEN {BoundaryGuidance}
  ELSE IF FollowUps # {} THEN {{i} : i \in FollowUps}
  ELSE {{}}

Claims(withFollowUp) ==
  IF BoundaryGuidance # {} THEN {BoundaryGuidance}
  ELSE IF withFollowUp /\ FollowUps # {} THEN {{i} : i \in FollowUps}
  ELSE {{}}

Claim(withFollowUp) ==
  \E items \in Claims(withFollowUp) :
    /\ claimed' = items
    /\ queue' = [i \in Instructions |-> IF i \in items THEN "applied" ELSE queue[i]]

\* Guidance that names a step goes to its inbox, the rest to the steps `to`.
DeliverClaimed(r, to) ==
  [r EXCEPT !.inbox =
     [s \in Steps |-> @[s] \cup {i \in claimed : Target[i] = s}
                           \cup IF s \in to THEN {i \in claimed : Target[i] = NoStep} ELSE {}]]

-------------------------------------------------------------------------------
(***************************************************************************)
(* The drive's loop. With the run running and nothing stopping it, start   *)
(* what is ready and fits; otherwise wait for a result; with nothing in    *)
(* flight, advance the outer loop, reopen steps that hold messages, or     *)
(* leave.                                                                  *)
(***************************************************************************)
Startable == ReadySteps(run) \ inflight

Room == MaxConcurrency - Cardinality(inflight)

Schedulable ==
  /\ driver = "schedule"
  /\ run.status = "running"
  /\ Live
  /\ Startable # {}

MayStart == Schedulable /\ Room > 0

\* The code takes the first ready steps in definition order; any order here.
ChooseBatch ==
  /\ MayStart
  /\ \E chosen \in SUBSET Startable :
       /\ Cardinality(chosen) =
            IF Cardinality(Startable) < Room THEN Cardinality(Startable) ELSE Room
       /\ batch' = chosen
  /\ driver' = "starting"
  /\ UNCHANGED <<diskVars, ctxDone, stepVars, claimed, includeFollowUp, endVars,
                 boundVars, historyVars>>

\* The settings of the ready steps, refreshed before the limit is looked at, do
\* not validate: the results in flight are drained unread and the run pauses.
RefuseSettings ==
  /\ Schedulable
  /\ inflight' = {}
  /\ prompt' = [s \in Steps |-> {}]
  /\ result' = [s \in Steps |-> None]
  /\ ending' = "execution_settings_invalid"
  /\ driver' = "settling"
  /\ UNCHANGED <<diskVars, ctxDone, claimVars, pauseReason, boundVars, historyVars>>

ClaimForBatch ==
  /\ driver = "starting"
  /\ ~ctxDone
  /\ Claim(includeFollowUp)
  /\ includeFollowUp' = FALSE
  /\ driver' = "claimed"
  /\ UNCHANGED <<run, task, ctxDone, stepVars, batch, endVars, boundVars, historyVars>>

\* One write delivers the messages and marks the batch running; then each
\* step's goroutine gets a snapshot of the run.
StartBatch ==
  /\ driver = "claimed"
  /\ ~ctxDone
  /\ LET delivered == DeliverClaimed(run, batch)
     IN  /\ run' = [delivered EXCEPT
                      !.node = [s \in Steps |-> IF s \in batch THEN "running" ELSE @[s]]]
         /\ prompt' = [s \in Steps |-> IF s \in batch THEN delivered.inbox[s] ELSE prompt[s]]
         /\ read' = read \cup {i \in Instructions : \E s \in batch : i \in delivered.inbox[s]}
  /\ inflight' = inflight \cup batch
  /\ batch' = {}
  /\ claimed' = {}
  /\ driver' = "schedule"
  /\ UNCHANGED <<task, queue, ctxDone, result, includeFollowUp, endVars, boundVars, lost>>

\* The context ended after it was tested: the claim or the write that uses it
\* fails and the drive returns the error.
AbandonStart ==
  /\ driver \in {"starting", "claimed"}
  /\ ctxDone
  /\ Abandon

-------------------------------------------------------------------------------
(***************************************************************************)
(* A step's goroutine. Under a cancelled context it only reports that;     *)
(* otherwise its agent or command decided.                                 *)
(***************************************************************************)
\* Fault: a goroutine whose context ends returns without reporting.
OutcomesUnreported(s) ==
  IF StepsCancelled THEN {}
  ELSE {Plain(k) : k \in {"pass", "ask_human", "failure", "protocol_failure", "infra"}}
         \cup {SentBack(t) : t \in ReworkTargets(s)}

Outcomes(s) ==
  IF StepsCancelled THEN {Plain("cancelled")}
  ELSE {Plain(k) : k \in {"pass", "ask_human", "failure", "protocol_failure", "infra"}}
         \cup {SentBack(t) : t \in ReworkTargets(s)}

FinishStep(s) ==
  /\ s \in inflight
  /\ result[s] = None
  /\ \E o \in Outcomes(s) : result' = [result EXCEPT ![s] = o]
  /\ UNCHANGED <<diskVars, driver, ctxDone, inflight, prompt, claimVars, endVars,
                 boundVars, historyVars>>

(***************************************************************************)
(* applyStepResult: the run after the result of s, before completion.      *)
(***************************************************************************)
Interrupted(o) == o.kind = "cancelled" \/ (o.kind = "infra" /\ ctxDone)

ApplyOutcome(r, s, o) ==
  IF r.status # "running" THEN RecordStepFailure(r, s)
  ELSE CASE o.kind = "pass" -> ApplyPass(r, s)
         [] o.kind = "ask_human" -> ApplyAskHuman(r, s)
         [] OTHER -> ApplyRework(r, s, o.target)

AfterResult(r, s, o) ==
  IF Interrupted(o) THEN [r EXCEPT !.node[s] = "pending"]
  ELSE CASE o.kind = "infra" -> [r EXCEPT !.node[s] = "paused"]
         [] o.kind = "failure" -> RecordStepFailure(r, s)
         [] o.kind = "protocol_failure" -> Deliver(RecordStepFailure(r, s), {s}, {Onecatch})
         [] OTHER -> ApplyOutcome(r, s, o)

\* The last verdict and completion land in one write.
\* Fault: a run completes as soon as no step is ready.
CompletionWhenNothingReady(r, reason) ==
  IF r.status = "running" /\ reason = "" /\ ReadySteps(r) = {}
  THEN [r EXCEPT !.status = "completed"]
  ELSE r

WithCompletion(r, reason) ==
  IF r.status = "running" /\ reason = "" /\ AllCompleted(r)
  THEN [r EXCEPT !.status = "completed"]
  ELSE r

ReceiveResult(s) ==
  /\ driver = "schedule"
  /\ ~MayStart
  /\ s \in inflight
  /\ result[s] # None
  /\ pauseReason' = IF result[s].kind = "infra" /\ ~Interrupted(result[s])
                    THEN "infrastructure" ELSE pauseReason
  /\ run' = WithCompletion(AfterResult(run, s, result[s]), pauseReason')
  /\ inflight' = inflight \ {s}
  /\ prompt' = [prompt EXCEPT ![s] = {}]
  /\ result' = [result EXCEPT ![s] = None]
  /\ UNCHANGED <<task, queue, driver, ctxDone, claimVars, ending, boundVars, historyVars>>

-------------------------------------------------------------------------------
Drained == driver = "schedule" /\ ~MayStart /\ inflight = {}

RoundOver == Drained /\ Live /\ run.loop /\ run.status = "completed"

StartNextRound ==
  /\ RoundOver
  /\ run' = NextLoopRound(run)
  /\ includeFollowUp' = TRUE
  /\ UNCHANGED <<task, queue, driver, ctxDone, stepVars, batch, claimed, endVars,
                 boundVars, historyVars>>

\* The definition or settings of the next round do not validate. The code
\* marks the completed run running so that it can pause it.
RefuseNextRound ==
  /\ RoundOver
  /\ run' = PauseRun(run, "execution_settings_invalid")
  /\ ending' = "execution_settings_invalid"
  /\ driver' = "finishing"
  /\ UNCHANGED <<task, queue, ctxDone, stepVars, claimVars, pauseReason, boundVars,
                 historyVars>>

\* Fault: a stopped run may reopen steps too.
MayReopenStopped == Drained /\ Live /\ ~RoundOver

\* Fault: a run that has completed is not looked at again.
MayReopenRunning == Drained /\ Live /\ ~RoundOver /\ run.status = "running"

MayReopen == Drained /\ Live /\ ~RoundOver /\ run.status \in {"running", "completed"}

LookForMessages ==
  /\ MayReopen
  /\ driver' = "reopening"
  /\ UNCHANGED <<diskVars, ctxDone, stepVars, claimVars, endVars, boundVars, historyVars>>

ClaimForReopen ==
  /\ driver = "reopening"
  /\ ~ctxDone
  /\ Claim(FALSE)
  /\ driver' = "delivering"
  /\ UNCHANGED <<run, task, ctxDone, stepVars, batch, includeFollowUp, endVars,
                 boundVars, historyVars>>

ReopenForMessages ==
  /\ driver = "delivering"
  /\ ~ctxDone
  /\ LET delivered == DeliverClaimed(run, SinkSteps)
     IN  /\ InboxReopened(delivered) # {}
         /\ run' = [Reopen(delivered, InboxReopened(delivered)) EXCEPT !.status = "running"]
  /\ claimed' = {}
  /\ driver' = "schedule"
  /\ UNCHANGED <<task, queue, ctxDone, stepVars, batch, includeFollowUp, endVars,
                 boundVars, historyVars>>

\* So do the claim, the event after one and the write; when there is neither an
\* event nor a write the drive goes on to leave.
AbandonReopen ==
  /\ ctxDone
  /\ \/ driver = "reopening"
     \/ driver = "delivering" /\ (claimed # {} \/ InboxReopened(run) # {})
  /\ Abandon

-------------------------------------------------------------------------------
(***************************************************************************)
(* Leaving the loop: which of the switch's cases applies.                  *)
(***************************************************************************)
EndingNow ==
  CASE ctxDone -> "interrupted"
    [] ~ctxDone /\ pauseReason # "" -> pauseReason
    [] Live /\ run.status = "running" -> "blocked"
    [] OTHER -> run.status

Leave ==
  /\ \/ Drained /\ ~RoundOver /\ ~MayReopen
     \/ driver = "delivering" /\ InboxReopened(DeliverClaimed(run, SinkSteps)) = {}
  /\ ending' = EndingNow
  /\ driver' = "settling"
  /\ UNCHANGED <<diskVars, ctxDone, stepVars, claimVars, pauseReason, boundVars, historyVars>>

\* An interrupted loop run that just completed is paused in its next round.
\* Fault: the pause writes the run without what was just claimed.
SettledWithoutClaims ==
  IF ending = "interrupted" /\ run.loop /\ run.status = "completed"
  THEN NextLoopRound(run) ELSE run

SettledRun ==
  LET r == IF ending = "interrupted" /\ run.loop /\ run.status = "completed"
           THEN NextLoopRound(run) ELSE run
  IN  DeliverClaimed(r, SinkSteps)

\* Interruption and refused settings are written under a context of their own.
Detached == ending \in {"interrupted", "execution_settings_invalid"}

PauseWrites == ending \notin {"paused", "completed"} /\ SettledRun.status = "running"

SettleRun ==
  /\ driver = "settling"
  /\ PauseWrites
  /\ Detached \/ ~ctxDone
  /\ run' = PauseRun(SettledRun, ending)
  /\ claimed' = {}
  /\ driver' = "finishing"
  /\ UNCHANGED <<task, queue, ctxDone, stepVars, batch, includeFollowUp, endVars,
                 boundVars, historyVars>>

\* pause returns at once when the run is no longer running, and the write
\* fails when its context has ended: either way the task keeps its status.
AbandonSettle ==
  /\ driver = "settling"
  /\ ending \notin {"paused", "completed"}
  /\ ~PauseWrites \/ (ctxDone /\ ~Detached)
  /\ Abandon

KeepRun ==
  /\ driver = "settling"
  /\ ending \in {"paused", "completed"}
  /\ driver' = "finishing"
  /\ UNCHANGED <<diskVars, ctxDone, stepVars, claimVars, endVars, boundVars, historyVars>>

SettleTask ==
  /\ driver = "finishing"
  /\ task' = IF ctxDone /\ ~Detached THEN task
             ELSE IF ending = "completed" THEN "completed" ELSE "paused"
  /\ Forget
  /\ driver' = "idle"
  /\ UNCHANGED <<run, queue, boundVars, historyVars>>

-------------------------------------------------------------------------------
(***************************************************************************)
(* Operations on a stopped run. The resumed drive first treats nodes that  *)
(* were left running as pending.                                           *)
(***************************************************************************)
\* Fault: a node left running keeps its status.
ResetNothing(r) == r

ResetRunning(r) == Reopen(r, {s \in Steps : r.node[s] = "running"})

ResumeBase(from) ==
  IF run.loop /\ run.status = "completed" /\ from = {}
  THEN [NextLoopRound(run) EXCEPT !.status = "paused"]
  ELSE run

ResumeRun(from, text) ==
  /\ driver = "idle"
  /\ run.status \in {"paused", "completed"}
  /\ resumes < MaxResumes
  /\ resumes' = resumes + 1
  /\ run' = ResetRunning(Resume(ResumeBase(from), from, text))
  /\ includeFollowUp' = /\ run.status = "completed"
                        /\ text = {}
                        /\ \A s \in Steps : run'.inbox[s] = {}
  /\ driver' = "entering"
  /\ UNCHANGED <<task, queue, ctxDone, stepVars, batch, claimed, endVars, crashes, historyVars>>

\* A resumed drive writes the task first; ExecuteRun finds it written.
EnterDrive ==
  /\ driver = "entering"
  /\ ~ctxDone
  /\ task' = "running"
  /\ driver' = "schedule"
  /\ UNCHANGED <<run, queue, ctxDone, stepVars, claimVars, endVars, boundVars, historyVars>>

\* The context ends before the task is written, before the event after it, or
\* before ExecuteRun has read what it drives.
AbandonEnter ==
  /\ driver = "entering"
  /\ ctxDone
  /\ \E status \in {task, "running"} : Return(status)

SetRunLoop(enabled) ==
  /\ driver = "idle"
  /\ run.status \in {"paused", "completed"}
  /\ run' = [run EXCEPT !.loop = enabled]
  /\ UNCHANGED <<task, queue, driver, ctxDone, stepVars, claimVars, endVars, boundVars,
                 historyVars>>

CancelRun ==
  /\ driver = "idle"
  /\ run.status = "paused"
  /\ run' = [run EXCEPT !.status = "cancelled", !.reason = ""]
  /\ driver' = "cancelling"
  /\ UNCHANGED <<task, queue, ctxDone, stepVars, claimVars, endVars, boundVars, historyVars>>

CancelTask ==
  /\ driver = "cancelling"
  /\ task' = "cancelled"
  /\ driver' = "idle"
  /\ UNCHANGED <<run, queue, ctxDone, stepVars, claimVars, endVars, boundVars, historyVars>>

-------------------------------------------------------------------------------
(***************************************************************************)
(* The user and the process.                                               *)
(***************************************************************************)
Interrupt ==
  /\ Driving
  /\ ~ctxDone
  /\ ctxDone' = TRUE
  /\ UNCHANGED <<diskVars, driver, stepVars, claimVars, endVars, boundVars, historyVars>>

\* The service refuses a follow-up while the run is paused, and every message
\* to a cancelled run.
Accepted(status) ==
  /\ run.status \in {"running", "paused", "completed"}
  /\ status = "follow_up" => run.status # "paused"

EnqueueInstruction(i, status) ==
  /\ driver # "down"
  /\ Accepted(status)
  /\ queue[i] = "absent"
  /\ queue' = [queue EXCEPT ![i] = status]
  /\ UNCHANGED <<run, task, driver, ctxDone, stepVars, claimVars, endVars, boundVars, historyVars>>

\* Steering makes a follow-up boundary guidance, and puts it back when the
\* interruption that goes with it fails.
UpdateInstructionMode(i, status) ==
  /\ driver # "down"
  /\ queue[i] \in {"pending", "follow_up"}
  /\ status \in {"pending", "follow_up"}
  /\ queue' = [queue EXCEPT ![i] = status]
  /\ UNCHANGED <<run, task, driver, ctxDone, stepVars, claimVars, endVars, boundVars, historyVars>>

RemoveInstruction(i) ==
  /\ driver # "down"
  /\ queue[i] \in {"pending", "follow_up"}
  /\ queue' = [queue EXCEPT ![i] = "removed"]
  /\ UNCHANGED <<run, task, driver, ctxDone, stepVars, claimVars, endVars, boundVars, historyVars>>

Crash ==
  /\ driver # "down"
  /\ crashes < MaxCrashes
  /\ crashes' = crashes + 1
  /\ Forget
  /\ driver' = "down"
  /\ lost' = lost \cup claimed
  /\ UNCHANGED <<diskVars, resumes, read>>

\* RecoverRun at the next launch; it looks only at runs still marked running.
RecoverRun ==
  /\ driver = "down"
  /\ IF run.status = "running"
     THEN run' = PauseRun(ResetRunning(run), "interrupted") /\ driver' = "recovering"
     ELSE run' = run /\ driver' = "idle"
  /\ UNCHANGED <<task, queue, ctxDone, stepVars, claimVars, endVars, boundVars, historyVars>>

RecoverTask ==
  /\ driver = "recovering"
  /\ task' = "paused"
  /\ driver' = "idle"
  /\ UNCHANGED <<run, queue, ctxDone, stepVars, claimVars, endVars, boundVars, historyVars>>

-------------------------------------------------------------------------------
Schedule ==
  \/ ChooseBatch \/ ClaimForBatch \/ StartBatch \/ AbandonStart
  \/ \E s \in Steps : ReceiveResult(s)
  \/ StartNextRound
  \/ LookForMessages \/ ClaimForReopen \/ ReopenForMessages \/ AbandonReopen
  \/ Leave \/ SettleRun \/ AbandonSettle \/ KeepRun \/ SettleTask
  \/ EnterDrive \/ AbandonEnter

Operate ==
  \/ RefuseSettings \/ RefuseNextRound
  \/ \E from \in {{}} \cup {{s} : s \in Steps}, text \in {{}, {Human}} : ResumeRun(from, text)
  \/ \E enabled \in LoopModes : SetRunLoop(enabled)
  \/ CancelRun \/ CancelTask \/ Interrupt
  \/ \E i \in Instructions, status \in {"ready", "pending", "follow_up"} :
       EnqueueInstruction(i, status) \/ UpdateInstructionMode(i, status)
  \/ \E i \in Instructions : RemoveInstruction(i)
  \/ Crash \/ RecoverRun \/ RecoverTask

Next == Schedule \/ Operate \/ \E s \in Steps : FinishStep(s)

Spec == Init /\ [][Next]_vars

(***************************************************************************)
(* The scheduler goroutine keeps running while its process lives, and a    *)
(* step's goroutine returns: its context carries the step timeout, and the *)
(* engine stops its process when the context ends.                         *)
(***************************************************************************)
Fairness ==
  /\ WF_vars(Schedule)
  /\ \A s \in Steps : WF_vars(FinishStep(s))

FairSpec == Spec /\ Fairness

-------------------------------------------------------------------------------
(***************************************************************************)
(* A completed run has passed every step and has nothing in flight: no     *)
(* rework, reopening or late result may complete it around a step that     *)
(* still runs (drive relies on it when it does not cancel the steps of a   *)
(* run that completed).                                                    *)
(***************************************************************************)
CompletionLeavesNothingRunning ==
  run.status = "completed" => AllCompleted(run) /\ inflight = {}

(***************************************************************************)
(* While steps are scheduled, a node marked running has a goroutine, and a *)
(* node with a goroutine is running or was sent back to pending by a       *)
(* sibling; it never counts as passed or paused.                           *)
(***************************************************************************)
NodeStatusTracksExecution ==
  /\ \A s \in inflight : run.node[s] \in {"running", "pending"}
  /\ driver \in {"schedule", "starting", "claimed", "reopening", "delivering"} =>
       \A s \in Steps : run.node[s] = "running" => s \in inflight

(***************************************************************************)
(* What holds between the scheduler's steps and makes the two properties   *)
(* above inductive: which statuses the run can have at each point of the   *)
(* drive, that only a scheduling drive has goroutines, and that a resumed  *)
(* run has no node left running.                                           *)
(***************************************************************************)
ControlInv ==
  /\ Driving => run.status # "cancelled"
  /\ driver \in {"starting", "claimed"} => run.status = "running" /\ batch # {}
  /\ driver \in {"reopening", "delivering"} => run.status \in {"running", "completed"}
  /\ driver \notin {"schedule", "starting", "claimed"} => inflight = {}
  /\ driver = "entering" => \A s \in Steps : run.node[s] # "running"
  /\ CompletionLeavesNothingRunning
  /\ NodeStatusTracksExecution

(***************************************************************************)
(* A run whose task is reported completed has no unread message in any     *)
(* step's inbox: reopenForMessages runs it again "instead of finishing     *)
(* with unread input".                                                     *)
(***************************************************************************)
FinishedRunHasNoMail ==
  driver = "idle" /\ task = "completed" /\ run.status = "completed" =>
    \A s \in Steps : run.inbox[s] = {}

(***************************************************************************)
(* Guidance that names no step, once claimed, reaches the prompt of some   *)
(* attempt or still waits in an inbox, across pauses, interrupts, failures *)
(* and restarts. Only a drive that ends between the claim and the write of *)
(* the run leaves it behind.                                               *)
(***************************************************************************)
GuidanceIsNotLost ==
  \A i \in Instructions :
    (Target[i] = NoStep /\ queue[i] = "applied") =>
      \/ i \in claimed \cup read \cup lost
      \/ \E s \in Steps : i \in run.inbox[s]

(***************************************************************************)
(* Why it is not lost: a claim waits for a write only at three points of   *)
(* the drive, never past a decision to finish without that write; and an   *)
(* unread message sits with a step that is not in flight, whose next       *)
(* attempt will be given it before a verdict can clear it. A follow-up is  *)
(* still to be taken only while nothing is in flight.                      *)
(***************************************************************************)
ClaimInv ==
  /\ claimed # {} => driver \in {"claimed", "delivering", "settling"}
  /\ driver = "settling" /\ claimed # {} => ending \notin {"paused", "completed"}
  /\ includeFollowUp => inflight = {}
  /\ driver = "claimed" => ~includeFollowUp
  /\ \A i \in Instructions :
       (Target[i] = NoStep /\ queue[i] = "applied") =>
         \/ i \in claimed \cup read \cup lost
         \/ \E s \in Steps \ inflight : i \in run.inbox[s]

(***************************************************************************)
(* What the two records say of each other at each point of a drive and     *)
(* between drives: a drive in progress shows a running task, it ends for   *)
(* the status its run has, and no run is told completed over unread mail.  *)
(***************************************************************************)
NoMail == \A s \in Steps : run.inbox[s] = {}

RecordInv ==
  /\ driver = "entering" => run.status = "running"
  /\ driver = "cancelling" => run.status = "cancelled"
  /\ driver \in DriveStates \ {"entering"} => task = "running"
  /\ driver = "settling" /\ ending \in {"paused", "completed"} => run.status = ending
  /\ driver = "finishing" =>
       run.status = IF ending = "completed" THEN "completed" ELSE "paused"
  /\ driver \in {"settling", "finishing"} /\ ending = "completed" => NoMail
  /\ ~Driving /\ task = "completed" /\ run.status = "completed" => NoMail

(***************************************************************************)
(* Why a run whose outer loop stays off has work when it is paused: it     *)
(* completes in the write that passes its last step, and what made it      *)
(* pause left a step unpassed that no result still to come can pass.       *)
(***************************************************************************)
WorkInv ==
  /\ ~run.loop
  /\ run.status \in {"running", "paused"} => ~AllCompleted(run)
  /\ run.status = "paused" \/ pauseReason # "" =>
       \E s \in Steps \ inflight : run.node[s] # "completed"
  /\ driver \in {"starting", "claimed"} => pauseReason = ""

(***************************************************************************)
(* A paused run has something left to do, so resuming it makes progress.   *)
(***************************************************************************)
PausedRunHasWork ==
  driver = "idle" /\ run.status = "paused" => ~AllCompleted(run)

(***************************************************************************)
(* Once paused, a run runs again only because someone resumed it: results  *)
(* that siblings report late, a recovery or a claim never restart it. A    *)
(* cancelled run never changes again.                                      *)
(***************************************************************************)
OnlyResumeRestarts ==
  [][/\ run.status = "paused" /\ run'.status # "paused" => driver = "idle"
     /\ run.status = "cancelled" => run' = run]_vars

(***************************************************************************)
(* A message leaves a step's inbox only when that step returns a verdict:  *)
(* a failed, interrupted or cancelled attempt, a sibling's result, a       *)
(* resume, a new round or a recovery keeps it.                             *)
(***************************************************************************)
InboxClearedOnlyByVerdict ==
  [][\A s \in Steps :
       ~(run.inbox[s] \subseteq run'.inbox[s]) =>
         s \in inflight /\ result[s].kind \in {"pass", "ask_human", "rework"}]_vars

(***************************************************************************)
(* A follow-up waits for a turn of its own: it is claimed alone and with   *)
(* no step in flight ("Follow-ups never join a turn already in flight").   *)
(***************************************************************************)
FollowUpStartsATurn ==
  [][\A i \in Instructions :
       queue[i] = "follow_up" /\ queue'[i] = "applied" => inflight = {} /\ claimed' = {i}]_vars

(***************************************************************************)
(* Every drive ends or completes a round: the rework and failure budgets   *)
(* leave no way for steps to send each other back for ever, and nothing    *)
(* the scheduler waits for fails to come.                                  *)
(***************************************************************************)
RoundEnds == Driving ~> (~Driving \/ run.status = "completed")

(***************************************************************************)
(* An interrupted drive stops, also in a run that loops for ever.          *)
(***************************************************************************)
InterruptStops == (Driving /\ ctxDone) ~> ~Driving

-------------------------------------------------------------------------------
(***************************************************************************)
(* The run and its task as the rest of the program sees them: the steps,   *)
(* messages and claims disappear, a drive is one stage until it settles.   *)
(***************************************************************************)
Stage ==
  CASE driver = "entering" -> "entering"
    [] driver = "finishing" -> "settled"
    [] driver \in DriveStates \ {"entering", "finishing"} -> "driving"
    [] driver = "recovering" -> "recovering"
    [] driver = "down" /\ run.status = "running" -> "down"
    [] OTHER -> "idle"

Lifecycle == INSTANCE RunLifecycle WITH status <- run.status, task <- task, stage <- Stage

(***************************************************************************)
(* The scheduler with its operations implements RunLifecycle: whatever     *)
(* steps, siblings, messages, interrupts and crashes do, the statuses that *)
(* the queue, the window and the user act on change only as it says.       *)
(***************************************************************************)
ImplementsLifecycle == Lifecycle!Spec

-------------------------------------------------------------------------------
(***************************************************************************)
(* Statements of the repository that the code does not keep; each is       *)
(* checked by a run of its own that finds the behaviour.                   *)
(***************************************************************************)

(***************************************************************************)
(* NodeState: the inbox "holds messages the step has not yet acted on".    *)
(* So an attempt's verdict takes away only what that attempt was given.    *)
(***************************************************************************)
UnreadMessagesAreKept ==
  [][\A s \in Steps : run.inbox[s] \ run'.inbox[s] \subseteq prompt[s]]_vars

(***************************************************************************)
(* Cancel: running processes "must first be interrupted and persisted as   *)
(* paused". So a drive that has returned does not leave a running run.     *)
(***************************************************************************)
InterruptedRunIsPersistedAsPaused ==
  driver = "idle" => run.status # "running"

(***************************************************************************)
(* Completed and cancelled tasks release the workspace's queue and paused  *)
(* ones hold it, so the task's status is that of its stopped run.          *)
(***************************************************************************)
TaskFollowsRun ==
  driver = "idle" /\ run.status # "running" => task = run.status

(***************************************************************************)
(* "Steps that may run in parallel cannot both write the workspace": what  *)
(* Validate accepts never has two write steps in flight.                   *)
(***************************************************************************)
WritersNeverOverlap ==
  \A s, t \in inflight \cap Writers : s = t

===============================================================================
