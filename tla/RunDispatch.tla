------------------------------ MODULE RunDispatch -----------------------------
(***************************************************************************)
(* One run in the desktop service: who executes it, who may stop it, and   *)
(* the messages that start its next turn (internal/service/desktop:        *)
(* dispatch, ResumeRunConfigured, InterruptRun and CancelRun in app.go,    *)
(* QueueFollowUp, InterruptAndInsert, SteerInstruction and the completion  *)
(* hook in task_features.go, SubmitRunMessage in run_messages.go).         *)
(*                                                                         *)
(* A window and a phone call these concurrently. What an execution does is *)
(* RunScheduler's subject; here it claims messages and ends the run        *)
(* completed or paused, without the outer loop. Its entry is one step: a   *)
(* stop inside it is RunScheduler's AbandonEnter.                          *)
(***************************************************************************)
EXTENDS Naturals, FiniteSets

CONSTANTS
  Clients,       \* callers of the service
  Messages,      \* messages they may send
  Jobs,          \* slots of the service's goroutines for this run
  OneResume,     \* bound: no second caller passes the test of a resume
                 \* before the first has dispatched
  PollExpires,   \* bound: waiting for an interrupted turn may time out
  NoJob,         \* no entry in the map of active runs
  NoMessage,     \* a call about no message
  Free,          \* followUpMu is not held
  Hook,          \* followUpMu is held by a completion hook
  MaxHooks       \* bound: completion hooks that wait for followUpMu

ASSUME DispatchAssumption ==
  /\ IsFiniteSet(Jobs) /\ Jobs # {}
  /\ OneResume \in BOOLEAN /\ PollExpires \in BOOLEAN
  /\ NoJob \notin Jobs /\ NoMessage \notin Messages
  /\ Free \notin Clients /\ Hook \notin Clients \cup {Free}
  /\ MaxHooks \in Nat

VARIABLES
  status,      \* of the run, on disk
  job,         \* where each goroutine is
  withFollowUp,\* executions that may still take a follow-up
  active,      \* whose cancel function is registered
  cancelled,   \* executions whose context has ended
  hooks,       \* completion hooks that wait for followUpMu
  mail,        \* the instruction queue
  mutex,       \* followUpMu
  at,          \* where each client's call is
  about,       \* the message the call is about
  poll         \* the goroutine that resumes after an interrupt

jobVars    == <<job, withFollowUp, active, cancelled, hooks>>
clientVars == <<at, about>>
vars == <<status, jobVars, mail, mutex, clientVars, poll>>

TypeOK ==
  /\ status \in {"running", "paused", "completed", "cancelled"}
  /\ job \in [Jobs -> {"none", "dispatched", "starting", "driving", "completing", "returned"}]
  /\ hooks \in 0..MaxHooks
  /\ withFollowUp \in SUBSET Jobs
  /\ active \in Jobs \cup {NoJob}
  /\ cancelled \in SUBSET Jobs
  /\ mail \in [Messages -> {"absent", "ready", "pending", "follow_up", "applied"}]
  /\ mutex \in {Free, Hook} \cup Clients
  /\ at \in [Clients -> {"idle", "resume", "send", "ready", "test", "queue", "follow_up", "after", "insert", "stop"}]
  /\ about \in [Clients -> Messages \cup {NoMessage}]
  /\ poll \in [Messages -> {"none", "waiting", "resume"}]

\* A run that has just been started.
Init ==
  /\ status = "running"
  /\ active = CHOOSE j \in Jobs : TRUE
  /\ job = [j \in Jobs |-> IF j = active THEN "starting" ELSE "none"]
  /\ withFollowUp = {} /\ cancelled = {} /\ hooks = 0
  /\ mail = [m \in Messages |-> "absent"] /\ poll = [m \in Messages |-> "none"]
  /\ mutex = Free
  /\ at = [c \in Clients |-> "idle"] /\ about = [c \in Clients |-> NoMessage]

-------------------------------------------------------------------------------
(***************************************************************************)
(* Resuming: the test, and later the dispatch.                             *)
(***************************************************************************)
BetweenTestAndDispatch ==
  \/ \E c \in Clients : at[c] = "resume"
  \/ mutex = Hook
  \/ \E m \in Messages : poll[m] = "resume"

\* Fault: a run may be resumed while it is still stopping.
MayResumeStopping ==
  /\ status \in {"paused", "completed"}
  /\ OneResume => ~BetweenTestAndDispatch

MayResume ==
  /\ status \in {"paused", "completed"}
  /\ active = NoJob
  /\ OneResume => ~BetweenTestAndDispatch

\* dispatch: the new goroutine's cancel function replaces what is registered.
Dispatch ==
  LET j == CHOOSE k \in Jobs : job[k] = "none"
  IN /\ \E k \in Jobs : job[k] = "none"
     /\ job' = [job EXCEPT ![j] = "dispatched"]
     /\ active' = j
     /\ UNCHANGED <<withFollowUp, cancelled>>

\* A call's next step; a call that returns is about nothing any more.
Goto(c, step) ==
  /\ at' = [at EXCEPT ![c] = step]
  /\ about' = IF step = "idle" THEN [about EXCEPT ![c] = NoMessage] ELSE about

Enter(c, step, m) ==
  /\ at' = [at EXCEPT ![c] = step]
  /\ about' = [about EXCEPT ![c] = m]

Unlock(c) == mutex' = IF mutex = c THEN Free ELSE mutex

CallResume(c) ==
  /\ at[c] = "idle" /\ MayResume
  /\ Goto(c, "resume")
  /\ UNCHANGED <<status, jobVars, mail, mutex, poll>>

ClientDispatch(c) ==
  /\ at[c] = "resume"
  /\ Dispatch
  /\ Goto(c, "idle") /\ Unlock(c)
  /\ UNCHANGED <<status, hooks, mail, poll>>

CallInterrupt(c) ==
  /\ at[c] = "idle" /\ active # NoJob
  /\ cancelled' = cancelled \cup {active}
  /\ UNCHANGED <<status, job, withFollowUp, active, hooks, mail, mutex, clientVars, poll>>

CallCancel(c) ==
  /\ at[c] = "idle" /\ active = NoJob /\ status = "paused"
  /\ status' = "cancelled"
  /\ UNCHANGED <<jobVars, mail, mutex, clientVars, poll>>

-------------------------------------------------------------------------------
(***************************************************************************)
(* SubmitRunMessage without a step: on a stopped run the message is queued *)
(* and the run resumed under followUpMu; on an active one the lock is      *)
(* given back and the message becomes a follow-up.                         *)
(***************************************************************************)
Put(c, state) == mail' = [mail EXCEPT ![about[c]] = state]

Unused(m) == mail[m] = "absent" /\ \A c \in Clients : at[c] = "idle" \/ about[c] # m

CallSend(c, m) ==
  /\ at[c] = "idle" /\ Unused(m)
  /\ Enter(c, "send", m)
  /\ UNCHANGED <<status, jobVars, mail, mutex, poll>>

Send(c) ==
  /\ at[c] = "send" /\ mutex = Free
  /\ IF active = NoJob
     THEN mutex' = c /\ Goto(c, "ready")
     ELSE Goto(c, "queue") /\ UNCHANGED mutex
  /\ UNCHANGED <<status, jobVars, mail, poll>>

PutReady(c) ==
  /\ at[c] = "ready"
  /\ IF status = "cancelled"
     THEN Goto(c, "idle") /\ Unlock(c) /\ UNCHANGED mail
     ELSE Put(c, "ready") /\ Goto(c, "test") /\ UNCHANGED mutex
  /\ UNCHANGED <<status, jobVars, poll>>

\* An insert that cannot be carried out is removed, a steered message becomes a
\* follow-up again; what has been read, or is ready for a resume, stays.
TakenBack(c) ==
  IF about[c] \in Messages /\ mail[about[c]] = "pending"
  THEN [mail EXCEPT ![about[c]] = IF mutex = c THEN "follow_up" ELSE "absent"]
  ELSE mail

\* Fault: a resume that is refused keeps the lock.
TestResumeHolding(c) ==
  /\ at[c] = "test"
  /\ IF MayResume
     THEN Goto(c, "resume") /\ UNCHANGED mail
     ELSE Goto(c, "idle") /\ mail' = TakenBack(c)
  /\ UNCHANGED <<status, jobVars, mutex, poll>>

\* Also the end of an insert that found the run completed.
TestResume(c) ==
  /\ at[c] = "test"
  /\ IF MayResume
     THEN Goto(c, "resume") /\ UNCHANGED <<mail, mutex>>
     ELSE Goto(c, "idle") /\ Unlock(c) /\ mail' = TakenBack(c)
  /\ UNCHANGED <<status, jobVars, poll>>

\* QueueFollowUp: the status is read, the message stored later.
Queue(c) ==
  /\ at[c] = "queue" /\ mutex = Free
  /\ IF status \in {"paused", "cancelled"}
     THEN Goto(c, "idle") /\ UNCHANGED mutex
     ELSE Goto(c, "follow_up") /\ mutex' = c
  /\ UNCHANGED <<status, jobVars, mail, poll>>

PutFollowUp(c) ==
  /\ at[c] = "follow_up"
  /\ Put(c, "follow_up") /\ Goto(c, "after")
  /\ UNCHANGED <<status, jobVars, mutex, poll>>

FollowUpWaits == \E m \in Messages : mail[m] = "follow_up"

\* Fault: the message is stored, the completed run is left to the hook.
AfterQueueNothing(c) ==
  /\ at[c] = "after"
  /\ Goto(c, "idle") /\ Unlock(c)
  /\ UNCHANGED <<status, jobVars, mail, poll>>

\* resumePendingFollowUpLocked, for a run that has completed meanwhile.
AfterQueue(c) ==
  /\ at[c] = "after"
  /\ IF status = "completed" /\ FollowUpWaits /\ MayResume
     THEN Goto(c, "resume") /\ UNCHANGED mutex
     ELSE Goto(c, "idle") /\ Unlock(c)
  /\ UNCHANGED <<status, jobVars, mail, poll>>

-------------------------------------------------------------------------------
(***************************************************************************)
(* InterruptAndInsert stores a message, stops the turn and has a goroutine *)
(* resume the run once it is paused; SteerInstruction does it with a       *)
(* follow-up that is already queued, under followUpMu.                     *)
(***************************************************************************)
CallInsert(c, m) ==
  /\ at[c] = "idle" /\ Unused(m)
  /\ status # "cancelled"
  /\ Enter(c, "insert", m)
  /\ UNCHANGED <<status, jobVars, mail, mutex, poll>>

PutInserted(c) ==
  /\ at[c] = "insert"
  /\ Put(c, "pending") /\ Goto(c, "stop")
  /\ UNCHANGED <<status, jobVars, mutex, poll>>

CallSteer(c, m) ==
  /\ at[c] = "idle" /\ mutex = Free
  /\ mail[m] = "follow_up"
  /\ mutex' = c
  /\ mail' = [mail EXCEPT ![m] = "pending"]
  /\ Enter(c, "stop", m)
  /\ UNCHANGED <<status, jobVars, poll>>

\* interruptAndResume; with nothing to stop and nothing completed the insert is
\* taken back, a steered message put back.
Stop(c) ==
  /\ at[c] = "stop"
  /\ CASE active # NoJob ->
            /\ cancelled' = cancelled \cup {active}
            /\ poll' = [poll EXCEPT ![about[c]] = "waiting"]
            /\ Goto(c, "idle") /\ Unlock(c)
            /\ UNCHANGED mail
       [] active = NoJob /\ status = "completed" ->
            Goto(c, "test") /\ UNCHANGED <<cancelled, poll, mail, mutex>>
       [] OTHER ->
            /\ mail' = TakenBack(c)
            /\ Goto(c, "idle") /\ Unlock(c)
            /\ UNCHANGED <<cancelled, poll>>
  /\ UNCHANGED <<status, job, withFollowUp, active, hooks>>

Poll(m) ==
  /\ poll[m] = "waiting" /\ active = NoJob
  /\ poll' = [poll EXCEPT ![m] = IF status = "paused" /\ MayResume THEN "resume" ELSE "none"]
  /\ UNCHANGED <<status, jobVars, mail, mutex, clientVars>>

PollDispatch(m) ==
  /\ poll[m] = "resume"
  /\ Dispatch
  /\ poll' = [poll EXCEPT ![m] = "none"]
  /\ UNCHANGED <<status, hooks, mail, mutex, clientVars>>

\* After fifteen seconds it gives up.
PollExpire(m) ==
  /\ PollExpires
  /\ poll[m] = "waiting"
  /\ poll' = [poll EXCEPT ![m] = "none"]
  /\ UNCHANGED <<status, jobVars, mail, mutex, clientVars>>

-------------------------------------------------------------------------------
(***************************************************************************)
(* An execution.                                                           *)
(***************************************************************************)
Move(j, stage) == job' = [job EXCEPT ![j] = stage]

\* ResumeRunWithProfile writes the run against the revision it read.
Startable(j) == status \in {"paused", "completed"} /\ j \notin cancelled

Begin(j) ==
  /\ job[j] = "dispatched"
  /\ IF Startable(j)
     THEN /\ status' = "running"
          /\ withFollowUp' = IF status = "completed" THEN withFollowUp \cup {j} ELSE withFollowUp
          /\ Move(j, "starting")
     ELSE Move(j, "returned") /\ UNCHANGED <<status, withFollowUp>>
  /\ UNCHANGED <<active, cancelled, hooks, mail, mutex, clientVars, poll>>

Guidance == {m \in Messages : mail[m] \in {"ready", "pending"}}

Claims(j) ==
  IF Guidance # {} THEN {Guidance}
  ELSE IF j \in withFollowUp /\ FollowUpWaits THEN {{m} : m \in {n \in Messages : mail[n] = "follow_up"}}
  ELSE {{}}

Applied(items) == [m \in Messages |-> IF m \in items THEN "applied" ELSE mail[m]]

\* Every batch of steps starts with a claim.
Claim(j) ==
  /\ job[j] = "starting" /\ j \notin cancelled
  /\ \E items \in Claims(j) : mail' = Applied(items)
  /\ withFollowUp' = withFollowUp \ {j}
  /\ Move(j, "driving")
  /\ UNCHANGED <<status, active, cancelled, hooks, mutex, clientVars, poll>>

\* A later batch matters here when it has something to claim.
NextBatch(j) ==
  /\ job[j] = "driving" /\ j \notin cancelled /\ Guidance # {}
  /\ Move(j, "starting")
  /\ UNCHANGED <<status, withFollowUp, active, cancelled, hooks, mail, mutex, clientVars, poll>>

\* The last verdict and completion are one write, whatever waits.
LastStep(j) ==
  /\ job[j] = "driving"
  /\ status' = "completed"
  /\ Move(j, "completing")
  /\ UNCHANGED <<withFollowUp, active, cancelled, hooks, mail, mutex, clientVars, poll>>

Late(j) == job[j] = "completing" /\ j \notin cancelled /\ Guidance # {}

\* A run the last verdict just completed may still hold messages.
Reopen(j) ==
  /\ Late(j)
  /\ mail' = Applied(Guidance)
  /\ status' = "running"
  /\ Move(j, "starting")
  /\ UNCHANGED <<withFollowUp, active, cancelled, hooks, mutex, clientVars, poll>>

\* A completed run that is stopped now stays completed: there is nothing to pause.
Return(j) ==
  /\ job[j] = "completing" /\ ~Late(j)
  /\ Move(j, "returned")
  /\ UNCHANGED <<status, withFollowUp, active, cancelled, hooks, mail, mutex, clientVars, poll>>

\* Stopped, or waiting for a person.
Pause(j) ==
  /\ job[j] \in {"starting", "driving"}
  /\ status' = "paused"
  /\ Move(j, "returned")
  /\ UNCHANGED <<withFollowUp, active, cancelled, hooks, mail, mutex, clientVars, poll>>

\* delete(a.active, runID), whosever entry it is.
Deregister(j) ==
  /\ job[j] = "returned" /\ hooks < MaxHooks
  /\ active' = NoJob
  /\ Move(j, "none") /\ hooks' = hooks + 1
  /\ cancelled' = cancelled \ {j} /\ withFollowUp' = withFollowUp \ {j}
  /\ UNCHANGED <<status, mail, mutex, clientVars, poll>>

\* resumePendingFollowUp.
CompletionHook ==
  /\ hooks > 0 /\ mutex = Free
  /\ hooks' = hooks - 1
  /\ mutex' = IF status = "completed" /\ FollowUpWaits /\ MayResume THEN Hook ELSE Free
  /\ UNCHANGED <<status, job, withFollowUp, active, cancelled, mail, clientVars, poll>>

HookDispatch ==
  /\ mutex = Hook
  /\ Dispatch
  /\ mutex' = Free
  /\ UNCHANGED <<status, hooks, mail, clientVars, poll>>

-------------------------------------------------------------------------------
Call(c) ==
  \/ ClientDispatch(c) \/ Send(c) \/ PutReady(c) \/ TestResume(c) \/ Queue(c) \/ PutFollowUp(c)
  \/ AfterQueue(c) \/ PutInserted(c) \/ Stop(c)

Execution(j) ==
  \/ Begin(j) \/ Claim(j) \/ LastStep(j) \/ Reopen(j) \/ Return(j) \/ Deregister(j)
  \/ (j \in cancelled /\ Pause(j))

Next ==
  \/ \E c \in Clients :
       \/ CallResume(c) \/ CallInterrupt(c) \/ CallCancel(c) \/ Call(c)
       \/ \E m \in Messages : CallSend(c, m) \/ CallInsert(c, m) \/ CallSteer(c, m)
  \/ \E j \in Jobs : Execution(j) \/ NextBatch(j) \/ Pause(j)
  \/ CompletionHook \/ HookDispatch
  \/ \E m \in Messages : Poll(m) \/ PollDispatch(m) \/ PollExpire(m)

Spec == Init /\ [][Next]_vars

(***************************************************************************)
(* Calls that have begun, executions and waiting goroutines go on; a mutex *)
(* is given to those who wait for it. Nobody has to call anything.         *)
(***************************************************************************)
FairSpec ==
  /\ Spec
  /\ \A c \in Clients : SF_vars(Call(c))
  /\ \A j \in Jobs : WF_vars(Execution(j))
  /\ SF_vars(CompletionHook) /\ WF_vars(HookDispatch)
  /\ \A m \in Messages : WF_vars(Poll(m)) /\ WF_vars(PollDispatch(m))

-------------------------------------------------------------------------------
Executing(j) == job[j] \in {"starting", "driving", "completing"}

\* What executes can be stopped: the cancel function that InterruptRun finds is
\* that of the goroutine which executes the run.  So two never execute it at once.
Interruptible == \A j \in Jobs : Executing(j) => active = j

\* Why that is so, when one caller at a time is between the test of a resume and
\* the dispatch: nobody passes the test before the last goroutine has taken its
\* own entry out of the map, so it is the only one the entry can be of.
OneGoroutine == \A j \in Jobs : job[j] # "none" => active = j

OneCaller ==
  /\ \A c \in Clients : at[c] = "resume" =>
       /\ mutex # Hook
       /\ \A d \in Clients : at[d] = "resume" => d = c
       /\ \A m \in Messages : poll[m] # "resume"
  /\ \A m \in Messages : poll[m] = "resume" =>
       /\ mutex # Hook
       /\ \A n \in Messages : poll[n] = "resume" => n = m

DispatchInv ==
  /\ OneGoroutine
  /\ OneCaller
  /\ BetweenTestAndDispatch => active = NoJob

\* A follow-up starts the next turn of a run that completes, however its storing
\* and the end of the turn interleave; a paused or cancelled run waits, and a
\* turn that is stopped before it begins is started once more.
FollowUpStarts ==
  \A m \in Messages :
    mail[m] = "follow_up" ~>
      \/ mail[m] # "follow_up"
      \/ status \in {"paused", "cancelled"}
      \/ active \in cancelled

\* Every call returns: whoever holds followUpMu gives it back, whatever the
\* resume finds.
CallsReturn == \A c \in Clients : at[c] # "idle" ~> at[c] = "idle"

\* "Preserve the user's message by starting it as the next turn": an inserted
\* message is taken by a turn, or taken back, unless the run is paused.
InsertStarts ==
  \A m \in Messages :
    mail[m] = "pending" ~> (mail[m] # "pending" \/ status \in {"paused", "cancelled"})
===============================================================================
