----------------------------- MODULE RunLifecycle -----------------------------
(***************************************************************************)
(* What the rest of the program may assume of a run and its task           *)
(* (internal/domain/workflows/engine.go:324-378, usecase.go:281-304): who  *)
(* changes their statuses, and when. RunScheduler implements it.           *)
(*                                                                         *)
(* A drive runs the run until it is paused or completed and then tells the *)
(* task, or is abandoned and tells nobody. Only a user resumes or cancels  *)
(* a run, only while no drive has it, and a cancelled run is final.        *)
(***************************************************************************)
VARIABLES
  status,  \* of the run
  task,    \* status of its task
  stage    \* what the process is doing with the run

vars == <<status, task, stage>>

Stages == {"idle", "entering", "driving", "settled", "down", "recovering"}

Init == status = "running" /\ task = "running" /\ stage = "entering"

Enter ==
  /\ stage = "entering" /\ stage' = "driving"
  /\ task' = "running"
  /\ UNCHANGED status

\* A verdict, a failure, late messages or the next round of a loop. A paused
\* run stays paused.
Progress ==
  /\ stage = "driving"
  /\ status # "paused" /\ status' \in {"running", "paused", "completed"}
  /\ status = "completed" => status' = "running"
  /\ UNCHANGED <<task, stage>>

Settle ==
  /\ stage = "driving" /\ stage' = "settled"
  /\ status' \in {"paused", "completed"}
  /\ status' = "completed" => status = "completed"
  /\ UNCHANGED task

\* The task follows its run, unless the drive was interrupted before it could.
TellTask ==
  /\ stage = "settled" /\ stage' = "idle"
  /\ task' \in {task, status}
  /\ UNCHANGED status

Abandon ==
  /\ stage \in {"entering", "driving"} /\ stage' = "idle"
  /\ task' = task \/ (stage = "entering" /\ task' = "running")
  /\ UNCHANGED status

Resume ==
  /\ stage = "idle" /\ stage' = "entering"
  /\ status \in {"paused", "completed"} /\ status' = "running"
  /\ UNCHANGED task

Cancel ==
  /\ stage = "idle"
  /\ status = "paused" /\ status' = "cancelled"
  /\ UNCHANGED <<task, stage>>

TellTaskCancelled ==
  /\ stage = "idle"
  /\ status = "cancelled" /\ task' = "cancelled"
  /\ UNCHANGED <<status, stage>>

\* A run left running waits for its recovery; any other is as it was.
Crash ==
  /\ stage' = IF status = "running" THEN "down" ELSE "idle"
  /\ UNCHANGED <<status, task>>

Recover ==
  /\ stage = "down" /\ stage' = "recovering"
  /\ status' = "paused"
  /\ UNCHANGED task

TellTaskRecovered ==
  /\ stage = "recovering" /\ stage' = "idle"
  /\ task' = "paused"
  /\ UNCHANGED status

Next ==
  \/ Enter \/ Progress \/ Settle \/ TellTask \/ Abandon
  \/ Resume \/ Cancel \/ TellTaskCancelled
  \/ Crash \/ Recover \/ TellTaskRecovered

Spec == Init /\ [][Next]_vars
===============================================================================
