--------------------------- MODULE WorkflowEngine ----------------------------
(***************************************************************************)
(* The rules that turn a step's verdict into the run's next state:         *)
(* internal/domain/workflows/{engine,loop}.go. Every operator maps a run   *)
(* to a run, as every function there does; none of them touches a file or  *)
(* a process.                                                              *)
(*                                                                         *)
(* A message is known by where it comes from: a human instruction by its   *)
(* identity, rework feedback by the step that sent it, the application's   *)
(* own notes by Onecatch, the text of a resume by Human. An inbox is a set *)
(* of messages: the order of its items only shapes the prompt's text.      *)
(***************************************************************************)
EXTENDS WorkflowGraph

CONSTANTS
  Instructions,           \* identities of human instructions
  Human, Onecatch,        \* the two other senders
  ReworkLimit,            \* rounds allowed on each rework edge
  MaxConsecutiveFailures  \* failures of a step before the run pauses

ASSUME EngineAssumption ==
  /\ ReworkLimit \in [ReworkEdges -> Nat \ {0}]
  /\ MaxConsecutiveFailures \in Nat \ {0}

Messages == Instructions \cup Steps \cup {Human, Onecatch}

RunStatus == {"running", "paused", "completed", "cancelled"}
NodeStatus == {"pending", "running", "completed", "paused"}
PauseReasons ==
  {"", "ask_human", "rework_limit_reached", "max_consecutive_failures_reached",
   "interrupted", "infrastructure", "blocked", "execution_settings_invalid"}

(***************************************************************************)
(* The durable run: its status, each step's status, consecutive failures   *)
(* and unread messages, the rounds used on each rework edge, why it is     *)
(* paused, and whether it starts a new round when one completes.           *)
(***************************************************************************)
Run ==
  [status   : RunStatus,
   node     : [Steps -> NodeStatus],
   failures : [Steps -> Nat],
   inbox    : [Steps -> SUBSET Messages],
   rounds   : [ReworkEdges -> Nat],
   reason   : PauseReasons,
   loop     : BOOLEAN]

NoRounds == [e \in ReworkEdges |-> 0]

\* NewRun followed by Start: every step pending, the run running.
StartedRun(loop) ==
  [status   |-> "running",
   node     |-> [s \in Steps |-> "pending"],
   failures |-> [s \in Steps |-> 0],
   inbox    |-> [s \in Steps |-> {}],
   rounds   |-> NoRounds,
   reason   |-> "",
   loop     |-> loop]

ReadySteps(r) ==
  {s \in Steps : /\ r.node[s] = "pending"
                 /\ \A u \in Upstream(s) : r.node[u] = "completed"}

AllCompleted(r) == \A s \in Steps : r.node[s] = "completed"

(***************************************************************************)
(* Deliver puts messages into the inboxes of the named steps; the steps    *)
(* keep their status.                                                      *)
(***************************************************************************)
Deliver(r, to, messages) ==
  [r EXCEPT !.inbox = [s \in Steps |-> IF s \in to THEN @[s] \cup messages ELSE @[s]]]

Reopen(r, steps) ==
  [r EXCEPT !.node = [s \in Steps |-> IF s \in steps THEN "pending" ELSE @[s]]]

PauseRun(r, reason) == [r EXCEPT !.status = "paused", !.reason = reason]

(***************************************************************************)
(* ApplyOutcome for a running run. Every verdict clears the step's         *)
(* failures and its inbox first.                                           *)
(***************************************************************************)
Settled(r, s) == [r EXCEPT !.failures[s] = 0, !.inbox[s] = {}]

ApplyPass(r, s) == [Settled(r, s) EXCEPT !.node[s] = "completed"]

\* Fault: the step that asks counts as passed.
ApplyAskHumanDone(r, s) ==
  PauseRun([Settled(r, s) EXCEPT !.node[s] = "completed"], "ask_human")

ApplyAskHuman(r, s) ==
  PauseRun([Settled(r, s) EXCEPT !.node[s] = "paused"], "ask_human")

\* Fault: the round is not counted.
ApplyReworkUncounted(r, s, target) ==
  LET e == <<s, target>>
      settled == Settled(r, s)
  IN  IF r.rounds[e] >= ReworkLimit[e]
      THEN PauseRun([settled EXCEPT !.node[s] = "paused"], "rework_limit_reached")
      ELSE Deliver(Reopen(settled, ReworkPath(s, target)), {target}, {s})

\* Feedback goes to the target and the steps between it and s run again; an
\* edge that has used up its rounds pauses the run instead.
ApplyRework(r, s, target) ==
  LET e == <<s, target>>
      settled == Settled(r, s)
  IN  IF r.rounds[e] >= ReworkLimit[e]
      THEN PauseRun([settled EXCEPT !.node[s] = "paused"], "rework_limit_reached")
      ELSE Deliver(Reopen([settled EXCEPT !.rounds[e] = @ + 1], ReworkPath(s, target)),
                   {target}, {s})

\* Fault: the failed attempt's inbox is cleared like that of a verdict.
RecordFailureClearsInbox(r, s) ==
  LET counted == [r EXCEPT !.failures[s] = @ + 1, !.node[s] = "pending", !.inbox[s] = {}]
  IN  IF counted.failures[s] >= MaxConsecutiveFailures
      THEN PauseRun([counted EXCEPT !.node[s] = "paused"], "max_consecutive_failures_reached")
      ELSE counted

(***************************************************************************)
(* A runtime or protocol failure: another attempt, or a pause at the limit *)
(* whatever the run's status and reason were.                              *)
(***************************************************************************)
RecordStepFailure(r, s) ==
  LET counted == [r EXCEPT !.failures[s] = @ + 1, !.node[s] = "pending"]
  IN  IF counted.failures[s] >= MaxConsecutiveFailures
      THEN PauseRun([counted EXCEPT !.node[s] = "paused"], "max_consecutive_failures_reached")
      ELSE counted

(***************************************************************************)
(* Passed steps that have been sent a message since they passed, with the  *)
(* passed steps after them.                                                *)
(***************************************************************************)
InboxReopened(r) ==
  LET unread == {s \in Steps : r.node[s] = "completed" /\ r.inbox[s] # {}}
  IN  {t \in Steps : /\ r.node[t] = "completed"
                     /\ \E s \in unread : t = s \/ t \in Descendants(s)}

(***************************************************************************)
(* Resume: what runs again, and who gets the human's text. `from` is a set *)
(* of at most one step.                                                    *)
(***************************************************************************)
ResumeReopens(r, from) ==
  IF from # {} THEN from \cup UNION {Descendants(s) : s \in from}
  ELSE IF r.status = "completed" THEN SinkSteps
  ELSE {s \in Steps : r.node[s] \in {"running", "paused"}}

Resume(r, from, text) ==
  LET reopened == ResumeReopens(r, from)
      resumed  == [Reopen(r, reopened) EXCEPT
                     !.failures = [s \in Steps |-> IF s \in reopened THEN 0 ELSE @[s]],
                     !.rounds = NoRounds,
                     !.status = "running",
                     !.reason = ""]
  IN  Deliver(resumed, IF from # {} THEN from ELSE ReadySteps(resumed), text)

(***************************************************************************)
(* The outer loop starts its next round: every step pending with no        *)
(* failures, a fresh rework budget, and a note to the entry steps.         *)
(***************************************************************************)
NextLoopRound(r) ==
  Deliver([r EXCEPT !.status = "running", !.reason = "", !.rounds = NoRounds,
                    !.node = [s \in Steps |-> "pending"],
                    !.failures = [s \in Steps |-> 0]],
          EntrySteps, {Onecatch})
===============================================================================
