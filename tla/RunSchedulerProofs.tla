-------------------------- MODULE RunSchedulerProofs -------------------------
(***************************************************************************)
(* Theorems about definitions, the engine and the scheduler of             *)
(* RunScheduler, for every definition, every set of instructions and every *)
(* bound.                                                                  *)
(*                                                                         *)
(* What the acyclic graph gives the scheduler: below every step there is   *)
(* less to run than at the step itself, so any set of steps has one with   *)
(* no member of the set before it, and the graph has a sink. What the      *)
(* operators that fold results and claims keep of a run: they map runs to  *)
(* runs, and what they do to its status, nodes and inboxes. Then TypeOK    *)
(* and ControlInv are shown inductive, one step per action, and the        *)
(* properties derived. The second half is about what a run's record keeps. *)
(***************************************************************************)
EXTENDS RunScheduler, FiniteSetTheorems, TLAPS

(***************************************************************************)
(* The steps reachable from s are closed under dependency edges, and with  *)
(* a step they hold every step reachable from it.                          *)
(***************************************************************************)
LEMMA DescendantsClosed ==
  ASSUME NEW s \in Steps
  PROVE  /\ Descendants(s) \subseteq Steps
         /\ Downstream(s) \subseteq Descendants(s)
         /\ \A t \in Descendants(s) : Descendants(t) \subseteq Descendants(s)
<1>1. /\ Descendants(s) \subseteq Steps
      /\ Downstream(s) \subseteq Descendants(s)
  BY DEF Descendants, ClosedBelow, Downstream
<1>2. ASSUME NEW t \in Descendants(s)
      PROVE  Descendants(t) \subseteq Descendants(s)
  <2> SUFFICES ASSUME NEW u \in Descendants(t), NEW C \in SUBSET Steps, ClosedBelow(s, C)
               PROVE  u \in C
    BY DEF Descendants
  <2>1. t \in C
    BY <1>2 DEF Descendants
  <2>2. ClosedBelow(t, C)
    BY <2>1 DEF ClosedBelow
  <2> QED
    BY <2>2 DEF Descendants
<1> QED
  BY <1>1, <1>2

(***************************************************************************)
(* A dependency edge leads to strictly fewer reachable steps.              *)
(***************************************************************************)
LEMMA EdgeShrinksDescendants ==
  ASSUME NEW s \in Steps, NEW t \in Downstream(s)
  PROVE  /\ Descendants(t) \subseteq Descendants(s)
         /\ Descendants(t) # Descendants(s)
<1>1. t \in Steps /\ t \in Descendants(s)
  BY DescendantsClosed DEF Downstream
<1>2. Descendants(t) \subseteq Descendants(s)
  BY <1>1, DescendantsClosed
<1>3. t \notin Descendants(t)
  BY <1>1, DefinitionAssumption DEF ValidDefinition
<1> QED
  BY <1>1, <1>2, <1>3

\* Every family of sets of steps has a least member under strict inclusion.
LEMMA LeastOfFamily ==
  ASSUME NEW F \in SUBSET (SUBSET Steps), F # {}
  PROVE  \E A \in F : \A B \in F : B \subseteq A => B = A
<1>1. IsWellFoundedOn(StrictSubsetOrdering(Steps), FiniteSubsetsOf(Steps))
  BY FS_StrictSubsetOrderingWellFounded
<1>2. F \subseteq FiniteSubsetsOf(Steps)
  BY DefinitionAssumption, FS_Subset DEF FiniteSubsetsOf
<1>3. PICK A \in F : \A B \in F : <<B, A>> \notin StrictSubsetOrdering(Steps)
  BY <1>1, <1>2, WFMin
<1> QED
  BY <1>3 DEF StrictSubsetOrdering

(***************************************************************************)
(* Some step has nothing after it (SinkSteps is where late guidance and    *)
(* follow-ups go).                                                         *)
(***************************************************************************)
THEOREM SinkExists == SinkSteps # {}
<1> DEFINE F == {Descendants(s) : s \in Steps}
<1>1. F \in SUBSET (SUBSET Steps)
  BY DescendantsClosed
<1>2. F # {}
  BY DefinitionAssumption
<1>3. PICK A \in F : \A B \in F : B \subseteq A => B = A
  BY <1>1, <1>2, LeastOfFamily
<1>4. PICK s \in Steps : A = Descendants(s)
  OBVIOUS
<1>5. ASSUME NEW t \in Downstream(s)
      PROVE  FALSE
  <2>1. t \in Steps
    BY DEF Downstream
  <2> QED
    BY <1>3, <1>4, <2>1, EdgeShrinksDescendants
<1> QED
  BY <1>5 DEF SinkSteps

(***************************************************************************)
(* Of any steps still to do, one has all its dependencies outside them.    *)
(***************************************************************************)
THEOREM FirstExists ==
  ASSUME NEW X \in SUBSET Steps, X # {}
  PROVE  \E s \in X : Upstream(s) \cap X = {}
<1> DEFINE Above(s) == Steps \ Descendants(s)
           F == {Above(s) : s \in X}
<1>1. F \in SUBSET (SUBSET Steps) /\ F # {}
  OBVIOUS
<1>2. PICK A \in F : \A B \in F : B \subseteq A => B = A
  BY <1>1, LeastOfFamily
<1>3. PICK s \in X : A = Above(s)
  OBVIOUS
<1>4. ASSUME NEW u \in Upstream(s) \cap X
      PROVE  FALSE
  <2>1. u \in Steps /\ s \in Downstream(u)
    BY DEF Upstream, Downstream
  <2>2. Descendants(s) \subseteq Descendants(u) /\ Descendants(s) # Descendants(u)
    BY <2>1, EdgeShrinksDescendants
  <2>3. Descendants(u) \subseteq Steps
    BY <2>1, DescendantsClosed
  <2>4. Above(u) \subseteq Above(s) /\ Above(u) # Above(s)
    BY <2>2, <2>3
  <2> QED
    BY <1>2, <1>3, <2>4
<1> QED
  BY <1>4

-------------------------------------------------------------------------------

(***************************************************************************)
(* Deliver changes inboxes and nothing else, and only adds to them.        *)
(***************************************************************************)
LEMMA DeliverKeeps ==
  ASSUME NEW r \in Run, NEW to, NEW messages \in SUBSET Messages
  PROVE  /\ Deliver(r, to, messages) \in Run
         /\ Deliver(r, to, messages).status = r.status
         /\ Deliver(r, to, messages).node = r.node
         /\ Deliver(r, to, messages).reason = r.reason
         /\ Deliver(r, to, messages).loop = r.loop
         /\ \A s \in Steps : r.inbox[s] \subseteq Deliver(r, to, messages).inbox[s]
BY DEF Deliver, Run

(***************************************************************************)
(* Reopen changes node statuses and nothing else, to pending and for the   *)
(* named steps.                                                            *)
(***************************************************************************)
LEMMA ReopenKeeps ==
  ASSUME NEW r \in Run, NEW steps
  PROVE  /\ Reopen(r, steps) \in Run
         /\ Reopen(r, steps).status = r.status
         /\ Reopen(r, steps).inbox = r.inbox
         /\ Reopen(r, steps).reason = r.reason
         /\ Reopen(r, steps).loop = r.loop
         /\ \A s \in Steps : Reopen(r, steps).node[s] =
                               IF s \in steps THEN "pending" ELSE r.node[s]
BY DEF Reopen, Run, NodeStatus

(***************************************************************************)
(* A pause changes the run's status and reason and nothing else.           *)
(***************************************************************************)
LEMMA PauseKeeps ==
  ASSUME NEW r \in Run, NEW reason \in PauseReasons
  PROVE  /\ PauseRun(r, reason) \in Run
         /\ PauseRun(r, reason).status = "paused"
         /\ PauseRun(r, reason).node = r.node
         /\ PauseRun(r, reason).inbox = r.inbox
         /\ PauseRun(r, reason).loop = r.loop
         /\ PauseRun(r, reason).reason = reason
BY DEF PauseRun, Run, RunStatus

(***************************************************************************)
(* A verdict settles the step: its failures and inbox are cleared.         *)
(***************************************************************************)
LEMMA SettledKeeps ==
  ASSUME NEW r \in Run, NEW s \in Steps
  PROVE  /\ Settled(r, s) \in Run
         /\ Settled(r, s).status = r.status
         /\ Settled(r, s).node = r.node
         /\ Settled(r, s).loop = r.loop
         /\ \A t \in Steps \ {s} : Settled(r, s).inbox[t] = r.inbox[t]
BY DEF Settled, Run

(***************************************************************************)
(* What every way of applying a verdict or a failure of step s keeps: the  *)
(* other steps' nodes only go back to pending, their inboxes only grow, s  *)
(* itself is no longer running, and a run that is not running stays so.    *)
(***************************************************************************)
Folds(r, s, q) ==
  /\ q \in Run
  /\ q.status \in {r.status, "paused"}
  /\ q.loop = r.loop
  /\ q.node[s] # "running"
  /\ \A t \in Steps \ {s} : /\ q.node[t] \in {r.node[t], "pending"}
                            /\ r.inbox[t] \subseteq q.inbox[t]

\* A pass folds.
LEMMA PassFolds ==
  ASSUME NEW r \in Run, NEW s \in Steps
  PROVE  /\ Folds(r, s, ApplyPass(r, s))
         /\ ApplyPass(r, s).status = r.status
<1> DEFINE settled == Settled(r, s)
<1>1. /\ settled \in Run
      /\ settled.status = r.status
      /\ settled.loop = r.loop
      /\ settled.node = r.node
      /\ \A t \in Steps \ {s} : settled.inbox[t] = r.inbox[t]
  BY SettledKeeps
<1> HIDE DEF settled
<1>2. ApplyPass(r, s) = [settled EXCEPT !.node[s] = "completed"]
  BY DEF ApplyPass, settled
<1> QED
  BY <1>1, <1>2 DEF Folds, Run, NodeStatus

\* A question folds, and leaves the step unpassed.
LEMMA AskHumanFolds ==
  ASSUME NEW r \in Run, NEW s \in Steps
  PROVE  /\ Folds(r, s, ApplyAskHuman(r, s))
         /\ ApplyAskHuman(r, s).node[s] # "completed"
<1> DEFINE settled == Settled(r, s)
           asked == [settled EXCEPT !.node[s] = "paused"]
<1>1. /\ settled \in Run
      /\ settled.loop = r.loop
      /\ settled.node = r.node
      /\ \A t \in Steps \ {s} : settled.inbox[t] = r.inbox[t]
  BY SettledKeeps
<1> HIDE DEF settled
<1>2. /\ asked \in Run
      /\ asked.loop = r.loop
      /\ asked.node[s] = "paused"
      /\ \A t \in Steps \ {s} : asked.node[t] = r.node[t] /\ asked.inbox[t] = r.inbox[t]
  BY <1>1 DEF Run, NodeStatus
<1> HIDE DEF asked
<1>3. ApplyAskHuman(r, s) = PauseRun(asked, "ask_human")
  BY DEF ApplyAskHuman, asked, settled
<1>4. "ask_human" \in PauseReasons
  BY DEF PauseReasons
<1> QED
  BY <1>2, <1>3, <1>4, PauseKeeps DEF Folds

\* Sending work back folds, within the edge's rounds and past them, and leaves
\* the step unpassed.
LEMMA ReworkFolds ==
  ASSUME NEW r \in Run, NEW s \in Steps, NEW target
  PROVE  /\ Folds(r, s, ApplyRework(r, s, target))
         /\ ApplyRework(r, s, target).node[s] # "completed"
<1> DEFINE e == <<s, target>>
           settled == Settled(r, s)
           stopped == [settled EXCEPT !.node[s] = "paused"]
           counted == [settled EXCEPT !.rounds[e] = @ + 1]
           reopened == Reopen(counted, ReworkPath(s, target))
<1>1. /\ settled \in Run
      /\ settled.status = r.status
      /\ settled.loop = r.loop
      /\ settled.node = r.node
      /\ \A t \in Steps \ {s} : settled.inbox[t] = r.inbox[t]
  BY SettledKeeps
<1> HIDE DEF settled
<1>2. CASE r.rounds[e] >= ReworkLimit[e]
  <2>1. ApplyRework(r, s, target) = PauseRun(stopped, "rework_limit_reached")
    BY <1>2 DEF ApplyRework, stopped, settled, e
  <2>2. /\ stopped \in Run
        /\ stopped.loop = r.loop
        /\ stopped.node[s] = "paused"
        /\ \A t \in Steps \ {s} : stopped.node[t] = r.node[t] /\ stopped.inbox[t] = r.inbox[t]
    BY <1>1 DEF Run, NodeStatus
  <2> HIDE DEF stopped
  <2>3. "rework_limit_reached" \in PauseReasons
    BY DEF PauseReasons
  <2> QED
    BY <2>1, <2>2, <2>3, PauseKeeps DEF Folds
<1>3. CASE ~(r.rounds[e] >= ReworkLimit[e])
  <2>1. ApplyRework(r, s, target) = Deliver(reopened, {target}, {s})
    BY <1>3 DEF ApplyRework, reopened, counted, settled, e
  <2>2. /\ counted \in Run
        /\ counted.status = r.status
        /\ counted.loop = r.loop
        /\ counted.node = r.node
        /\ counted.inbox = settled.inbox
    <3> HIDE DEF e
    <3>1. CASE e \in ReworkEdges
      BY <1>1, <3>1 DEF Run
    <3>2. CASE e \notin ReworkEdges
      BY <1>1, <3>2 DEF Run
    <3> QED
      BY <3>1, <3>2
  <2> HIDE DEF counted
  <2>3. s \in ReworkPath(s, target)
    BY DEF ReworkPath
  <2>4. /\ reopened \in Run
        /\ reopened.status = r.status
        /\ reopened.loop = r.loop
        /\ reopened.inbox = settled.inbox
        /\ reopened.node[s] = "pending"
        /\ \A t \in Steps : reopened.node[t] \in {r.node[t], "pending"}
    BY <2>2, <2>3, ReopenKeeps
  <2> HIDE DEF reopened
  <2>5. {s} \in SUBSET Messages
    BY DEF Messages
  <2> DEFINE sent == Deliver(reopened, {target}, {s})
  <2>6. /\ sent \in Run
        /\ sent.status = reopened.status
        /\ sent.loop = reopened.loop
        /\ sent.node = reopened.node
        /\ \A t \in Steps : reopened.inbox[t] \subseteq sent.inbox[t]
    BY <2>4, <2>5, DeliverKeeps
  <2>7. ApplyRework(r, s, target) = sent
    BY <2>1
  <2> HIDE DEF sent
  <2> QED
    BY <1>1, <2>4, <2>6, <2>7 DEF Folds
<1> QED
  BY <1>2, <1>3

(***************************************************************************)
(* A failure folds like a verdict, keeps every inbox and leaves the step   *)
(* unpassed.                                                               *)
(***************************************************************************)
LEMMA FailureFolds ==
  ASSUME NEW r \in Run, NEW s \in Steps
  PROVE  /\ Folds(r, s, RecordStepFailure(r, s))
         /\ RecordStepFailure(r, s).inbox = r.inbox
         /\ RecordStepFailure(r, s).node[s] # "completed"
<1> DEFINE counted == [r EXCEPT !.failures[s] = @ + 1, !.node[s] = "pending"]
           stopped == [counted EXCEPT !.node[s] = "paused"]
<1>1. /\ counted \in Run
      /\ counted.status = r.status
      /\ counted.loop = r.loop
      /\ counted.inbox = r.inbox
      /\ counted.node[s] = "pending"
      /\ \A t \in Steps \ {s} : counted.node[t] = r.node[t]
  <2> DEFINE retried == [r EXCEPT !.failures[s] = @ + 1]
  <2>1. /\ retried \in Run
        /\ retried.status = r.status
        /\ retried.loop = r.loop
        /\ retried.inbox = r.inbox
        /\ retried.node = r.node
    BY DEF Run
  <2>2. counted = [retried EXCEPT !.node[s] = "pending"]
    OBVIOUS
  <2> HIDE DEF retried, counted
  <2> QED
    BY <2>1, <2>2 DEF Run, NodeStatus
<1>2. /\ stopped \in Run
      /\ stopped.loop = r.loop
      /\ stopped.inbox = r.inbox
      /\ stopped.node[s] = "paused"
      /\ \A t \in Steps \ {s} : stopped.node[t] = r.node[t]
  <2> HIDE DEF counted
  <2> QED BY <1>1 DEF Run, NodeStatus
<1>3. RecordStepFailure(r, s) \in
        {counted, PauseRun(stopped, "max_consecutive_failures_reached")}
  BY DEF RecordStepFailure
<1>4. "max_consecutive_failures_reached" \in PauseReasons
  BY DEF PauseReasons
<1> HIDE DEF counted, stopped
<1> QED
  BY <1>1, <1>2, <1>3, <1>4, PauseKeeps DEF Folds

(***************************************************************************)
(* Resume makes the run running and loses no message.                      *)
(***************************************************************************)
LEMMA ResumeKeeps ==
  ASSUME NEW r \in Run, NEW from, NEW text \in SUBSET Messages
  PROVE  /\ Resume(r, from, text) \in Run
         /\ Resume(r, from, text).status = "running"
         /\ Resume(r, from, text).reason = ""
         /\ \A s \in Steps : r.inbox[s] \subseteq Resume(r, from, text).inbox[s]
<1> DEFINE reopens == ResumeReopens(r, from)
           reopened == Reopen(r, reopens)
           resumed == [reopened EXCEPT
                         !.failures = [s \in Steps |-> IF s \in reopens THEN 0 ELSE @[s]],
                         !.rounds = NoRounds, !.status = "running", !.reason = ""]
<1>1. reopened \in Run /\ reopened.inbox = r.inbox
  BY ReopenKeeps
<1> HIDE DEF reopened
<1>2. /\ resumed \in Run
      /\ resumed.status = "running"
      /\ resumed.reason = ""
      /\ resumed.inbox = r.inbox
  BY <1>1 DEF Run, RunStatus, PauseReasons, NoRounds
<1> HIDE DEF resumed
<1> DEFINE next == Deliver(resumed, IF from # {} THEN from ELSE ReadySteps(resumed), text)
<1>3. /\ next \in Run
      /\ next.status = resumed.status
      /\ next.reason = resumed.reason
      /\ \A s \in Steps : resumed.inbox[s] \subseteq next.inbox[s]
  BY <1>2, DeliverKeeps
<1>4. Resume(r, from, text) = next
  BY DEF Resume, resumed, reopened
<1> HIDE DEF next
<1> QED
  BY <1>2, <1>3, <1>4

(***************************************************************************)
(* A new round makes the run running with every step pending.              *)
(***************************************************************************)
LEMMA NextLoopRoundKeeps ==
  ASSUME NEW r \in Run
  PROVE  /\ NextLoopRound(r) \in Run
         /\ NextLoopRound(r).status = "running"
         /\ NextLoopRound(r).reason = ""
         /\ NextLoopRound(r).node = [s \in Steps |-> "pending"]
         /\ \A s \in Steps : r.inbox[s] \subseteq NextLoopRound(r).inbox[s]
<1> DEFINE fresh == [r EXCEPT !.status = "running", !.reason = "", !.rounds = NoRounds,
                              !.node = [s \in Steps |-> "pending"],
                              !.failures = [s \in Steps |-> 0]]
<1>1. fresh \in Run
  BY DEF Run, RunStatus, PauseReasons, NodeStatus, NoRounds
<1>2. /\ fresh.status = "running"
      /\ fresh.reason = ""
      /\ fresh.node = [s \in Steps |-> "pending"]
      /\ fresh.inbox = r.inbox
  BY DEF Run, RunStatus, PauseReasons, NodeStatus, NoRounds
<1>3. {Onecatch} \in SUBSET Messages
  BY DEF Messages
<1> HIDE DEF fresh
<1> DEFINE next == Deliver(fresh, EntrySteps, {Onecatch})
<1>4. /\ next \in Run
      /\ next.status = fresh.status
      /\ next.node = fresh.node
      /\ next.reason = fresh.reason
      /\ \A s \in Steps : fresh.inbox[s] \subseteq next.inbox[s]
  BY <1>1, <1>3, DeliverKeeps
<1>5. NextLoopRound(r) = next
  BY DEF NextLoopRound, fresh
<1> HIDE DEF next
<1> QED
  BY <1>2, <1>4, <1>5

\* A run starts as a run.
LEMMA StartedRunType ==
  ASSUME NEW loop \in BOOLEAN
  PROVE  StartedRun(loop) \in Run
BY DEF StartedRun, Run, RunStatus, NodeStatus, PauseReasons, NoRounds

-------------------------------------------------------------------------------
(***************************************************************************)
(* Claimed guidance only adds to inboxes.                                  *)
(***************************************************************************)
LEMMA DeliverClaimedKeeps ==
  ASSUME NEW r \in Run, NEW to, claimed \in SUBSET Instructions
  PROVE  /\ DeliverClaimed(r, to) \in Run
         /\ DeliverClaimed(r, to).status = r.status
         /\ DeliverClaimed(r, to).node = r.node
         /\ DeliverClaimed(r, to).reason = r.reason
         /\ DeliverClaimed(r, to).loop = r.loop
         /\ \A s \in Steps : r.inbox[s] \subseteq DeliverClaimed(r, to).inbox[s]
BY DEF DeliverClaimed, Run, Messages

(***************************************************************************)
(* Resetting nodes left running leaves none running and keeps the rest.    *)
(***************************************************************************)
LEMMA ResetRunningKeeps ==
  ASSUME NEW r \in Run
  PROVE  /\ ResetRunning(r) \in Run
         /\ ResetRunning(r).status = r.status
         /\ ResetRunning(r).reason = r.reason
         /\ ResetRunning(r).inbox = r.inbox
         /\ \A s \in Steps : ResetRunning(r).node[s] # "running"
<1> DEFINE left == {s \in Steps : r.node[s] = "running"}
           reset == Reopen(r, left)
<1>1. /\ reset \in Run
      /\ reset.status = r.status
      /\ reset.reason = r.reason
      /\ reset.inbox = r.inbox
      /\ \A s \in Steps : reset.node[s] = IF s \in left THEN "pending" ELSE r.node[s]
  BY ReopenKeeps
<1>2. ResetRunning(r) = reset
  BY DEF ResetRunning
<1> HIDE DEF reset
<1> QED
  BY <1>1, <1>2

(***************************************************************************)
(* Completion is declared for a running run with every step passed, and    *)
(* changes nothing but the status.                                         *)
(***************************************************************************)
LEMMA CompletionKeeps ==
  ASSUME NEW r \in Run, NEW reason
  PROVE  /\ WithCompletion(r, reason) \in Run
         /\ WithCompletion(r, reason).node = r.node
         /\ WithCompletion(r, reason).inbox = r.inbox
         /\ WithCompletion(r, reason).loop = r.loop
         /\ \/ WithCompletion(r, reason).status = r.status
            \/ /\ WithCompletion(r, reason).status = "completed"
               /\ r.status = "running"
               /\ AllCompleted(r)
BY DEF WithCompletion, Run, RunStatus

(***************************************************************************)
(* The result of a step folds into the run, and keeps the step's own inbox *)
(* unless it is a verdict.                                                 *)
(***************************************************************************)
Verdicts == {"pass", "ask_human", "rework"}

\* A verdict folds, also one the paused run no longer accepts.
LEMMA ApplyOutcomeFolds ==
  ASSUME NEW r \in Run, NEW s \in Steps, NEW o
  PROVE  Folds(r, s, ApplyOutcome(r, s, o))
<1>1. ApplyOutcome(r, s, o) \in
        {RecordStepFailure(r, s), ApplyPass(r, s), ApplyAskHuman(r, s),
         ApplyRework(r, s, o.target)}
  BY DEF ApplyOutcome
<1> QED
  BY <1>1, FailureFolds, PassFolds, AskHumanFolds, ReworkFolds

\* So does everything else a goroutine may report.
LEMMA AfterResultFolds ==
  ASSUME NEW r \in Run, NEW s \in Steps, NEW o \in Results, o # None
  PROVE  /\ Folds(r, s, AfterResult(r, s, o))
         /\ o.kind \notin Verdicts => r.inbox[s] \subseteq AfterResult(r, s, o).inbox[s]
<1>1. CASE Interrupted(o)
  <2>1. AfterResult(r, s, o) = [r EXCEPT !.node[s] = "pending"]
    BY <1>1 DEF AfterResult
  <2> QED
    BY <2>1 DEF Folds, Run, NodeStatus
<1>2. CASE ~Interrupted(o) /\ o.kind = "infra"
  <2>1. AfterResult(r, s, o) = [r EXCEPT !.node[s] = "paused"]
    BY <1>2 DEF AfterResult
  <2> QED
    BY <2>1 DEF Folds, Run, NodeStatus
<1>3. CASE ~Interrupted(o) /\ o.kind = "failure"
  <2>1. AfterResult(r, s, o) = RecordStepFailure(r, s)
    BY <1>3 DEF AfterResult
  <2> QED
    BY <2>1, FailureFolds
<1>4. CASE ~Interrupted(o) /\ o.kind = "protocol_failure"
  <2> DEFINE failed == RecordStepFailure(r, s)
             reminded == Deliver(failed, {s}, {Onecatch})
  <2>1. AfterResult(r, s, o) = reminded
    BY <1>4 DEF AfterResult
  <2>2. Folds(r, s, failed) /\ failed.inbox = r.inbox
    BY FailureFolds
  <2>3. {Onecatch} \in SUBSET Messages
    BY DEF Messages
  <2> HIDE DEF failed
  <2>4. failed \in Run
    BY <2>2 DEF Folds
  <2>5. /\ reminded \in Run
        /\ reminded.status = failed.status
        /\ reminded.node = failed.node
        /\ reminded.loop = failed.loop
        /\ \A t \in Steps : failed.inbox[t] \subseteq reminded.inbox[t]
    BY <2>3, <2>4, DeliverKeeps
  <2> HIDE DEF reminded
  <2>6. Folds(r, s, reminded)
    BY <2>2, <2>5 DEF Folds
  <2>7. r.inbox[s] \subseteq reminded.inbox[s]
    BY <2>2, <2>5
  <2> QED
    BY <2>1, <2>6, <2>7
<1>5. CASE ~Interrupted(o) /\ o.kind \notin {"infra", "failure", "protocol_failure"}
  <2>1. AfterResult(r, s, o) = ApplyOutcome(r, s, o)
    BY <1>5 DEF AfterResult
  <2>2. o.kind \in Verdicts
    BY <1>5 DEF Results, Plain, SentBack, None, Verdicts, Interrupted
  <2> QED
    BY <2>1, <2>2, ApplyOutcomeFolds
<1> QED
  BY <1>1, <1>2, <1>3, <1>4, <1>5
-------------------------------------------------------------------------------
(***************************************************************************)
(* The inductive invariant.                                                *)
(***************************************************************************)
Inv == TypeOK /\ ControlInv

\* The two bounds are numbers.
LEMMA BoundsAreNat == MaxResumes \in Nat /\ MaxCrashes \in Nat
BY SchedulerAssumption, Zenon

\* The initial states satisfy it.
LEMMA InvInit == Init => Inv
<1> SUFFICES ASSUME Init PROVE Inv
  OBVIOUS
<1>1. PICK loop \in LoopModes : run = StartedRun(loop)
  BY DEF Init
<1>2. loop \in BOOLEAN
  BY SchedulerAssumption
<1>3. run \in Run
  BY <1>1, <1>2, StartedRunType
<1>4. run.status = "running" /\ \A s \in Steps : run.node[s] = "pending"
  BY <1>1 DEF StartedRun
<1>5. TypeOK
  <2>1. result \in [Steps -> Results]
    BY DEF Init, Results, Plain, None
  <2>2. resumes = 0 /\ crashes = 0
    BY DEF Init
  <2>3. resumes \in 0..MaxResumes /\ crashes \in 0..MaxCrashes
    BY <2>2, BoundsAreNat
  <2> QED
    BY <1>3, <2>1, <2>3
       DEF Init, TypeOK, TaskStatus, InstructionStatus, DriverStates, DriveStates, Endings
<1>6. ControlInv
  BY <1>4 DEF Init, ControlInv, Driving, DriveStates, CompletionLeavesNothingRunning,
              NodeStatusTracksExecution
<1> QED
  BY <1>5, <1>6 DEF Inv

\* Memory forgotten has the type of fresh memory.
LEMMA ForgetType ==
  ASSUME Forget
  PROVE  /\ ctxDone' \in BOOLEAN
         /\ inflight' = {}
         /\ prompt' \in [Steps -> SUBSET Messages]
         /\ result' \in [Steps -> Results]
         /\ batch' \in SUBSET Steps
         /\ claimed' = {}
         /\ includeFollowUp' \in BOOLEAN
         /\ pauseReason' \in {"", "infrastructure"}
         /\ ending' \in Endings
BY DEF Forget, Results, Plain, None, Endings

\* An abandoned drive keeps the invariant: the record stays, the memory goes.
LEMMA AbandonInv ==
  ASSUME Inv, NEW status \in {task, "running"}, Return(status)
  PROVE  Inv'
<1>1. TypeOK'
  BY ForgetType DEF Inv, TypeOK, Return, boundVars, DriverStates, DriveStates, TaskStatus
<1>2. ControlInv'
  BY ForgetType
     DEF Inv, Return, ControlInv, Driving, DriveStates,
         CompletionLeavesNothingRunning, NodeStatusTracksExecution
<1> QED
  BY <1>1, <1>2 DEF Inv

\* Claims takes instructions.
LEMMA ClaimType ==
  ASSUME TypeOK, NEW withFollowUp, Claim(withFollowUp)
  PROVE  /\ claimed' \in SUBSET Instructions
         /\ queue' \in [Instructions -> InstructionStatus]
<1>1. PICK items \in Claims(withFollowUp) :
        /\ claimed' = items
        /\ queue' = [i \in Instructions |-> IF i \in items THEN "applied" ELSE queue[i]]
  BY DEF Claim
<1>2. Claims(withFollowUp) \subseteq SUBSET Instructions
  BY DEF Claims, BoundaryGuidance, FollowUps
<1>3. queue \in [Instructions -> InstructionStatus] /\ "applied" \in InstructionStatus
  BY DEF TypeOK, InstructionStatus
<1> QED
  BY <1>1, <1>2, <1>3

(***************************************************************************)
(* The steps of the drive's loop keep the invariant.                       *)
(***************************************************************************)
LEMMA ChooseBatchInv ==
  ASSUME Inv, ChooseBatch
  PROVE  Inv'
<1>1. PICK chosen \in SUBSET Startable :
        /\ Cardinality(chosen) =
             IF Cardinality(Startable) < Room THEN Cardinality(Startable) ELSE Room
        /\ batch' = chosen
  BY DEF ChooseBatch
<1>2. Startable \subseteq Steps
  BY DEF Startable, ReadySteps
<1>3. IsFiniteSet(Startable)
  BY <1>2, DefinitionAssumption, FS_Subset
<1>4. Startable # {} /\ Room > 0
  BY DEF ChooseBatch, MayStart, Schedulable
<1>5. Cardinality(Startable) \in Nat /\ Cardinality(Startable) # 0
  BY <1>3, <1>4, FS_CardinalityType, FS_EmptySet
<1>6. chosen # {}
  BY <1>1, <1>4, <1>5, FS_EmptySet
<1>7. TypeOK'
  BY <1>1, <1>2
     DEF Inv, TypeOK, ChooseBatch, diskVars, stepVars, endVars, boundVars, historyVars,
         DriverStates, DriveStates
<1>8. ControlInv'
  BY <1>1, <1>6
     DEF Inv, ChooseBatch, MayStart, Schedulable, diskVars, stepVars, ControlInv, Driving, DriveStates,
         CompletionLeavesNothingRunning, NodeStatusTracksExecution
<1> QED
  BY <1>7, <1>8 DEF Inv

\* Draining the steps in flight leaves no goroutine to account for.
LEMMA RefuseSettingsInv ==
  ASSUME Inv, RefuseSettings
  PROVE  Inv'
<1>1. TypeOK'
  BY DEF Inv, TypeOK, RefuseSettings, diskVars, claimVars, boundVars, historyVars,
         DriverStates, DriveStates, Results, Plain, None, Endings
<1>2. ControlInv'
  BY DEF Inv, RefuseSettings, Schedulable, diskVars, ControlInv, Driving, DriveStates,
         CompletionLeavesNothingRunning, NodeStatusTracksExecution
<1> QED
  BY <1>1, <1>2 DEF Inv

\* A claim touches only the queue.
LEMMA ClaimForBatchInv ==
  ASSUME Inv, ClaimForBatch
  PROVE  Inv'
<1>1. TypeOK'
  BY ClaimType
     DEF Inv, TypeOK, ClaimForBatch, stepVars, endVars, boundVars, historyVars,
         DriverStates, DriveStates
<1>2. ControlInv'
  BY DEF Inv, ClaimForBatch, stepVars, ControlInv, Driving, DriveStates,
         CompletionLeavesNothingRunning, NodeStatusTracksExecution
<1> QED
  BY <1>1, <1>2 DEF Inv

\* The write that marks the batch running also puts it in flight.
LEMMA StartBatchInv ==
  ASSUME Inv, StartBatch
  PROVE  Inv'
<1> DEFINE delivered == DeliverClaimed(run, batch)
           started == [delivered EXCEPT
                         !.node = [s \in Steps |-> IF s \in batch THEN "running" ELSE @[s]]]
<1>1. /\ delivered \in Run
      /\ delivered.status = run.status
      /\ delivered.node = run.node
  BY DeliverClaimedKeeps DEF Inv, TypeOK
<1>2. /\ run' = started
      /\ prompt' = [s \in Steps |-> IF s \in batch THEN delivered.inbox[s] ELSE prompt[s]]
      /\ read' = read \cup {i \in Instructions : \E s \in batch : i \in delivered.inbox[s]}
      /\ inflight' = inflight \cup batch
      /\ batch' = {}
      /\ claimed' = {}
      /\ driver' = "schedule"
      /\ UNCHANGED <<task, queue, ctxDone, result, includeFollowUp, endVars, boundVars, lost>>
  BY DEF StartBatch
<1> HIDE DEF delivered
<1>3. /\ started \in Run
      /\ started.status = run.status
      /\ \A s \in Steps : started.node[s] = IF s \in batch THEN "running" ELSE run.node[s]
  BY <1>1 DEF Run, NodeStatus
<1> HIDE DEF started
<1>4. prompt' \in [Steps -> SUBSET Messages]
  <2>1. \A s \in Steps : delivered.inbox[s] \in SUBSET Messages
    BY <1>1 DEF Run
  <2> QED
    BY <1>2, <2>1 DEF Inv, TypeOK
<1>5. TypeOK'
  BY <1>2, <1>3, <1>4
     DEF Inv, TypeOK, endVars, boundVars, DriverStates, DriveStates
<1>6. driver = "claimed"
  BY DEF StartBatch
<1>7. ControlInv'
  BY <1>2, <1>3, <1>6
     DEF Inv, TypeOK, ControlInv, Driving, DriveStates,
         CompletionLeavesNothingRunning, NodeStatusTracksExecution
<1> QED
  BY <1>5, <1>7 DEF Inv

\* A goroutine reports one of its results and changes nothing else.
LEMMA FinishStepInv ==
  ASSUME Inv, NEW s \in Steps, FinishStep(s)
  PROVE  Inv'
<1>1. Outcomes(s) \subseteq Results
  BY DEF Outcomes, Results, Plain, SentBack, ReworkTargets
<1>2. TypeOK'
  BY <1>1
     DEF Inv, TypeOK, FinishStep, diskVars, claimVars, endVars, boundVars, historyVars
<1>3. ControlInv'
  BY DEF Inv, FinishStep, diskVars, claimVars, ControlInv, Driving,
         CompletionLeavesNothingRunning, NodeStatusTracksExecution
<1> QED
  BY <1>2, <1>3 DEF Inv

\* A folded result moves one node; completion needs every other one passed.
LEMMA ReceiveResultInv ==
  ASSUME Inv, NEW s \in Steps, ReceiveResult(s)
  PROVE  Inv'
<1> DEFINE folded == AfterResult(run, s, result[s])
           next == WithCompletion(folded, pauseReason')
<1>1. /\ driver = "schedule"
      /\ s \in inflight
      /\ result[s] # None
      /\ run' = next
      /\ inflight' = inflight \ {s}
      /\ pauseReason' \in {"infrastructure", pauseReason}
      /\ prompt' = [prompt EXCEPT ![s] = {}]
      /\ result' = [result EXCEPT ![s] = None]
      /\ UNCHANGED <<task, queue, driver, ctxDone, claimVars, ending, boundVars, historyVars>>
  BY DEF ReceiveResult
<1>2. Folds(run, s, folded)
  BY <1>1, AfterResultFolds DEF Inv, TypeOK
<1> HIDE DEF folded
<1>3. /\ next \in Run
      /\ next.node = folded.node
      /\ \/ next.status = folded.status
         \/ next.status = "completed" /\ folded.status = "running" /\ AllCompleted(folded)
  BY <1>2, CompletionKeeps DEF Folds
<1> HIDE DEF next
<1>4. TypeOK'
  BY <1>1, <1>3 DEF Inv, TypeOK, claimVars, boundVars, historyVars, Results, Plain, None
<1>5. /\ run'.node[s] # "running"
      /\ \A t \in Steps \ {s} : run'.node[t] \in {run.node[t], "pending"}
  BY <1>1, <1>2, <1>3 DEF Folds
<1>6. run.status # "completed"
  BY <1>1 DEF Inv, ControlInv, CompletionLeavesNothingRunning
<1>7. NodeStatusTracksExecution'
  BY <1>1, <1>5 DEF Inv, TypeOK, ControlInv, NodeStatusTracksExecution
<1>8. CompletionLeavesNothingRunning'
  <2> SUFFICES ASSUME run'.status = "completed"
               PROVE  AllCompleted(run') /\ inflight' = {}
    BY DEF CompletionLeavesNothingRunning
  <2>1. AllCompleted(folded)
    BY <1>1, <1>2, <1>3, <1>6 DEF Folds
  <2>2. AllCompleted(run')
    BY <1>1, <1>3, <2>1 DEF AllCompleted
  <2>3. inflight' = {}
    BY <1>1, <1>7, <2>2 DEF AllCompleted, NodeStatusTracksExecution, Inv, TypeOK
  <2> QED
    BY <2>2, <2>3
<1>9. run'.status # "cancelled"
  BY <1>1, <1>2, <1>3 DEF Folds, Inv, ControlInv, Driving, DriveStates
<1>10. ControlInv'
  BY <1>1, <1>7, <1>8, <1>9 DEF ControlInv
<1> QED
  BY <1>4, <1>10 DEF Inv
\* A round starts from a completed run, which has nothing in flight.
LEMMA StartNextRoundInv ==
  ASSUME Inv, StartNextRound
  PROVE  Inv'
<1>1. /\ run' \in Run
      /\ run'.status = "running"
      /\ \A s \in Steps : run'.node[s] = "pending"
  BY NextLoopRoundKeeps DEF Inv, TypeOK, StartNextRound
<1>2. inflight = {} /\ driver = "schedule"
  BY DEF StartNextRound, RoundOver, Drained
<1>3. TypeOK'
  BY <1>1 DEF Inv, TypeOK, StartNextRound, stepVars, endVars, boundVars, historyVars
<1>4. ControlInv'
  BY <1>1, <1>2
     DEF StartNextRound, stepVars, ControlInv, Driving, DriveStates,
         CompletionLeavesNothingRunning, NodeStatusTracksExecution
<1> QED
  BY <1>3, <1>4 DEF Inv

\* A refused round pauses a run that has nothing in flight.
LEMMA RefuseNextRoundInv ==
  ASSUME Inv, RefuseNextRound
  PROVE  Inv'
<1>1. run' \in Run /\ run'.status = "paused"
  <2>1. "execution_settings_invalid" \in PauseReasons
    BY DEF PauseReasons
  <2> QED
    BY <2>1, PauseKeeps DEF Inv, TypeOK, RefuseNextRound
<1>2. inflight = {}
  BY DEF RefuseNextRound, RoundOver, Drained
<1>3. TypeOK'
  BY <1>1
     DEF Inv, TypeOK, RefuseNextRound, stepVars, claimVars, boundVars, historyVars,
         DriverStates, DriveStates, Endings
<1>4. ControlInv'
  BY <1>1, <1>2
     DEF RefuseNextRound, stepVars, ControlInv, Driving, DriveStates,
         CompletionLeavesNothingRunning, NodeStatusTracksExecution
<1> QED
  BY <1>3, <1>4 DEF Inv

\* Reopening is considered only for a running or completed run.
LEMMA LookForMessagesInv ==
  ASSUME Inv, LookForMessages
  PROVE  Inv'
<1>1. TypeOK'
  BY DEF Inv, TypeOK, LookForMessages, diskVars, stepVars, claimVars, endVars, boundVars,
         historyVars, DriverStates, DriveStates
<1>2. ControlInv'
  BY DEF Inv, LookForMessages, MayReopen, Drained, diskVars, stepVars, ControlInv, Driving,
         DriveStates, CompletionLeavesNothingRunning, NodeStatusTracksExecution
<1> QED
  BY <1>1, <1>2 DEF Inv

\* A claim touches only the queue.
LEMMA ClaimForReopenInv ==
  ASSUME Inv, ClaimForReopen
  PROVE  Inv'
<1>1. TypeOK'
  BY ClaimType
     DEF Inv, TypeOK, ClaimForReopen, stepVars, endVars, boundVars, historyVars,
         DriverStates, DriveStates
<1>2. ControlInv'
  BY DEF Inv, ClaimForReopen, stepVars, ControlInv, Driving, DriveStates,
         CompletionLeavesNothingRunning, NodeStatusTracksExecution
<1> QED
  BY <1>1, <1>2 DEF Inv

\* Reopened steps are pending and the run is running again.
LEMMA ReopenForMessagesInv ==
  ASSUME Inv, ReopenForMessages
  PROVE  Inv'
<1> DEFINE delivered == DeliverClaimed(run, SinkSteps)
           reopened == Reopen(delivered, InboxReopened(delivered))
<1>1. delivered \in Run /\ delivered.node = run.node
  BY DeliverClaimedKeeps DEF Inv, TypeOK
<1>2. run' = [reopened EXCEPT !.status = "running"]
  BY DEF ReopenForMessages
<1>3. /\ reopened \in Run
      /\ \A s \in Steps : reopened.node[s] \in {run.node[s], "pending"}
  <2> HIDE DEF delivered
  <2> QED BY <1>1, ReopenKeeps
<1> HIDE DEF reopened
<1>4. /\ run' \in Run
      /\ run'.status = "running"
      /\ \A s \in Steps : run'.node[s] \in {run.node[s], "pending"}
  BY <1>2, <1>3 DEF Run, RunStatus
<1>5. driver = "delivering" /\ driver' = "schedule" /\ inflight' = inflight
  BY DEF ReopenForMessages, stepVars
<1>6. TypeOK'
  BY <1>4, <1>5
     DEF Inv, TypeOK, ReopenForMessages, stepVars, endVars, boundVars, historyVars,
         DriverStates, DriveStates
<1>7. ControlInv'
  BY <1>4, <1>5
     DEF Inv, ControlInv, Driving, DriveStates,
         CompletionLeavesNothingRunning, NodeStatusTracksExecution
<1> QED
  BY <1>6, <1>7 DEF Inv

\* The loop is left with nothing in flight.
LEMMA LeaveInv ==
  ASSUME Inv, Leave
  PROVE  Inv'
<1>1. driver \in {"schedule", "delivering"} /\ inflight = {}
  BY DEF Leave, Drained, Inv, ControlInv
<1>2. ending' \in Endings
  BY <1>1
     DEF Leave, EndingNow, Live, Inv, TypeOK, ControlInv, Driving, DriveStates, Run, RunStatus,
         Endings
<1>3. TypeOK'
  BY <1>2
     DEF Inv, TypeOK, Leave, diskVars, stepVars, claimVars, boundVars, historyVars,
         DriverStates, DriveStates
<1>4. ControlInv'
  BY <1>1
     DEF Inv, Leave, diskVars, stepVars, ControlInv, Driving, DriveStates,
         CompletionLeavesNothingRunning, NodeStatusTracksExecution
<1> QED
  BY <1>3, <1>4 DEF Inv

\* The run a drive settles is a run, and keeps the messages.
LEMMA SettledRunKeeps ==
  ASSUME TypeOK
  PROVE  /\ SettledRun \in Run
         /\ \A s \in Steps : run.inbox[s] \subseteq SettledRun.inbox[s]
<1> DEFINE r == IF ending = "interrupted" /\ run.loop /\ run.status = "completed"
                THEN NextLoopRound(run) ELSE run
           settled == DeliverClaimed(r, SinkSteps)
<1>1. r \in Run /\ \A s \in Steps : run.inbox[s] \subseteq r.inbox[s]
  BY NextLoopRoundKeeps DEF TypeOK
<1>2. SettledRun = settled
  BY DEF SettledRun
<1> HIDE DEF r
<1>3. settled \in Run /\ \A s \in Steps : r.inbox[s] \subseteq settled.inbox[s]
  BY <1>1, DeliverClaimedKeeps DEF TypeOK
<1> HIDE DEF settled
<1> QED
  BY <1>1, <1>2, <1>3

\* The pause that is written leaves no completed run behind it.
LEMMA SettleRunInv ==
  ASSUME Inv, SettleRun
  PROVE  Inv'
<1>1. ending \in PauseReasons
  BY DEF Inv, TypeOK, SettleRun, PauseWrites, Endings, PauseReasons
<1>2. run' \in Run /\ run'.status = "paused"
  BY <1>1, SettledRunKeeps, PauseKeeps DEF Inv, SettleRun
<1>3. TypeOK'
  BY <1>2
     DEF Inv, TypeOK, SettleRun, stepVars, endVars, boundVars, historyVars,
         DriverStates, DriveStates
<1>4. ControlInv'
  BY <1>2
     DEF Inv, SettleRun, stepVars, ControlInv, Driving, DriveStates,
         CompletionLeavesNothingRunning, NodeStatusTracksExecution
<1> QED
  BY <1>3, <1>4 DEF Inv

\* A run that paused or completed by itself is kept as it is.
LEMMA KeepRunInv ==
  ASSUME Inv, KeepRun
  PROVE  Inv'
<1>1. TypeOK'
  BY DEF Inv, TypeOK, KeepRun, diskVars, stepVars, claimVars, endVars, boundVars,
         historyVars, DriverStates, DriveStates
<1>2. ControlInv'
  BY DEF Inv, KeepRun, diskVars, stepVars, ControlInv, Driving, DriveStates,
         CompletionLeavesNothingRunning, NodeStatusTracksExecution
<1> QED
  BY <1>1, <1>2 DEF Inv

\* The task settles after the run; memory is forgotten.
LEMMA SettleTaskInv ==
  ASSUME Inv, SettleTask
  PROVE  Inv'
<1>1. TypeOK'
  BY ForgetType
     DEF Inv, TypeOK, SettleTask, boundVars, historyVars, DriverStates, DriveStates, TaskStatus
<1>2. ControlInv'
  BY ForgetType
     DEF Inv, SettleTask, ControlInv, Driving, DriveStates,
         CompletionLeavesNothingRunning, NodeStatusTracksExecution
<1> QED
  BY <1>1, <1>2 DEF Inv

-------------------------------------------------------------------------------
(***************************************************************************)
(* So do the operations on a stopped run.                                  *)
(***************************************************************************)
LEMMA ResumeRunInv ==
  ASSUME Inv, NEW from, NEW text \in SUBSET Messages, ResumeRun(from, text)
  PROVE  Inv'
<1> DEFINE base == ResumeBase(from)
           resumed == Resume(base, from, text)
<1>1. base \in Run
  <2>1. CASE run.loop /\ run.status = "completed" /\ from = {}
    <3> DEFINE next == NextLoopRound(run)
    <3>1. next \in Run
      BY NextLoopRoundKeeps DEF Inv, TypeOK
    <3>2. base = [next EXCEPT !.status = "paused"]
      BY <2>1 DEF ResumeBase
    <3> HIDE DEF next
    <3> QED
      BY <3>1, <3>2 DEF Run, RunStatus
  <2>2. CASE ~(run.loop /\ run.status = "completed" /\ from = {})
    BY <2>2 DEF ResumeBase, Inv, TypeOK
  <2> QED
    BY <2>1, <2>2
<1> HIDE DEF base
<1>2. resumed \in Run /\ resumed.status = "running"
  BY <1>1, ResumeKeeps
<1>3. run' = ResetRunning(resumed)
  BY DEF ResumeRun, base
<1> HIDE DEF resumed
<1>4. /\ run' \in Run
      /\ run'.status = "running"
      /\ \A s \in Steps : run'.node[s] # "running"
  BY <1>2, <1>3, ResetRunningKeeps
<1>5. resumes' \in 0..MaxResumes
  <2>1. resumes \in 0..MaxResumes /\ resumes < MaxResumes /\ resumes' = resumes + 1
    BY DEF Inv, TypeOK, ResumeRun
  <2> QED
    BY <2>1, BoundsAreNat
<1>6. includeFollowUp' \in BOOLEAN
  BY DEF ResumeRun
<1>7. TypeOK'
  BY <1>4, <1>5, <1>6
     DEF Inv, TypeOK, ResumeRun, stepVars, endVars, historyVars, DriverStates, DriveStates
<1>8. ControlInv'
  BY <1>4
     DEF Inv, ResumeRun, stepVars, ControlInv, Driving, DriveStates,
         CompletionLeavesNothingRunning, NodeStatusTracksExecution
<1> QED
  BY <1>7, <1>8 DEF Inv

\* A resumed drive starts with no node running.
LEMMA EnterDriveInv ==
  ASSUME Inv, EnterDrive
  PROVE  Inv'
<1>1. TypeOK'
  BY DEF Inv, TypeOK, EnterDrive, stepVars, claimVars, endVars, boundVars, historyVars,
         DriverStates, DriveStates, TaskStatus
<1>2. ControlInv'
  BY DEF Inv, EnterDrive, stepVars, ControlInv, Driving, DriveStates,
         CompletionLeavesNothingRunning, NodeStatusTracksExecution
<1> QED
  BY <1>1, <1>2 DEF Inv

\* The loop switch touches no node.
LEMMA SetRunLoopInv ==
  ASSUME Inv, NEW enabled \in BOOLEAN, SetRunLoop(enabled)
  PROVE  Inv'
<1>1. /\ run' \in Run
      /\ run'.status = run.status
      /\ run'.node = run.node
  BY DEF Inv, TypeOK, SetRunLoop, Run
<1>2. TypeOK'
  BY <1>1
     DEF Inv, TypeOK, SetRunLoop, stepVars, claimVars, endVars, boundVars, historyVars
<1>3. ControlInv'
  BY <1>1
     DEF Inv, SetRunLoop, stepVars, ControlInv, Driving, DriveStates, AllCompleted,
         CompletionLeavesNothingRunning, NodeStatusTracksExecution
<1> QED
  BY <1>2, <1>3 DEF Inv

\* Only a stopped run is cancelled.
LEMMA CancelRunInv ==
  ASSUME Inv, CancelRun
  PROVE  Inv'
<1>1. run' \in Run /\ run'.status = "cancelled"
  BY DEF Inv, TypeOK, CancelRun, Run, RunStatus, PauseReasons
<1>2. TypeOK'
  BY <1>1
     DEF Inv, TypeOK, CancelRun, stepVars, claimVars, endVars, boundVars, historyVars,
         DriverStates
<1>3. ControlInv'
  BY <1>1
     DEF Inv, CancelRun, stepVars, ControlInv, Driving, DriveStates,
         CompletionLeavesNothingRunning, NodeStatusTracksExecution
<1> QED
  BY <1>2, <1>3 DEF Inv

\* The task follows the cancelled run.
LEMMA CancelTaskInv ==
  ASSUME Inv, CancelTask
  PROVE  Inv'
<1>1. TypeOK'
  BY DEF Inv, TypeOK, CancelTask, stepVars, claimVars, endVars, boundVars, historyVars,
         DriverStates, TaskStatus
<1>2. ControlInv'
  BY DEF Inv, CancelTask, stepVars, ControlInv, Driving, DriveStates,
         CompletionLeavesNothingRunning, NodeStatusTracksExecution
<1> QED
  BY <1>1, <1>2 DEF Inv

-------------------------------------------------------------------------------
(***************************************************************************)
(* And the user and the process.                                           *)
(***************************************************************************)
LEMMA UserInv ==
  ASSUME Inv,
         \/ Interrupt
         \/ \E i \in Instructions, status \in {"ready", "pending", "follow_up"} :
              EnqueueInstruction(i, status) \/ UpdateInstructionMode(i, status)
         \/ \E i \in Instructions : RemoveInstruction(i)
  PROVE  Inv'
<1>1. /\ UNCHANGED <<run, task, driver, stepVars, claimVars, endVars, boundVars, historyVars>>
      /\ ctxDone' \in BOOLEAN
      /\ queue' \in [Instructions -> InstructionStatus]
  BY DEF Inv, TypeOK, Interrupt, EnqueueInstruction, UpdateInstructionMode, RemoveInstruction,
         diskVars,
         InstructionStatus
<1>2. TypeOK'
  BY <1>1 DEF Inv, TypeOK, stepVars, claimVars, endVars, boundVars, historyVars
<1>3. ControlInv'
  BY <1>1
     DEF Inv, stepVars, claimVars, ControlInv, Driving,
         CompletionLeavesNothingRunning, NodeStatusTracksExecution
<1> QED
  BY <1>2, <1>3 DEF Inv

\* A dead process has no goroutine.
LEMMA CrashInv ==
  ASSUME Inv, Crash
  PROVE  Inv'
<1>1. crashes' \in 0..MaxCrashes
  <2>1. crashes \in 0..MaxCrashes /\ crashes < MaxCrashes /\ crashes' = crashes + 1
    BY DEF Inv, TypeOK, Crash
  <2> QED
    BY <2>1, BoundsAreNat
<1>2. TypeOK'
  BY <1>1, ForgetType DEF Inv, TypeOK, Crash, diskVars, DriverStates
<1>3. ControlInv'
  BY ForgetType
     DEF Inv, Crash, diskVars, ControlInv, Driving, DriveStates,
         CompletionLeavesNothingRunning, NodeStatusTracksExecution
<1> QED
  BY <1>2, <1>3 DEF Inv

\* Recovery resets the nodes the dead process left running.
LEMMA RecoverRunInv ==
  ASSUME Inv, RecoverRun
  PROVE  Inv'
<1>1. CASE run.status = "running"
  <2>1. "interrupted" \in PauseReasons
    BY DEF PauseReasons
  <2>2. ResetRunning(run) \in Run
    BY ResetRunningKeeps DEF Inv, TypeOK
  <2>3. run' \in Run /\ run'.status = "paused" /\ driver' = "recovering"
    BY <1>1, <2>1, <2>2, PauseKeeps DEF RecoverRun
  <2>4. TypeOK'
    BY <2>3
       DEF Inv, TypeOK, RecoverRun, stepVars, claimVars, endVars, boundVars, historyVars,
           DriverStates
  <2>5. ControlInv'
    BY <2>3
       DEF Inv, RecoverRun, stepVars, ControlInv, Driving, DriveStates,
           CompletionLeavesNothingRunning, NodeStatusTracksExecution
  <2> QED
    BY <2>4, <2>5 DEF Inv
<1>2. CASE run.status # "running"
  <2>1. run' = run /\ driver' = "idle"
    BY <1>2 DEF RecoverRun
  <2>2. TypeOK'
    BY <2>1
       DEF Inv, TypeOK, RecoverRun, stepVars, claimVars, endVars, boundVars, historyVars,
           DriverStates
  <2>3. ControlInv'
    BY <2>1
       DEF Inv, RecoverRun, stepVars, ControlInv, Driving, DriveStates,
           CompletionLeavesNothingRunning, NodeStatusTracksExecution
  <2> QED
    BY <2>2, <2>3 DEF Inv
<1> QED
  BY <1>1, <1>2

\* The task follows the recovered run.
LEMMA RecoverTaskInv ==
  ASSUME Inv, RecoverTask
  PROVE  Inv'
<1>1. TypeOK'
  BY DEF Inv, TypeOK, RecoverTask, stepVars, claimVars, endVars, boundVars, historyVars,
         DriverStates, TaskStatus
<1>2. ControlInv'
  BY DEF Inv, RecoverTask, stepVars, ControlInv, Driving, DriveStates,
         CompletionLeavesNothingRunning, NodeStatusTracksExecution
<1> QED
  BY <1>1, <1>2 DEF Inv

-------------------------------------------------------------------------------
\* Every step of the specification keeps the invariant.
LEMMA InvNext == Inv /\ [Next]_vars => Inv'
<1> SUFFICES ASSUME Inv, [Next]_vars PROVE Inv'
  OBVIOUS
<1>1. CASE Schedule
  <2>1. CASE AbandonStart \/ AbandonReopen \/ AbandonSettle \/ AbandonEnter
    BY <2>1, AbandonInv DEF AbandonStart, AbandonReopen, AbandonSettle, AbandonEnter, Abandon
  <2> QED
    BY <1>1, <2>1, ChooseBatchInv, ClaimForBatchInv, StartBatchInv, ReceiveResultInv,
       StartNextRoundInv, LookForMessagesInv, ClaimForReopenInv, ReopenForMessagesInv,
       LeaveInv, SettleRunInv, KeepRunInv, SettleTaskInv, EnterDriveInv
       DEF Schedule
<1>2. CASE Operate
  <2>1. CASE \E from \in {{}} \cup {{s} : s \in Steps}, text \in {{}, {Human}} :
               ResumeRun(from, text)
    <3>1. {{}, {Human}} \subseteq SUBSET Messages
      BY DEF Messages
    <3> QED
      BY <2>1, <3>1, ResumeRunInv
  <2>2. CASE \E enabled \in LoopModes : SetRunLoop(enabled)
    BY <2>2, SchedulerAssumption, SetRunLoopInv
  <2>3. CASE \/ Interrupt
             \/ \E i \in Instructions, status \in {"ready", "pending", "follow_up"} :
                  EnqueueInstruction(i, status) \/ UpdateInstructionMode(i, status)
             \/ \E i \in Instructions : RemoveInstruction(i)
    BY <2>3, UserInv
  <2> QED
    BY <1>2, <2>1, <2>2, <2>3, RefuseSettingsInv, RefuseNextRoundInv, CancelRunInv,
       CancelTaskInv, CrashInv, RecoverRunInv, RecoverTaskInv
       DEF Operate
<1>3. CASE \E s \in Steps : FinishStep(s)
  BY <1>3, FinishStepInv
<1>4. CASE UNCHANGED vars
  BY <1>4
     DEF vars, diskVars, stepVars, claimVars, endVars, boundVars, historyVars, Inv, TypeOK,
         ControlInv, Driving, CompletionLeavesNothingRunning, NodeStatusTracksExecution
<1> QED
  BY <1>1, <1>2, <1>3, <1>4 DEF Next

(***************************************************************************)
(* The invariant holds throughout: the scheduler's control points and the  *)
(* run's status, nodes and goroutines agree in every reachable state.      *)
(***************************************************************************)
THEOREM InvCorrect == Spec => []Inv
<1> QED
  BY InvInit, InvNext, PTL DEF Spec

(***************************************************************************)
(* Every variable keeps its type; in particular no drive ends for a reason *)
(* the code has no case for.                                               *)
(***************************************************************************)
THEOREM TypeCorrect == Spec => []TypeOK
<1>1. Inv => TypeOK
  BY DEF Inv
<1> QED
  BY <1>1, InvCorrect, PTL

(***************************************************************************)
(* A completed run has passed every step and left no goroutine behind.     *)
(***************************************************************************)
THEOREM CompletionCorrect == Spec => []CompletionLeavesNothingRunning
<1>1. Inv => CompletionLeavesNothingRunning
  BY DEF Inv, ControlInv
<1> QED
  BY <1>1, InvCorrect, PTL

(***************************************************************************)
(* Node statuses and goroutines agree while steps are scheduled.           *)
(***************************************************************************)
THEOREM NodeStatusCorrect == Spec => []NodeStatusTracksExecution
<1>1. Inv => NodeStatusTracksExecution
  BY DEF Inv, ControlInv
<1> QED
  BY <1>1, InvCorrect, PTL

-------------------------------------------------------------------------------
(***************************************************************************)
(* What a run's record keeps. It rests on Inv and on the sink every        *)
(* acyclic graph has.                                                      *)
(*                                                                         *)
(* Messages first: what a run's inboxes keep, what a claim may lose, and   *)
(* when a follow-up is taken. Then the two records of a run: what the      *)
(* run's status, its task's status and its inboxes say of each other       *)
(* whenever a drive is over, and that they change only as RunLifecycle     *)
(* allows: what each action writes, RecordInv shown inductive, the         *)
(* refinement, step by step, and the runs that do not loop.                *)
(***************************************************************************)

(***************************************************************************)
(* Every step but a received result only adds to the inboxes of the run on *)
(* disk, and makes a paused run run again only from idle.                  *)
(***************************************************************************)
Grows ==
  /\ \A s \in Steps : run.inbox[s] \subseteq run'.inbox[s]
  /\ run.status = "paused" /\ run'.status # "paused" => driver = "idle"
  /\ run.status = "cancelled" => run' = run

\* Leaving the record alone is the simplest way.
LEMMA UnchangedGrows == UNCHANGED run => Grows
BY DEF Grows

\* The batch keeps what its steps had not read and adds the claim.
LEMMA StartBatchGrows ==
  ASSUME Inv, StartBatch
  PROVE  Grows
<1> DEFINE delivered == DeliverClaimed(run, batch)
<1>1. delivered \in Run /\ \A s \in Steps : run.inbox[s] \subseteq delivered.inbox[s]
  BY DeliverClaimedKeeps DEF Inv, TypeOK
<1> HIDE DEF delivered
<1>2. run' = [delivered EXCEPT
                !.node = [s \in Steps |-> IF s \in batch THEN "running" ELSE @[s]]]
  BY DEF StartBatch, delivered
<1>3. run'.inbox = delivered.inbox
  BY <1>1, <1>2 DEF Run
<1>4. run.status = "running"
  BY DEF StartBatch, Inv, ControlInv
<1> QED
  BY <1>1, <1>3, <1>4 DEF Grows

\* A new round adds a note to the entry steps and takes nothing.
LEMMA NewRoundGrows ==
  ASSUME Inv, StartNextRound \/ RefuseNextRound
  PROVE  Grows
<1>1. run.status = "completed"
  BY DEF StartNextRound, RefuseNextRound, RoundOver
<1>2. "execution_settings_invalid" \in PauseReasons
  BY DEF PauseReasons
<1>3. \A s \in Steps : run.inbox[s] \subseteq run'.inbox[s]
  <2>1. CASE StartNextRound
    BY <2>1, NextLoopRoundKeeps DEF Inv, TypeOK, StartNextRound
  <2>2. CASE RefuseNextRound
    BY <2>2, <1>2, PauseKeeps DEF Inv, TypeOK, RefuseNextRound
  <2> QED
    BY <2>1, <2>2
<1> QED
  BY <1>1, <1>3 DEF Grows

\* Reopening keeps the messages that caused it.
LEMMA ReopenForMessagesGrows ==
  ASSUME Inv, ReopenForMessages
  PROVE  Grows
<1> DEFINE delivered == DeliverClaimed(run, SinkSteps)
           reopened == Reopen(delivered, InboxReopened(delivered))
<1>1. delivered \in Run /\ \A s \in Steps : run.inbox[s] \subseteq delivered.inbox[s]
  BY DeliverClaimedKeeps DEF Inv, TypeOK
<1>2. run' = [reopened EXCEPT !.status = "running"]
  BY DEF ReopenForMessages
<1> HIDE DEF delivered
<1>3. reopened \in Run /\ reopened.inbox = delivered.inbox
  BY <1>1, ReopenKeeps
<1> HIDE DEF reopened
<1>4. run'.inbox = delivered.inbox
  BY <1>2, <1>3 DEF Run
<1>5. run.status \in {"running", "completed"}
  BY DEF ReopenForMessages, Inv, ControlInv
<1> QED
  BY <1>1, <1>4, <1>5 DEF Grows

\* The final pause keeps every inbox, in a new round too.
LEMMA SettleRunGrows ==
  ASSUME Inv, SettleRun
  PROVE  Grows
<1>1. ending \in PauseReasons
  BY DEF Inv, TypeOK, SettleRun, PauseWrites, Endings, PauseReasons
<1>2. SettledRun \in Run /\ \A s \in Steps : run.inbox[s] \subseteq SettledRun.inbox[s]
  BY SettledRunKeeps DEF Inv
<1>3. run' = PauseRun(SettledRun, ending)
  BY DEF SettleRun
<1>4. run'.status = "paused" /\ run'.inbox = SettledRun.inbox
  BY <1>1, <1>2, <1>3, PauseKeeps
<1>5. run.status # "cancelled"
  BY DEF SettleRun, Inv, ControlInv, Driving, DriveStates
<1> QED
  BY <1>2, <1>4, <1>5 DEF Grows

\* A resume adds the human text and takes nothing.
LEMMA ResumeRunGrows ==
  ASSUME Inv, NEW from, NEW text \in SUBSET Messages, ResumeRun(from, text)
  PROVE  Grows
<1> DEFINE base == ResumeBase(from)
           resumed == Resume(base, from, text)
<1>1. base \in Run /\ \A s \in Steps : run.inbox[s] \subseteq base.inbox[s]
  <2>1. CASE run.loop /\ run.status = "completed" /\ from = {}
    <3> DEFINE next == NextLoopRound(run)
    <3>1. next \in Run /\ \A s \in Steps : run.inbox[s] \subseteq next.inbox[s]
      BY NextLoopRoundKeeps DEF Inv, TypeOK
    <3>2. base = [next EXCEPT !.status = "paused"]
      BY <2>1 DEF ResumeBase
    <3> HIDE DEF next
    <3> QED
      BY <3>1, <3>2 DEF Run, RunStatus
  <2>2. CASE ~(run.loop /\ run.status = "completed" /\ from = {})
    BY <2>2 DEF ResumeBase, Inv, TypeOK
  <2> QED
    BY <2>1, <2>2
<1> HIDE DEF base
<1>2. resumed \in Run /\ \A s \in Steps : base.inbox[s] \subseteq resumed.inbox[s]
  BY <1>1, ResumeKeeps
<1>3. run' = ResetRunning(resumed) /\ driver = "idle" /\ run.status \in {"paused", "completed"}
  BY DEF ResumeRun, base
<1> HIDE DEF resumed
<1>4. \A s \in Steps : run.inbox[s] \subseteq run'.inbox[s]
  BY <1>1, <1>2, <1>3, ResetRunningKeeps
<1> QED
  BY <1>3, <1>4 DEF Grows

\* The operations that do not write inboxes keep them.
LEMMA OperateGrows ==
  ASSUME Inv, CancelRun \/ \E enabled \in BOOLEAN : SetRunLoop(enabled)
  PROVE  Grows
BY DEF Grows, CancelRun, SetRunLoop, Inv, TypeOK, Run

\* Recovery keeps every inbox.
LEMMA RecoverRunGrows ==
  ASSUME Inv, RecoverRun
  PROVE  Grows
<1>1. CASE run.status = "running"
  <2>1. "interrupted" \in PauseReasons
    BY DEF PauseReasons
  <2>2. ResetRunning(run) \in Run /\ ResetRunning(run).inbox = run.inbox
    BY ResetRunningKeeps DEF Inv, TypeOK
  <2>3. run' = PauseRun(ResetRunning(run), "interrupted")
    BY <1>1 DEF RecoverRun
  <2>4. run'.inbox = run.inbox
    BY <2>1, <2>2, <2>3, PauseKeeps
  <2> QED
    BY <1>1, <2>4 DEF Grows
<1>2. CASE run.status # "running"
  BY <1>2 DEF RecoverRun, Grows
<1> QED
  BY <1>1, <1>2

-------------------------------------------------------------------------------
\* The last conjunct of ClaimInv: no applied guidance is out of reach.
Kept ==
  \A i \in Instructions :
    (Target[i] = NoStep /\ queue[i] = "applied") =>
      \/ i \in claimed \cup read \cup lost
      \/ \E s \in Steps \ inflight : i \in run.inbox[s]

(***************************************************************************)
(* A step that starts nothing, lets inboxes of idle steps only grow and    *)
(* accounts for what was claimed keeps guidance within reach.              *)
(***************************************************************************)
LEMMA KeptStep ==
  ASSUME Kept,
         \A i \in Instructions : queue'[i] = "applied" => queue[i] = "applied" \/ i \in claimed',
         claimed \subseteq claimed' \cup lost',
         read \subseteq read',
         lost \subseteq lost',
         inflight' \subseteq inflight,
         \A s \in Steps \ inflight : run.inbox[s] \subseteq run'.inbox[s]
  PROVE  Kept'
BY DEF Kept

(***************************************************************************)
(* A step that only writes what was claimed: every message the delivery    *)
(* gives to some idle step is within reach afterwards.                     *)
(***************************************************************************)
LEMMA KeptDelivery ==
  ASSUME Inv, Kept,
         NEW r \in Run,
         inflight = {}, inflight' = {},
         \A s \in Steps : run.inbox[s] \subseteq r.inbox[s],
         \A s \in Steps : DeliverClaimed(r, SinkSteps).inbox[s] \subseteq run'.inbox[s],
         UNCHANGED <<queue, read, lost>>
  PROVE  Kept'
<1> SUFFICES ASSUME NEW i \in Instructions, Target[i] = NoStep, queue[i] = "applied",
                    i \notin read, i \notin lost
             PROVE  \E s \in Steps \ inflight' : i \in run'.inbox[s]
  BY DEF Kept
<1> DEFINE delivered == DeliverClaimed(r, SinkSteps)
<1>1. delivered \in Run /\ \A s \in Steps : r.inbox[s] \subseteq delivered.inbox[s]
  BY DeliverClaimedKeeps DEF Inv, TypeOK
<1>2. CASE i \in claimed
  <2>1. PICK s \in SinkSteps : TRUE
    BY SinkExists
  <2>2. s \in Steps
    BY <2>1 DEF SinkSteps
  <2>3. i \in delivered.inbox[s]
    BY <1>2, <2>1, <2>2 DEF DeliverClaimed, Run
  <2> QED
    BY <2>2, <2>3
<1>3. CASE i \notin claimed
  <2>1. PICK s \in Steps : i \in run.inbox[s]
    BY <1>3 DEF Kept
  <2>2. i \in delivered.inbox[s]
    BY <1>1, <2>1
  <2> QED
    BY <2>2
<1> QED
  BY <1>2, <1>3

\* The steps that touch neither the queue nor the run's inboxes.
LEMMA QuietClaim ==
  ASSUME Inv, ClaimInv, UNCHANGED <<queue, claimed, read, lost, inflight>>,
         \A s \in Steps : run.inbox[s] \subseteq run'.inbox[s]
  PROVE  Kept'
BY KeptStep DEF ClaimInv, Kept

\* A drive that returns without writing accounts for its claim as lost.
LEMMA ForgetClaim ==
  ASSUME Inv, ClaimInv, Forget, lost' = lost \cup claimed,
         UNCHANGED <<run, queue, read>>
  PROVE  ClaimInv'
<1>1. Kept'
  BY KeptStep DEF ClaimInv, Kept, Forget
<1> QED
  BY <1>1 DEF ClaimInv, Kept, Forget

\* The initial states satisfy it.
LEMMA ClaimInit == Init => ClaimInv
BY DEF Init, ClaimInv

\* Choosing a batch claims nothing.
LEMMA ChooseBatchClaim ==
  ASSUME Inv, ClaimInv, ChooseBatch
  PROVE  ClaimInv'
<1>1. Kept'
  BY QuietClaim DEF ChooseBatch, diskVars, stepVars, historyVars
<1> QED
  BY <1>1 DEF ClaimInv, Kept, ChooseBatch, MayStart, Schedulable, diskVars, stepVars, historyVars, endVars

\* Drained steps are no longer in flight, so what they hold still waits.
LEMMA RefuseSettingsClaim ==
  ASSUME Inv, ClaimInv, RefuseSettings
  PROVE  ClaimInv'
<1>1. Kept'
  BY KeptStep DEF ClaimInv, Kept, RefuseSettings, diskVars, claimVars, historyVars
<1> QED
  BY <1>1 DEF ClaimInv, Kept, RefuseSettings, Schedulable, diskVars, claimVars, historyVars

\* A claim is accounted for as claimed.
LEMMA ClaimKept ==
  ASSUME Inv, ClaimInv, claimed = {}, NEW withFollowUp, Claim(withFollowUp),
         UNCHANGED <<run, inflight, read, lost>>
  PROVE  Kept'
<1>1. \A i \in Instructions : queue'[i] = "applied" => queue[i] = "applied" \/ i \in claimed'
  BY DEF Claim, Inv, TypeOK
<1> QED
  BY <1>1, KeptStep DEF ClaimInv, Kept

\* What the batch claims is held until its write.
LEMMA ClaimForBatchClaim ==
  ASSUME Inv, ClaimInv, ClaimForBatch
  PROVE  ClaimInv'
<1>1. claimed = {}
  BY DEF ClaimInv, ClaimForBatch
<1>2. Kept'
  BY <1>1, ClaimKept DEF ClaimForBatch, stepVars, historyVars
<1> QED
  BY <1>2 DEF ClaimInv, Kept, ClaimForBatch

\* What reopening claims is held until its write.
LEMMA ClaimForReopenClaim ==
  ASSUME Inv, ClaimInv, ClaimForReopen
  PROVE  ClaimInv'
<1>1. claimed = {}
  BY DEF ClaimInv, ClaimForReopen
<1>2. Kept'
  BY <1>1, ClaimKept DEF ClaimForReopen, stepVars, historyVars
<1>3. inflight' = {}
  BY DEF ClaimForReopen, stepVars, Inv, ControlInv
<1> QED
  BY <1>2, <1>3 DEF ClaimInv, Kept, ClaimForReopen

(***************************************************************************)
(* The batch reads what it is given, so its members may leave the idle     *)
(* steps.                                                                  *)
(***************************************************************************)
LEMMA StartBatchClaim ==
  ASSUME Inv, ClaimInv, StartBatch
  PROVE  ClaimInv'
<1> DEFINE delivered == DeliverClaimed(run, batch)
<1>1. delivered \in Run /\ \A s \in Steps : run.inbox[s] \subseteq delivered.inbox[s]
  BY DeliverClaimedKeeps DEF Inv, TypeOK
<1>2. /\ run'.inbox = delivered.inbox
      /\ read' = read \cup {i \in Instructions : \E s \in batch : i \in delivered.inbox[s]}
      /\ inflight' = inflight \cup batch
      /\ claimed' = {}
      /\ lost' = lost
      /\ queue' = queue
      /\ driver = "claimed"
      /\ driver' = "schedule"
      /\ includeFollowUp' = includeFollowUp
  <2> HIDE DEF delivered
  <2>1. run' = [delivered EXCEPT
                  !.node = [s \in Steps |-> IF s \in batch THEN "running" ELSE @[s]]]
    BY DEF StartBatch, delivered
  <2>2. run'.inbox = delivered.inbox
    BY <1>1, <2>1 DEF Run
  <2> QED
    BY <2>2 DEF StartBatch, delivered
<1>3. batch # {} /\ batch \subseteq Steps
  BY <1>2 DEF Inv, TypeOK, ControlInv
<1>4. Kept'
  <2> SUFFICES ASSUME NEW i \in Instructions, Target[i] = NoStep, queue[i] = "applied",
                      i \notin read', i \notin lost
               PROVE  \E s \in Steps \ inflight' : i \in run'.inbox[s]
    BY <1>2 DEF Kept
  <2>1. \A s \in batch : i \notin delivered.inbox[s]
    BY <1>2
  <2>2. i \notin claimed
    <3> SUFFICES ASSUME i \in claimed PROVE FALSE
      OBVIOUS
    <3>1. PICK s \in batch : TRUE
      BY <1>3
    <3>2. i \in delivered.inbox[s]
      BY <1>3, <3>1 DEF DeliverClaimed, Inv, TypeOK, Run
    <3> QED
      BY <2>1, <3>2
  <2>3. PICK s \in Steps \ inflight : i \in run.inbox[s]
    BY <1>2, <2>2 DEF ClaimInv
  <2>4. i \in delivered.inbox[s]
    BY <1>1, <2>3
  <2> HIDE DEF delivered
  <2>5. s \notin inflight'
    BY <1>2, <2>1, <2>3, <2>4
  <2> QED
    BY <1>2, <2>3, <2>4, <2>5
<1> QED
  BY <1>2, <1>4 DEF ClaimInv, Kept

\* A reported result moves no message.
LEMMA FinishStepClaim ==
  ASSUME Inv, ClaimInv, NEW s \in Steps, FinishStep(s)
  PROVE  ClaimInv'
BY DEF ClaimInv, FinishStep, diskVars, claimVars, endVars, historyVars

\* A result leaves the inboxes of idle steps alone, or adds to them.
LEMMA ReceiveResultClaim ==
  ASSUME Inv, ClaimInv, NEW s \in Steps, ReceiveResult(s)
  PROVE  ClaimInv'
<1> DEFINE folded == AfterResult(run, s, result[s])
<1>1. /\ driver = "schedule" /\ driver' = driver
      /\ s \in inflight
      /\ result[s] # None
      /\ run' = WithCompletion(folded, pauseReason')
      /\ inflight' = inflight \ {s}
      /\ UNCHANGED <<queue, batch, claimed, includeFollowUp, read, lost>>
  BY DEF ReceiveResult, claimVars, historyVars
<1>2. Folds(run, s, folded)
  BY <1>1, AfterResultFolds DEF Inv, TypeOK
<1> HIDE DEF folded
<1>3. run'.inbox = folded.inbox
  BY <1>1, <1>2, CompletionKeeps DEF Folds
<1>4. \A t \in Steps \ inflight : run.inbox[t] \subseteq run'.inbox[t]
  BY <1>1, <1>2, <1>3 DEF Folds
<1>5. Kept'
  BY <1>1, <1>4, KeptStep DEF ClaimInv, Kept
<1> QED
  BY <1>1, <1>5 DEF ClaimInv, Kept

\* The next round keeps the inboxes it starts from.
LEMMA StartNextRoundClaim ==
  ASSUME Inv, ClaimInv, StartNextRound
  PROVE  ClaimInv'
<1>1. \A s \in Steps : run.inbox[s] \subseteq run'.inbox[s]
  BY NewRoundGrows DEF Grows
<1>2. /\ UNCHANGED <<queue, driver, inflight, claimed, ending, read, lost>>
      /\ inflight = {}
      /\ driver = "schedule"
  BY DEF StartNextRound, RoundOver, Drained, stepVars, endVars, historyVars
<1>3. Kept'
  BY <1>1, <1>2, QuietClaim
<1> QED
  BY <1>2, <1>3 DEF ClaimInv, Kept

\* A refused round keeps the inboxes.
LEMMA RefuseNextRoundClaim ==
  ASSUME Inv, ClaimInv, RefuseNextRound
  PROVE  ClaimInv'
<1>1. \A s \in Steps : run.inbox[s] \subseteq run'.inbox[s]
  BY NewRoundGrows DEF Grows
<1>2. /\ UNCHANGED <<queue, inflight, claimed, includeFollowUp, read, lost>>
      /\ driver = "schedule"
      /\ driver' = "finishing"
  BY DEF RefuseNextRound, RoundOver, Drained, stepVars, claimVars, historyVars
<1>3. Kept'
  BY <1>1, <1>2, QuietClaim
<1> QED
  BY <1>2, <1>3 DEF ClaimInv, Kept

\* Looking for messages claims nothing yet.
LEMMA LookForMessagesClaim ==
  ASSUME Inv, ClaimInv, LookForMessages
  PROVE  ClaimInv'
BY DEF ClaimInv, LookForMessages, MayReopen, Drained, diskVars, stepVars, claimVars, endVars,
       historyVars

\* The write delivers the claim to the steps it reopens.
LEMMA ReopenForMessagesClaim ==
  ASSUME Inv, ClaimInv, ReopenForMessages
  PROVE  ClaimInv'
<1> DEFINE delivered == DeliverClaimed(run, SinkSteps)
           reopened == Reopen(delivered, InboxReopened(delivered))
<1>1. delivered \in Run
  BY DeliverClaimedKeeps DEF Inv, TypeOK
<1>2. /\ run' = [reopened EXCEPT !.status = "running"]
      /\ driver = "delivering" /\ driver' = "schedule"
      /\ claimed' = {}
      /\ UNCHANGED <<queue, inflight, includeFollowUp, read, lost>>
  BY DEF ReopenForMessages, stepVars, historyVars
<1>3. inflight = {}
  BY <1>2 DEF Inv, ControlInv
<1>4. \A s \in Steps : delivered.inbox[s] \subseteq run'.inbox[s]
  <2> HIDE DEF delivered
  <2>1. reopened \in Run /\ reopened.inbox = delivered.inbox
    BY <1>1, ReopenKeeps
  <2> HIDE DEF reopened
  <2> QED
    BY <1>2, <2>1 DEF Run
<1>5. Kept'
  BY <1>2, <1>3, <1>4, KeptDelivery DEF ClaimInv, Kept, Inv, TypeOK
<1> QED
  BY <1>2, <1>3, <1>5 DEF ClaimInv, Kept

(***************************************************************************)
(* A drive that leaves with a claim unwritten is not one that keeps the    *)
(* run as it is: had the run completed, the claim would have reopened a    *)
(* step.                                                                   *)
(***************************************************************************)
LEMMA LeaveClaim ==
  ASSUME Inv, ClaimInv, Leave
  PROVE  ClaimInv'
<1>1. /\ driver \in {"schedule", "delivering"}
      /\ driver' = "settling"
      /\ ending' = EndingNow
      /\ inflight = {}
      /\ UNCHANGED <<run, queue, inflight, claimed, includeFollowUp, read, lost>>
  BY DEF Leave, Drained, diskVars, stepVars, claimVars, historyVars, Inv, ControlInv
<1>2. ASSUME claimed # {}
      PROVE  EndingNow \notin {"paused", "completed"}
  <2> SUFFICES ASSUME EndingNow \in {"paused", "completed"} PROVE FALSE
    OBVIOUS
  <2>1. driver = "delivering" /\ InboxReopened(DeliverClaimed(run, SinkSteps)) = {}
    BY <1>2 DEF Leave, Drained, ClaimInv
  <2>2. run.status \in {"running", "completed"}
    BY <2>1 DEF Inv, ControlInv
  <2>3. run.status = "completed"
    <3>1. EndingNow \in {"interrupted", pauseReason, "blocked", run.status}
      BY DEF EndingNow
    <3>2. pauseReason \in {"", "infrastructure"}
      BY DEF Inv, TypeOK
    <3> QED
      BY <2>2, <3>1, <3>2
  <2>4. AllCompleted(run)
    BY <2>3 DEF Inv, ControlInv, CompletionLeavesNothingRunning
  <2>5. PICK i \in claimed : TRUE
    BY <1>2
  <2>6. i \in Instructions
    BY DEF Inv, TypeOK
  <2>7. PICK s \in Steps : i \in DeliverClaimed(run, SinkSteps).inbox[s]
    <3>1. CASE Target[i] = NoStep
      <4>1. PICK t \in SinkSteps : TRUE
        BY SinkExists
      <4>2. t \in Steps
        BY DEF SinkSteps
      <4>3. i \in DeliverClaimed(run, SinkSteps).inbox[t]
        BY <2>5, <3>1, <4>1, <4>2 DEF DeliverClaimed, Inv, TypeOK, Run
      <4> QED
        BY <4>2, <4>3
    <3>2. CASE Target[i] # NoStep
      <4>1. Target[i] \in Steps
        BY <2>6, <3>2, SchedulerAssumption
      <4>2. i \in DeliverClaimed(run, SinkSteps).inbox[Target[i]]
        BY <2>5, <4>1 DEF DeliverClaimed, Inv, TypeOK, Run
      <4> QED
        BY <4>1, <4>2
    <3> QED
      BY <3>1, <3>2
  <2>8. DeliverClaimed(run, SinkSteps).node = run.node
    BY DeliverClaimedKeeps DEF Inv, TypeOK
  <2>9. s \in InboxReopened(DeliverClaimed(run, SinkSteps))
    <3> DEFINE delivered == DeliverClaimed(run, SinkSteps)
    <3>1. delivered.node[s] = "completed" /\ delivered.inbox[s] # {}
      BY <2>4, <2>7, <2>8 DEF AllCompleted
    <3> HIDE DEF delivered
    <3>2. s \in InboxReopened(delivered)
      BY <3>1 DEF InboxReopened
    <3> QED
      BY <3>2 DEF delivered
  <2> QED
    BY <2>1, <2>9
<1>3. Kept'
  BY <1>1, QuietClaim
<1> QED
  BY <1>1, <1>2, <1>3 DEF ClaimInv, Kept

\* The final pause writes what was claimed last.
LEMMA SettleRunClaim ==
  ASSUME Inv, ClaimInv, SettleRun
  PROVE  ClaimInv'
<1> DEFINE r == IF ending = "interrupted" /\ run.loop /\ run.status = "completed"
                THEN NextLoopRound(run) ELSE run
           settled == DeliverClaimed(r, SinkSteps)
<1>1. r \in Run /\ \A s \in Steps : run.inbox[s] \subseteq r.inbox[s]
  BY NextLoopRoundKeeps DEF Inv, TypeOK
<1>2. SettledRun = settled
  BY DEF SettledRun
<1>3. /\ run' = PauseRun(settled, ending)
      /\ driver = "settling" /\ driver' = "finishing"
      /\ claimed' = {}
      /\ UNCHANGED <<queue, inflight, includeFollowUp, read, lost>>
  BY <1>2 DEF SettleRun, stepVars, historyVars
<1>4. inflight = {}
  BY <1>3 DEF Inv, ControlInv
<1> HIDE DEF r
<1>5. settled \in Run
  BY <1>1, DeliverClaimedKeeps DEF Inv, TypeOK
<1>6. \A s \in Steps : settled.inbox[s] \subseteq run'.inbox[s]
  <2>1. ending \in PauseReasons
    BY DEF Inv, TypeOK, SettleRun, PauseWrites, Endings, PauseReasons
  <2> HIDE DEF settled
  <2> QED
    BY <1>3, <1>5, <2>1, PauseKeeps
<1>7. Kept'
  BY <1>1, <1>3, <1>4, <1>6, KeptDelivery DEF ClaimInv, Kept
<1> QED
  BY <1>3, <1>4, <1>7 DEF ClaimInv, Kept

\* A drive that keeps the run has claimed nothing since its last write.
LEMMA KeepRunClaim ==
  ASSUME Inv, ClaimInv, KeepRun
  PROVE  ClaimInv'
BY DEF ClaimInv, KeepRun, diskVars, stepVars, claimVars, endVars, historyVars

\* Nothing is claimed when the task settles.
LEMMA SettleTaskClaim ==
  ASSUME Inv, ClaimInv, SettleTask
  PROVE  ClaimInv'
<1>1. lost' = lost \cup claimed
  BY DEF ClaimInv, SettleTask, historyVars
<1> QED
  BY <1>1, ForgetClaim DEF SettleTask, historyVars

\* A resume keeps the inboxes it finds.
LEMMA ResumeRunClaim ==
  ASSUME Inv, ClaimInv, NEW from, NEW text \in SUBSET Messages, ResumeRun(from, text)
  PROVE  ClaimInv'
<1>1. \A s \in Steps : run.inbox[s] \subseteq run'.inbox[s]
  BY ResumeRunGrows DEF Grows
<1>2. /\ driver = "idle" /\ driver' = "entering"
      /\ UNCHANGED <<queue, inflight, claimed, read, lost>>
  BY DEF ResumeRun, stepVars, historyVars
<1>3. Kept'
  BY <1>1, <1>2, QuietClaim
<1>4. inflight' = {}
  BY <1>2 DEF Inv, ControlInv
<1> QED
  BY <1>2, <1>3, <1>4 DEF ClaimInv, Kept

\* The operations that neither claim nor write an inbox.
LEMMA OperateClaim ==
  ASSUME Inv, ClaimInv,
         \/ EnterDrive
         \/ \E enabled \in BOOLEAN : SetRunLoop(enabled)
         \/ CancelRun \/ CancelTask \/ RecoverTask
  PROVE  ClaimInv'
<1>1. /\ UNCHANGED <<queue, inflight, claimed, includeFollowUp, read, lost>>
      /\ driver \notin {"claimed", "delivering", "settling"}
      /\ driver' \notin {"claimed", "delivering", "settling"}
  BY DEF EnterDrive, SetRunLoop, CancelRun, CancelTask, RecoverTask, stepVars, claimVars,
         historyVars
<1>2. run'.inbox = run.inbox
  BY DEF EnterDrive, SetRunLoop, CancelRun, CancelTask, RecoverTask, Inv, TypeOK, Run
<1>3. Kept'
  BY <1>1, <1>2, QuietClaim
<1> QED
  BY <1>1, <1>3 DEF ClaimInv, Kept

\* The user adds to the queue and never marks an instruction applied.
LEMMA UserClaim ==
  ASSUME Inv, ClaimInv,
         \/ Interrupt
         \/ \E i \in Instructions, status \in {"ready", "pending", "follow_up"} :
              EnqueueInstruction(i, status) \/ UpdateInstructionMode(i, status)
         \/ \E i \in Instructions : RemoveInstruction(i)
  PROVE  ClaimInv'
<1>1. UNCHANGED <<run, driver, inflight, claimed, includeFollowUp, ending, read, lost>>
  BY DEF Interrupt, EnqueueInstruction, UpdateInstructionMode, RemoveInstruction, diskVars,
         stepVars, claimVars,
         endVars, historyVars
<1>2. \A i \in Instructions : queue'[i] = "applied" => queue[i] = "applied"
  BY DEF Interrupt, EnqueueInstruction, UpdateInstructionMode, RemoveInstruction, diskVars, Inv, TypeOK
<1>3. Kept'
  BY <1>1, <1>2, KeptStep DEF ClaimInv, Kept
<1> QED
  BY <1>1, <1>3 DEF ClaimInv, Kept

\* Recovery keeps the inboxes of the dead run.
LEMMA RecoverRunClaim ==
  ASSUME Inv, ClaimInv, RecoverRun
  PROVE  ClaimInv'
<1>1. /\ UNCHANGED <<queue, inflight, claimed, includeFollowUp, read, lost>>
      /\ driver = "down"
      /\ driver' \in {"recovering", "idle"}
  BY DEF RecoverRun, stepVars, claimVars, historyVars
<1>2. \A s \in Steps : run.inbox[s] \subseteq run'.inbox[s]
  BY RecoverRunGrows DEF Grows
<1>3. Kept'
  BY <1>1, <1>2, QuietClaim
<1> QED
  BY <1>1, <1>3 DEF ClaimInv, Kept

-------------------------------------------------------------------------------
\* Every step of the specification keeps ClaimInv.
LEMMA ClaimNext == Inv /\ ClaimInv /\ [Next]_vars => ClaimInv'
<1> SUFFICES ASSUME Inv, ClaimInv, [Next]_vars PROVE ClaimInv'
  OBVIOUS
<1>1. CASE Schedule
  <2>1. CASE AbandonStart \/ AbandonReopen \/ AbandonSettle \/ AbandonEnter
    <3>1. \E status \in {task, "running"} : Return(status)
      BY <2>1 DEF AbandonStart, AbandonReopen, AbandonSettle, AbandonEnter, Abandon
    <3> QED
      BY <3>1, ForgetClaim DEF Return
  <2>2. CASE EnterDrive
    BY <2>2, OperateClaim
  <2> QED
    BY <1>1, <2>1, <2>2, ChooseBatchClaim, ClaimForBatchClaim, StartBatchClaim,
       ReceiveResultClaim, StartNextRoundClaim, LookForMessagesClaim, ClaimForReopenClaim,
       ReopenForMessagesClaim, LeaveClaim, SettleRunClaim, KeepRunClaim, SettleTaskClaim
       DEF Schedule
<1>2. CASE Operate
  <2>1. CASE \E from \in {{}} \cup {{s} : s \in Steps}, text \in {{}, {Human}} :
               ResumeRun(from, text)
    <3>1. {{}, {Human}} \subseteq SUBSET Messages
      BY DEF Messages
    <3> QED
      BY <2>1, <3>1, ResumeRunClaim
  <2>2. CASE \/ \E enabled \in LoopModes : SetRunLoop(enabled)
             \/ CancelRun \/ CancelTask \/ RecoverTask
    BY <2>2, SchedulerAssumption, OperateClaim
  <2>3. CASE \/ Interrupt
             \/ \E i \in Instructions, status \in {"ready", "pending", "follow_up"} :
                  EnqueueInstruction(i, status) \/ UpdateInstructionMode(i, status)
             \/ \E i \in Instructions : RemoveInstruction(i)
    BY <2>3, UserClaim
  <2>4. CASE Crash
    BY <2>4, ForgetClaim DEF Crash, diskVars
  <2> QED
    BY <1>2, <2>1, <2>2, <2>3, <2>4, RefuseSettingsClaim, RefuseNextRoundClaim, RecoverRunClaim
       DEF Operate
<1>3. CASE \E s \in Steps : FinishStep(s)
  BY <1>3, FinishStepClaim
<1>4. CASE UNCHANGED vars
  BY <1>4 DEF vars, diskVars, stepVars, claimVars, endVars, boundVars, historyVars, ClaimInv
<1> QED
  BY <1>1, <1>2, <1>3, <1>4 DEF Next

\* So it holds throughout.
THEOREM ClaimCorrect == Spec => []ClaimInv
<1> QED
  BY ClaimInit, ClaimNext, InvCorrect, PTL DEF Spec

(***************************************************************************)
(* Guidance that names no step and has been claimed reaches an attempt or  *)
(* waits in an inbox; only an abandoned write leaves it behind.            *)
(***************************************************************************)
THEOREM GuidanceCorrect == Spec => []GuidanceIsNotLost
<1>1. ClaimInv => GuidanceIsNotLost
  BY DEF ClaimInv, GuidanceIsNotLost
<1> QED
  BY <1>1, ClaimCorrect, PTL

\* Every step but a received result.
LEMMA NextGrows ==
  ASSUME Inv, [Next]_vars, \A s \in Steps : ~ReceiveResult(s)
  PROVE  Grows
<1>1. CASE Schedule
  <2>1. CASE StartBatch \/ StartNextRound \/ ReopenForMessages \/ SettleRun
    BY <2>1, StartBatchGrows, NewRoundGrows, ReopenForMessagesGrows, SettleRunGrows
  <2>2. CASE ~(StartBatch \/ StartNextRound \/ ReopenForMessages \/ SettleRun)
    <3>1. UNCHANGED run
      BY <1>1, <2>2
         DEF Schedule, ChooseBatch, ClaimForBatch, AbandonStart, LookForMessages,
             ClaimForReopen, AbandonReopen, Leave, AbandonSettle, KeepRun, SettleTask,
             EnterDrive, AbandonEnter, Abandon, Return, diskVars
    <3> QED
      BY <3>1, UnchangedGrows
  <2> QED
    BY <2>1, <2>2
<1>2. CASE Operate
  <2>1. CASE \E from \in {{}} \cup {{s} : s \in Steps}, text \in {{}, {Human}} :
               ResumeRun(from, text)
    <3>1. {{}, {Human}} \subseteq SUBSET Messages
      BY DEF Messages
    <3> QED
      BY <2>1, <3>1, ResumeRunGrows
  <2>2. CASE CancelRun \/ \E enabled \in LoopModes : SetRunLoop(enabled)
    BY <2>2, SchedulerAssumption, OperateGrows
  <2>3. CASE RefuseNextRound \/ RecoverRun
    BY <2>3, NewRoundGrows, RecoverRunGrows
  <2>4. CASE \/ RefuseSettings \/ CancelTask \/ Interrupt \/ Crash \/ RecoverTask
             \/ \E i \in Instructions, status \in {"ready", "pending", "follow_up"} :
                  EnqueueInstruction(i, status) \/ UpdateInstructionMode(i, status)
             \/ \E i \in Instructions : RemoveInstruction(i)
    <3>1. UNCHANGED run
      BY <2>4
         DEF RefuseSettings, CancelTask, Interrupt, Crash, RecoverTask, EnqueueInstruction,
             UpdateInstructionMode, RemoveInstruction, diskVars
    <3> QED
      BY <3>1, UnchangedGrows
  <2> QED
    BY <1>2, <2>1, <2>2, <2>3, <2>4 DEF Operate
<1>3. CASE \E s \in Steps : FinishStep(s)
  BY <1>3, UnchangedGrows DEF FinishStep, diskVars
<1>4. CASE UNCHANGED vars
  BY <1>4, UnchangedGrows DEF vars, diskVars
<1> QED
  BY <1>1, <1>2, <1>3, <1>4 DEF Next

\* What a received result keeps.
LEMMA ReceiveResultKeeps ==
  ASSUME Inv, NEW s \in Steps, ReceiveResult(s)
  PROVE  /\ \A t \in Steps \ {s} : run.inbox[t] \subseteq run'.inbox[t]
         /\ result[s].kind \notin Verdicts => run.inbox[s] \subseteq run'.inbox[s]
         /\ run.status = "paused" => run'.status = "paused"
         /\ run.status # "cancelled"
         /\ s \in inflight
<1> DEFINE folded == AfterResult(run, s, result[s])
<1>1. /\ driver = "schedule"
      /\ s \in inflight
      /\ result[s] # None
      /\ run' = WithCompletion(folded, pauseReason')
  BY DEF ReceiveResult
<1>2. /\ Folds(run, s, folded)
      /\ result[s].kind \notin Verdicts => run.inbox[s] \subseteq folded.inbox[s]
  BY <1>1, AfterResultFolds DEF Inv, TypeOK
<1> HIDE DEF folded
<1>3. /\ run'.inbox = folded.inbox
      /\ run'.status = folded.status \/ folded.status = "running"
  BY <1>1, <1>2, CompletionKeeps DEF Folds
<1>4. run.status # "cancelled"
  BY <1>1 DEF Inv, ControlInv, Driving, DriveStates
<1> QED
  BY <1>1, <1>2, <1>3, <1>4 DEF Folds

(***************************************************************************)
(* A paused run runs again only because someone resumed it, and a          *)
(* cancelled run never changes.                                            *)
(***************************************************************************)
THEOREM RestartCorrect == Spec => OnlyResumeRestarts
<1>1. ASSUME Inv, [Next]_vars
      PROVE  [/\ run.status = "paused" /\ run'.status # "paused" => driver = "idle"
              /\ run.status = "cancelled" => run' = run]_vars
  <2>1. CASE \E s \in Steps : ReceiveResult(s)
    BY <1>1, <2>1, ReceiveResultKeeps
  <2>2. CASE \A s \in Steps : ~ReceiveResult(s)
    BY <1>1, <2>2, NextGrows DEF Grows
  <2> QED
    BY <2>1, <2>2
<1> QED
  BY <1>1, InvCorrect, PTL DEF Spec, OnlyResumeRestarts

(***************************************************************************)
(* A message leaves a step's inbox only with a verdict of that step.       *)
(***************************************************************************)
THEOREM InboxCorrect == Spec => InboxClearedOnlyByVerdict
<1>1. ASSUME Inv, [Next]_vars
      PROVE  [\A s \in Steps :
                ~(run.inbox[s] \subseteq run'.inbox[s]) =>
                  s \in inflight /\ result[s].kind \in {"pass", "ask_human", "rework"}]_vars
  <2>1. CASE \E s \in Steps : ReceiveResult(s)
    BY <1>1, <2>1, ReceiveResultKeeps DEF Verdicts
  <2>2. CASE \A s \in Steps : ~ReceiveResult(s)
    BY <1>1, <2>2, NextGrows DEF Grows
  <2> QED
    BY <2>1, <2>2
<1> QED
  BY <1>1, InvCorrect, PTL DEF Spec, InboxClearedOnlyByVerdict
\* A claim that takes a follow-up takes nothing else, and was allowed to.
LEMMA FollowUpAlone ==
  ASSUME Inv, NEW withFollowUp, Claim(withFollowUp),
         NEW i \in Instructions, queue[i] = "follow_up", queue'[i] = "applied"
  PROVE  withFollowUp /\ claimed' = {i}
<1>1. PICK items \in Claims(withFollowUp) :
        /\ claimed' = items
        /\ queue' = [j \in Instructions |-> IF j \in items THEN "applied" ELSE queue[j]]
  BY DEF Claim
<1>2. i \in items
  BY <1>1
<1>3. i \notin BoundaryGuidance
  BY DEF BoundaryGuidance
<1> QED
  BY <1>1, <1>2, <1>3 DEF Claims

(***************************************************************************)
(* A follow-up is claimed alone, with no step in flight.                   *)
(***************************************************************************)
THEOREM FollowUpCorrect == Spec => FollowUpStartsATurn
<1>1. ASSUME Inv, ClaimInv, [Next]_vars
      PROVE  [\A i \in Instructions :
                queue[i] = "follow_up" /\ queue'[i] = "applied" =>
                  inflight = {} /\ claimed' = {i}]_vars
  <2> SUFFICES ASSUME NEW i \in Instructions, queue[i] = "follow_up", queue'[i] = "applied"
               PROVE  inflight = {} /\ claimed' = {i}
    OBVIOUS
  <2>1. CASE ClaimForBatch
    BY <1>1, <2>1, FollowUpAlone DEF ClaimForBatch, ClaimInv
  <2>2. CASE ClaimForReopen
    BY <1>1, <2>2, FollowUpAlone DEF ClaimForReopen
  <2>3. CASE ~(ClaimForBatch \/ ClaimForReopen)
    <3>1. \/ queue' = queue
          \/ \E j \in Instructions, status \in {"ready", "pending", "follow_up"} :
               EnqueueInstruction(j, status) \/ UpdateInstructionMode(j, status)
          \/ \E j \in Instructions : RemoveInstruction(j)
      BY <1>1, <2>3
         DEF Next, Schedule, Operate, ChooseBatch, StartBatch, AbandonStart, ReceiveResult,
             StartNextRound, LookForMessages, ReopenForMessages, AbandonReopen, Leave,
             SettleRun, AbandonSettle, KeepRun, SettleTask, EnterDrive, AbandonEnter, Abandon, Return,
             RefuseSettings, RefuseNextRound, ResumeRun, SetRunLoop, CancelRun, CancelTask,
             Interrupt, Crash, RecoverRun, RecoverTask, FinishStep, vars, diskVars
    <3> QED
      BY <1>1, <3>1
         DEF EnqueueInstruction, UpdateInstructionMode, RemoveInstruction, Inv, TypeOK
  <2> QED
    BY <2>1, <2>2, <2>3
<1> QED
  BY <1>1, InvCorrect, ClaimCorrect, PTL DEF Spec, FollowUpStartsATurn

-------------------------------------------------------------------------------
(***************************************************************************)
(* What the actions that write the run write.                              *)
(***************************************************************************)
\* Starting a batch changes nodes to running and adds messages.
LEMMA StartBatchWrites ==
  ASSUME Inv, StartBatch
  PROVE  /\ run'.status = run.status
         /\ run'.loop = run.loop
         /\ \A s \in Steps : run'.node[s] = IF s \in batch THEN "running" ELSE run.node[s]
<1> DEFINE delivered == DeliverClaimed(run, batch)
<1>1. /\ delivered \in Run
      /\ delivered.status = run.status
      /\ delivered.loop = run.loop
      /\ delivered.node = run.node
  BY DeliverClaimedKeeps DEF Inv, TypeOK
<1> HIDE DEF delivered
<1>2. run' = [delivered EXCEPT
                !.node = [s \in Steps |-> IF s \in batch THEN "running" ELSE @[s]]]
  BY DEF StartBatch, delivered
<1> QED
  BY <1>1, <1>2 DEF Run

\* Only a pass that a running run accepts makes a step passed.
LEMMA OnlyPassPasses ==
  ASSUME NEW r \in Run, NEW s \in Steps, NEW o \in Results, o # None,
         AfterResult(r, s, o).node[s] = "completed"
  PROVE  r.status = "running" /\ AfterResult(r, s, o).status = "running" /\ o.kind = "pass"
<1>1. CASE Interrupted(o)
  <2>1. AfterResult(r, s, o) = [r EXCEPT !.node[s] = "pending"]
    BY <1>1 DEF AfterResult
  <2> QED
    BY <2>1 DEF Run
<1>2. CASE ~Interrupted(o) /\ o.kind = "infra"
  <2>1. AfterResult(r, s, o) = [r EXCEPT !.node[s] = "paused"]
    BY <1>2 DEF AfterResult
  <2> QED
    BY <2>1 DEF Run
<1>3. CASE ~Interrupted(o) /\ o.kind = "failure"
  <2>1. AfterResult(r, s, o) = RecordStepFailure(r, s)
    BY <1>3 DEF AfterResult
  <2> QED
    BY <2>1, FailureFolds
<1>4. CASE ~Interrupted(o) /\ o.kind = "protocol_failure"
  <2> DEFINE failed == RecordStepFailure(r, s)
  <2>1. AfterResult(r, s, o) = Deliver(failed, {s}, {Onecatch})
    BY <1>4 DEF AfterResult
  <2>2. failed \in Run /\ failed.node[s] # "completed"
    BY FailureFolds DEF Folds
  <2>3. {Onecatch} \in SUBSET Messages
    BY DEF Messages
  <2> HIDE DEF failed
  <2> QED
    BY <2>1, <2>2, <2>3, DeliverKeeps
<1>5. CASE ~Interrupted(o) /\ o.kind \notin {"infra", "failure", "protocol_failure"}
  <2>1. AfterResult(r, s, o) = ApplyOutcome(r, s, o)
    BY <1>5 DEF AfterResult
  <2>2. CASE r.status # "running"
    BY <2>1, <2>2, FailureFolds DEF ApplyOutcome
  <2>3. CASE r.status = "running" /\ o.kind = "pass"
    BY <2>1, <2>3, PassFolds DEF ApplyOutcome
  <2>4. CASE r.status = "running" /\ o.kind = "ask_human"
    BY <2>1, <2>4, AskHumanFolds DEF ApplyOutcome
  <2>5. CASE r.status = "running" /\ o.kind \notin {"pass", "ask_human"}
    <3>1. ApplyOutcome(r, s, o) = ApplyRework(r, s, o.target)
      BY <2>5 DEF ApplyOutcome
    <3> QED
      BY <2>1, <3>1, ReworkFolds
  <2> QED
    BY <2>2, <2>3, <2>4, <2>5
<1> QED
  BY <1>1, <1>2, <1>3, <1>4, <1>5

\* A received result.
LEMMA ReceiveResultWrites ==
  ASSUME Inv, NEW s \in Steps, ReceiveResult(s)
  PROVE  /\ run'.loop = run.loop
         /\ \A t \in Steps \ {s} : run'.node[t] \in {run.node[t], "pending"}
         /\ run'.node[s] = "completed" =>
              run.status = "running" /\ run'.status \in {"running", "completed"}
         /\ \/ run'.status \in {run.status, "paused"}
            \/ run.status = "running" /\ run'.status = "completed"
         /\ run'.status = "running" /\ pauseReason' = "" => ~AllCompleted(run')
         /\ run'.status = "completed" /\ run.status # "completed" => pauseReason' = ""
         /\ pauseReason' # pauseReason => run'.node[s] # "completed"
<1> DEFINE folded == AfterResult(run, s, result[s])
           next == WithCompletion(folded, pauseReason')
<1>1. /\ result[s] \in Results /\ result[s] # None /\ run \in Run
      /\ run' = next
      /\ pauseReason' = IF result[s].kind = "infra" /\ ~Interrupted(result[s])
                        THEN "infrastructure" ELSE pauseReason
  BY DEF ReceiveResult, Inv, TypeOK
<1>2. Folds(run, s, folded)
  BY <1>1, AfterResultFolds
<1>3. folded.node[s] = "completed" =>
        run.status = "running" /\ folded.status = "running" /\ result[s].kind = "pass"
  BY <1>1, OnlyPassPasses
<1> HIDE DEF folded
<1>4. /\ next.node = folded.node
      /\ next.loop = folded.loop
      /\ \/ next.status = folded.status
         \/ next.status = "completed" /\ folded.status = "running" /\ AllCompleted(folded)
  BY <1>2, CompletionKeeps DEF Folds
<1>5. /\ next.status = "running" /\ pauseReason' = "" => ~AllCompleted(next)
      /\ next.status = "completed" /\ folded.status # "completed" => pauseReason' = ""
  BY <1>2 DEF WithCompletion, AllCompleted, Folds, Run
<1> HIDE DEF next
<1> QED
  BY <1>1, <1>2, <1>3, <1>4, <1>5 DEF Folds

\* Reopening steps for messages sets some passed step to run again.
LEMMA ReopenForMessagesWrites ==
  ASSUME Inv, ReopenForMessages
  PROVE  /\ run.status \in {"running", "completed"} /\ run'.status = "running"
         /\ run'.loop = run.loop
         /\ \A s \in Steps : run'.node[s] \in {run.node[s], "pending"}
         /\ ~AllCompleted(run')
<1> DEFINE delivered == DeliverClaimed(run, SinkSteps)
           again == InboxReopened(delivered)
           reopened == Reopen(delivered, again)
<1>1. delivered \in Run /\ delivered.node = run.node /\ delivered.loop = run.loop
  BY DeliverClaimedKeeps DEF Inv, TypeOK
<1>2. again # {} /\ run' = [reopened EXCEPT !.status = "running"]
  BY DEF ReopenForMessages
<1>3. again \subseteq Steps
  BY DEF InboxReopened
<1> HIDE DEF delivered, again
<1>4. /\ reopened \in Run
      /\ reopened.loop = delivered.loop
      /\ \A s \in Steps : reopened.node[s] = IF s \in again THEN "pending" ELSE delivered.node[s]
  BY <1>1, ReopenKeeps
<1> HIDE DEF reopened
<1>5. /\ run'.status = "running" /\ run'.loop = reopened.loop
      /\ run'.node = reopened.node
  BY <1>2, <1>4 DEF Run
<1>6. run.status \in {"running", "completed"}
  BY DEF ReopenForMessages, Inv, ControlInv
<1> QED
  BY <1>1, <1>2, <1>3, <1>4, <1>5, <1>6 DEF AllCompleted

\* The pause that ends a drive.
LEMMA SettleRunWrites ==
  ASSUME Inv, SettleRun
  PROVE  /\ run'.status = "paused" /\ SettledRun.status = "running"
         /\ ~run.loop => /\ run.status = "running"
                         /\ run'.loop = run.loop /\ run'.node = run.node
<1>1. /\ ending \in PauseReasons
      /\ SettledRun.status = "running" /\ run' = PauseRun(SettledRun, ending)
  BY DEF Inv, TypeOK, SettleRun, PauseWrites, Endings, PauseReasons
<1>2. SettledRun \in Run
  BY SettledRunKeeps DEF Inv
<1>3. /\ run'.status = "paused"
      /\ run'.loop = SettledRun.loop /\ run'.node = SettledRun.node
  BY <1>1, <1>2, PauseKeeps
<1>4. ASSUME ~run.loop
      PROVE  /\ SettledRun.status = run.status
             /\ SettledRun.loop = run.loop /\ SettledRun.node = run.node
  <2>1. SettledRun = DeliverClaimed(run, SinkSteps)
    BY <1>4 DEF SettledRun
  <2> QED
    BY <2>1, DeliverClaimedKeeps DEF Inv, TypeOK
<1> QED
  BY <1>1, <1>3, <1>4

\* A resume.
LEMMA ResumeRunWrites ==
  ASSUME Inv, NEW from, NEW text \in SUBSET Messages, ResumeRun(from, text)
  PROVE  run.status \in {"paused", "completed"} /\ run'.status = "running"
<1> DEFINE base == ResumeBase(from)
           resumed == Resume(base, from, text)
<1>1. base \in Run
  <2>1. CASE run.loop /\ run.status = "completed" /\ from = {}
    <3> DEFINE next == NextLoopRound(run)
    <3>1. next \in Run
      BY NextLoopRoundKeeps DEF Inv, TypeOK
    <3>2. base = [next EXCEPT !.status = "paused"]
      BY <2>1 DEF ResumeBase
    <3> HIDE DEF next
    <3> QED
      BY <3>1, <3>2 DEF Run, RunStatus
  <2>2. CASE ~(run.loop /\ run.status = "completed" /\ from = {})
    BY <2>2 DEF ResumeBase, Inv, TypeOK
  <2> QED
    BY <2>1, <2>2
<1>2. run' = ResetRunning(resumed) /\ run.status \in {"paused", "completed"}
  BY DEF ResumeRun
<1> HIDE DEF base
<1>3. resumed \in Run /\ resumed.status = "running"
  BY <1>1, ResumeKeeps
<1> HIDE DEF resumed
<1> QED
  BY <1>2, <1>3, ResetRunningKeeps

\* The loop switch.
LEMMA SetRunLoopWrites ==
  ASSUME Inv, NEW enabled, SetRunLoop(enabled)
  PROVE  /\ run'.status = run.status /\ run'.node = run.node /\ run'.inbox = run.inbox
         /\ run'.loop = enabled
BY DEF SetRunLoop, Inv, TypeOK, Run

\* A cancellation.
LEMMA CancelRunWrites ==
  ASSUME Inv, CancelRun
  PROVE  run.status = "paused" /\ run'.status = "cancelled" /\ run'.loop = run.loop
BY DEF CancelRun, Inv, TypeOK, Run

\* A recovery.
LEMMA RecoverRunWrites ==
  ASSUME Inv, RecoverRun, run.status = "running"
  PROVE  /\ run'.status = "paused" /\ run'.loop = run.loop
         /\ \A s \in Steps : run'.node[s] \in {run.node[s], "pending"}
         /\ driver' = "recovering"
<1> DEFINE left == {s \in Steps : run.node[s] = "running"}
           reset == Reopen(run, left)
<1>1. /\ reset \in Run
      /\ reset.loop = run.loop
      /\ \A s \in Steps : reset.node[s] \in {run.node[s], "pending"}
  <2>1. run \in Run
    BY DEF Inv, TypeOK
  <2> HIDE DEF left
  <2> QED
    BY <2>1, ReopenKeeps
<1>2. run' = PauseRun(reset, "interrupted") /\ driver' = "recovering"
  BY DEF RecoverRun, ResetRunning
<1>3. "interrupted" \in PauseReasons
  BY DEF PauseReasons
<1> HIDE DEF reset
<1> QED
  BY <1>1, <1>2, <1>3, PauseKeeps
-------------------------------------------------------------------------------
(***************************************************************************)
(* RecordInv is inductive.                                                 *)
(***************************************************************************)
\* A drive that returns leaves the run as it is, and the task as it is or
\* running: no drive in progress shows a completed task but one that has not
\* begun.
LEMMA ReturnRecords ==
  ASSUME Inv, RecordInv, NEW status \in {task, "running"}, Return(status),
         driver \in DriveStates
  PROVE  RecordInv'
<1>1. /\ run' = run /\ task' \in {task, "running"} /\ driver' = "idle"
  BY DEF Return
<1>2. driver = "entering" => run.status = "running"
  BY DEF RecordInv
<1>3. task' = "completed" => driver = "entering"
  BY <1>1 DEF RecordInv
<1> QED
  BY <1>1, <1>2, <1>3 DEF RecordInv, Driving, DriveStates

\* What leaves the loop for the settling of the run: the ending is the run's
\* status, and a run that has completed was looked through for messages.
LEMMA LeaveRecords ==
  ASSUME Inv, RecordInv, Leave
  PROVE  RecordInv'
<1>1. /\ UNCHANGED <<run, task>> /\ driver' = "settling" /\ driver \in {"schedule", "delivering"}
      /\ ending' = EndingNow
  BY DEF Leave, Drained, diskVars
<1>2. run.status # "cancelled" /\ run \in Run /\ pauseReason \in {"", "infrastructure"}
  BY <1>1 DEF Inv, TypeOK, ControlInv, Driving, DriveStates
<1>3. ending' \in {"paused", "completed"} => Live /\ run.status = ending'
  BY <1>1, <1>2 DEF EndingNow, Live, Run, RunStatus
<1>4. ASSUME ending' = "completed"
      PROVE  NoMail
  <2> DEFINE delivered == DeliverClaimed(run, SinkSteps)
  <2>1. Live /\ run.status = "completed"
    BY <1>3, <1>4
  <2>2. InboxReopened(delivered) = {}
    BY <2>1 DEF Leave, MayReopen
  <2>3. /\ delivered.node = run.node
        /\ \A s \in Steps : run.inbox[s] \subseteq delivered.inbox[s]
    BY DeliverClaimedKeeps DEF Inv, TypeOK
  <2>4. \A s \in Steps : run.node[s] = "completed"
    BY <2>1 DEF Inv, ControlInv, CompletionLeavesNothingRunning, AllCompleted
  <2> HIDE DEF delivered
  <2>5. \A s \in Steps : delivered.inbox[s] = {}
    BY <2>2, <2>3, <2>4 DEF InboxReopened
  <2> QED
    BY <2>3, <2>5 DEF NoMail
<1>5. task = "running"
  BY <1>1 DEF RecordInv, DriveStates
<1> QED
  BY <1>1, <1>3, <1>4, <1>5 DEF RecordInv, Driving, DriveStates, NoMail

\* The steps of the drive.
LEMMA ScheduleRecords ==
  ASSUME Inv, RecordInv, Schedule
  PROVE  RecordInv'
<1>1. CASE AbandonStart \/ AbandonReopen \/ AbandonSettle \/ AbandonEnter
  BY <1>1, ReturnRecords
     DEF AbandonStart, AbandonReopen, AbandonSettle, AbandonEnter, Abandon, DriveStates
<1>2. CASE ChooseBatch \/ ClaimForBatch \/ LookForMessages \/ ClaimForReopen
  BY <1>2
     DEF ChooseBatch, MayStart, Schedulable, ClaimForBatch, LookForMessages, MayReopen, Drained,
         ClaimForReopen, diskVars, RecordInv, Driving, DriveStates
<1>3. CASE StartBatch \/ StartNextRound \/ ReopenForMessages \/ \E s \in Steps : ReceiveResult(s)
  <2>1. /\ driver \in {"claimed", "schedule", "delivering"} /\ driver' = "schedule"
        /\ task' = task
    BY <1>3 DEF StartBatch, StartNextRound, RoundOver, Drained, ReopenForMessages, ReceiveResult
  <2> QED
    BY <2>1 DEF RecordInv, Driving, DriveStates
<1>4. CASE Leave
  BY <1>4, LeaveRecords
<1>5. CASE SettleRun
  <2>1. /\ driver = "settling" /\ driver' = "finishing" /\ task' = task /\ ending' = ending
        /\ ending \notin {"paused", "completed"} /\ run'.status = "paused"
    BY <1>5, SettleRunWrites DEF SettleRun, PauseWrites, endVars
  <2> QED
    BY <2>1 DEF RecordInv, Driving, DriveStates
<1>6. CASE KeepRun
  BY <1>6 DEF KeepRun, diskVars, endVars, RecordInv, Driving, DriveStates, NoMail
<1>7. CASE SettleTask
  <2>1. /\ driver = "finishing" /\ driver' = "idle" /\ run' = run
        /\ task' = "completed" => task = "completed" \/ ending = "completed"
    BY <1>7 DEF SettleTask
  <2> QED
    BY <2>1 DEF RecordInv, Driving, DriveStates, NoMail
<1>8. CASE EnterDrive
  BY <1>8 DEF EnterDrive, RecordInv, Driving, DriveStates
<1> QED
  BY <1>1, <1>2, <1>3, <1>4, <1>5, <1>6, <1>7, <1>8 DEF Schedule

\* The operations on a run, the user and the process.
LEMMA OperateRecords ==
  ASSUME Inv, RecordInv, Operate
  PROVE  RecordInv'
<1>1. CASE RefuseSettings
  BY <1>1 DEF RefuseSettings, Schedulable, diskVars, RecordInv, Driving, DriveStates
<1>2. CASE RefuseNextRound
  <2>1. run'.status = "paused"
    <3>1. "execution_settings_invalid" \in PauseReasons
      BY DEF PauseReasons
    <3> QED
      BY <1>2, <3>1, PauseKeeps DEF RefuseNextRound, Inv, TypeOK
  <2>2. /\ driver = "schedule" /\ driver' = "finishing" /\ task' = task
        /\ ending' = "execution_settings_invalid"
    BY <1>2 DEF RefuseNextRound, RoundOver, Drained
  <2> QED
    BY <2>1, <2>2 DEF RecordInv, Driving, DriveStates
<1>3. CASE \E from \in {{}} \cup {{s} : s \in Steps}, text \in {{}, {Human}} :
             ResumeRun(from, text)
  <2>1. {{}, {Human}} \subseteq SUBSET Messages
    BY DEF Messages
  <2>2. run'.status = "running" /\ driver' = "entering"
    BY <1>3, <2>1, ResumeRunWrites DEF ResumeRun
  <2> QED
    BY <2>2 DEF RecordInv, Driving, DriveStates
<1>4. CASE \E enabled \in LoopModes : SetRunLoop(enabled)
  <2>1. /\ run'.status = run.status /\ run'.inbox = run.inbox
        /\ driver = "idle" /\ driver' = driver /\ task' = task
    BY <1>4, SetRunLoopWrites DEF SetRunLoop
  <2> QED
    BY <2>1 DEF RecordInv, Driving, DriveStates, NoMail
<1>5. CASE CancelRun
  <2>1. driver' = "cancelling" /\ run'.status = "cancelled"
    BY <1>5, CancelRunWrites DEF CancelRun
  <2> QED
    BY <2>1 DEF RecordInv, Driving, DriveStates
<1>6. CASE CancelTask
  BY <1>6 DEF CancelTask, RecordInv, Driving, DriveStates
<1>7. CASE \/ Interrupt
           \/ \E i \in Instructions, status \in {"ready", "pending", "follow_up"} :
                EnqueueInstruction(i, status) \/ UpdateInstructionMode(i, status)
           \/ \E i \in Instructions : RemoveInstruction(i)
  <2>1. UNCHANGED <<run, task, driver, ending>>
    BY <1>7 DEF Interrupt, EnqueueInstruction, UpdateInstructionMode, RemoveInstruction,
                diskVars, endVars
  <2> QED
    BY <2>1 DEF RecordInv, Driving, DriveStates, NoMail
<1>8. CASE Crash
  <2>1. run' = run /\ task' = task /\ driver' = "down"
    BY <1>8 DEF Crash, diskVars
  <2>2. task = "completed" /\ driver \in DriveStates => run.status # "completed"
    BY DEF RecordInv
  <2> QED
    BY <2>1, <2>2 DEF RecordInv, Driving, DriveStates, NoMail
<1>9. CASE RecoverRun
  <2>1. CASE run.status = "running"
    BY <1>9, <2>1, RecoverRunWrites DEF RecordInv, Driving, DriveStates
  <2>2. CASE run.status # "running"
    <3>1. run' = run /\ task' = task /\ driver = "down" /\ driver' = "idle"
      BY <1>9, <2>2 DEF RecoverRun
    <3> QED
      BY <3>1 DEF RecordInv, Driving, DriveStates, NoMail
  <2> QED
    BY <2>1, <2>2
<1>10. CASE RecoverTask
  BY <1>10 DEF RecoverTask, RecordInv, Driving, DriveStates
<1> QED
  BY <1>1, <1>2, <1>3, <1>4, <1>5, <1>6, <1>7, <1>8, <1>9, <1>10 DEF Operate

\* Every step.
LEMMA RecordNext == Inv /\ RecordInv /\ [Next]_vars => RecordInv'
<1> SUFFICES ASSUME Inv, RecordInv, [Next]_vars PROVE RecordInv'
  OBVIOUS
<1>1. CASE (\E s \in Steps : FinishStep(s)) \/ UNCHANGED vars
  <2>1. UNCHANGED <<run, task, driver, ending>>
    BY <1>1 DEF FinishStep, vars, diskVars, endVars
  <2> QED
    BY <2>1 DEF RecordInv, Driving, NoMail
<1> QED
  BY <1>1, ScheduleRecords, OperateRecords DEF Next

(***************************************************************************)
(* The run's and the task's records agree as RecordInv says in every       *)
(* reachable state, whatever interrupts or kills the drive.                *)
(***************************************************************************)
THEOREM RecordInvCorrect == Spec => []RecordInv
<1>1. Init => RecordInv
  <2> SUFFICES ASSUME Init PROVE RecordInv
    OBVIOUS
  <2>1. PICK loop \in LoopModes : run = StartedRun(loop)
    BY DEF Init
  <2>2. run.status = "running" /\ driver = "entering"
    BY <2>1 DEF Init, StartedRun
  <2> QED
    BY <2>2 DEF RecordInv, Driving, DriveStates
<1> QED
  BY <1>1, InvCorrect, RecordNext, PTL DEF Spec

(***************************************************************************)
(* A run whose task is reported completed has no unread message.           *)
(***************************************************************************)
THEOREM NoMailCorrect == Spec => []FinishedRunHasNoMail
<1>1. RecordInv => FinishedRunHasNoMail
  BY DEF RecordInv, FinishedRunHasNoMail, NoMail, Driving, DriveStates
<1> QED
  BY <1>1, RecordInvCorrect, PTL
-------------------------------------------------------------------------------
(***************************************************************************)
(* The refinement: each action is a step of RunLifecycle or leaves its     *)
(* three variables alone.                                                  *)
(***************************************************************************)
\* Nothing the rest of the program can see.
Unseen == UNCHANGED <<run.status, task, Stage>>

\* Inside the loop a drive is one stage.
LEMMA InLoop ==
  ASSUME NEW d \in {"schedule", "starting", "claimed", "reopening", "delivering", "settling"}
  PROVE  /\ driver = d => Stage = "driving"
         /\ driver' = d => Stage' = "driving"
BY DEF Stage, DriveStates

\* The other stages.
LEMMA OutOfLoop ==
  /\ driver = "entering" => Stage = "entering"
  /\ driver' = "entering" => Stage' = "entering"
  /\ driver = "finishing" => Stage = "settled"
  /\ driver' = "finishing" => Stage' = "settled"
  /\ driver = "recovering" => Stage = "recovering"
  /\ driver' = "recovering" => Stage' = "recovering"
  /\ driver \in {"idle", "cancelling"} => Stage = "idle"
  /\ driver' \in {"idle", "cancelling"} => Stage' = "idle"
  /\ driver = "down" => Stage = IF run.status = "running" THEN "down" ELSE "idle"
  /\ driver' = "down" => Stage' = IF run'.status = "running" THEN "down" ELSE "idle"
BY DEF Stage, DriveStates

\* A drive that returns abandons its run.
LEMMA ReturnAbandons ==
  ASSUME NEW status \in {task, "running"}, Return(status),
         driver \in DriveStates \ {"finishing"},
         status = task \/ driver = "entering"
  PROVE  Lifecycle!Abandon
<1>1. run' = run /\ task' = status /\ driver' = "idle"
  BY DEF Return
<1>2. Stage' = "idle"
  BY <1>1, OutOfLoop
<1>3. Stage = IF driver = "entering" THEN "entering" ELSE "driving"
  BY InLoop, OutOfLoop DEF DriveStates
<1> QED
  BY <1>1, <1>2, <1>3 DEF Lifecycle!Abandon

\* The drive: its loop is progress, its ends are those of RunLifecycle.
LEMMA ScheduleRefines ==
  ASSUME Inv, RecordInv, Schedule
  PROVE  Lifecycle!Next \/ Unseen
<1>1. CASE AbandonStart \/ AbandonReopen \/ AbandonSettle \/ AbandonEnter
  <2>1. Lifecycle!Abandon
    BY <1>1, ReturnAbandons
       DEF AbandonStart, AbandonReopen, AbandonSettle, AbandonEnter, Abandon, DriveStates
  <2> QED
    BY <2>1 DEF Lifecycle!Next
<1>2. CASE ChooseBatch \/ ClaimForBatch \/ LookForMessages \/ ClaimForReopen \/ Leave
  <2>1. UNCHANGED <<run, task>>
    BY <1>2 DEF ChooseBatch, ClaimForBatch, LookForMessages, ClaimForReopen, Leave, diskVars
  <2>2. /\ driver \in {"schedule", "starting", "reopening", "delivering"}
        /\ driver' \in {"starting", "claimed", "reopening", "delivering", "settling"}
    BY <1>2 DEF ChooseBatch, MayStart, Schedulable, ClaimForBatch, LookForMessages, MayReopen,
                Drained, ClaimForReopen, Leave
  <2> QED
    BY <2>1, <2>2, InLoop DEF Unseen
<1>3. CASE StartBatch \/ StartNextRound \/ ReopenForMessages \/ \E s \in Steps : ReceiveResult(s)
  <2>1. /\ driver \in {"claimed", "schedule", "delivering"} /\ driver' = "schedule"
        /\ task' = task
    BY <1>3 DEF StartBatch, StartNextRound, RoundOver, Drained, ReopenForMessages, ReceiveResult
  <2>2. Stage = "driving" /\ Stage' = "driving"
    BY <2>1, InLoop
  <2>3. \/ run'.status = run.status
        \/ /\ run.status \in {"running", "completed"}
           /\ run'.status \in {"running", "paused", "completed"}
           /\ run.status = "completed" => run'.status = "running"
    <3>1. CASE StartBatch
      BY <3>1, StartBatchWrites
    <3>2. CASE StartNextRound
      BY <3>2, NextLoopRoundKeeps DEF StartNextRound, RoundOver, Inv, TypeOK
    <3>3. CASE ReopenForMessages
      BY <3>3, ReopenForMessagesWrites
    <3>4. ASSUME NEW s \in Steps, ReceiveResult(s)
          PROVE  \/ run'.status = run.status
                 \/ run.status = "running" /\ run'.status \in {"paused", "completed"}
      <4>1. \/ run'.status \in {run.status, "paused"}
            \/ run.status = "running" /\ run'.status = "completed"
        BY <3>4, ReceiveResultWrites
      <4>2. run.status \in {"running", "paused"}
        BY <3>4 DEF ReceiveResult, Inv, TypeOK, Run, RunStatus, ControlInv,
                    CompletionLeavesNothingRunning, Driving, DriveStates
      <4> QED
        BY <4>1, <4>2
    <3> QED
      BY <1>3, <3>1, <3>2, <3>3, <3>4
  <2>4. CASE run'.status = run.status
    BY <2>1, <2>2, <2>4 DEF Unseen
  <2>5. CASE run'.status # run.status
    <3>1. Lifecycle!Progress
      BY <2>1, <2>2, <2>3, <2>5 DEF Lifecycle!Progress
    <3> QED
      BY <3>1 DEF Lifecycle!Next
  <2> QED
    BY <2>4, <2>5
<1>4. CASE SettleRun \/ KeepRun
  <2>1. driver = "settling" /\ driver' = "finishing" /\ task' = task
    BY <1>4 DEF SettleRun, KeepRun, diskVars
  <2>2. /\ run'.status \in {"paused", "completed"}
        /\ run'.status = "completed" => run.status = "completed"
    <3>1. CASE SettleRun
      BY <3>1, SettleRunWrites
    <3>2. CASE KeepRun
      BY <3>2 DEF KeepRun, diskVars, RecordInv
    <3> QED
      BY <1>4, <3>1, <3>2
  <2>3. Stage = "driving" /\ Stage' = "settled"
    BY <2>1, InLoop, OutOfLoop
  <2>4. Lifecycle!Settle
    BY <2>1, <2>2, <2>3 DEF Lifecycle!Settle
  <2> QED
    BY <2>4 DEF Lifecycle!Next
<1>5. CASE SettleTask
  <2>1. /\ driver = "finishing" /\ driver' = "idle" /\ run' = run
        /\ task' \in {task, IF ending = "completed" THEN "completed" ELSE "paused"}
    BY <1>5 DEF SettleTask
  <2>2. task' \in {task, run.status}
    BY <2>1 DEF RecordInv
  <2>3. Stage = "settled" /\ Stage' = "idle"
    BY <2>1, OutOfLoop
  <2>4. Lifecycle!TellTask
    BY <2>1, <2>2, <2>3 DEF Lifecycle!TellTask
  <2> QED
    BY <2>4 DEF Lifecycle!Next
<1>6. CASE EnterDrive
  <2>1. /\ driver = "entering" /\ driver' = "schedule" /\ run' = run /\ task' = "running"
    BY <1>6 DEF EnterDrive
  <2>2. Stage = "entering" /\ Stage' = "driving"
    BY <2>1, InLoop, OutOfLoop
  <2>3. Lifecycle!Enter
    BY <2>1, <2>2 DEF Lifecycle!Enter
  <2> QED
    BY <2>3 DEF Lifecycle!Next
<1> QED
  BY <1>1, <1>2, <1>3, <1>4, <1>5, <1>6 DEF Schedule

\* The operations on a run, the user and the process.
LEMMA OperateRefines ==
  ASSUME Inv, RecordInv, Operate
  PROVE  Lifecycle!Next \/ Unseen
<1>1. CASE RefuseSettings
  <2>1. driver = "schedule" /\ driver' = "settling" /\ UNCHANGED <<run, task>>
    BY <1>1 DEF RefuseSettings, Schedulable, diskVars
  <2> QED
    BY <2>1, InLoop DEF Unseen
<1>2. CASE RefuseNextRound
  <2>1. driver = "schedule" /\ driver' = "finishing" /\ task' = task
    BY <1>2 DEF RefuseNextRound, RoundOver, Drained
  <2>2. run'.status = "paused"
    <3>1. "execution_settings_invalid" \in PauseReasons
      BY DEF PauseReasons
    <3> QED
      BY <1>2, <3>1, PauseKeeps DEF RefuseNextRound, Inv, TypeOK
  <2>3. Stage = "driving" /\ Stage' = "settled"
    BY <2>1, InLoop, OutOfLoop
  <2>4. Lifecycle!Settle
    BY <2>1, <2>2, <2>3 DEF Lifecycle!Settle
  <2> QED
    BY <2>4 DEF Lifecycle!Next
<1>3. CASE \E from \in {{}} \cup {{s} : s \in Steps}, text \in {{}, {Human}} :
             ResumeRun(from, text)
  <2>1. {{}, {Human}} \subseteq SUBSET Messages
    BY DEF Messages
  <2>2. /\ run.status \in {"paused", "completed"} /\ run'.status = "running"
        /\ driver = "idle" /\ driver' = "entering" /\ task' = task
    BY <1>3, <2>1, ResumeRunWrites DEF ResumeRun
  <2>3. Stage = "idle" /\ Stage' = "entering"
    BY <2>2, OutOfLoop
  <2>4. Lifecycle!Resume
    BY <2>2, <2>3 DEF Lifecycle!Resume
  <2> QED
    BY <2>4 DEF Lifecycle!Next
<1>4. CASE \E enabled \in LoopModes : SetRunLoop(enabled)
  <2>1. run'.status = run.status /\ task' = task /\ driver = "idle" /\ driver' = "idle"
    BY <1>4, SetRunLoopWrites DEF SetRunLoop
  <2> QED
    BY <2>1, OutOfLoop DEF Unseen
<1>5. CASE CancelRun
  <2>1. /\ run.status = "paused" /\ run'.status = "cancelled" /\ task' = task
        /\ driver = "idle" /\ driver' = "cancelling"
    BY <1>5, CancelRunWrites DEF CancelRun
  <2>2. Stage = "idle" /\ Stage' = "idle"
    BY <2>1, OutOfLoop
  <2>3. Lifecycle!Cancel
    BY <2>1, <2>2 DEF Lifecycle!Cancel
  <2> QED
    BY <2>3 DEF Lifecycle!Next
<1>6. CASE CancelTask
  <2>1. /\ run.status = "cancelled" /\ run' = run /\ task' = "cancelled"
        /\ driver = "cancelling" /\ driver' = "idle"
    BY <1>6 DEF CancelTask, RecordInv
  <2>2. Stage = "idle" /\ Stage' = "idle"
    BY <2>1, OutOfLoop
  <2>3. Lifecycle!TellTaskCancelled
    BY <2>1, <2>2 DEF Lifecycle!TellTaskCancelled
  <2> QED
    BY <2>3 DEF Lifecycle!Next
<1>7. CASE \/ Interrupt
           \/ \E i \in Instructions, status \in {"ready", "pending", "follow_up"} :
                EnqueueInstruction(i, status) \/ UpdateInstructionMode(i, status)
           \/ \E i \in Instructions : RemoveInstruction(i)
  <2>1. UNCHANGED <<run, task, driver>>
    BY <1>7 DEF Interrupt, EnqueueInstruction, UpdateInstructionMode, RemoveInstruction, diskVars
  <2> QED
    BY <2>1 DEF Unseen, Stage
<1>8. CASE Crash
  <2>1. UNCHANGED <<run, task>> /\ driver' = "down"
    BY <1>8 DEF Crash, diskVars
  <2>2. Lifecycle!Crash
    BY <2>1, OutOfLoop DEF Lifecycle!Crash
  <2> QED
    BY <2>2 DEF Lifecycle!Next
<1>9. CASE RecoverRun
  <2>1. driver = "down" /\ task' = task
    BY <1>9 DEF RecoverRun
  <2>2. CASE run.status = "running"
    <3>1. run'.status = "paused" /\ driver' = "recovering"
      BY <1>9, <2>2, RecoverRunWrites
    <3>2. Stage = "down" /\ Stage' = "recovering"
      BY <2>1, <2>2, <3>1, OutOfLoop
    <3>3. Lifecycle!Recover
      BY <2>1, <3>1, <3>2 DEF Lifecycle!Recover
    <3> QED
      BY <3>3 DEF Lifecycle!Next
  <2>3. CASE run.status # "running"
    <3>1. run' = run /\ driver' = "idle"
      BY <1>9, <2>3 DEF RecoverRun
    <3> QED
      BY <2>1, <2>3, <3>1, OutOfLoop DEF Unseen
  <2> QED
    BY <2>2, <2>3
<1>10. CASE RecoverTask
  <2>1. driver = "recovering" /\ driver' = "idle" /\ run' = run /\ task' = "paused"
    BY <1>10 DEF RecoverTask
  <2>2. Lifecycle!TellTaskRecovered
    BY <2>1, OutOfLoop DEF Lifecycle!TellTaskRecovered
  <2> QED
    BY <2>2 DEF Lifecycle!Next
<1> QED
  BY <1>1, <1>2, <1>3, <1>4, <1>5, <1>6, <1>7, <1>8, <1>9, <1>10 DEF Operate

(***************************************************************************)
(* The scheduler with its operations implements RunLifecycle, for every    *)
(* definition and every bound: whatever steps, siblings, messages,         *)
(* interrupts and crashes do, the statuses that the queue, the window and  *)
(* the user act on change only as it says.                                 *)
(***************************************************************************)
THEOREM LifecycleImplemented == Spec => ImplementsLifecycle
<1>1. Init => Lifecycle!Init
  <2> SUFFICES ASSUME Init PROVE Lifecycle!Init
    OBVIOUS
  <2>1. PICK loop \in LoopModes : run = StartedRun(loop)
    BY DEF Init
  <2>2. run.status = "running" /\ driver = "entering" /\ task = "running"
    BY <2>1 DEF Init, StartedRun
  <2> QED
    BY <2>2, OutOfLoop DEF Lifecycle!Init
<1>2. Inv /\ RecordInv /\ [Next]_vars => [Lifecycle!Next]_(Lifecycle!vars)
  <2> SUFFICES ASSUME Inv, RecordInv, [Next]_vars PROVE Lifecycle!Next \/ Unseen
    BY DEF Unseen, Lifecycle!vars
  <2>1. CASE (\E s \in Steps : FinishStep(s)) \/ UNCHANGED vars
    <3>1. UNCHANGED <<run, task, driver>>
      BY <2>1 DEF FinishStep, vars, diskVars
    <3> QED
      BY <3>1 DEF Unseen, Stage
  <2> QED
    BY <2>1, ScheduleRefines, OperateRefines DEF Next
<1> QED
  BY <1>1, <1>2, InvCorrect, RecordInvCorrect, PTL DEF Spec, ImplementsLifecycle, Lifecycle!Spec
-------------------------------------------------------------------------------
(***************************************************************************)
(* Runs that do not loop. A looping run may be paused with every step      *)
(* passed: the code refuses its next round that way (RefuseNextRound).     *)
(***************************************************************************)
NoLoops == TRUE \notin LoopModes

\* A step that changes neither the run nor what is in flight, and stops the run
\* for no reason of its own.
LEMMA QuietWork ==
  ASSUME WorkInv, run' = run, inflight' \in {inflight, {}}, pauseReason' \in {pauseReason, ""},
         driver' \notin {"starting", "claimed"}
           \/ (driver \in {"starting", "claimed"} /\ pauseReason' = pauseReason)
  PROVE  WorkInv'
BY DEF WorkInv, AllCompleted

\* A resumed run has the steps that run again to do.
LEMMA ResumeRunWork ==
  ASSUME Inv, WorkInv, NEW from \in {{}} \cup {{s} : s \in Steps}, NEW text \in SUBSET Messages,
         ResumeRun(from, text)
  PROVE  /\ run'.loop = run.loop
         /\ ~AllCompleted(run')
<1> DEFINE again == ResumeReopens(run, from)
           reopened == Reopen(run, again)
           resumed == [reopened EXCEPT
                         !.failures = [s \in Steps |-> IF s \in again THEN 0 ELSE @[s]],
                         !.rounds = NoRounds, !.status = "running", !.reason = ""]
           next == Deliver(resumed, IF from # {} THEN from ELSE ReadySteps(resumed), text)
           left == {s \in Steps : next.node[s] = "running"}
           reset == Reopen(next, left)
<1>1. run \in Run /\ ~run.loop /\ run.status \in {"paused", "completed"}
  BY DEF ResumeRun, Inv, TypeOK, WorkInv
<1>2. run' = ResetRunning(Resume(run, from, text))
  BY <1>1 DEF ResumeRun, ResumeBase
<1>3. Resume(run, from, text) = next
  BY DEF Resume
<1>4. \/ \E s \in Steps : s \in again
      \/ \E s \in Steps : run.node[s] # "completed"
  <2>1. CASE from # {}
    BY <2>1 DEF ResumeReopens
  <2>2. CASE from = {} /\ run.status = "completed"
    BY <2>2, SinkExists DEF ResumeReopens, SinkSteps
  <2>3. CASE from = {} /\ run.status = "paused"
    BY <2>3 DEF WorkInv, AllCompleted
  <2> QED
    BY <1>1, <2>1, <2>2, <2>3
<1>5. /\ reopened \in Run
      /\ reopened.loop = run.loop
      /\ \A s \in Steps : reopened.node[s] = IF s \in again THEN "pending" ELSE run.node[s]
  <2> HIDE DEF again
  <2> QED
    BY <1>1, ReopenKeeps
<1> HIDE DEF reopened
<1>6. /\ resumed \in Run
      /\ resumed.loop = reopened.loop
      /\ resumed.node = reopened.node
  <2> HIDE DEF again
  <2> QED
    BY <1>5 DEF Run, RunStatus, PauseReasons, NoRounds
<1> HIDE DEF resumed
<1>7. next \in Run /\ next.loop = resumed.loop /\ next.node = resumed.node
  BY <1>6, DeliverKeeps
<1>8. run' = reset
  BY <1>2, <1>3 DEF ResetRunning
<1> HIDE DEF next, again
<1>9. /\ reset.loop = next.loop
      /\ \A s \in Steps : reset.node[s] \in {next.node[s], "pending"}
  <2> HIDE DEF left
  <2> QED
    BY <1>7, ReopenKeeps
<1> HIDE DEF reset
<1> QED
  BY <1>4, <1>5, <1>6, <1>7, <1>8, <1>9 DEF AllCompleted

\* A received result passes a step only in a running run, and a run that stops
\* for a reason has the step that gave it left.
LEMMA ReceiveResultWork ==
  ASSUME Inv, WorkInv, NEW s \in Steps, ReceiveResult(s)
  PROVE  WorkInv'
<1>1. /\ run'.loop = run.loop
      /\ \A t \in Steps \ {s} : run'.node[t] \in {run.node[t], "pending"}
      /\ run'.node[s] = "completed" =>
           run.status = "running" /\ run'.status \in {"running", "completed"}
      /\ \/ run'.status \in {run.status, "paused"}
         \/ run.status = "running" /\ run'.status = "completed"
      /\ run'.status = "running" /\ pauseReason' = "" => ~AllCompleted(run')
      /\ run'.status = "completed" /\ run.status # "completed" => pauseReason' = ""
      /\ pauseReason' # pauseReason => run'.node[s] # "completed"
  BY ReceiveResultWrites
<1>2. driver = "schedule" /\ driver' = driver /\ s \in inflight /\ inflight' = inflight \ {s}
  BY DEF ReceiveResult
<1>3. run.status # "completed"
  BY <1>2 DEF Inv, ControlInv, CompletionLeavesNothingRunning
<1>4. ASSUME run'.status = "paused" \/ pauseReason' # ""
      PROVE  \E t \in Steps \ inflight' : run'.node[t] # "completed"
  <2>1. CASE run.status = "paused" \/ pauseReason # ""
    <3>1. PICK t \in Steps \ inflight : run.node[t] # "completed"
      BY <2>1 DEF WorkInv
    <3>2. t # s
      BY <1>2, <3>1
    <3> QED
      BY <1>1, <1>2, <3>1, <3>2
  <2>2. CASE ~(run.status = "paused" \/ pauseReason # "")
    <3>1. run'.node[s] # "completed"
      BY <1>1, <1>4, <2>2
    <3> QED
      BY <1>2, <3>1
  <2> QED
    BY <2>1, <2>2
<1>5. run'.status \in {"running", "paused"} => ~AllCompleted(run')
  BY <1>1, <1>4 DEF AllCompleted
<1> QED
  BY <1>1, <1>2, <1>4, <1>5 DEF WorkInv

\* Every step.
LEMMA WorkNext ==
  ASSUME NoLoops, Inv, WorkInv, [Next]_vars
  PROVE  WorkInv'
<1>1. CASE AbandonStart \/ AbandonReopen \/ AbandonSettle \/ AbandonEnter \/ SettleTask \/ Crash
  <2>1. run' = run /\ inflight' = {} /\ pauseReason' = "" /\ driver' \in {"idle", "down"}
    BY <1>1 DEF AbandonStart, AbandonReopen, AbandonSettle, AbandonEnter, Abandon, Return,
                SettleTask, Crash, Forget, diskVars
  <2> QED
    BY <2>1, QuietWork
<1>2. CASE ChooseBatch
  <2>1. UNCHANGED <<run, inflight, pauseReason>> /\ pauseReason = ""
    BY <1>2 DEF ChooseBatch, MayStart, Schedulable, Live, diskVars, stepVars, endVars
  <2> QED
    BY <2>1 DEF WorkInv, AllCompleted
<1>3. CASE \/ RefuseSettings \/ ClaimForBatch \/ LookForMessages \/ ClaimForReopen \/ Leave
           \/ KeepRun \/ EnterDrive \/ CancelTask \/ RecoverTask
  <2>1. /\ run' = run /\ inflight' \in {inflight, {}} /\ pauseReason' = pauseReason
        /\ \/ driver' \notin {"starting", "claimed"}
           \/ driver = "starting"
    BY <1>3 DEF RefuseSettings, ClaimForBatch, LookForMessages, ClaimForReopen, Leave, KeepRun,
                EnterDrive, CancelTask, RecoverTask, diskVars, stepVars, endVars
  <2> QED
    BY <2>1, QuietWork
<1>4. CASE StartBatch
  <2>1. /\ run'.status = run.status /\ run'.loop = run.loop
        /\ \A s \in Steps : run'.node[s] = IF s \in batch THEN "running" ELSE run.node[s]
    BY <1>4, StartBatchWrites
  <2>2. /\ run.status = "running" /\ pauseReason = "" /\ pauseReason' = pauseReason
        /\ driver' = "schedule"
    BY <1>4 DEF StartBatch, endVars, Inv, ControlInv, WorkInv
  <2> QED
    BY <2>1, <2>2 DEF WorkInv, AllCompleted
<1>5. ASSUME NEW s \in Steps, ReceiveResult(s) PROVE WorkInv'
  BY <1>5, ReceiveResultWork
<1>6. CASE StartNextRound \/ RefuseNextRound
  BY <1>6 DEF StartNextRound, RefuseNextRound, RoundOver, WorkInv
<1>7. CASE ReopenForMessages
  <2>1. /\ run'.status = "running" /\ run'.loop = run.loop
        /\ \A s \in Steps : run'.node[s] \in {run.node[s], "pending"}
        /\ ~AllCompleted(run')
    BY <1>7, ReopenForMessagesWrites
  <2>2. inflight' = inflight /\ pauseReason' = pauseReason /\ driver' = "schedule"
    BY <1>7 DEF ReopenForMessages, stepVars, endVars
  <2>3. ASSUME pauseReason' # ""
        PROVE  \E s \in Steps \ inflight' : run'.node[s] # "completed"
    BY <2>1, <2>2, <2>3 DEF WorkInv
  <2> QED
    BY <2>1, <2>2, <2>3 DEF WorkInv
<1>8. CASE SettleRun
  <2>1. /\ run'.status = "paused" /\ run.status = "running"
        /\ run'.loop = run.loop /\ run'.node = run.node
    BY <1>8, SettleRunWrites DEF WorkInv
  <2>2. inflight' = {} /\ driver' = "finishing"
    BY <1>8 DEF SettleRun, stepVars, Inv, ControlInv
  <2> QED
    BY <2>1, <2>2 DEF WorkInv, AllCompleted
<1>9. ASSUME NEW from \in {{}} \cup {{s} : s \in Steps}, NEW text \in {{}, {Human}},
             ResumeRun(from, text)
      PROVE  WorkInv'
  <2>1. {{}, {Human}} \subseteq SUBSET Messages
    BY DEF Messages
  <2>2. run'.loop = run.loop /\ ~AllCompleted(run')
    BY <1>9, <2>1, ResumeRunWork
  <2>3. inflight' = {} /\ driver' = "entering"
    BY <1>9 DEF ResumeRun, stepVars, Inv, ControlInv
  <2> QED
    BY <2>2, <2>3 DEF WorkInv, AllCompleted
<1>10. ASSUME NEW enabled \in LoopModes, SetRunLoop(enabled) PROVE WorkInv'
  <2>1. enabled = FALSE
    BY SchedulerAssumption DEF NoLoops
  <2>2. run'.status = run.status /\ run'.node = run.node /\ run'.loop = FALSE
    BY <1>10, <2>1, SetRunLoopWrites
  <2>3. UNCHANGED <<inflight, pauseReason, driver>>
    BY <1>10 DEF SetRunLoop, stepVars, endVars
  <2> QED
    BY <2>2, <2>3 DEF WorkInv, AllCompleted
<1>11. CASE CancelRun
  <2>1. /\ run'.status = "cancelled" /\ run'.loop = run.loop /\ run'.node = run.node
        /\ UNCHANGED <<inflight, pauseReason>> /\ driver' = "cancelling"
        /\ run.status = "paused"
    BY <1>11 DEF CancelRun, Inv, TypeOK, Run, stepVars, endVars
  <2> QED
    BY <2>1 DEF WorkInv
<1>12. CASE RecoverRun
  <2>1. /\ UNCHANGED <<inflight, pauseReason>> /\ inflight = {}
        /\ driver' \in {"idle", "recovering"}
    BY <1>12 DEF RecoverRun, stepVars, endVars, Inv, ControlInv
  <2>2. CASE run.status = "running"
    <3>1. /\ run'.status = "paused" /\ run'.loop = run.loop
          /\ \A s \in Steps : run'.node[s] \in {run.node[s], "pending"}
      BY <1>12, <2>2, RecoverRunWrites
    <3> QED
      BY <2>1, <2>2, <3>1 DEF WorkInv, AllCompleted
  <2>3. CASE run.status # "running"
    BY <1>12, <2>1, <2>3, QuietWork DEF RecoverRun
  <2> QED
    BY <2>2, <2>3
<1>13. CASE \/ Interrupt
            \/ \E i \in Instructions, status \in {"ready", "pending", "follow_up"} :
                 EnqueueInstruction(i, status) \/ UpdateInstructionMode(i, status)
            \/ \E i \in Instructions : RemoveInstruction(i)
            \/ \E s \in Steps : FinishStep(s)
            \/ UNCHANGED vars
  <2>1. UNCHANGED <<run, inflight, pauseReason, driver>>
    BY <1>13 DEF Interrupt, EnqueueInstruction, UpdateInstructionMode, RemoveInstruction,
                 FinishStep, vars, diskVars, stepVars, endVars
  <2> QED
    BY <2>1 DEF WorkInv, AllCompleted
<1>14. Schedule => WorkInv'
  BY <1>1, <1>2, <1>3, <1>4, <1>5, <1>6, <1>7, <1>8 DEF Schedule
<1>15. Operate => WorkInv'
  BY <1>1, <1>3, <1>6, <1>9, <1>10, <1>11, <1>12, <1>13 DEF Operate
<1> QED
  BY <1>13, <1>14, <1>15 DEF Next

(***************************************************************************)
(* A paused run has something left to do, when its outer loop was never    *)
(* switched on.                                                            *)
(***************************************************************************)
THEOREM PausedWorkCorrect ==
  ASSUME NoLoops
  PROVE  Spec => []PausedRunHasWork
<1>1. Init => WorkInv
  <2> SUFFICES ASSUME Init PROVE WorkInv
    OBVIOUS
  <2>1. PICK loop \in LoopModes : run = StartedRun(loop)
    BY DEF Init
  <2>2. loop = FALSE
    BY SchedulerAssumption DEF NoLoops
  <2> QED
    BY <2>1, <2>2, DefinitionAssumption DEF Init, StartedRun, WorkInv, AllCompleted
<1>2. Inv /\ WorkInv /\ [Next]_vars => WorkInv'
  BY WorkNext
<1>3. WorkInv => PausedRunHasWork
  BY DEF WorkInv, PausedRunHasWork
<1> QED
  BY <1>1, <1>2, <1>3, InvCorrect, PTL DEF Spec
===============================================================================
