----------------------------- MODULE ClientProofs -----------------------------
(***************************************************************************)
(* Theorems about the clients of a run.                                    *)
(*                                                                         *)
(* RunDispatch, for every number of callers, messages and goroutines: its  *)
(* type invariant, and that what executes the run can be stopped, as long  *)
(* as no two callers are between the test of a resume and the dispatch.    *)
(*                                                                         *)
(* MobileRuns, for every number of runs and requests, every size of a page *)
(* and every length of a transcript: the phone shows a piece of the host's *)
(* transcript and loses neither a run nor its own history, as long as no   *)
(* import is cut half way and, for the runs, a listing is one page.        *)
(***************************************************************************)
EXTENDS RunDispatch, MobileRuns, FiniteSetTheorems, SequenceTheorems, TLAPS

(***************************************************************************)
(* The type invariant.                                                     *)
(***************************************************************************)
\* The goroutine dispatch takes is one that is not used.
LEMMA DispatchTakes ==
  ASSUME TypeOK, Dispatch
  PROVE  \E j \in Jobs : /\ job[j] = "none"
                         /\ job' = [job EXCEPT ![j] = "dispatched"]
                         /\ active' = j
                         /\ UNCHANGED <<withFollowUp, cancelled>>
<1> DEFINE j == CHOOSE k \in Jobs : job[k] = "none"
<1>1. j \in Jobs /\ job[j] = "none"
  BY DEF Dispatch
<1>2. job' = [job EXCEPT ![j] = "dispatched"] /\ active' = j /\ UNCHANGED <<withFollowUp, cancelled>>
  BY DEF Dispatch
<1> QED
  BY <1>1, <1>2

LEMMA DispatchTypes ==
  ASSUME TypeOK, Dispatch
  PROVE  /\ job' \in [Jobs -> {"none", "dispatched", "starting", "driving", "completing", "returned"}]
         /\ withFollowUp' \in SUBSET Jobs
         /\ active' \in Jobs \cup {NoJob}
         /\ cancelled' \in SUBSET Jobs
BY DispatchTakes DEF TypeOK

LEMMA TypeInit == Init => TypeOK
BY DispatchAssumption DEF Init, TypeOK

LEMMA CallTypes ==
  ASSUME TypeOK, NEW c \in Clients, Call(c)
  PROVE  TypeOK'
<1>1. CASE ClientDispatch(c)
  BY <1>1, DispatchTypes DEF TypeOK, ClientDispatch, Goto, Unlock
<1>2. CASE Send(c)
  BY <1>2 DEF TypeOK, Send, Goto, jobVars
<1>3. CASE PutReady(c)
  BY <1>3 DEF TypeOK, PutReady, Put, Goto, Unlock, jobVars
<1>4. CASE TestResume(c)
  BY <1>4 DEF TypeOK, TestResume, TakenBack, Goto, Unlock, jobVars
<1>5. CASE Queue(c)
  BY <1>5 DEF TypeOK, Queue, Goto, jobVars
<1>6. CASE PutFollowUp(c)
  BY <1>6 DEF TypeOK, PutFollowUp, Put, Goto, jobVars
<1>7. CASE AfterQueue(c)
  BY <1>7 DEF TypeOK, AfterQueue, Goto, Unlock, jobVars
<1>8. CASE PutInserted(c)
  BY <1>8 DEF TypeOK, PutInserted, Put, Goto, jobVars
<1>9. CASE Stop(c)
  BY <1>9 DEF TypeOK, Stop, TakenBack, Goto, Unlock
<1> QED
  BY <1>1, <1>2, <1>3, <1>4, <1>5, <1>6, <1>7, <1>8, <1>9 DEF Call

LEMMA ClientTypes ==
  ASSUME TypeOK, NEW c \in Clients, CallResume(c) \/ CallInterrupt(c) \/ CallCancel(c)
  PROVE  TypeOK'
<1>1. CASE CallResume(c)
  BY <1>1 DEF TypeOK, CallResume, Goto, jobVars
<1>2. CASE CallInterrupt(c)
  BY <1>2 DEF TypeOK, CallInterrupt, clientVars
<1>3. CASE CallCancel(c)
  BY <1>3 DEF TypeOK, CallCancel, jobVars, clientVars
<1> QED
  BY <1>1, <1>2, <1>3

LEMMA MessageTypes ==
  ASSUME TypeOK, NEW c \in Clients, NEW m \in Messages,
         CallSend(c, m) \/ CallInsert(c, m) \/ CallSteer(c, m)
  PROVE  TypeOK'
<1>1. CASE CallSend(c, m)
  BY <1>1 DEF TypeOK, CallSend, Enter, jobVars
<1>2. CASE CallInsert(c, m)
  BY <1>2 DEF TypeOK, CallInsert, Enter, jobVars
<1>3. CASE CallSteer(c, m)
  BY <1>3 DEF TypeOK, CallSteer, Enter, jobVars
<1> QED
  BY <1>1, <1>2, <1>3

LEMMA ExecutionTypes ==
  ASSUME TypeOK, NEW j \in Jobs, Execution(j) \/ NextBatch(j) \/ Pause(j)
  PROVE  TypeOK'
<1>1. CASE Begin(j)
  BY <1>1 DEF TypeOK, Begin, Move, clientVars
<1>2. CASE Claim(j)
  BY <1>2 DEF TypeOK, Claim, Applied, Move, clientVars
<1>3. CASE LastStep(j)
  BY <1>3 DEF TypeOK, LastStep, Move, clientVars
<1>4. CASE Reopen(j)
  BY <1>4 DEF TypeOK, Reopen, Applied, Move, clientVars
<1>5. CASE Return(j)
  BY <1>5 DEF TypeOK, Return, Move, clientVars
<1>6. CASE Deregister(j)
  BY <1>6, DispatchAssumption DEF TypeOK, Deregister, Move, clientVars
<1>7. CASE NextBatch(j)
  BY <1>7 DEF TypeOK, NextBatch, Move, clientVars
<1>8. CASE Pause(j)
  BY <1>8 DEF TypeOK, Pause, Move, clientVars
<1> QED
  BY <1>1, <1>2, <1>3, <1>4, <1>5, <1>6, <1>7, <1>8 DEF Execution

LEMMA HookTypes ==
  ASSUME TypeOK, CompletionHook \/ HookDispatch
  PROVE  TypeOK'
<1>1. CASE CompletionHook
  BY <1>1, DispatchAssumption DEF TypeOK, CompletionHook, clientVars
<1>2. CASE HookDispatch
  BY <1>2, DispatchTypes DEF TypeOK, HookDispatch, clientVars
<1> QED
  BY <1>1, <1>2

LEMMA PollTypes ==
  ASSUME TypeOK, NEW m \in Messages, Poll(m) \/ PollDispatch(m) \/ PollExpire(m)
  PROVE  TypeOK'
<1>1. CASE Poll(m)
  BY <1>1 DEF TypeOK, Poll, jobVars, clientVars
<1>2. CASE PollDispatch(m)
  BY <1>2, DispatchTypes DEF TypeOK, PollDispatch, clientVars
<1>3. CASE PollExpire(m)
  BY <1>3 DEF TypeOK, PollExpire, jobVars, clientVars
<1> QED
  BY <1>1, <1>2, <1>3

LEMMA TypeNext == TypeOK /\ [Next]_vars => TypeOK'
<1> SUFFICES ASSUME TypeOK, [Next]_vars
             PROVE  TypeOK'
  OBVIOUS
<1>1. ASSUME NEW c \in Clients, Call(c)
      PROVE  TypeOK'
  BY <1>1, CallTypes
<1>2. ASSUME NEW c \in Clients, CallResume(c) \/ CallInterrupt(c) \/ CallCancel(c)
      PROVE  TypeOK'
  BY <1>2, ClientTypes
<1>3. ASSUME NEW c \in Clients, NEW m \in Messages, CallSend(c, m) \/ CallInsert(c, m) \/ CallSteer(c, m)
      PROVE  TypeOK'
  BY <1>3, MessageTypes
<1>4. ASSUME NEW j \in Jobs, Execution(j) \/ NextBatch(j) \/ Pause(j)
      PROVE  TypeOK'
  BY <1>4, ExecutionTypes
<1>5. CASE CompletionHook \/ HookDispatch
  BY <1>5, HookTypes
<1>6. ASSUME NEW m \in Messages, Poll(m) \/ PollDispatch(m) \/ PollExpire(m)
      PROVE  TypeOK'
  BY <1>6, PollTypes
<1>7. CASE UNCHANGED vars
  BY <1>7 DEF TypeOK, vars, jobVars, clientVars
<1> QED
  BY <1>1, <1>2, <1>3, <1>4, <1>5, <1>6, <1>7 DEF Next

\* Every state of the service is well typed.
THEOREM TypeCorrect == Spec => []TypeOK
<1>1. Init => TypeOK
  BY TypeInit
<1>2. TypeOK /\ [Next]_vars => TypeOK'
  BY TypeNext
<1> QED
  BY <1>1, <1>2, PTL DEF Spec

-------------------------------------------------------------------------------
(***************************************************************************)
(* DispatchInv is inductive. Most steps are quiet: they leave the map of   *)
(* active runs alone, wake no goroutine, and bring nobody past the test of *)
(* a resume.                                                               *)
(***************************************************************************)
Quiet ==
  /\ active' = active
  /\ \A j \in Jobs : job'[j] # "none" => job[j] # "none"
  /\ \A c \in Clients : at'[c] = "resume" => at[c] = "resume"
  /\ \A m \in Messages : poll'[m] = "resume" => poll[m] = "resume"
  /\ mutex' = Hook => mutex = Hook

LEMMA QuietKeeps ==
  ASSUME DispatchInv, Quiet
  PROVE  DispatchInv'
<1>1. OneGoroutine'
  BY DEF DispatchInv, OneGoroutine, Quiet
<1>2. OneCaller'
  BY DEF DispatchInv, OneCaller, Quiet
<1>3. BetweenTestAndDispatch' => active' = NoJob
  BY DEF DispatchInv, BetweenTestAndDispatch, Quiet
<1> QED
  BY <1>1, <1>2, <1>3 DEF DispatchInv

\* A dispatch finds no goroutine and no entry, and leaves one of each.
LEMMA DispatchKeeps ==
  ASSUME TypeOK, DispatchInv, Dispatch, BetweenTestAndDispatch
  PROVE  OneGoroutine'
<1>1. PICK j \in Jobs : job' = [job EXCEPT ![j] = "dispatched"] /\ active' = j
  BY DispatchTakes
<1>2. \A k \in Jobs : job[k] = "none"
  BY DispatchAssumption DEF DispatchInv, OneGoroutine
<1> QED
  BY <1>1, <1>2 DEF TypeOK, OneGoroutine

\* Once the only caller between test and dispatch has dispatched, there is none.
LEMMA NobodyBetween ==
  ASSUME ~BetweenTestAndDispatch', OneGoroutine'
  PROVE  DispatchInv'
BY DEF DispatchInv, OneCaller, BetweenTestAndDispatch

-------------------------------------------------------------------------------
LEMMA DispatchInit == Init => DispatchInv
BY DispatchAssumption DEF Init, DispatchInv, OneGoroutine, OneCaller, BetweenTestAndDispatch

LEMMA CallKeeps ==
  ASSUME OneResume, TypeOK, DispatchInv, NEW c \in Clients, Call(c)
  PROVE  DispatchInv'
<1>1. CASE ClientDispatch(c)
  <2>1. BetweenTestAndDispatch /\ OneGoroutine'
    BY <1>1, DispatchKeeps DEF ClientDispatch, BetweenTestAndDispatch
  <2>2. ~BetweenTestAndDispatch'
    BY <1>1, DispatchAssumption
    DEF ClientDispatch, TypeOK, DispatchInv, OneCaller, BetweenTestAndDispatch, Goto, Unlock
  <2> QED
    BY <2>1, <2>2, NobodyBetween
<1>2. CASE Send(c)
  BY <1>2, DispatchAssumption, QuietKeeps DEF Send, Goto, jobVars, TypeOK, Quiet
<1>3. CASE PutReady(c)
  BY <1>3, DispatchAssumption, QuietKeeps DEF PutReady, Goto, Unlock, jobVars, TypeOK, Quiet
<1>4. CASE TestResume(c)
  <2>1. CASE MayResume
    BY <1>4, <2>1, DispatchAssumption
    DEF TestResume, MayResume, Goto, jobVars, TypeOK, DispatchInv, OneGoroutine, OneCaller,
        BetweenTestAndDispatch
  <2>2. CASE ~MayResume
    BY <1>4, <2>2, DispatchAssumption, QuietKeeps DEF TestResume, Goto, Unlock, jobVars, TypeOK, Quiet
  <2> QED
    BY <2>1, <2>2
<1>5. CASE Queue(c)
  BY <1>5, DispatchAssumption, QuietKeeps DEF Queue, Goto, jobVars, TypeOK, Quiet
<1>6. CASE PutFollowUp(c)
  BY <1>6, QuietKeeps DEF PutFollowUp, Goto, jobVars, TypeOK, Quiet
<1>7. CASE AfterQueue(c)
  <2>1. CASE MayResume /\ at'[c] = "resume"
    BY <1>7, <2>1, DispatchAssumption
    DEF AfterQueue, MayResume, Goto, Unlock, jobVars, TypeOK, DispatchInv, OneGoroutine, OneCaller,
        BetweenTestAndDispatch
  <2>2. CASE at'[c] = "idle"
    BY <1>7, <2>2, DispatchAssumption, QuietKeeps DEF AfterQueue, Goto, Unlock, jobVars, TypeOK, Quiet
  <2> QED
    BY <1>7, <2>1, <2>2 DEF AfterQueue, Goto, TypeOK
<1>8. CASE PutInserted(c)
  BY <1>8, QuietKeeps DEF PutInserted, Goto, jobVars, TypeOK, Quiet
<1>9. CASE Stop(c)
  BY <1>9, DispatchAssumption, QuietKeeps DEF Stop, Goto, Unlock, TypeOK, Quiet
<1> QED
  BY <1>1, <1>2, <1>3, <1>4, <1>5, <1>6, <1>7, <1>8, <1>9 DEF Call

LEMMA ClientKeeps ==
  ASSUME OneResume, TypeOK, DispatchInv, NEW c \in Clients,
         CallResume(c) \/ CallInterrupt(c) \/ CallCancel(c)
  PROVE  DispatchInv'
<1>1. CASE CallResume(c)
  BY <1>1, DispatchAssumption
  DEF CallResume, MayResume, Goto, jobVars, TypeOK, DispatchInv, OneGoroutine, OneCaller,
      BetweenTestAndDispatch
<1>2. CASE CallInterrupt(c)
  BY <1>2, QuietKeeps DEF CallInterrupt, clientVars, Quiet
<1>3. CASE CallCancel(c)
  BY <1>3, QuietKeeps DEF CallCancel, jobVars, clientVars, Quiet
<1> QED
  BY <1>1, <1>2, <1>3

LEMMA MessageKeeps ==
  ASSUME TypeOK, DispatchInv, NEW c \in Clients, NEW m \in Messages,
         CallSend(c, m) \/ CallInsert(c, m) \/ CallSteer(c, m)
  PROVE  DispatchInv'
<1>1. CASE CallSend(c, m)
  BY <1>1, QuietKeeps DEF CallSend, Enter, jobVars, TypeOK, Quiet
<1>2. CASE CallInsert(c, m)
  BY <1>2, QuietKeeps DEF CallInsert, Enter, jobVars, TypeOK, Quiet
<1>3. CASE CallSteer(c, m)
  BY <1>3, DispatchAssumption, QuietKeeps DEF CallSteer, Enter, jobVars, TypeOK, Quiet
<1> QED
  BY <1>1, <1>2, <1>3

LEMMA ExecutionKeeps ==
  ASSUME TypeOK, DispatchInv, NEW j \in Jobs, Execution(j) \/ NextBatch(j) \/ Pause(j)
  PROVE  DispatchInv'
<1>1. CASE Begin(j)
  BY <1>1, QuietKeeps DEF Begin, Move, clientVars, TypeOK, Quiet
<1>2. CASE Claim(j)
  BY <1>2, QuietKeeps DEF Claim, Move, clientVars, TypeOK, Quiet
<1>3. CASE LastStep(j)
  BY <1>3, QuietKeeps DEF LastStep, Move, clientVars, TypeOK, Quiet
<1>4. CASE Reopen(j)
  BY <1>4, QuietKeeps DEF Reopen, Late, Move, clientVars, TypeOK, Quiet
<1>5. CASE Return(j)
  BY <1>5, QuietKeeps DEF Return, Move, clientVars, TypeOK, Quiet
<1>6. CASE Deregister(j)
  BY <1>6
  DEF Deregister, Move, clientVars, TypeOK, DispatchInv, OneGoroutine, OneCaller, BetweenTestAndDispatch
<1>7. CASE NextBatch(j)
  BY <1>7, QuietKeeps DEF NextBatch, Move, clientVars, TypeOK, Quiet
<1>8. CASE Pause(j)
  BY <1>8, QuietKeeps DEF Pause, Move, clientVars, TypeOK, Quiet
<1> QED
  BY <1>1, <1>2, <1>3, <1>4, <1>5, <1>6, <1>7, <1>8 DEF Execution

LEMMA HookKeeps ==
  ASSUME OneResume, TypeOK, DispatchInv, CompletionHook \/ HookDispatch
  PROVE  DispatchInv'
<1>1. CASE CompletionHook
  BY <1>1, DispatchAssumption
  DEF CompletionHook, MayResume, clientVars, TypeOK, DispatchInv, OneGoroutine, OneCaller,
      BetweenTestAndDispatch
<1>2. CASE HookDispatch
  <2>1. BetweenTestAndDispatch /\ OneGoroutine'
    BY <1>2, DispatchKeeps DEF HookDispatch, BetweenTestAndDispatch
  <2>2. ~BetweenTestAndDispatch'
    BY <1>2, DispatchAssumption
    DEF HookDispatch, clientVars, DispatchInv, OneCaller, BetweenTestAndDispatch
  <2> QED
    BY <2>1, <2>2, NobodyBetween
<1> QED
  BY <1>1, <1>2

LEMMA PollKeeps ==
  ASSUME OneResume, TypeOK, DispatchInv, NEW m \in Messages, Poll(m) \/ PollDispatch(m) \/ PollExpire(m)
  PROVE  DispatchInv'
<1>1. CASE Poll(m)
  <2>1. CASE MayResume
    BY <1>1, <2>1
    DEF Poll, MayResume, jobVars, clientVars, TypeOK, DispatchInv, OneGoroutine, OneCaller,
        BetweenTestAndDispatch
  <2>2. CASE ~MayResume
    BY <1>1, <2>2, QuietKeeps DEF Poll, jobVars, clientVars, TypeOK, Quiet
  <2> QED
    BY <2>1, <2>2
<1>2. CASE PollDispatch(m)
  <2>1. BetweenTestAndDispatch /\ OneGoroutine'
    BY <1>2, DispatchKeeps DEF PollDispatch, BetweenTestAndDispatch
  <2>2. ~BetweenTestAndDispatch'
    BY <1>2, DispatchAssumption
    DEF PollDispatch, clientVars, TypeOK, DispatchInv, OneCaller, BetweenTestAndDispatch
  <2> QED
    BY <2>1, <2>2, NobodyBetween
<1>3. CASE PollExpire(m)
  BY <1>3, QuietKeeps DEF PollExpire, jobVars, clientVars, TypeOK, Quiet
<1> QED
  BY <1>1, <1>2, <1>3

LEMMA DispatchNext ==
  ASSUME OneResume, TypeOK, DispatchInv, [Next]_vars
  PROVE  DispatchInv'
<1>1. ASSUME NEW c \in Clients, Call(c)
      PROVE  DispatchInv'
  BY <1>1, CallKeeps
<1>2. ASSUME NEW c \in Clients, CallResume(c) \/ CallInterrupt(c) \/ CallCancel(c)
      PROVE  DispatchInv'
  BY <1>2, ClientKeeps
<1>3. ASSUME NEW c \in Clients, NEW m \in Messages, CallSend(c, m) \/ CallInsert(c, m) \/ CallSteer(c, m)
      PROVE  DispatchInv'
  BY <1>3, MessageKeeps
<1>4. ASSUME NEW j \in Jobs, Execution(j) \/ NextBatch(j) \/ Pause(j)
      PROVE  DispatchInv'
  BY <1>4, ExecutionKeeps
<1>5. CASE CompletionHook \/ HookDispatch
  BY <1>5, HookKeeps
<1>6. ASSUME NEW m \in Messages, Poll(m) \/ PollDispatch(m) \/ PollExpire(m)
      PROVE  DispatchInv'
  BY <1>6, PollKeeps
<1>7. CASE UNCHANGED vars
  BY <1>7, QuietKeeps DEF vars, jobVars, clientVars, Quiet
<1> QED
  BY <1>1, <1>2, <1>3, <1>4, <1>5, <1>6, <1>7 DEF Next

-------------------------------------------------------------------------------
\* At most one goroutine is there for the run, the map's entry is its own, and
\* nobody is about to dispatch another.
THEOREM DispatchCorrect ==
  ASSUME OneResume
  PROVE  Spec => []DispatchInv
<1>1. Init => DispatchInv
  BY DispatchInit
<1>2. TypeOK /\ DispatchInv /\ [Next]_vars => DispatchInv'
  BY DispatchNext
<1> QED
  BY <1>1, <1>2, TypeCorrect, PTL DEF Spec

\* What executes can be stopped, so two never execute the run at once: whatever
\* messages, interrupts, follow-ups and hooks come between.
THEOREM InterruptibleCorrect ==
  ASSUME OneResume
  PROVE  Spec => []Interruptible
<1>1. DispatchInv => Interruptible
  BY DEF DispatchInv, OneGoroutine, Interruptible, Executing
<1> QED
  BY <1>1, DispatchCorrect, PTL

-------------------------------------------------------------------------------
(***************************************************************************)
(* Pieces of a transcript.                                                 *)
(***************************************************************************)
LEMMA StretchType ==
  ASSUME NEW off \in Nat, NEW n \in Nat
  PROVE  /\ Stretch(off, n) \in Seq(Nat)
         /\ Len(Stretch(off, n)) = n
         /\ off + n <= MaxTotal => Stretch(off, n) \in Seq(1..MaxTotal)
BY MobileAssumption DEF Stretch

LEMMA StretchAt ==
  ASSUME NEW off \in Nat, NEW n \in Nat, NEW i \in 1..n
  PROVE  Stretch(off, n)[i] = off + i
BY DEF Stretch

LEMMA StretchEqual ==
  ASSUME NEW off \in Nat, NEW n \in Nat, NEW s \in Seq(Nat), Len(s) = n,
         \A i \in 1..n : s[i] = off + i
  PROVE  s = Stretch(off, n)
<1>1. s = [i \in 1..n |-> s[i]]
  OBVIOUS
<1> QED
  BY <1>1 DEF Stretch

LEMMA JoinIsStretch ==
  ASSUME NEW off \in Nat, NEW s \in Seq(Nat), NEW t \in Seq(Nat),
         \A i \in 1..Len(s) : s[i] = off + i,
         \A i \in 1..Len(t) : t[i] = (off + Len(s)) + i
  PROVE  s \o t = Stretch(off, Len(s) + Len(t))
<1>1. s \o t \in Seq(Nat) /\ Len(s \o t) = Len(s) + Len(t) /\ Len(s) + Len(t) \in Nat
  BY ConcatProperties
<1>2. ASSUME NEW i \in 1..(Len(s) + Len(t)) PROVE (s \o t)[i] = off + i
  <2>1. (s \o t)[i] = IF i <= Len(s) THEN s[i] ELSE t[i - Len(s)]
    BY ConcatProperties
  <2>2. Len(s) \in Nat /\ Len(t) \in Nat
    OBVIOUS
  <2>3. CASE i <= Len(s)
    BY <2>1, <2>2, <2>3
  <2>4. CASE i > Len(s)
    <3>1. i - Len(s) \in 1..Len(t)
      BY <2>2, <2>4
    <3>2. t[i - Len(s)] = (off + Len(s)) + (i - Len(s))
      BY <3>1
    <3> QED BY <2>1, <2>2, <2>4, <3>2
  <2> QED BY <2>2, <2>3, <2>4
<1> QED
  BY <1>1, <1>2, StretchEqual

LEMMA StretchJoin ==
  ASSUME NEW off \in Nat, NEW k \in Nat, NEW m \in Nat
  PROVE  Stretch(off, k) \o Stretch(off + k, m) = Stretch(off, k + m)
<1>1. off + k \in Nat
  OBVIOUS
<1>2. /\ Stretch(off, k) \in Seq(Nat) /\ Len(Stretch(off, k)) = k
      /\ Stretch(off + k, m) \in Seq(Nat) /\ Len(Stretch(off + k, m)) = m
  BY <1>1, StretchType
<1>3. \A i \in 1..k : Stretch(off, k)[i] = off + i
  BY StretchAt
<1>4. \A i \in 1..m : Stretch(off + k, m)[i] = (off + k) + i
  BY <1>1, StretchAt
<1> QED
  BY <1>2, <1>3, <1>4, JoinIsStretch

LEMMA StretchStart ==
  ASSUME NEW off \in Nat, NEW n \in Nat, NEW k \in 0..n
  PROVE  SubSeq(Stretch(off, n), 1, k) = Stretch(off, k)
<1> DEFINE s == Stretch(off, n)
           t == SubSeq(s, 1, k)
<1>1. s \in Seq(Nat) /\ Len(s) = n
  BY StretchType
<1>2. t \in Seq(Nat) /\ Len(t) = k /\ \A i \in 1..k : t[i] = s[1 + i - 1] /\ 1 + i - 1 = i
  BY <1>1, SubSeqProperties
<1>3. ASSUME NEW i \in 1..k PROVE t[i] = off + i
  <2>1. t[i] = s[i] /\ i \in 1..n
    BY <1>2
  <2> QED BY <2>1, StretchAt
<1> HIDE DEF t
<1>4. t = Stretch(off, k)
  BY <1>2, <1>3, StretchEqual
<1> QED
  BY <1>4 DEF t

LEMMA StretchAppend ==
  ASSUME NEW n \in Nat
  PROVE  Append(Stretch(0, n), n + 1) = Stretch(0, n + 1)
<1> DEFINE s == Stretch(0, n)
           t == Append(s, n + 1)
<1>1. s \in Seq(Nat) /\ Len(s) = n
  BY StretchType
<1>3. ASSUME NEW i \in 1..n PROVE s[i] = 0 + i
  BY StretchAt
<1>2. t \in Seq(Nat) /\ Len(t) = n + 1 /\ \A i \in 1..(n + 1) : t[i] = 0 + i
  BY <1>1, <1>3
<1> HIDE DEF t
<1>4. t = Stretch(0, n + 1)
  BY <1>2, StretchEqual
<1> QED
  BY <1>4 DEF t

LEMMA EmptyStretch ==
  ASSUME NEW off \in Nat
  PROVE  <<>> = Stretch(off, 0) /\ <<>> \in Seq(1..MaxTotal) /\ Len(<<>>) = 0
<1>1. Stretch(off, 0) \in Seq(Nat) /\ Len(Stretch(off, 0)) = 0
  BY StretchType
<1>2. \A s \in Seq(Nat) : Len(s) = 0 => s = <<>>
  OBVIOUS
<1> QED
  BY <1>1, <1>2

\* A page is a piece of its run.
LEMMA PageFits ==
  ASSUME NEW run \in HostRuns, NEW limit \in Int, NEW before \in Int
  PROVE  Page(run, limit, before) \in Pages /\ Piece(Page(run, limit, before), run)
<1> DEFINE end == IF before \in 1..run.total THEN before ELSE run.total
           start == IF limit > 0 /\ end > limit THEN end - limit ELSE 0
<1>1. run.total \in 0..MaxTotal /\ run.status \in Status
  BY DEF HostRuns
<1>2. end \in 0..run.total /\ start \in Nat /\ end - start \in Nat
  BY <1>1, MobileAssumption
<1>3. Page(run, limit, before) = [status |-> run.status, off |-> start, events |-> Stretch(start, end - start)]
  BY DEF Page
<1>4. start + (end - start) <= run.total /\ start \in 0..MaxTotal
      /\ start + (end - start) <= MaxTotal
  BY <1>1, <1>2, MobileAssumption
<1>5. /\ Stretch(start, end - start) \in Seq(1..MaxTotal)
      /\ Len(Stretch(start, end - start)) = end - start
  BY <1>2, <1>4, StretchType
<1> HIDE DEF end, start
<1> QED
  BY <1>1, <1>3, <1>4, <1>5 DEF Pages, Piece

\* The pages of two answers are joined without a hole.
LEMMA MergeFits ==
  ASSUME NEW run \in HostRuns, NEW old \in Copies, NEW new \in Pages,
         Piece(old, run), Piece(new, run)
  PROVE  Merge(old, new) \in Pages /\ Piece(Merge(old, new), run)
<1> DEFINE keep == new.off - old.off
<1>1. /\ old.off \in Nat /\ new.off \in Nat /\ old.events \in Seq(1..MaxTotal)
      /\ new.events \in Seq(1..MaxTotal) /\ Len(old.events) \in Nat /\ Len(new.events) \in Nat
      /\ new.off \in 0..MaxTotal /\ old.off \in 0..MaxTotal /\ run.total \in 0..MaxTotal
      /\ new.status \in Status
  BY DEF Copies, Pages, HostRuns
<1>2. CASE old.events = <<>> \/ keep <= 0 \/ keep > Len(old.events)
  BY <1>2 DEF Merge
<1>3. CASE ~(old.events = <<>> \/ keep <= 0 \/ keep > Len(old.events))
  <2> DEFINE s == SubSeq(old.events, 1, keep) \o new.events
  <2>1. keep \in 0..Len(old.events) /\ keep \in Nat /\ new.off = old.off + keep
    BY <1>1, <1>3
  <2>8. old.events = Stretch(old.off, Len(old.events))
        /\ new.events = Stretch(new.off, Len(new.events))
    BY DEF Piece
  <2>9. Merge(old, new) = [new EXCEPT !.events = s, !.off = old.off]
    BY <1>3 DEF Merge
  <2> HIDE DEF keep
  <2>2. SubSeq(Stretch(old.off, Len(old.events)), 1, keep) = Stretch(old.off, keep)
    BY <1>1, <2>1, StretchStart
  <2>3. s = Stretch(old.off, keep + Len(new.events))
    <3>1. s = Stretch(old.off, keep) \o Stretch(old.off + keep, Len(new.events))
      BY <2>1, <2>2, <2>8
    <3> HIDE DEF s
    <3> QED BY <1>1, <2>1, <3>1, StretchJoin
  <2> HIDE DEF s
  <2>4. old.off + (keep + Len(new.events)) <= run.total
    BY <1>1, <2>1 DEF Piece
  <2>5. s \in Seq(1..MaxTotal) /\ Len(s) = keep + Len(new.events)
    <3>1. keep + Len(new.events) \in Nat /\ old.off + (keep + Len(new.events)) <= MaxTotal
      BY <1>1, <2>1, <2>4, MobileAssumption
    <3> QED
      BY <1>1, <2>3, <3>1, StretchType
  <2>7. Merge(old, new) = [status |-> new.status, off |-> old.off, events |-> s]
    BY <2>9 DEF Pages
  <2> QED
    BY <1>1, <2>3, <2>4, <2>5, <2>7 DEF Pages, Piece
<1> QED
  BY <1>2, <1>3

\* The page before a piece ends where the piece begins.
LEMMA EarlierFits ==
  ASSUME NEW run \in HostRuns, NEW old \in Copies, Piece(old, run), old.off > 0
  PROVE  LET new == [Page(run, Window, old.off) EXCEPT !.events = @ \o old.events]
         IN new \in Pages /\ Piece(new, run)
<1> DEFINE start == IF old.off > Window THEN old.off - Window ELSE 0
           s == Stretch(start, old.off - start) \o old.events
<1>1. /\ old.off \in Nat /\ old.events \in Seq(1..MaxTotal) /\ Len(old.events) \in Nat
      /\ run.total \in 0..MaxTotal /\ run.status \in Status /\ Window \in Nat \ {0}
  BY MobileAssumption DEF Copies, HostRuns
<1>2. old.off \in 1..run.total
  BY <1>1, MobileAssumption DEF Piece
<1>3. Page(run, Window, old.off) = [status |-> run.status, off |-> start, events |-> Stretch(start, old.off - start)]
  BY <1>1, <1>2 DEF Page
<1>4. start \in Nat /\ start <= old.off
  BY <1>1
<1> HIDE DEF start
<1> DEFINE k == old.off - start
<1>9. k \in Nat /\ start + k = old.off
  BY <1>1, <1>4
<1> HIDE DEF k
<1>5. s = Stretch(start, k + Len(old.events))
  <2>1. s = Stretch(start, k) \o Stretch(start + k, Len(old.events))
    BY <1>9 DEF Piece, k
  <2> HIDE DEF s
  <2> QED BY <1>1, <1>4, <1>9, <2>1, StretchJoin
<1> HIDE DEF s
<1>6. start + (k + Len(old.events)) <= run.total /\ start \in 0..MaxTotal
      /\ start + (k + Len(old.events)) <= MaxTotal
      /\ k + Len(old.events) \in Nat
  BY <1>1, <1>4, <1>9, MobileAssumption DEF Piece
<1>7. s \in Seq(1..MaxTotal) /\ Len(s) = k + Len(old.events)
  BY <1>4, <1>5, <1>6, StretchType
<1>8. [Page(run, Window, old.off) EXCEPT !.events = @ \o old.events]
        = [status |-> run.status, off |-> start, events |-> s]
  <2> DEFINE p == Page(run, Window, old.off)
  <2>1. p = [status |-> run.status, off |-> start, events |-> Stretch(start, old.off - start)]
    BY <1>3
  <2> HIDE DEF p
  <2>2. \A x : [p EXCEPT !.events = x] = [status |-> run.status, off |-> start, events |-> x]
    BY <2>1
  <2>3. p.events = Stretch(start, old.off - start)
    BY <2>1
  <2> QED
    BY <2>2, <2>3 DEF s, k, p
<1> QED
  BY <1>1, <1>5, <1>6, <1>7, <1>8 DEF Pages, Piece

\* A piece is known by where it starts and how long it is.
LEMMA SamePiece ==
  ASSUME NEW run, NEW v \in Views, NEW w \in Views, Piece(v, run), Piece(w, run),
         v.shared = w.shared, v.status = w.status, v.off = w.off, Len(v.events) = Len(w.events)
  PROVE  v = w
<1>1. v.events = w.events
  BY DEF Piece
<1> QED
  BY <1>1 DEF Views

\* A run that grows keeps its pieces.
LEMMA PieceStays ==
  ASSUME NEW run \in HostRuns, NEW longer \in HostRuns, longer.total >= run.total,
         NEW v, v.off \in Nat, v.events \in Seq(1..MaxTotal), Piece(v, run)
  PROVE  Piece(v, longer)
BY LenProperties DEF Piece, HostRuns

LEMMA MaxIsInt ==
  ASSUME NEW a \in Int, NEW b \in Int
  PROVE  Max({a, b}) \in Int
<1>1. \E x \in {a, b} : \A y \in {a, b} : x >= y
  <2>1. CASE a >= b BY <2>1
  <2>2. CASE b >= a BY <2>2
  <2> QED BY <2>1, <2>2
<1>2. Max({a, b}) \in {a, b}
  BY <1>1 DEF Max
<1> QED
  BY <1>2

(***************************************************************************)
(* Types.                                                                  *)
(***************************************************************************)
LEMMA RecordsExist ==
  /\ \A x \in HostRuns : x # None
  /\ \A x \in Views : x # None
  /\ \A x \in Pages : x # None
  /\ \A x \in Uploads : x # None
BY DEF HostRuns, Views, Pages, Uploads, None

LEMMA PhoneTypeInit == PhoneInit => PhoneTypeOK
<1> SUFFICES ASSUME PhoneInit PROVE PhoneTypeOK
  OBVIOUS
<1>1. shared \in BOOLEAN /\ upload = None
      /\ fresh \subseteq Runs /\ paired \subseteq Runs /\ dropped \subseteq Runs
  BY DEF PhoneInit
<1>7. faults \in 0..MaxFaults
  <2>1. 0 \in 0..MaxFaults
    BY MobileAssumption
  <2> QED BY <2>1 DEF PhoneInit
<1>2. host \in [Runs -> HostRuns \union {None}]
  BY DEF PhoneInit
<1>3. phone \in [Runs -> Views \union {None}] /\ saved \in [Runs -> Views \union {None}]
  BY DEF PhoneInit
<1>4. made \in [Runs -> -1..MaxTotal]
  <2>1. -1 \in -1..MaxTotal
    BY MobileAssumption
  <2> QED BY <2>1 DEF PhoneInit
<1>5. calls \in [Calls -> Requests \union Answers \union {Idle}]
  BY DEF PhoneInit
<1>6. sync \in Handovers \union Listings \union {Idle}
  BY DEF PhoneInit
<1> QED
  BY <1>1, <1>2, <1>3, <1>4, <1>5, <1>6, <1>7 DEF PhoneTypeOK

\* What a call is, by its state.
LEMMA CallIs ==
  ASSUME PhoneTypeOK, NEW c \in Calls
  PROVE  /\ calls[c].at \in {"idle", "sent", "answered"}
         /\ calls[c].at = "sent" => /\ calls[c].run \in Runs
                                    /\ calls[c].op \in {"get", "earlier", "start", "delete"}
         /\ calls[c].at = "sent" /\ calls[c].op \in {"get", "earlier"} => calls[c].view \in Copies
         /\ calls[c].at = "sent" /\ calls[c].op = "delete" => calls[c].paired \in BOOLEAN
         /\ calls[c].at = "answered" => calls[c].run \in Runs /\ calls[c].view \in Pages \union {None}
BY DEF PhoneTypeOK, Requests, Answers, Idle

LEMMA SyncIs ==
  ASSUME PhoneTypeOK
  PROVE  /\ sync.at \in {"idle", "legacy", "uploading", "listing", "listed"}
         /\ sync.at = "idle" => sync = Idle
         /\ sync.at \in {"legacy", "uploading"} => sync.todo \in SUBSET Runs /\ sync \in Handovers
         /\ sync.at \in {"listing", "listed"} =>
              /\ sync.first \in BOOLEAN /\ sync.rest \in SUBSET Runs /\ sync \in Listings
              /\ DOMAIN sync.found \in SUBSET Runs
              /\ \A r \in DOMAIN sync.found : sync.found[r] \in Status
BY DEF PhoneTypeOK, Handovers, Listings, Idle

LEMMA MovedType ==
  ASSUME PhoneTypeOK, NEW r \in Runs, Moved(r)
  PROVE  sync' \in Handovers \union Listings \union {Idle}
<1>1. CASE sync.at = "listing"
  BY <1>1, SyncIs DEF Moved, Listings
<1>2. CASE sync.at # "listing"
  BY <1>2 DEF Moved, PhoneTypeOK
<1> QED
  BY <1>1, <1>2

LEMMA CachedType ==
  ASSUME PhoneTypeOK, NEW r \in Runs, NEW view \in Pages, Cached(r, view)
  PROVE  /\ phone' = [phone EXCEPT ![r] = [shared |-> TRUE, status |-> view.status,
                                           off |-> view.off, events |-> view.events]]
         /\ phone'[r] \in Views
         /\ phone' \in [Runs -> Views \union {None}] /\ saved' \in [Runs -> Views \union {None}]
         /\ fresh' \subseteq Runs /\ paired' \subseteq Runs
BY DEF PhoneTypeOK, Cached, Pages, Views

LEMMA ReplyType ==
  ASSUME PhoneTypeOK, NEW c \in Calls, calls[c].at = "sent",
         NEW view \in Pages \union {None}, Reply(c, view)
  PROVE  calls' \in [Calls -> Requests \union Answers \union {Idle}]
BY CallIs DEF PhoneTypeOK, Reply, Answers

LEMMA HostRunType ==
  ASSUME PhoneTypeOK, NEW r \in Runs, HostRun(r)
  PROVE  PhoneTypeOK'
<1>1. CASE HostAppends(r)
  BY <1>1, MovedType, MobileAssumption DEF HostAppends, There, PhoneTypeOK, HostRuns
<1>2. CASE HostEnds(r)
  BY <1>2, MovedType DEF HostEnds, There, PhoneTypeOK, HostRuns, Status
<1>3. CASE HostContinues(r)
  BY <1>3, MovedType, MobileAssumption DEF HostContinues, CanContinue, Continued, There, PhoneTypeOK, HostRuns, Status
<1>4. CASE HostDeletes(r)
  BY <1>4, MovedType DEF HostDeletes, CanRemove, Removed, There, PhoneTypeOK, HostRuns
<1> QED
  BY <1>1, <1>2, <1>3, <1>4 DEF HostRun

LEMMA ImportType ==
  ASSUME PhoneTypeOK, ImportInv, Import
  PROVE  PhoneTypeOK'
<1>1. CASE ImportSavesRun
  <2> DEFINE r == upload.run
             now == IF host[r] = None
                    THEN [there |-> TRUE, status |-> "ended", total |-> 0, marked |-> FALSE]
                    ELSE [host[r] EXCEPT !.there = TRUE]
  <2>1. upload \in Uploads /\ r \in Runs /\ Moved(r)
    BY <1>1 DEF ImportSavesRun, PhoneTypeOK, Uploads
  <2>2. host' = [host EXCEPT ![r] = now]
    BY <1>1 DEF ImportSavesRun
  <2>3. now \in HostRuns
    <3>1. CASE host[r] = None
      BY <3>1, MobileAssumption DEF HostRuns, Status
    <3>2. CASE host[r] # None
      <4>1. host[r] \in HostRuns
        BY <2>1, <3>2 DEF PhoneTypeOK
      <4> QED BY <3>2, <4>1 DEF HostRuns
    <3> QED BY <3>1, <3>2
  <2>4. host' \in [Runs -> HostRuns \union {None}]
    <3> HIDE DEF now, r
    <3> QED BY <2>1, <2>2, <2>3 DEF PhoneTypeOK
  <2>5. upload' \in Uploads
    BY <1>1, <2>1 DEF ImportSavesRun, Uploads
  <2>6. sync' \in Handovers \union Listings \union {Idle}
    BY <2>1, MovedType
  <2> QED
    BY <1>1, <2>4, <2>5, <2>6 DEF ImportSavesRun, PhoneTypeOK
<1>2. CASE ImportAppends
  BY <1>2, MobileAssumption DEF ImportAppends, ImportInv, PhoneTypeOK, HostRuns, Uploads
<1>3. CASE ImportMarks
  <2>1. upload \in Uploads /\ upload.run \in Runs /\ host[upload.run] \in HostRuns
    BY <1>3 DEF ImportMarks, ImportInv, PhoneTypeOK, Uploads
  <2>2. host' \in [Runs -> HostRuns \union {None}]
    BY <1>3, <2>1 DEF ImportMarks, PhoneTypeOK, HostRuns
  <2>3. upload' \in Uploads \union {None}
    BY <1>3, <2>1 DEF ImportMarks, Uploads
  <2> QED
    BY <1>3, <2>2, <2>3 DEF ImportMarks, PhoneTypeOK
<1>4. CASE ImportKnown
  BY <1>4 DEF ImportKnown, PhoneTypeOK, Uploads
<1> QED
  BY <1>1, <1>2, <1>3, <1>4 DEF Import

LEMMA LocalRunType ==
  ASSUME PhoneTypeOK, LocalInv, NEW r \in Runs, LocalRun(r)
  PROVE  PhoneTypeOK'
<1>1. CASE StartLocal(r)
  BY <1>1, EmptyStretch, MobileAssumption DEF StartLocal, PhoneTypeOK, Views, Status
<1>2. CASE LocalEvent(r)
  <2>1. phone[r] \in Views /\ Len(phone[r].events) \in Nat
    BY <1>2 DEF LocalEvent, Local, PhoneTypeOK, Views
  <2>2. Append(phone[r].events, Len(phone[r].events) + 1) \in Seq(1..MaxTotal)
    BY <1>2, <2>1, MobileAssumption DEF LocalEvent, Views
  <2>3. phone'[r] \in Views
    BY <1>2, <2>1, <2>2 DEF LocalEvent, PhoneTypeOK, Views
  <2> QED
    BY <1>2, <2>3 DEF LocalEvent, PhoneTypeOK
<1>3. CASE LocalEnd(r)
  <2>1. phone[r] \in Views /\ Len(phone[r].events) \in 0..MaxTotal
    BY <1>3, MobileAssumption DEF LocalEnd, Local, LocalInv, PhoneTypeOK, Views
  <2>2. phone'[r] \in Views
    BY <1>3, <2>1 DEF LocalEnd, PhoneTypeOK, Views, Status
  <2> QED
    BY <1>3, <2>1, <2>2 DEF LocalEnd, PhoneTypeOK
<1>4. CASE DeleteLocal(r)
  BY <1>4 DEF DeleteLocal, Forget, PhoneTypeOK
<1> QED
  BY <1>1, <1>2, <1>3, <1>4 DEF LocalRun

LEMMA AskType ==
  ASSUME PhoneTypeOK, NEW c \in Calls, NEW r \in Runs, GetRun(c, r) \/ Touch(c, r)
  PROVE  PhoneTypeOK'
<1>1. Shown(r) => Copy(r) \in Copies
  BY DEF Shown, Copy, Copies, PhoneTypeOK, Views
<1>2. CASE GetRun(c, r)
  BY <1>1, <1>2 DEF GetRun, Request, Requests, PhoneTypeOK
<1>3. CASE LoadEarlierRun(c, r)
  BY <1>1, <1>3 DEF LoadEarlierRun, Request, Requests, PhoneTypeOK
<1>4. CASE StartRun(c, r)
  BY <1>4 DEF StartRun, Request, Requests, PhoneTypeOK
<1>5. CASE DeleteShared(c, r)
  BY <1>5 DEF DeleteShared, Request, Requests, PhoneTypeOK
<1> QED
  BY <1>2, <1>3, <1>4, <1>5 DEF Touch

\* What the host answers is a page of the run that was asked about.
LEMMA GetFits ==
  ASSUME PhoneTypeOK, CallInv, NEW c \in Calls, calls[c].at = "sent", calls[c].op = "get",
         There(calls[c].run)
  PROVE  LET cached == calls[c].view
             new == Merge(cached, Page(host[calls[c].run], Max({Len(cached.events), Window}), 0))
         IN new \in Pages /\ Piece(new, host[calls[c].run])
<1> DEFINE run == host[calls[c].run]
           cached == calls[c].view
           limit == Max({Len(cached.events), Window})
<1>1. calls[c].run \in Runs /\ cached \in Copies
  BY CallIs
<1>2. run \in HostRuns /\ Piece(cached, run)
  BY <1>1 DEF There, PhoneTypeOK, CallInv, CallOK
<1>3. limit \in Int
  <2>1. Len(cached.events) \in Int /\ Window \in Int
    BY <1>1, MobileAssumption DEF Copies
  <2> QED BY <2>1, MaxIsInt
<1> HIDE DEF run, cached, limit
<1>4. Page(run, limit, 0) \in Pages /\ Piece(Page(run, limit, 0), run)
  BY <1>2, <1>3, PageFits
<1>5. Merge(cached, Page(run, limit, 0)) \in Pages /\ Piece(Merge(cached, Page(run, limit, 0)), run)
  BY <1>1, <1>2, <1>4, MergeFits
<1> QED
  BY <1>5 DEF run, cached, limit

LEMMA EarlierAnswerFits ==
  ASSUME PhoneTypeOK, CallInv, NEW c \in Calls, calls[c].at = "sent", calls[c].op = "earlier",
         There(calls[c].run)
  PROVE  LET cached == calls[c].view
             new == [Page(host[calls[c].run], Window, cached.off) EXCEPT !.events = @ \o cached.events]
         IN new \in Pages /\ Piece(new, host[calls[c].run])
<1> DEFINE run == host[calls[c].run]
           cached == calls[c].view
<1>1. calls[c].run \in Runs /\ cached \in Copies
  BY CallIs
<1>2. run \in HostRuns /\ Piece(cached, run) /\ cached.off > 0
  BY <1>1 DEF There, PhoneTypeOK, CallInv, CallOK
<1> HIDE DEF run, cached
<1>3. LET new == [Page(run, Window, cached.off) EXCEPT !.events = @ \o cached.events]
      IN new \in Pages /\ Piece(new, run)
  BY <1>1, <1>2, EarlierFits
<1> QED
  BY <1>3 DEF run, cached

\* A start makes the run or continues it; the answer is the whole of it.
LEMMA StartFits ==
  ASSUME PhoneTypeOK, NEW c \in Calls, HostStarts(c)
  PROVE  \E r \in {calls[c].run} :
           /\ r \in Runs /\ host' \in [Runs -> HostRuns \union {None}]
           /\ host'[r] \in HostRuns /\ host' = [host EXCEPT ![r] = host'[r]]
           /\ host[r] = None => host'[r].there /\ host'[r].marked
           /\ host[r] # None => /\ host'[r].there = host[r].there /\ host[r].there
                                /\ host'[r].marked = host[r].marked /\ host[r].marked
                                /\ host'[r].total >= host[r].total
           /\ Moved(r) /\ Reply(c, Whole(host'[r]))
           /\ Whole(host'[r]) \in Pages /\ Piece(Whole(host'[r]), host'[r])
<1> DEFINE r == calls[c].run
<1>1. r \in Runs /\ calls[c].at = "sent"
  BY CallIs DEF HostStarts
<1> HIDE DEF r
<1>2. /\ \/ host[r] = None /\ host' = [host EXCEPT ![r] =
                 [there |-> TRUE, status |-> "running", total |-> 0, marked |-> TRUE]]
         \/ host[r] # None /\ CanContinue(r) /\ host' = Continued(r)
      /\ Moved(r) /\ Reply(c, Whole(host'[r]))
  BY DEF HostStarts, r
<1>3. host'[r] \in HostRuns /\ host' = [host EXCEPT ![r] = host'[r]]
      /\ host' \in [Runs -> HostRuns \union {None}]
  <2>1. CASE host[r] = None
    <3>1. [there |-> TRUE, status |-> "running", total |-> 0, marked |-> TRUE] \in HostRuns
      BY MobileAssumption DEF HostRuns, Status
    <3> QED BY <1>1, <1>2, <2>1, <3>1 DEF PhoneTypeOK
  <2>2. CASE host[r] # None
    <3> DEFINE now == [host[r] EXCEPT !.status = "running", !.total = @ + 1]
    <3>1. host' = [host EXCEPT ![r] = now]
      BY <1>1, <1>2, <2>2 DEF Continued, PhoneTypeOK
    <3>2. now \in HostRuns
      <4>1. host[r] \in HostRuns /\ host[r].total < MaxTotal
        BY <1>1, <1>2, <2>2 DEF CanContinue, PhoneTypeOK
      <4>2. host[r].total + 1 \in 0..MaxTotal
        BY <4>1, MobileAssumption DEF HostRuns
      <4> QED BY <4>1, <4>2 DEF HostRuns, Status
    <3> HIDE DEF now
    <3> QED BY <1>1, <3>1, <3>2 DEF PhoneTypeOK
  <2> QED BY <2>1, <2>2
<1>4. /\ host[r] = None => host'[r].there /\ host'[r].marked
      /\ host[r] # None => /\ host'[r].there = host[r].there /\ host[r].there
                           /\ host'[r].marked = host[r].marked /\ host[r].marked
                           /\ host'[r].total >= host[r].total
  BY <1>1, <1>2 DEF CanContinue, Continued, There, PhoneTypeOK, HostRuns
<1>5. Whole(host'[r]) \in Pages /\ Piece(Whole(host'[r]), host'[r])
  BY <1>3, PageFits DEF Whole
<1> QED
  BY <1>1, <1>2, <1>3, <1>4, <1>5 DEF r

LEMMA AnswerType ==
  ASSUME PhoneTypeOK, CallInv, NEW c \in Calls, Answer(c) \/ CallLost(c)
  PROVE  PhoneTypeOK'
<1>1. CASE HostAnswersGet(c)
  <2>1. calls' \in [Calls -> Requests \union Answers \union {Idle}]
    BY <1>1, GetFits, ReplyType DEF HostAnswersGet
  <2> QED BY <1>1, <2>1 DEF HostAnswersGet, PhoneTypeOK
<1>2. CASE HostAnswersEarlier(c)
  <2>1. calls' \in [Calls -> Requests \union Answers \union {Idle}]
    BY <1>2, EarlierAnswerFits, ReplyType DEF HostAnswersEarlier
  <2> QED BY <1>2, <2>1 DEF HostAnswersEarlier, PhoneTypeOK
<1>3. CASE HostStarts(c)
  <2>1. calls' \in [Calls -> Requests \union Answers \union {Idle}]
    BY <1>3, StartFits, ReplyType DEF HostStarts
  <2>2. host' \in [Runs -> HostRuns \union {None}] /\ sync' \in Handovers \union Listings \union {Idle}
    BY <1>3, StartFits, MovedType
  <2> QED BY <1>3, <2>1, <2>2 DEF HostStarts, PhoneTypeOK
<1>4. CASE HostRemoves(c)
  <2>1. calls' \in [Calls -> Requests \union Answers \union {Idle}]
    BY <1>4, ReplyType DEF HostRemoves
  <2>2. calls[c].run \in Runs /\ Moved(calls[c].run)
    BY <1>4, CallIs DEF HostRemoves, Removed
  <2>3. host' \in [Runs -> HostRuns \union {None}] /\ sync' \in Handovers \union Listings \union {Idle}
    <3>1. host[calls[c].run] \in HostRuns
      BY <1>4, <2>2 DEF HostRemoves, CanRemove, There, PhoneTypeOK
    <3>2. host' \in [Runs -> HostRuns \union {None}]
      BY <1>4, <2>2, <3>1 DEF HostRemoves, Removed, PhoneTypeOK, HostRuns
    <3> QED BY <2>2, <3>2, MovedType
  <2> QED BY <1>4, <2>1, <2>2, <2>3 DEF HostRemoves, Removed, PhoneTypeOK
<1>5. CASE CallRefused(c)
  BY <1>5 DEF CallRefused, PhoneTypeOK
<1>6. CASE Answered(c)
  <2>1. calls[c].run \in Runs /\ calls[c].view \in Pages
    BY <1>6, CallIs DEF Answered
  <2>2. /\ phone' \in [Runs -> Views \union {None}] /\ saved' \in [Runs -> Views \union {None}]
        /\ fresh' \subseteq Runs /\ paired' \subseteq Runs
    BY <1>6, <2>1, CachedType DEF Answered
  <2> QED BY <1>6, <2>2 DEF Answered, PhoneTypeOK
<1>7. CASE DeleteAnswered(c)
  BY <1>7 DEF DeleteAnswered, Forget, PhoneTypeOK
<1>8. CASE CallLost(c)
  BY <1>8, MobileAssumption DEF CallLost, PhoneTypeOK
<1> QED
  BY <1>1, <1>2, <1>3, <1>4, <1>5, <1>6, <1>7, <1>8 DEF Answer

LEMMA AdoptedType ==
  ASSUME PhoneTypeOK, sync.at = "listed", NEW r \in DOMAIN sync.found
  PROVE  /\ r \in Runs /\ Adopted(r, sync.found[r]) \in Views
         /\ Adopted(r, sync.found[r]).shared
         /\ phone[r] # None => /\ Adopted(r, sync.found[r]).off = phone[r].off
                               /\ Adopted(r, sync.found[r]).events = phone[r].events
         /\ phone[r] = None => /\ Adopted(r, sync.found[r]).off = 0
                               /\ Adopted(r, sync.found[r]).events = <<>>
<1>1. r \in Runs /\ sync.found[r] \in Status
  BY SyncIs
<1>2. CASE phone[r] = None
  BY <1>1, <1>2, EmptyStretch, MobileAssumption DEF Adopted, Views
<1>3. CASE phone[r] # None
  <2>1. phone[r] \in Views
    BY <1>1, <1>3 DEF PhoneTypeOK
  <2> QED BY <1>1, <1>3, <2>1 DEF Adopted, Views
<1> QED BY <1>2, <1>3

LEMMA SyncType ==
  ASSUME PhoneTypeOK, MobileInv, Sync \/ SyncUploadLost \/ SyncLost
  PROVE  PhoneTypeOK'
<1>1. CASE SyncStarts
  <2>1. sync' \in Handovers
    BY <1>1 DEF SyncStarts, Handovers
  <2> QED BY <1>1, <2>1 DEF SyncStarts, PhoneTypeOK
<1>2. ASSUME NEW r \in Runs, SyncUploads(r) PROVE PhoneTypeOK'
  <2>1. sync' \in Handovers
    BY <1>2, SyncIs DEF SyncUploads, Handovers
  <2>2. made[r] \in 0..MaxTotal
    BY <1>2, MobileAssumption DEF SyncUploads, MobileInv, ImportInv, PhoneTypeOK
  <2>3. upload' \in Uploads
    BY <1>2, <2>2 DEF SyncUploads, Uploads
  <2> QED BY <1>2, <2>1, <2>3 DEF SyncUploads, PhoneTypeOK
<1>3. CASE SyncUploaded
  <2>1. sync' \in Handovers
    BY <1>3, SyncIs DEF SyncUploaded, Handovers
  <2>2. upload \in Uploads
    BY <1>3, RecordsExist DEF SyncUploaded, MobileInv, ImportInv, PhoneTypeOK
  <2>3. CASE There(upload.run)
    <3>1. host[upload.run] \in HostRuns /\ upload.run \in Runs
      BY <2>2, <2>3 DEF There, PhoneTypeOK, Uploads
    <3>2. Whole(host[upload.run]) \in Pages
      BY <3>1, PageFits DEF Whole
    <3>3. Cached(upload.run, Whole(host[upload.run]))
      BY <1>3, <2>3 DEF SyncUploaded
    <3>4. /\ phone' \in [Runs -> Views \union {None}] /\ saved' \in [Runs -> Views \union {None}]
          /\ fresh' \subseteq Runs /\ paired' \subseteq Runs
      BY <3>1, <3>2, <3>3, CachedType
    <3> QED BY <1>3, <2>1, <3>4 DEF SyncUploaded, PhoneTypeOK
  <2>4. CASE ~There(upload.run)
    BY <1>3, <2>1, <2>4 DEF SyncUploaded, PhoneTypeOK
  <2> QED BY <2>3, <2>4
<1>4. CASE SyncLists
  <2>1. [r \in {} |-> ""] \in [{} -> Status]
    OBVIOUS
  <2>2. [r \in {} |-> ""] \in UNION {[found -> Status] : found \in SUBSET Runs}
    BY <2>1
  <2>3. sync' \in Listings
    BY <1>4, <2>2 DEF SyncLists, Listings
  <2> QED BY <1>4, <2>3 DEF SyncLists, PhoneTypeOK
<1>5. CASE SyncPage
  <2> DEFINE left == IF sync.first THEN {r \in Runs : shared /\ There(r)} ELSE sync.rest
             found(page) == [r \in page \union DOMAIN sync.found |->
                               IF r \in page THEN host[r].status ELSE sync.found[r]]
  <2>1. left \subseteq Runs
    BY <1>5, SyncIs DEF SyncPage
  <2>2. PICK page \in SUBSET left :
          sync' = [at |-> IF page = left THEN "listed" ELSE "listing", first |-> FALSE,
                   rest |-> left \ page, found |-> found(page)]
    BY <1>5 DEF SyncPage
  <2>3. \A r \in left : host[r] \in HostRuns
    BY <1>5, SyncIs DEF SyncPage, There, MobileInv, ListInv, PhoneTypeOK
  <2>4. found(page) \in [page \union DOMAIN sync.found -> Status]
    <3>1. \A r \in page : host[r].status \in Status
      BY <2>3 DEF HostRuns
    <3>2. \A r \in DOMAIN sync.found : sync.found[r] \in Status
      BY <1>5, SyncIs DEF SyncPage
    <3> QED BY <3>1, <3>2
  <2>5. page \union DOMAIN sync.found \in SUBSET Runs
    BY <1>5, <2>1, SyncIs DEF SyncPage
  <2> HIDE DEF left, found
  <2>6. found(page) \in UNION {[D -> Status] : D \in SUBSET Runs}
    BY <2>4, <2>5
  <2>7. sync' \in Listings
    BY <2>1, <2>2, <2>6 DEF Listings
  <2> QED BY <1>5, <2>7 DEF SyncPage, PhoneTypeOK
<1>6. CASE SyncAdopts
  <2>1. \A r \in DOMAIN sync.found : Adopted(r, sync.found[r]) \in Views
    BY <1>6, AdoptedType DEF SyncAdopts
  <2>2. phone' \in [Runs -> Views \union {None}]
    BY <1>6, <2>1 DEF SyncAdopts, PhoneTypeOK
  <2>3. saved' \in [Runs -> Views \union {None}]
    BY <1>6, <2>2 DEF SyncAdopts, PhoneTypeOK
  <2> QED BY <1>6, <2>2, <2>3 DEF SyncAdopts, PhoneTypeOK
<1>7. CASE SyncUploadLost
  <2>1. sync' \in Handovers
    BY <1>7, SyncIs DEF SyncUploadLost, Handovers
  <2>2. upload' \in Uploads \union {None}
    BY <1>7 DEF SyncUploadLost, Broken, PhoneTypeOK
  <2>3. faults' \in 0..MaxFaults
    BY <1>7, MobileAssumption DEF SyncUploadLost, PhoneTypeOK
  <2> QED BY <1>7, <2>1, <2>2, <2>3 DEF SyncUploadLost, UploadFails, PhoneTypeOK
<1>8. CASE SyncLost
  <2>1. faults' \in 0..MaxFaults
    BY <1>8, MobileAssumption DEF SyncLost, PhoneTypeOK
  <2> QED BY <1>8, <2>1 DEF SyncLost, PhoneTypeOK
<1> QED
  BY <1>1, <1>2, <1>3, <1>4, <1>5, <1>6, <1>7, <1>8 DEF Sync

LEMMA RestartType ==
  ASSUME PhoneTypeOK, LocalInv, Restart
  PROVE  PhoneTypeOK'
<1>1. upload' \in Uploads \union {None}
  BY DEF Restart, Broken, PhoneTypeOK
<1>2. faults' \in 0..MaxFaults
  BY MobileAssumption DEF Restart, PhoneTypeOK
<1>3. phone' \in [Runs -> Views \union {None}]
  <2>1. \A v \in Views : [v EXCEPT !.status = IF v.shared THEN @ ELSE "ended"] \in Views
    BY DEF Views, Status
  <2>2. \A r \in Runs : saved[r] # None => saved[r] \in Views
    BY DEF PhoneTypeOK
  <2> QED BY <2>1, <2>2 DEF Restart
<1>4. made' \in [Runs -> -1..MaxTotal]
  <2>1. \A r \in Runs : Local(r) => Len(saved[r].events) \in -1..MaxTotal
    <3> SUFFICES ASSUME NEW r \in Runs, Local(r) PROVE Len(saved[r].events) \in -1..MaxTotal
      OBVIOUS
    <3>1. saved[r] \in Views /\ Len(saved[r].events) <= MaxTotal
      BY DEF Local, LocalInv, PhoneTypeOK
    <3>2. Len(saved[r].events) \in Nat
      BY <3>1 DEF Views
    <3> QED BY <3>1, <3>2, MobileAssumption
  <2> QED BY <2>1 DEF Restart, PhoneTypeOK
<1> QED
  BY <1>1, <1>2, <1>3, <1>4 DEF Restart, PhoneTypeOK

LEMMA PhoneTypeStep ==
  ASSUME PhoneTypeOK, MobileInv, [PhoneNext]_phoneVars
  PROVE  PhoneTypeOK'
<1>1. CASE UNCHANGED phoneVars
  BY <1>1 DEF phoneVars, PhoneTypeOK
<1>2. CASE HostShares
  BY <1>2 DEF HostShares, PhoneTypeOK
<1>3. CASE Import \/ Sync \/ SyncUploadLost \/ SyncLost \/ Restart
  BY <1>3, ImportType, SyncType, RestartType DEF MobileInv
<1>4. ASSUME NEW r \in Runs, HostRun(r) \/ LocalRun(r) PROVE PhoneTypeOK'
  BY <1>4, HostRunType, LocalRunType DEF MobileInv
<1>5. ASSUME NEW c \in Calls, Answer(c) \/ CallLost(c) PROVE PhoneTypeOK'
  BY <1>5, AnswerType DEF MobileInv
<1>6. ASSUME NEW r \in Runs, NEW c \in Calls, GetRun(c, r) \/ Touch(c, r) PROVE PhoneTypeOK'
  BY <1>6, AskType
<1>7. Polls \subseteq Calls /\ Touches \subseteq Calls
  BY DEF Calls
<1> QED
  BY <1>1, <1>2, <1>3, <1>4, <1>5, <1>6, <1>7 DEF PhoneNext

(***************************************************************************)
(* The host.                                                               *)
(***************************************************************************)
\* A record stays and grows, and a conversation that went does not come back.
HostKept ==
  \A r \in Runs : host[r] # None =>
    /\ host'[r] \in HostRuns /\ host'[r].total >= host[r].total
    /\ ~host[r].there => ~host'[r].there

LEMMA HostSameKept ==
  ASSUME PhoneTypeOK, host' = host
  PROVE  HostKept
<1> SUFFICES ASSUME NEW r \in Runs, host[r] # None PROVE host[r] \in HostRuns /\ host[r].total >= host[r].total
  BY DEF HostKept
<1>1. host[r] \in HostRuns
  BY DEF PhoneTypeOK
<1>2. host[r].total \in Int
  BY <1>1, MobileAssumption DEF HostRuns
<1> QED
  BY <1>1, <1>2

LEMMA FlagsSet ==
  ASSUME NEW run \in HostRuns
  PROVE  LET gone == [run EXCEPT !.there = FALSE]
             whole == [run EXCEPT !.marked = TRUE]
         IN /\ gone \in HostRuns /\ ~gone.there /\ gone.marked = run.marked
            /\ gone.total = run.total /\ gone.total >= run.total
            /\ whole \in HostRuns /\ whole.marked /\ whole.there = run.there
            /\ whole.total = run.total /\ whole.total >= run.total
<1>1. [run EXCEPT !.there = FALSE] \in HostRuns /\ [run EXCEPT !.marked = TRUE] \in HostRuns
  BY DEF HostRuns
<1>2. /\ [run EXCEPT !.there = FALSE].there = FALSE
      /\ [run EXCEPT !.there = FALSE].marked = run.marked
      /\ [run EXCEPT !.there = FALSE].total = run.total
  BY DEF HostRuns
<1>3. /\ [run EXCEPT !.marked = TRUE].marked = TRUE
      /\ [run EXCEPT !.marked = TRUE].there = run.there
      /\ [run EXCEPT !.marked = TRUE].total = run.total
  BY DEF HostRuns
<1>4. run.total >= run.total
  BY MobileAssumption DEF HostRuns
<1> QED
  BY <1>1, <1>2, <1>3, <1>4

\* An action that changes one record.
LEMMA HostStepKept ==
  ASSUME PhoneTypeOK, PhoneTypeOK', NEW r \in Runs, \A q \in Runs \ {r} : host'[q] = host[q],
         host'[r] # None,
         host[r] # None => /\ host'[r].total >= host[r].total
                           /\ ~host[r].there => ~host'[r].there
  PROVE  HostKept
<1> SUFFICES ASSUME NEW q \in Runs, host[q] # None
             PROVE /\ host'[q] \in HostRuns /\ host'[q].total >= host[q].total
                   /\ ~host[q].there => ~host'[q].there
  BY DEF HostKept
<1>1. host[q] \in HostRuns /\ (host'[q] # None => host'[q] \in HostRuns)
  BY DEF PhoneTypeOK
<1>2. host[q].total \in Int
  BY <1>1, MobileAssumption DEF HostRuns
<1> QED
  BY <1>1, <1>2

LEMMA HostRunKept ==
  ASSUME PhoneTypeOK, PhoneTypeOK', NEW r \in Runs, HostRun(r)
  PROVE  /\ HostKept /\ \A q \in Runs \ {r} : host'[q] = host[q]
         /\ host[r] # None /\ host'[r].marked = host[r].marked
         /\ host'[r].there \/ r \in dropped'
         /\ host'[r].there => host[r].there
         /\ dropped \subseteq dropped' /\ Moved(r)
         /\ UNCHANGED <<shared, upload, phone, paired, saved, calls, fresh, made, faults>>
<1>1. There(r) /\ host[r] \in HostRuns /\ host[r].total \in Int /\ host[r].there
  BY MobileAssumption
  DEF HostRun, HostAppends, HostEnds, HostContinues, CanContinue, HostDeletes, CanRemove, There,
      PhoneTypeOK, HostRuns
<1>2. /\ \A q \in Runs \ {r} : host'[q] = host[q]
      /\ host'[r].marked = host[r].marked /\ host'[r].total >= host[r].total /\ host'[r] \in HostRuns
      /\ host'[r].there \/ r \in dropped'
  <2>1. CASE HostAppends(r)
    BY <1>1, <2>1, MobileAssumption DEF HostAppends, PhoneTypeOK, HostRuns
  <2>2. CASE HostEnds(r)
    BY <1>1, <2>2 DEF HostEnds, PhoneTypeOK, HostRuns, Status
  <2>3. CASE HostContinues(r)
    BY <1>1, <2>3, MobileAssumption DEF HostContinues, CanContinue, Continued, PhoneTypeOK, HostRuns, Status
  <2>4. CASE HostDeletes(r)
    <3>1. r \in dropped' /\ host'[r] = [host[r] EXCEPT !.there = FALSE]
          /\ \A q \in Runs \ {r} : host'[q] = host[q]
      BY <2>4 DEF HostDeletes, Removed, PhoneTypeOK
    <3> DEFINE gone == [host[r] EXCEPT !.there = FALSE]
    <3>2. gone \in HostRuns /\ gone.marked = host[r].marked /\ gone.total >= host[r].total
      BY <1>1, FlagsSet
    <3> HIDE DEF gone
    <3>3. host'[r] = gone
      BY <3>1 DEF gone
    <3> QED BY <3>1, <3>2, <3>3
  <2> QED BY <2>1, <2>2, <2>3, <2>4 DEF HostRun
<1>3. /\ dropped \subseteq dropped' /\ Moved(r)
      /\ UNCHANGED <<shared, upload, phone, paired, saved, calls, fresh, made, faults>>
  BY DEF HostRun, HostAppends, HostEnds, HostContinues, HostDeletes, Removed
<1>4. HostKept
  BY <1>1, <1>2, HostStepKept, RecordsExist
<1> QED
  BY <1>1, <1>2, <1>3, <1>4 DEF There

\* Every write of an import is to the record it brings, and the record of a
\* conversation that went has been marked or is being written.
LEMMA ImportKept ==
  ASSUME PhoneTypeOK, PhoneTypeOK', ImportInv, Import
  PROVE  /\ HostKept /\ upload # None /\ upload \in Uploads
         /\ \A q \in Runs : q # upload.run => host'[q] = host[q]
         /\ UNCHANGED <<shared, phone, paired, saved, calls, fresh, made, dropped, faults>>
         /\ sync' = sync \/ Moved(upload.run)
<1>1. /\ upload # None
      /\ UNCHANGED <<shared, phone, paired, saved, calls, fresh, made, dropped, faults>>
      /\ sync' = sync \/ Moved(upload.run)
  BY DEF Import, ImportSavesRun, ImportAppends, ImportMarks, ImportKnown
<1>2. upload \in Uploads /\ upload.run \in Runs
  BY <1>1 DEF PhoneTypeOK, Uploads
<1>3. ASSUME host[upload.run] # None
      PROVE  host[upload.run] \in HostRuns /\ host[upload.run].total \in Int
  BY <1>2, <1>3, MobileAssumption DEF PhoneTypeOK, HostRuns
<1>4. /\ \A q \in Runs \ {upload.run} : host'[q] = host[q]
      /\ host'[upload.run] \in HostRuns
      /\ host[upload.run] # None =>
           /\ host'[upload.run].total >= host[upload.run].total
           /\ ~host[upload.run].there => ~host'[upload.run].there
  <2>1. CASE ImportSavesRun
    <3>1. host[upload.run] = None
      BY <1>1, <1>2, <2>1 DEF ImportSavesRun, ImportInv
    <3>2. host'[upload.run] = [there |-> TRUE, status |-> "ended", total |-> 0, marked |-> FALSE]
          /\ \A q \in Runs \ {upload.run} : host'[q] = host[q]
      BY <1>2, <2>1, <3>1 DEF ImportSavesRun, PhoneTypeOK
    <3> QED BY <3>1, <3>2, MobileAssumption DEF HostRuns, Status
  <2>2. CASE ImportAppends
    <3>1. host[upload.run] # None
      BY <1>1, <2>2 DEF ImportAppends, ImportInv
    <3>2. host' = [host EXCEPT ![upload.run].total = @ + 1]
      BY <2>2 DEF ImportAppends
    <3>3. host'[upload.run] # None => host'[upload.run] \in HostRuns
      BY <1>2 DEF PhoneTypeOK
    <3>4. /\ \A q \in Runs \ {upload.run} : host'[q] = host[q]
          /\ host'[upload.run] = [host[upload.run] EXCEPT !.total = @ + 1]
      BY <1>2, <3>2 DEF PhoneTypeOK
    <3>5. host[upload.run].total + 1 \in 0..MaxTotal
      BY <1>2, <1>3, <2>2, <3>1, MobileAssumption DEF ImportAppends, PhoneTypeOK, HostRuns, Uploads
    <3> QED BY <1>3, <3>1, <3>4, <3>5 DEF HostRuns
  <2>3. CASE ImportMarks
    <3>1. host[upload.run] # None
      BY <1>1, <2>3 DEF ImportMarks, ImportInv
    <3>2. host'[upload.run] = [host[upload.run] EXCEPT !.marked = TRUE]
          /\ \A q \in Runs \ {upload.run} : host'[q] = host[q]
      BY <1>2, <2>3 DEF ImportMarks, PhoneTypeOK
    <3> DEFINE whole == [host[upload.run] EXCEPT !.marked = TRUE]
    <3>3. whole \in HostRuns /\ whole.there = host[upload.run].there
          /\ whole.total >= host[upload.run].total
      BY <1>3, <3>1, FlagsSet
    <3> HIDE DEF whole
    <3>4. host'[upload.run] = whole
      BY <3>2 DEF whole
    <3> QED BY <3>1, <3>2, <3>3, <3>4
  <2>4. CASE ImportKnown
    <3>1. host[upload.run] # None /\ host' = host
      BY <2>4 DEF ImportKnown
    <3> QED BY <1>3, <3>1
  <2> QED BY <2>1, <2>2, <2>3, <2>4 DEF Import
<1>5. HostKept
  BY <1>2, <1>4, HostStepKept, RecordsExist
<1> QED
  BY <1>1, <1>2, <1>4, <1>5

LEMMA HostRemovesKept ==
  ASSUME PhoneTypeOK, PhoneTypeOK', NEW c \in Calls, HostRemoves(c)
  PROVE  LET r == calls[c].run IN
         /\ HostKept /\ r \in Runs /\ \A q \in Runs \ {r} : host'[q] = host[q]
         /\ host[r] # None /\ host'[r] \in HostRuns /\ host'[r].marked = host[r].marked
         /\ host'[r].total = host[r].total
         /\ ~host'[r].there /\ dropped' = dropped \union {r} /\ Moved(r)
<1> DEFINE r == calls[c].run
<1>1. /\ r \in Runs /\ There(r) /\ Moved(r) /\ dropped' = dropped \union {r}
      /\ host' = [host EXCEPT ![r].there = FALSE]
  BY CallIs DEF HostRemoves, CanRemove, Removed
<1>2. host[r] \in HostRuns /\ host[r].total \in Int
  BY <1>1, MobileAssumption DEF There, PhoneTypeOK, HostRuns
<1> HIDE DEF r
<1>3. /\ \A q \in Runs \ {r} : host'[q] = host[q]
      /\ host'[r] \in HostRuns /\ host'[r].marked = host[r].marked
      /\ host'[r].total = host[r].total /\ ~host'[r].there
  BY <1>1, <1>2 DEF PhoneTypeOK, HostRuns
<1>4. HostKept
  <2>1. host'[r] # None /\ host'[r].total >= host[r].total
    BY <1>2, <1>3, RecordsExist
  <2> QED
    BY <1>1, <1>3, <2>1, HostStepKept
<1> QED
  BY <1>1, <1>2, <1>3, <1>4 DEF There, r

LEMMA HostStartsKept ==
  ASSUME PhoneTypeOK, PhoneTypeOK', NEW c \in Calls, HostStarts(c)
  PROVE  /\ HostKept
         /\ \A q \in Runs : q # calls[c].run => host'[q] = host[q]
<1>1. PICK r \in {calls[c].run} :
           /\ r \in Runs /\ host'[r] \in HostRuns /\ host' = [host EXCEPT ![r] = host'[r]]
           /\ host[r] # None => /\ host'[r].there = host[r].there
                                /\ host'[r].total >= host[r].total
  BY StartFits
<1>2. \A q \in Runs \ {r} : host'[q] = host[q]
  BY <1>1 DEF PhoneTypeOK
<1>3. HostKept
  BY <1>1, <1>2, HostStepKept, RecordsExist
<1> QED
  BY <1>1, <1>2, <1>3

\* What the other actions leave alone.
LEMMA HostIsKept ==
  ASSUME PhoneTypeOK, PhoneTypeOK', ImportInv, [PhoneNext]_phoneVars
  PROVE  HostKept
<1>1. CASE UNCHANGED phoneVars
  BY <1>1, HostSameKept DEF phoneVars
<1>2. CASE HostShares \/ SyncUploadLost \/ SyncLost \/ Restart
  BY <1>2, HostSameKept DEF HostShares, SyncUploadLost, SyncLost, Restart
<1>3. CASE Sync
  BY <1>3, HostSameKept DEF Sync, SyncStarts, SyncUploads, SyncUploaded, SyncLists, SyncPage, SyncAdopts
<1>4. CASE Import
  BY <1>4, ImportKept
<1>5. ASSUME NEW r \in Runs, HostRun(r) PROVE HostKept
  BY <1>5, HostRunKept
<1>6. ASSUME NEW r \in Runs, LocalRun(r) PROVE HostKept
  BY <1>6, HostSameKept DEF LocalRun, StartLocal, LocalEvent, LocalEnd, DeleteLocal
<1>7. ASSUME NEW c \in Calls, Answer(c) \/ CallLost(c) PROVE HostKept
  <2>1. CASE HostStarts(c) \/ HostRemoves(c)
    BY <2>1, HostStartsKept, HostRemovesKept
  <2>2. CASE ~(HostStarts(c) \/ HostRemoves(c))
    BY <1>7, <2>2, HostSameKept DEF Answer, HostAnswersGet, HostAnswersEarlier, CallRefused, Answered, DeleteAnswered, CallLost
  <2> QED BY <2>1, <2>2
<1>8. ASSUME NEW r \in Runs, NEW c \in Calls, GetRun(c, r) \/ Touch(c, r) PROVE HostKept
  BY <1>8, HostSameKept DEF Touch, GetRun, LoadEarlierRun, StartRun, DeleteShared
<1>9. Polls \subseteq Calls /\ Touches \subseteq Calls
  BY DEF Calls
<1> QED
  BY <1>1, <1>2, <1>3, <1>4, <1>5, <1>6, <1>7, <1>8, <1>9 DEF PhoneNext

(***************************************************************************)
(* The import.                                                             *)
(***************************************************************************)
LEMMA MovedKeeps ==
  ASSUME PhoneTypeOK, NEW r \in Runs, Moved(r)
  PROVE  /\ sync'.at = sync.at /\ (sync.at # "listing" => sync' = sync)
         /\ sync.at = "listing" => /\ sync'.rest = sync.rest \ {r}
                                   /\ sync'.first = sync.first /\ sync'.found = sync.found
<1>1. CASE sync.at = "listing"
  BY <1>1, SyncIs DEF Moved, Listings
<1>2. CASE sync.at # "listing"
  BY <1>2 DEF Moved
<1> QED
  BY <1>1, <1>2

\* An action that only moves the sync.
LEMMA ImportQuiet ==
  ASSUME PhoneTypeOK, ImportInv, host' = host, made' = made, upload' = upload,
         dropped \subseteq dropped', shared => shared',
         sync'.at = "uploading" <=> sync.at = "uploading",
         sync'.at \in {"legacy", "uploading"} =>
           \/ sync.at \in {"legacy", "uploading"} /\ sync'.todo = sync.todo
           \/ \A r \in sync'.todo : shared /\ made[r] >= 0
  PROVE  ImportInv'
BY DEF ImportInv

\* An action that changes one record.
LEMMA ImportOther ==
  ASSUME PhoneTypeOK, PhoneTypeOK', ImportInv, NEW r \in Runs,
         \A q \in Runs \ {r} : host'[q] = host[q], host'[r] # None,
         host[r] # None => host'[r].marked = host[r].marked /\ host'[r].total >= host[r].total,
         host'[r].there \/ r \in dropped',
         host[r] = None => host'[r].marked /\ made[r] = -1,
         UNCHANGED <<shared, made, upload>>, dropped \subseteq dropped', Moved(r)
  PROVE  ImportInv'
<1>1. sync'.at = sync.at /\ (sync.at # "listing" => sync' = sync)
  BY MovedKeeps
<1>2. upload # None => upload.run \in Runs
  BY DEF PhoneTypeOK, Uploads
<1>3. \A q \in Runs : host'[q] # None => host'[q] \in HostRuns /\ host'[q].total \in 0..MaxTotal
  BY DEF PhoneTypeOK, HostRuns
<1>4. \A q \in Runs : made[q] \in Int /\ (host[q] # None => host[q].total \in Int)
  BY MobileAssumption DEF PhoneTypeOK, HostRuns
<1>5. ASSUME upload # None
      PROVE  /\ upload.at # "begin" => host'[upload.run] # None
             /\ upload.at = "done" => host'[upload.run].marked
  BY <1>2, <1>5 DEF ImportInv
<1>6. ASSUME NEW q \in Runs, host'[q] # None
      PROVE  /\ host'[q].there \/ q \in dropped'
             /\ host'[q].marked => host'[q].total >= made'[q]
             /\ ~host'[q].marked => upload # None /\ upload.run = q /\ upload.at = "events"
  <2>1. CASE q # r
    BY <1>6, <2>1 DEF ImportInv
  <2>2. CASE q = r /\ host[r] = None
    <3>1. host'[q].total >= made[q]
      BY <1>3, <1>6, <2>2
    <3> QED BY <2>2, <3>1
  <2>3. CASE q = r /\ host[r] # None
    <3>2. host'[r].total \in Int /\ host[r].total \in Int /\ made[r] \in Int
      BY <1>3, <1>4, <1>6, <2>3
    <3>3. (host[r].marked => host[r].total >= made[r]) /\ host'[r].total >= host[r].total
      BY <2>3 DEF ImportInv
    <3>1. host[r].marked => host'[r].total >= made[r]
      BY <3>2, <3>3
    <3> QED BY <2>3, <3>1 DEF ImportInv
  <2> QED BY <2>1, <2>2, <2>3
<1> QED
  BY <1>1, <1>5, <1>6, SyncIs DEF ImportInv

LEMMA ImportInvImport ==
  ASSUME PhoneTypeOK, PhoneTypeOK', ImportInv, Import
  PROVE  ImportInv'
<1> DEFINE r == upload.run
<1>1. /\ HostKept /\ upload # None /\ upload \in Uploads /\ r \in Runs
      /\ \A q \in Runs : q # r => host'[q] = host[q]
      /\ UNCHANGED <<shared, made, dropped>> /\ sync.at = "uploading"
      /\ upload.total = made[r] /\ made[r] >= 0 /\ shared
  BY ImportKept DEF Uploads, ImportInv
<1>2. sync' = sync
  <2>1. Moved(r) => sync' = sync
    BY <1>1, MovedKeeps
  <2> QED BY <2>1, ImportKept
<1>3. \A q \in Runs : host[q] # None => host[q] \in HostRuns /\ host[q].total \in Int
  BY MobileAssumption DEF PhoneTypeOK, HostRuns
<1>4. made[r] \in Int
  BY <1>1, MobileAssumption DEF PhoneTypeOK
<1>5. \A q \in Runs \ {r} : host[q] # None => host[q].marked
  BY <1>1 DEF ImportInv
<1>6. CASE ImportSavesRun
  <2>1. host[r] = None
    BY <1>1, <1>6 DEF ImportSavesRun, ImportInv
  <2>2. host'[r] = [there |-> TRUE, status |-> "ended", total |-> 0, marked |-> FALSE]
    BY <1>1, <1>6, <2>1 DEF ImportSavesRun, PhoneTypeOK
  <2>3. host'[r] # None /\ host'[r].there /\ ~host'[r].marked
    <3>1. [there |-> TRUE, status |-> "ended", total |-> 0, marked |-> FALSE] \in HostRuns
      BY MobileAssumption DEF HostRuns, Status
    <3>2. host'[r] # None
      BY <2>2, <3>1, RecordsExist
    <3> HIDE DEF r
    <3> QED BY <2>2, <3>2
  <2>4. upload'.at = "events" /\ upload'.run = r /\ upload'.total = upload.total /\ upload' # None
    BY <1>1, <1>6, RecordsExist DEF ImportSavesRun, Uploads
  <2> HIDE DEF r
  <2> QED BY <1>1, <1>2, <1>5, <2>3, <2>4 DEF ImportInv
<1>7. CASE ImportAppends
  <2>1. host[r] # None /\ ~host[r].marked /\ upload.at = "events" /\ upload' = upload
    <3>1. host[r] # None /\ upload.at = "events" /\ host[r].total < upload.total /\ upload' = upload
      BY <1>1, <1>7 DEF ImportAppends, ImportInv
    <3> QED BY <1>1, <1>3, <1>4, <3>1 DEF ImportInv
  <2>2. host'[r] = [host[r] EXCEPT !.total = @ + 1]
    BY <1>1, <1>7 DEF ImportAppends, PhoneTypeOK
  <2>3. host'[r].there = host[r].there /\ host'[r].marked = host[r].marked
    BY <1>1, <1>3, <2>1, <2>2 DEF HostRuns
  <2>4. host'[r] # None
    BY <1>1, <2>1, RecordsExist DEF HostKept
  <2> HIDE DEF r
  <2> QED BY <1>1, <1>2, <1>5, <2>1, <2>3, <2>4 DEF ImportInv
<1>8. CASE ImportMarks
  <2>1. host[r] # None /\ host[r].total >= made[r]
    BY <1>1, <1>8 DEF ImportMarks, ImportInv
  <2>2. host'[r] = [host[r] EXCEPT !.marked = TRUE]
    BY <1>1, <1>8 DEF ImportMarks, PhoneTypeOK
  <2>3. host'[r].there = host[r].there /\ host'[r].marked /\ host'[r].total = host[r].total
    BY <1>1, <1>3, <2>1, <2>2, FlagsSet
  <2>4. host'[r] # None
    BY <1>1, <2>1, RecordsExist DEF HostKept
  <2>5. upload'.at = "done" /\ upload'.run = r /\ upload'.total = upload.total /\ upload' # None
    BY <1>1, <1>8, RecordsExist DEF ImportMarks, Uploads
  <2> HIDE DEF r
  <2> QED BY <1>1, <1>2, <1>5, <2>1, <2>3, <2>4, <2>5 DEF ImportInv
<1>9. CASE ImportKnown
  <2>1. host[r] # None /\ host[r].marked /\ host' = host
    BY <1>9 DEF ImportKnown
  <2>2. upload'.at = "done" /\ upload'.run = r /\ upload'.total = upload.total /\ upload' # None
    BY <1>1, <1>9, RecordsExist DEF ImportKnown, Uploads
  <2> HIDE DEF r
  <2> QED BY <1>1, <1>2, <1>5, <2>1, <2>2 DEF ImportInv
<1> QED
  BY <1>6, <1>7, <1>8, <1>9 DEF Import

\* As long as an import is not cut half way, a broken connection leaves none.
LEMMA CutLeavesNothing ==
  ASSUME ~CutUploads, PhoneTypeOK, ImportInv, MayBreak
  PROVE  /\ Broken = {None}
         /\ upload # None => /\ upload.run \in Runs /\ upload.at # "events"
                             /\ host[upload.run] # None => host[upload.run].marked
<1>1. CASE upload = None
  BY <1>1 DEF Broken, ImportInv
<1>2. CASE upload # None
  BY <1>2 DEF Broken, MayBreak, Unwritten, ImportInv, PhoneTypeOK, Uploads
<1> QED
  BY <1>1, <1>2

LEMMA ImportInvSync ==
  ASSUME ~CutUploads, PhoneTypeOK, PhoneTypeOK', MobileInv, Sync \/ SyncUploadLost \/ SyncLost
  PROVE  ImportInv'
<1> USE DEF MobileInv
<1>1. CASE SyncStarts
  <2>1. sync'.at = "legacy" /\ sync.at # "uploading"
        /\ \A r \in sync'.todo : shared /\ r \in Runs /\ Local(r) /\ phone[r].status # "running"
    BY <1>1 DEF SyncStarts
  <2>2. \A r \in sync'.todo : shared /\ made[r] >= 0
    <3> SUFFICES ASSUME NEW r \in sync'.todo PROVE shared /\ made[r] >= 0
      OBVIOUS
    <3>1. made[r] = Len(phone[r].events) /\ phone[r] \in Views
      BY <2>1 DEF Local, LocalInv, PhoneTypeOK
    <3>2. Len(phone[r].events) \in Nat
      BY <3>1 DEF Views
    <3> QED BY <2>1, <3>1, <3>2
  <2> QED BY <1>1, <2>1, <2>2, ImportQuiet DEF SyncStarts
<1>2. ASSUME NEW r \in Runs, SyncUploads(r) PROVE ImportInv'
  <2>1. sync.at = "legacy" /\ upload = None /\ r \in sync.todo
        /\ upload' = [run |-> r, at |-> "begin", total |-> made[r]]
        /\ UNCHANGED <<shared, host, made, dropped>>
    BY <1>2 DEF SyncUploads
  <2>2. sync' \in Handovers /\ sync'.at = "uploading" /\ sync'.todo \subseteq sync.todo
    BY <1>2, <2>1, SyncIs DEF SyncUploads, Handovers
  <2>3. upload' # None
    <3>1. upload' \in Uploads
      BY <2>1, MobileAssumption DEF ImportInv, PhoneTypeOK, Uploads
    <3> QED BY <3>1, RecordsExist
  <2> QED BY <2>1, <2>2, <2>3 DEF ImportInv
<1>3. CASE SyncUploaded
  <2>1. sync.at = "uploading" /\ upload # None /\ upload.at = "done" /\ upload' = None
        /\ UNCHANGED <<shared, host, made, dropped>>
    BY <1>3 DEF SyncUploaded, ImportInv
  <2>2. sync'.at = "legacy" /\ sync'.todo = sync.todo
    BY <1>3, <2>1, SyncIs DEF SyncUploaded, Handovers
  <2>3. \A r \in Runs : host[r] # None => host[r].marked
    BY <2>1 DEF ImportInv
  <2> QED BY <2>1, <2>2, <2>3 DEF ImportInv
<1>4. CASE SyncLists
  BY <1>4, ImportQuiet DEF SyncLists
<1>5. CASE SyncPage
  <2>1. sync'.at \in {"listed", "listing"} /\ sync.at = "listing"
    BY <1>5 DEF SyncPage
  <2> QED BY <1>5, <2>1, ImportQuiet DEF SyncPage
<1>6. CASE SyncAdopts
  BY <1>6, ImportQuiet DEF SyncAdopts, Idle
<1>7. CASE SyncUploadLost
  <2>1. sync.at = "uploading" /\ upload' = None /\ MayBreak
        /\ UNCHANGED <<shared, host, made, dropped>>
    BY <1>7, CutLeavesNothing DEF SyncUploadLost
  <2>2. sync'.at = "legacy" /\ sync'.todo = sync.todo
    BY <1>7, <2>1, SyncIs DEF SyncUploadLost, Handovers
  <2>3. \A r \in Runs : host[r] # None => host[r].marked
    BY <2>1, CutLeavesNothing DEF ImportInv
  <2> QED BY <2>1, <2>2, <2>3 DEF ImportInv
<1>8. CASE SyncLost
  BY <1>8, ImportQuiet DEF SyncLost, Idle
<1> QED
  BY <1>1, <1>2, <1>3, <1>4, <1>5, <1>6, <1>7, <1>8 DEF Sync

LEMMA ImportInvRestart ==
  ASSUME ~CutUploads, PhoneTypeOK, PhoneTypeOK', ImportInv, LocalInv, Restart
  PROVE  ImportInv'
<1>1. upload' = None /\ sync' = Idle /\ UNCHANGED <<shared, host, dropped>>
  BY CutLeavesNothing DEF Restart
<1>2. \A r \in Runs : host[r] # None => host[r].marked
  BY CutLeavesNothing DEF Restart, ImportInv
<1>3. \A r \in Runs : host[r] # None => made'[r] = made[r]
  BY DEF Restart, LocalInv
<1> QED
  BY <1>1, <1>2, <1>3 DEF ImportInv, Idle

LEMMA ImportInvAnswer ==
  ASSUME PhoneTypeOK, PhoneTypeOK', ImportInv, CallInv, NEW c \in Calls, Answer(c) \/ CallLost(c)
  PROVE  ImportInv'
<1>1. CASE HostStarts(c)
  <2>1. PICK r \in {calls[c].run} :
           /\ r \in Runs /\ host'[r] \in HostRuns /\ host' = [host EXCEPT ![r] = host'[r]]
           /\ host[r] = None => host'[r].there /\ host'[r].marked
           /\ host[r] # None => /\ host'[r].there /\ host'[r].marked = host[r].marked
                                /\ host'[r].total >= host[r].total
           /\ Moved(r)
    BY <1>1, StartFits
  <2>2. \A q \in Runs \ {r} : host'[q] = host[q]
    BY <2>1 DEF PhoneTypeOK
  <2>3. host[r] = None => made[r] = -1
    BY <1>1, <2>1 DEF HostStarts, CallInv, CallOK
  <2>4. host'[r] # None /\ host'[r].there
    BY <2>1, RecordsExist
  <2>5. UNCHANGED <<shared, made, upload, dropped>>
    BY <1>1 DEF HostStarts
  <2> QED
    BY <2>1, <2>2, <2>3, <2>4, <2>5, ImportOther
<1>2. CASE HostRemoves(c)
  <2> DEFINE r == calls[c].run
  <2>1. /\ r \in Runs /\ \A q \in Runs \ {r} : host'[q] = host[q]
        /\ host[r] # None /\ host'[r] \in HostRuns /\ host'[r].marked = host[r].marked
        /\ host'[r].total = host[r].total
        /\ dropped' = dropped \union {r} /\ Moved(r)
    BY <1>2, HostRemovesKept
  <2>2. UNCHANGED <<shared, made, upload>>
    BY <1>2 DEF HostRemoves
  <2> HIDE DEF r
  <2>3. host'[r] # None /\ host'[r].total >= host[r].total
    BY <2>1, RecordsExist, MobileAssumption DEF HostRuns
  <2> QED
    BY <2>1, <2>2, <2>3, ImportOther
<1>3. CASE ~(HostStarts(c) \/ HostRemoves(c))
  <2>1. UNCHANGED <<host, made, upload, dropped, shared, sync>>
    BY <1>3 DEF Answer, HostAnswersGet, HostAnswersEarlier, CallRefused, Answered, DeleteAnswered, CallLost
  <2> QED BY <2>1, ImportQuiet
<1> QED
  BY <1>1, <1>2, <1>3

LEMMA ImportInvStep ==
  ASSUME ~CutUploads, PhoneTypeOK, PhoneTypeOK', MobileInv, [PhoneNext]_phoneVars
  PROVE  ImportInv'
<1> USE DEF MobileInv
<1>1. CASE UNCHANGED phoneVars
  BY <1>1, ImportQuiet DEF phoneVars
<1>2. CASE HostShares
  BY <1>2, ImportQuiet DEF HostShares
<1>3. CASE Import
  BY <1>3, ImportInvImport
<1>4. CASE Sync \/ SyncUploadLost \/ SyncLost
  BY <1>4, ImportInvSync
<1>5. CASE Restart
  BY <1>5, ImportInvRestart
<1>6. ASSUME NEW r \in Runs, HostRun(r) PROVE ImportInv'
  <2>1. /\ HostKept /\ \A q \in Runs \ {r} : host'[q] = host[q]
        /\ host[r] # None /\ host'[r].marked = host[r].marked
        /\ host'[r].there \/ r \in dropped'
        /\ dropped \subseteq dropped' /\ Moved(r)
        /\ UNCHANGED <<shared, made, upload>>
    BY <1>6, HostRunKept
  <2>2. host'[r] # None /\ host'[r].total >= host[r].total
    BY <2>1, RecordsExist DEF HostKept
  <2> QED BY <2>1, <2>2, ImportOther
<1>7. ASSUME NEW r \in Runs, LocalRun(r) PROVE ImportInv'
  <2>1. CASE LocalEnd(r)
    <3>1. Local(r) /\ phone[r].status = "running" /\ made' = [made EXCEPT ![r] = Len(phone[r].events)]
          /\ UNCHANGED <<shared, host, upload, sync, dropped>>
      BY <2>1 DEF LocalEnd
    <3>2. made[r] = -1 /\ host[r] = None
      BY <3>1 DEF LocalInv
    <3>3. \A q \in Runs : made[q] >= 0 => made'[q] = made[q]
      BY <3>1, <3>2 DEF PhoneTypeOK
    <3>4. \A q \in Runs : host[q] # None => made'[q] = made[q]
      BY <3>1, <3>2 DEF PhoneTypeOK
    <3>5. upload # None => upload.run \in Runs
      BY DEF PhoneTypeOK, Uploads
    <3> QED BY <3>1, <3>3, <3>4, <3>5, SyncIs DEF ImportInv
  <2>2. CASE ~LocalEnd(r)
    <3>1. UNCHANGED <<shared, host, upload, sync, made>> /\ dropped \subseteq dropped'
      BY <1>7, <2>2 DEF LocalRun, StartLocal, LocalEvent, DeleteLocal
    <3> QED BY <3>1, ImportQuiet
  <2> QED BY <2>1, <2>2
<1>8. ASSUME NEW c \in Calls, Answer(c) \/ CallLost(c) PROVE ImportInv'
  BY <1>8, ImportInvAnswer
<1>9. ASSUME NEW r \in Runs, NEW c \in Calls, GetRun(c, r) \/ Touch(c, r) PROVE ImportInv'
  BY <1>9, ImportQuiet DEF Touch, GetRun, LoadEarlierRun, StartRun, DeleteShared
<1>10. Polls \subseteq Calls /\ Touches \subseteq Calls
  BY DEF Calls
<1> QED
  BY <1>1, <1>2, <1>3, <1>4, <1>5, <1>6, <1>7, <1>8, <1>9, <1>10 DEF PhoneNext

(***************************************************************************)
(* The phone's own runs and runs.json.                                     *)
(***************************************************************************)
LocalRunOK(r) ==
  Local(r) =>
    /\ phone[r].off = 0 /\ phone[r].events = Stretch(0, Len(phone[r].events))
    /\ Len(phone[r].events) <= MaxTotal
    /\ IF phone[r].status = "running" THEN host[r] = None /\ made[r] = -1
       ELSE made[r] = Len(phone[r].events)

HistoryOK(r) == made[r] >= 0 /\ r \notin dropped => Local(r) \/ host[r] # None

LEMMA SavedIsOK ==
  ASSUME saved' = phone', \A r \in Runs : LocalRunOK(r)' /\ HistoryOK(r)'
  PROVE  LocalInv'
BY DEF LocalInv, LocalRunOK, HistoryOK, Local

LEMMA LocalIsOK ==
  ASSUME LocalInv, NEW r \in Runs
  PROVE  LocalRunOK(r) /\ HistoryOK(r)
BY DEF LocalInv, LocalRunOK, HistoryOK

\* An action that leaves the phone alone.
LEMMA LocalQuiet ==
  ASSUME LocalInv, UNCHANGED <<phone, saved, made>>, dropped \subseteq dropped', HostKept,
         \A r \in Runs : Local(r) /\ host[r] = None /\ made[r] = -1 => host'[r] = None
  PROVE  LocalInv'
<1>1. \A r \in Runs : host[r] # None => host'[r] # None
  BY RecordsExist DEF HostKept
<1> QED
  BY <1>1 DEF LocalInv, Local

\* What cacheSharedRun does not write down was there.
LEMMA CachedSaves ==
  ASSUME PhoneTypeOK, ShownInv, NEW r \in Runs, NEW view \in Pages, Piece(view, host[r]),
         Cached(r, view)
  PROVE  saved' = phone' \/ (phone' = phone /\ saved' = saved)
<1> DEFINE now == [shared |-> TRUE, status |-> view.status, off |-> view.off, events |-> view.events]
<1>1. phone' = [phone EXCEPT ![r] = now] /\ saved' = IF SameCached(phone[r], now) THEN saved ELSE phone'
  BY DEF Cached
<1>2. now \in Views /\ now.shared = TRUE /\ now.off = view.off /\ now.events = view.events
  BY DEF Pages, Views
<1>3. ASSUME SameCached(phone[r], now) PROVE phone' = phone
  <2>1. phone[r] \in Views
    BY <1>3 DEF SameCached, PhoneTypeOK
  <2>2. phone[r].shared = TRUE /\ phone[r].status = now.status /\ phone[r].off = now.off
        /\ Len(phone[r].events) = Len(now.events)
    BY <1>2, <1>3 DEF SameCached
  <2>3. Piece(phone[r], host[r])
    BY <2>1, <2>2, RecordsExist DEF ShownInv, Shown
  <2>4. Piece(now, host[r])
    BY <1>2 DEF Piece
  <2> HIDE DEF now
  <2>5. phone[r] = now
    BY <1>2, <2>1, <2>2, <2>3, <2>4, SamePiece
  <2> QED BY <1>1, <2>5 DEF PhoneTypeOK
<1> QED
  BY <1>1, <1>3

LEMMA LocalCached ==
  ASSUME PhoneTypeOK, PhoneTypeOK', LocalInv, ShownInv, NEW r \in Runs, NEW view \in Pages,
         Piece(view, host[r]), host[r] # None, Cached(r, view), UNCHANGED <<host, made, dropped>>
  PROVE  LocalInv'
<1>1. phone' = [phone EXCEPT ![r] = [shared |-> TRUE, status |-> view.status,
                                     off |-> view.off, events |-> view.events]]
  BY CachedType
<1>2. ~Local(r)'
  BY <1>1 DEF Local, PhoneTypeOK
<1>3. \A q \in Runs \ {r} : phone'[q] = phone[q]
  BY <1>1 DEF PhoneTypeOK
<1>4. \A q \in Runs : LocalRunOK(q)' /\ HistoryOK(q)'
  BY <1>2, <1>3, LocalIsOK DEF LocalRunOK, HistoryOK, Local
<1>5. CASE saved' = phone'
  BY <1>4, <1>5, SavedIsOK
<1>6. CASE phone' = phone /\ saved' = saved
  BY <1>6 DEF LocalInv, Local
<1> QED
  BY <1>5, <1>6, CachedSaves

LEMMA LocalForgets ==
  ASSUME PhoneTypeOK, LocalInv, NEW r \in Runs, Forget({r}), UNCHANGED <<host, made>>,
         dropped \subseteq dropped', r \in dropped' \/ host[r] # None
  PROVE  LocalInv'
<1>1. saved' = phone' /\ \A q \in Runs : phone'[q] = IF q = r THEN None ELSE phone[q]
  BY DEF Forget
<1>2. \A q \in Runs : LocalRunOK(q)' /\ HistoryOK(q)'
  BY <1>1, LocalIsOK DEF LocalRunOK, HistoryOK, Local
<1> QED
  BY <1>1, <1>2, SavedIsOK

LEMMA LocalInvLocalRun ==
  ASSUME PhoneTypeOK, PhoneTypeOK', LocalInv, NEW r \in Runs, LocalRun(r)
  PROVE  LocalInv'
<1>1. CASE StartLocal(r)
  <2>1. /\ host[r] = None /\ made[r] = -1 /\ UNCHANGED <<host, made, dropped>> /\ saved' = phone'
        /\ phone' = [phone EXCEPT ![r] = [shared |-> FALSE, status |-> "running", off |-> 0, events |-> <<>>]]
    BY <1>1 DEF StartLocal, New
  <2>2. /\ phone'[r].off = 0 /\ phone'[r].events = <<>> /\ phone'[r].status = "running"
        /\ \A q \in Runs \ {r} : phone'[q] = phone[q]
    BY <2>1 DEF PhoneTypeOK
  <2>3. <<>> = Stretch(0, Len(<<>>)) /\ Len(<<>>) <= MaxTotal
    BY EmptyStretch, MobileAssumption
  <2>4. LocalRunOK(r)' /\ HistoryOK(r)'
    BY <2>1, <2>2, <2>3 DEF LocalRunOK, HistoryOK
  <2>5. \A q \in Runs \ {r} : LocalRunOK(q)' /\ HistoryOK(q)'
    BY <2>1, <2>2, LocalIsOK DEF LocalRunOK, HistoryOK, Local
  <2> QED BY <2>1, <2>4, <2>5, SavedIsOK
<1>2. CASE LocalEvent(r)
  <2> DEFINE n == Len(phone[r].events)
  <2>1. /\ Local(r) /\ phone[r].status = "running" /\ n < MaxTotal - 2
        /\ phone' = [phone EXCEPT ![r].events = Append(@, n + 1)]
        /\ UNCHANGED <<host, made, dropped, saved>>
    BY <1>2 DEF LocalEvent
  <2>2. phone[r] \in Views /\ n \in Nat
    BY <2>1 DEF Local, PhoneTypeOK, Views
  <2>3. /\ phone'[r] = [phone[r] EXCEPT !.events = Append(phone[r].events, n + 1)]
        /\ \A q \in Runs \ {r} : phone'[q] = phone[q]
    BY <2>1 DEF PhoneTypeOK
  <2>4. /\ phone'[r].off = phone[r].off /\ phone'[r].status = phone[r].status
        /\ phone'[r].shared = phone[r].shared /\ phone'[r].events = Append(phone[r].events, n + 1)
        /\ phone'[r] # None /\ phone'[r] \in Views
    <3>1. /\ phone'[r].off = phone[r].off /\ phone'[r].status = phone[r].status
          /\ phone'[r].shared = phone[r].shared /\ phone'[r].events = Append(phone[r].events, n + 1)
      BY <2>2, <2>3 DEF Views
    <3>2. Append(phone[r].events, n + 1) \in Seq(1..MaxTotal)
      BY <2>1, <2>2, MobileAssumption DEF Views
    <3>3. phone'[r] \in Views
      BY <2>2, <2>3, <3>2 DEF Views
    <3> QED BY <3>1, <3>3, RecordsExist
  <2>5. phone'[r].events = Stretch(0, n + 1)
    <3>1. phone[r].events = Stretch(0, n)
      BY <2>1 DEF LocalInv
    <3>2. Append(Stretch(0, n), n + 1) = Stretch(0, n + 1)
      BY <2>2, StretchAppend
    <3> QED BY <2>4, <3>1, <3>2
  <2>6. Len(phone'[r].events) = n + 1 /\ n + 1 <= MaxTotal
    <3>1. Len(Stretch(0, n + 1)) = n + 1
      <4>1. n + 1 \in Nat
        BY <2>2
      <4> HIDE DEF n
      <4> QED BY <4>1, StretchType
    <3> QED BY <2>1, <2>2, <2>5, <3>1, MobileAssumption
  <2> HIDE DEF n
  <2>7. Local(r)' /\ \A q \in Runs \ {r} : Local(q)' <=> Local(q)
    BY <2>1, <2>3, <2>4 DEF Local
  <2>8. ~saved[r].shared /\ saved[r] # None
    BY <2>1 DEF LocalInv, Local
  <2>9. phone[r] # None
    BY <2>1 DEF Local
  <2>10. /\ \A q \in Runs : phone'[q] = None <=> saved'[q] = None
         /\ \A q \in Runs : phone'[q] # saved'[q] =>
              Local(q)' /\ phone'[q].status = "running" /\ ~saved'[q].shared
    BY <2>1, <2>3, <2>4, <2>7, <2>8 DEF LocalInv
  <2>11. \A q \in Runs : Local(q)' =>
         /\ phone'[q].off = 0 /\ phone'[q].events = Stretch(0, Len(phone'[q].events))
         /\ saved'[q].off = 0 /\ saved'[q].events = Stretch(0, Len(saved'[q].events))
         /\ Len(phone'[q].events) <= MaxTotal /\ Len(saved'[q].events) <= MaxTotal
         /\ IF phone'[q].status = "running" THEN host'[q] = None /\ made'[q] = -1
            ELSE made'[q] = Len(phone'[q].events)
    BY <2>1, <2>3, <2>4, <2>5, <2>6, <2>7 DEF LocalInv
  <2>12. \A q \in Runs : made'[q] >= 0 /\ q \notin dropped' => Local(q)' \/ host'[q] # None
    BY <2>1, <2>7 DEF LocalInv
  <2> QED BY <2>10, <2>11, <2>12 DEF LocalInv
<1>3. CASE LocalEnd(r)
  <2>1. /\ Local(r) /\ phone' = [phone EXCEPT ![r].status = "ended"] /\ saved' = phone'
        /\ made' = [made EXCEPT ![r] = Len(phone[r].events)] /\ UNCHANGED <<host, dropped>>
    BY <1>3 DEF LocalEnd
  <2>2. phone[r] \in Views
    BY <2>1 DEF Local, PhoneTypeOK
  <2>3. /\ phone'[r].off = phone[r].off /\ phone'[r].status = "ended" /\ phone'[r] # None
        /\ phone'[r].shared = phone[r].shared /\ phone'[r].events = phone[r].events
        /\ made'[r] = Len(phone[r].events)
        /\ \A q \in Runs \ {r} : phone'[q] = phone[q] /\ made'[q] = made[q]
    <3>1. /\ phone'[r] = [phone[r] EXCEPT !.status = "ended"]
          /\ \A q \in Runs \ {r} : phone'[q] = phone[q] /\ made'[q] = made[q]
          /\ made'[r] = Len(phone[r].events)
      BY <2>1 DEF PhoneTypeOK
    <3>2. phone'[r] \in Views
      BY <2>2, <3>1 DEF Views, Status
    <3>3. phone'[r] # None
      BY <3>2, RecordsExist
    <3>4. /\ phone'[r].off = phone[r].off /\ phone'[r].status = "ended"
          /\ phone'[r].shared = phone[r].shared /\ phone'[r].events = phone[r].events
      BY <2>2, <3>1 DEF Views
    <3> QED BY <3>1, <3>3, <3>4
  <2>4. LocalRunOK(r)' /\ HistoryOK(r)'
    BY <2>1, <2>3, LocalIsOK DEF LocalRunOK, HistoryOK, Local
  <2>5. \A q \in Runs \ {r} : LocalRunOK(q)' /\ HistoryOK(q)'
    BY <2>1, <2>3, LocalIsOK DEF LocalRunOK, HistoryOK, Local
  <2> QED BY <2>1, <2>4, <2>5, SavedIsOK
<1>4. CASE DeleteLocal(r)
  BY <1>4, LocalForgets DEF DeleteLocal
<1> QED
  BY <1>1, <1>2, <1>3, <1>4 DEF LocalRun

\* The app comes back with what it had saved.
LEMMA LocalInvRestart ==
  ASSUME PhoneTypeOK, PhoneTypeOK', LocalInv, Restart
  PROVE  LocalInv'
<1>1. saved' = phone' /\ UNCHANGED <<host, dropped>>
  BY DEF Restart
<1>2. ASSUME NEW r \in Runs PROVE LocalRunOK(r)' /\ HistoryOK(r)'
  <2> DEFINE back == [saved[r] EXCEPT !.status = IF saved[r].shared THEN @ ELSE "ended"]
  <2>1. /\ phone'[r] = IF saved[r] = None THEN None ELSE back
        /\ made'[r] = IF Local(r) /\ phone[r].status = "running" THEN Len(saved[r].events) ELSE made[r]
    BY DEF Restart
  <2>2. CASE phone[r] = None
    BY <1>1, <2>1, <2>2 DEF LocalInv, LocalRunOK, HistoryOK, Local
  <2>3. CASE phone[r] # None
    <3>1. saved[r] \in Views /\ saved[r] # None
      BY <2>3 DEF LocalInv, PhoneTypeOK
    <3>2. /\ back.off = saved[r].off /\ back.shared = saved[r].shared
          /\ back.events = saved[r].events /\ (~saved[r].shared => back.status = "ended")
          /\ back \in Views
      BY <3>1 DEF Views, Status
    <3> HIDE DEF back
    <3>3. phone'[r] = back /\ back # None
      BY <2>1, <3>1, <3>2, RecordsExist
    <3>4. Local(r)' <=> ~saved[r].shared
      BY <3>2, <3>3 DEF Local
    <3>5. CASE phone[r] = saved[r]
      BY <1>1, <2>1, <3>1, <3>2, <3>3, <3>4, <3>5 DEF LocalInv, LocalRunOK, HistoryOK, Local
    <3>6. CASE phone[r] # saved[r]
      <4>1. Local(r) /\ phone[r].status = "running" /\ ~saved[r].shared
        BY <3>6 DEF LocalInv
      <4> QED
        BY <1>1, <2>1, <3>2, <3>3, <3>4, <4>1 DEF LocalInv, LocalRunOK, HistoryOK
    <3> QED BY <3>5, <3>6
  <2> QED BY <2>2, <2>3
<1> QED
  BY <1>1, <1>2, SavedIsOK

\* What is listed is a run of the host, so it is not one the phone still makes.
LEMMA LocalInvAdopts ==
  ASSUME PhoneTypeOK, PhoneTypeOK', MobileInv, SyncAdopts
  PROVE  LocalInv'
<1> DEFINE found == DOMAIN sync.found
<1>1. /\ found \subseteq Runs /\ \A r \in found : host[r] # None
      /\ UNCHANGED <<host, made, dropped>>
      /\ saved' = IF phone' = phone THEN saved ELSE phone'
      /\ \A r \in Runs : phone'[r] = IF r \in found THEN Adopted(r, sync.found[r])
                                     ELSE IF r \in Stale(found) THEN None ELSE phone[r]
  BY SyncIs DEF SyncAdopts, MobileInv, ListInv
<1>2. ASSUME NEW r \in found PROVE phone'[r] # None /\ ~Local(r)'
  <2>1. phone'[r] = Adopted(r, sync.found[r])
    BY <1>1, <1>2
  <2>2. Adopted(r, sync.found[r]) \in Views /\ Adopted(r, sync.found[r]).shared
    BY <1>2, AdoptedType DEF SyncAdopts
  <2> QED BY <2>1, <2>2, RecordsExist DEF Local
<1>3. \A r \in Stale(found) : ~Local(r) /\ host[r] # None
  BY DEF Stale, Shown, Local, MobileInv, ShownInv
<1>4. ASSUME NEW r \in Runs PROVE LocalRunOK(r)' /\ HistoryOK(r)'
  <2>1. CASE r \in found
    BY <1>1, <1>2, <2>1 DEF LocalRunOK, HistoryOK
  <2>2. CASE r \notin found /\ r \in Stale(found)
    BY <1>1, <1>3, <2>2 DEF LocalRunOK, HistoryOK, Local
  <2>3. CASE r \notin found /\ r \notin Stale(found)
    BY <1>1, <2>3, LocalIsOK DEF LocalRunOK, HistoryOK, Local, MobileInv
  <2> QED BY <2>1, <2>2, <2>3
<1>5. CASE saved' = phone'
  BY <1>4, <1>5, SavedIsOK
<1>6. CASE phone' = phone /\ saved' = saved
  BY <1>1, <1>6 DEF LocalInv, Local, MobileInv
<1> QED
  BY <1>1, <1>5, <1>6

\* A call that is answered brings a piece of the run as it is by now.
LEMMA AnswerFits ==
  ASSUME PhoneTypeOK, CallInv, NEW c \in Calls, Answered(c)
  PROVE  LET r == calls[c].run IN
         /\ r \in Runs /\ calls[c].view \in Pages /\ host[r] # None /\ shared
         /\ Piece(calls[c].view, host[r]) /\ Cached(r, calls[c].view)
         /\ UNCHANGED <<shared, host, upload, sync, made, dropped>>
BY CallIs DEF Answered, CallInv, CallOK

LEMMA UploadedFits ==
  ASSUME PhoneTypeOK, ImportInv, SyncUploaded
  PROVE  /\ UNCHANGED <<shared, host, calls, made, dropped>> /\ sync'.at = "legacy"
         /\ \/ UNCHANGED <<phone, saved, fresh>>
            \/ \E r \in Runs, view \in Pages :
                 host[r] # None /\ shared /\ Piece(view, host[r]) /\ Cached(r, view)
<1>1. /\ UNCHANGED <<shared, host, calls, made, dropped>> /\ sync.at = "uploading"
      /\ sync' = [sync EXCEPT !.at = "legacy"]
  BY DEF SyncUploaded
<1>2. sync'.at = "legacy"
  BY <1>1, SyncIs DEF Handovers
<1>3. upload # None /\ upload.run \in Runs /\ shared
  BY <1>1 DEF ImportInv, PhoneTypeOK, Uploads
<1>4. CASE ~There(upload.run)
  BY <1>1, <1>2, <1>4 DEF SyncUploaded
<1>5. CASE There(upload.run)
  <2> DEFINE view == Whole(host[upload.run])
  <2>1. host[upload.run] \in HostRuns
    BY <1>3, <1>5 DEF There, PhoneTypeOK
  <2>2. view \in Pages /\ Piece(view, host[upload.run])
    BY <2>1, PageFits DEF Whole
  <2>3. Cached(upload.run, view)
    BY <1>5 DEF SyncUploaded
  <2> HIDE DEF view
  <2> QED BY <1>1, <1>2, <1>3, <1>5, <2>2, <2>3 DEF There
<1> QED
  BY <1>4, <1>5

LEMMA LocalInvStep ==
  ASSUME PhoneTypeOK, PhoneTypeOK', MobileInv, [PhoneNext]_phoneVars
  PROVE  LocalInv'
<1> USE DEF MobileInv
<1>1. HostKept
  BY HostIsKept
<1>2. CASE UNCHANGED phoneVars
  BY <1>1, <1>2, LocalQuiet DEF phoneVars
<1>3. CASE HostShares \/ SyncUploadLost \/ SyncLost
  BY <1>1, <1>3, LocalQuiet DEF HostShares, SyncUploadLost, UploadFails, SyncLost
<1>4. CASE SyncStarts \/ SyncLists \/ SyncPage \/ \E r \in Runs : SyncUploads(r)
  BY <1>1, <1>4, LocalQuiet DEF SyncStarts, SyncLists, SyncPage, SyncUploads
<1>5. CASE SyncUploaded
  <2>1. CASE UNCHANGED <<phone, saved>>
    BY <1>1, <1>5, <2>1, LocalQuiet DEF SyncUploaded
  <2>2. ASSUME NEW r \in Runs, NEW view \in Pages,
               host[r] # None, Piece(view, host[r]), Cached(r, view)
        PROVE  LocalInv'
    BY <1>5, <2>2, LocalCached DEF SyncUploaded
  <2> QED BY <1>5, <2>1, <2>2, UploadedFits
<1>6. CASE SyncAdopts
  BY <1>6, LocalInvAdopts
<1>7. CASE Restart
  BY <1>7, LocalInvRestart
<1>8. CASE Import
  <2>1. /\ \A q \in Runs : q # upload.run => host'[q] = host[q]
        /\ upload # None /\ UNCHANGED <<phone, saved, made, dropped>>
    BY <1>8, ImportKept
  <2>2. \A q \in Runs : made[q] = -1 => host'[q] = host[q]
    BY <2>1 DEF ImportInv
  <2> QED BY <1>1, <2>1, <2>2, LocalQuiet
<1>9. ASSUME NEW r \in Runs, HostRun(r) PROVE LocalInv'
  <2>1. /\ \A q \in Runs \ {r} : host'[q] = host[q]
        /\ host[r] # None /\ dropped \subseteq dropped' /\ UNCHANGED <<phone, saved, made>>
    BY <1>9, HostRunKept
  <2> QED BY <1>1, <2>1, LocalQuiet
<1>10. ASSUME NEW r \in Runs, LocalRun(r) PROVE LocalInv'
  BY <1>10, LocalInvLocalRun
<1>11. ASSUME NEW c \in Calls, Answer(c) \/ CallLost(c) PROVE LocalInv'
  <2>1. CASE HostStarts(c)
    <3>1. \A q \in Runs : q # calls[c].run => host'[q] = host[q]
      BY <2>1, HostStartsKept
    <3>2. calls[c].run \in Runs /\ (host[calls[c].run] = None => phone[calls[c].run] = None)
      BY <2>1, CallIs DEF HostStarts, CallInv, CallOK
    <3>3. UNCHANGED <<phone, saved, made, dropped>>
      BY <2>1 DEF HostStarts
    <3>4. \A r \in Runs : Local(r) /\ host[r] = None => host'[r] = None
      BY <3>1, <3>2 DEF Local
    <3> QED BY <1>1, <3>3, <3>4, LocalQuiet
  <2>2. CASE HostRemoves(c)
    <3> DEFINE r == calls[c].run
    <3>1. /\ \A q \in Runs \ {r} : host'[q] = host[q]
          /\ host[r] # None /\ dropped' = dropped \union {r}
      BY <2>2, HostRemovesKept
    <3>2. UNCHANGED <<phone, saved, made>>
      BY <2>2 DEF HostRemoves
    <3> QED BY <1>1, <3>1, <3>2, LocalQuiet
  <2>3. CASE Answered(c)
    BY <2>3, AnswerFits, LocalCached
  <2>4. CASE DeleteAnswered(c)
    <3>1. calls[c].run \in Runs /\ host[calls[c].run] # None
      BY <2>4, CallIs DEF DeleteAnswered, CallInv, CallOK
    <3>2. Forget({calls[c].run}) /\ UNCHANGED <<host, made, dropped>>
      BY <2>4 DEF DeleteAnswered
    <3> QED BY <3>1, <3>2, LocalForgets
  <2>5. CASE ~(HostStarts(c) \/ HostRemoves(c) \/ Answered(c) \/ DeleteAnswered(c))
    BY <1>1, <1>11, <2>5, LocalQuiet
    DEF Answer, HostAnswersGet, HostAnswersEarlier, CallRefused, CallLost
  <2> QED BY <2>1, <2>2, <2>3, <2>4, <2>5
<1>12. ASSUME NEW r \in Runs, NEW c \in Calls, GetRun(c, r) \/ Touch(c, r) PROVE LocalInv'
  BY <1>1, <1>12, LocalQuiet DEF Touch, GetRun, LoadEarlierRun, StartRun, DeleteShared
<1>13. Polls \subseteq Calls /\ Touches \subseteq Calls
  BY DEF Calls
<1> QED
  BY <1>2, <1>3, <1>4, <1>5, <1>6, <1>7, <1>8, <1>9, <1>10, <1>11, <1>12, <1>13 DEF PhoneNext, Sync

(***************************************************************************)
(* What is shown.                                                          *)
(***************************************************************************)
LEMMA ShownQuiet ==
  ASSUME PhoneTypeOK, ShownInv, HostKept, shared => shared',
         \A r \in Runs : Shown(r)' =>
           \/ phone'[r] = phone[r]
           \/ shared' /\ host'[r] # None /\ Piece(phone'[r], host'[r])
  PROVE  ShownInv'
<1> SUFFICES ASSUME NEW r \in Runs, Shown(r)'
             PROVE shared' /\ host'[r] # None /\ Piece(phone'[r], host'[r])
  BY DEF ShownInv
<1>1. CASE phone'[r] = phone[r]
  <2>1. shared /\ host[r] # None /\ Piece(phone[r], host[r]) /\ phone[r] \in Views
    BY <1>1 DEF ShownInv, Shown, PhoneTypeOK
  <2>2. host[r] \in HostRuns /\ host'[r] \in HostRuns /\ host'[r].total >= host[r].total
    BY <2>1 DEF HostKept, PhoneTypeOK
  <2>3. phone[r].off \in Nat /\ phone[r].events \in Seq(1..MaxTotal)
    BY <2>1 DEF Views
  <2>4. Piece(phone[r], host'[r])
    BY <2>1, <2>2, <2>3, PieceStays
  <2> QED BY <1>1, <2>1, <2>2, <2>4, RecordsExist
<1> QED
  BY <1>1

LEMMA ShownCached ==
  ASSUME PhoneTypeOK, ShownInv, HostKept, NEW r \in Runs, NEW view \in Pages,
         host[r] # None, shared, Piece(view, host[r]), Cached(r, view), UNCHANGED <<shared, host>>
  PROVE  ShownInv'
<1>1. phone' = [phone EXCEPT ![r] = [shared |-> TRUE, status |-> view.status,
                                     off |-> view.off, events |-> view.events]]
  BY CachedType
<1>2. /\ \A q \in Runs \ {r} : phone'[q] = phone[q]
      /\ phone'[r].off = view.off /\ phone'[r].events = view.events
  BY <1>1 DEF PhoneTypeOK
<1>3. Piece(phone'[r], host'[r])
  BY <1>2 DEF Piece
<1> QED
  BY <1>2, <1>3, ShownQuiet

LEMMA ShownInvStep ==
  ASSUME PhoneTypeOK, PhoneTypeOK', MobileInv, LocalInv', [PhoneNext]_phoneVars
  PROVE  ShownInv'
<1> USE DEF MobileInv
<1>1. HostKept
  BY HostIsKept
<1>2. CASE UNCHANGED phoneVars
  BY <1>1, <1>2, ShownQuiet DEF phoneVars
<1>3. CASE HostShares \/ SyncUploadLost \/ SyncLost
  BY <1>1, <1>3, ShownQuiet DEF HostShares, SyncUploadLost, UploadFails, SyncLost
<1>4. CASE SyncStarts \/ SyncLists \/ SyncPage \/ \E r \in Runs : SyncUploads(r)
  <2>1. UNCHANGED <<phone, host, shared>>
    BY <1>4 DEF SyncStarts, SyncLists, SyncPage, SyncUploads
  <2> QED BY <1>1, <2>1, ShownQuiet
<1>5. CASE SyncUploaded
  <2>1. CASE UNCHANGED phone
    BY <1>1, <1>5, <2>1, ShownQuiet DEF SyncUploaded
  <2>2. ASSUME NEW r \in Runs, NEW view \in Pages,
               host[r] # None, shared, Piece(view, host[r]), Cached(r, view)
        PROVE  ShownInv'
    BY <1>1, <1>5, <2>2, ShownCached DEF SyncUploaded
  <2> QED BY <1>5, <2>1, <2>2, UploadedFits
<1>6. CASE SyncAdopts
  <2> DEFINE found == DOMAIN sync.found
  <2>1. /\ found \subseteq Runs /\ \A r \in found : shared /\ host[r] # None
        /\ UNCHANGED <<shared, host>>
        /\ \A r \in Runs : phone'[r] = IF r \in found THEN Adopted(r, sync.found[r])
                                       ELSE IF r \in Stale(found) THEN None ELSE phone[r]
    BY <1>6, SyncIs DEF SyncAdopts, ListInv
  <2>2. ASSUME NEW r \in found PROVE Piece(phone'[r], host[r])
    <3>1. /\ phone'[r] = Adopted(r, sync.found[r]) /\ r \in Runs /\ host[r] # None
          /\ host[r] \in HostRuns /\ host[r].total \in Nat
      BY <2>1, <2>2, MobileAssumption DEF PhoneTypeOK, HostRuns
    <3>2. CASE phone[r] = None
      <4>1. phone'[r].off = 0 /\ phone'[r].events = <<>>
        BY <1>6, <2>2, <3>1, <3>2, AdoptedType DEF SyncAdopts
      <4> QED BY <3>1, <4>1, EmptyStretch DEF Piece
    <3>3. CASE phone[r] # None
      <4>1. phone'[r].off = phone[r].off /\ phone'[r].events = phone[r].events
        BY <1>6, <2>2, <3>1, <3>3, AdoptedType DEF SyncAdopts
      <4>2. Piece(phone[r], host[r])
        <5>1. CASE Shown(r)
          BY <3>1, <5>1 DEF ShownInv
        <5>2. CASE Local(r)
          <6>1. host[r].marked
            BY <1>6, <3>1 DEF SyncAdopts, ImportInv
          <6>2. /\ phone[r].off = 0 /\ phone[r].events = Stretch(0, Len(phone[r].events))
                /\ made[r] = Len(phone[r].events)
            BY <3>1, <5>2 DEF LocalInv
          <6>3. host[r].total >= made[r]
            BY <3>1, <6>1 DEF ImportInv
          <6>4. Len(phone[r].events) \in Nat
            BY <3>1, <3>3 DEF PhoneTypeOK, Views
          <6> QED BY <3>1, <6>2, <6>3, <6>4 DEF Piece
        <5> QED BY <3>3, <5>1, <5>2 DEF Shown, Local
      <4> QED BY <4>1, <4>2 DEF Piece
    <3> QED BY <3>2, <3>3
  <2>3. \A r \in Runs : Shown(r)' => phone'[r] # None
    BY DEF Shown
  <2> HIDE DEF found
  <2> QED BY <1>1, <2>1, <2>2, <2>3, ShownQuiet
<1>7. CASE Restart
  <2>1. \A r \in Runs : Shown(r)' => phone'[r] = phone[r]
    <3> SUFFICES ASSUME NEW r \in Runs, Shown(r)' PROVE phone'[r] = phone[r]
      OBVIOUS
    <3>1. saved[r] # None
      BY <1>7 DEF Restart, Shown
    <3>2. saved[r] \in Views
      BY <3>1 DEF PhoneTypeOK
    <3>3. phone'[r] = [saved[r] EXCEPT !.status = IF saved[r].shared THEN @ ELSE "ended"]
      BY <1>7, <3>1 DEF Restart
    <3>4. saved[r].shared
      BY <3>2, <3>3 DEF Shown, Views
    <3>5. phone'[r] = saved[r]
      BY <3>2, <3>3, <3>4 DEF Views
    <3> QED BY <3>4, <3>5 DEF LocalInv
  <2> QED BY <1>1, <1>7, <2>1, ShownQuiet DEF Restart
<1>8. CASE Import
  BY <1>1, <1>8, ImportKept, ShownQuiet
<1>9. ASSUME NEW r \in Runs, HostRun(r) PROVE ShownInv'
  BY <1>1, <1>9, HostRunKept, ShownQuiet
<1>10. ASSUME NEW r \in Runs, LocalRun(r) PROVE ShownInv'
  <2>1. UNCHANGED <<host, shared>> /\ \A q \in Runs \ {r} : phone'[q] = phone[q]
    BY <1>10 DEF LocalRun, StartLocal, LocalEvent, LocalEnd, DeleteLocal, Forget, PhoneTypeOK
  <2>2. ~Shown(r)'
    <3>1. CASE StartLocal(r)
      BY <3>1 DEF StartLocal, Shown, PhoneTypeOK
    <3>2. CASE LocalEvent(r) \/ LocalEnd(r)
      <4>1. phone[r] \in Views /\ ~phone[r].shared
        BY <3>2 DEF LocalEvent, LocalEnd, Local, PhoneTypeOK
      <4>2. \/ phone'[r] = [phone[r] EXCEPT !.status = "ended"]
            \/ phone'[r] = [phone[r] EXCEPT !.events = Append(@, Len(@) + 1)]
        BY <3>2 DEF LocalEvent, LocalEnd, PhoneTypeOK
      <4>3. phone'[r].shared = phone[r].shared
        BY <4>1, <4>2 DEF Views
      <4> QED BY <4>1, <4>3 DEF Shown
    <3>3. CASE DeleteLocal(r)
      BY <3>3 DEF DeleteLocal, Forget, Shown
    <3> QED BY <1>10, <3>1, <3>2, <3>3 DEF LocalRun
  <2> QED BY <1>1, <2>1, <2>2, ShownQuiet
<1>11. ASSUME NEW c \in Calls, Answer(c) \/ CallLost(c) PROVE ShownInv'
  <2>1. CASE Answered(c)
    BY <1>1, <2>1, AnswerFits, ShownCached
  <2>2. CASE DeleteAnswered(c)
    <3>1. UNCHANGED shared /\ \A q \in Runs : phone'[q] = phone[q] \/ phone'[q] = None
      BY <2>2 DEF DeleteAnswered, Forget
    <3> QED BY <1>1, <3>1, ShownQuiet DEF Shown
  <2>3. CASE ~(Answered(c) \/ DeleteAnswered(c))
    BY <1>1, <1>11, <2>3, ShownQuiet
    DEF Answer, HostAnswersGet, HostAnswersEarlier, HostStarts, HostRemoves, CallRefused, CallLost
  <2> QED BY <2>1, <2>2, <2>3
<1>12. ASSUME NEW r \in Runs, NEW c \in Calls, GetRun(c, r) \/ Touch(c, r) PROVE ShownInv'
  BY <1>1, <1>12, ShownQuiet DEF Touch, GetRun, LoadEarlierRun, StartRun, DeleteShared
<1>13. Polls \subseteq Calls /\ Touches \subseteq Calls
  BY DEF Calls
<1> QED
  BY <1>2, <1>3, <1>4, <1>5, <1>6, <1>7, <1>8, <1>9, <1>10, <1>11, <1>12, <1>13 DEF PhoneNext, Sync

(***************************************************************************)
(* Requests and answers.                                                   *)
(***************************************************************************)
\* A run that is neither on the host nor on the phone stays so until the host
\* makes it, once the workspace is shared.
LEMMA NotYetMade ==
  ASSUME PhoneTypeOK, PhoneTypeOK', MobileInv, [PhoneNext]_phoneVars, NEW r \in Runs,
         shared, host[r] = None, phone[r] = None, made[r] = -1
  PROVE  phone'[r] = None /\ made'[r] = -1
<1> USE DEF MobileInv
<1>1. CASE UNCHANGED <<phone, made>>
  BY <1>1
<1>2. CASE SyncUploaded
  <2>1. ASSUME NEW q \in Runs, NEW view \in Pages, host[q] # None, Cached(q, view)
        PROVE  phone'[r] = None
    BY <2>1 DEF Cached, PhoneTypeOK
  <2> QED BY <1>2, <2>1, UploadedFits
<1>3. CASE SyncAdopts
  BY <1>3, SyncIs DEF SyncAdopts, ListInv
<1>4. CASE Restart
  BY <1>4 DEF Restart, LocalInv, Local
<1>5. ASSUME NEW q \in Runs, LocalRun(q) PROVE phone'[r] = None /\ made'[r] = -1
  BY <1>5 DEF LocalRun, StartLocal, LocalEvent, LocalEnd, DeleteLocal, Local, Forget, PhoneTypeOK
<1>6. ASSUME NEW c \in Calls, Answer(c) \/ CallLost(c) PROVE phone'[r] = None /\ made'[r] = -1
  <2>1. CASE Answered(c)
    <3>1. /\ calls[c].run # r /\ UNCHANGED made /\ Cached(calls[c].run, calls[c].view)
      BY <2>1, AnswerFits
    <3> QED BY <3>1 DEF Cached, PhoneTypeOK
  <2>2. CASE DeleteAnswered(c)
    BY <2>2 DEF DeleteAnswered, Forget
  <2>3. CASE ~(Answered(c) \/ DeleteAnswered(c))
    BY <1>1, <1>6, <2>3
    DEF Answer, HostAnswersGet, HostAnswersEarlier, HostStarts, HostRemoves, CallRefused, CallLost
  <2> QED BY <2>1, <2>2, <2>3
<1>7. CASE Import
  BY <1>7, ImportKept
<1>8. ASSUME NEW q \in Runs, HostRun(q) PROVE phone'[r] = None /\ made'[r] = -1
  BY <1>8, HostRunKept
<1>9. CASE \/ UNCHANGED phoneVars \/ HostShares \/ SyncUploadLost \/ SyncLost \/ SyncStarts \/ SyncLists
           \/ SyncPage \/ \E q \in Runs : SyncUploads(q)
  <2>1. UNCHANGED <<phone, made>>
    BY <1>9 DEF phoneVars, HostShares, SyncUploadLost, UploadFails, SyncLost, SyncStarts, SyncLists, SyncPage, SyncUploads
  <2> QED BY <2>1
<1>10. ASSUME NEW q \in Runs, NEW c \in Calls, GetRun(c, q) \/ Touch(c, q)
       PROVE  phone'[r] = None /\ made'[r] = -1
  BY <1>10 DEF Touch, GetRun, LoadEarlierRun, StartRun, DeleteShared
<1>11. Polls \subseteq Calls /\ Touches \subseteq Calls
  BY DEF Calls
<1> QED
  BY <1>2, <1>3, <1>4, <1>5, <1>6, <1>7, <1>8, <1>9, <1>10, <1>11 DEF PhoneNext, Sync

LEMMA RequestKeeps ==
  ASSUME PhoneTypeOK, PhoneTypeOK', MobileInv, [PhoneNext]_phoneVars, NEW c \in Calls,
         calls'[c] = calls[c] \/ calls'[c] = Idle
  PROVE  CallOK(c)'
<1>1. CASE calls'[c] = Idle \/ calls[c].at = "idle"
  BY <1>1 DEF CallOK, Idle
<1>2. CASE calls'[c] = calls[c] /\ calls[c].at # "idle"
  <2> DEFINE r == calls[c].run
  <2>1. CallOK(c) /\ r \in Runs
    BY <1>2, CallIs DEF MobileInv, CallInv
  <2>2. HostKept
    BY HostIsKept DEF MobileInv
  <2>3. shared /\ shared'
    <3>1. shared => shared'
      BY DEF PhoneNext, phoneVars, Import, ImportSavesRun, ImportAppends, ImportMarks, ImportKnown,
         Sync, SyncStarts, SyncUploads, SyncUploaded, SyncLists, SyncPage, SyncAdopts,
         SyncUploadLost, SyncLost, Restart, HostShares, HostRun, HostAppends, HostEnds,
         HostContinues, HostDeletes, LocalRun, StartLocal, LocalEvent, LocalEnd, DeleteLocal,
         Answer, HostAnswersGet, HostAnswersEarlier, HostStarts, HostRemoves, CallRefused,
         Answered, DeleteAnswered, CallLost, GetRun, Touch, LoadEarlierRun, StartRun, DeleteShared
    <3> QED BY <1>2, <2>1, <3>1 DEF CallOK
  <2>4. host'[r] = None /\ phone[r] = None /\ made[r] = -1 => phone'[r] = None /\ made'[r] = -1
    <3>1. host'[r] = None => host[r] = None
      BY <2>1, <2>2, RecordsExist DEF HostKept
    <3> QED BY <2>1, <2>3, <3>1, NotYetMade
  <2>5. ASSUME NEW view, view.off \in Nat, view.events \in Seq(1..MaxTotal),
               host[r] # None, Piece(view, host[r])
        PROVE  Piece(view, host'[r])
    <3>1. host[r] \in HostRuns /\ host'[r] \in HostRuns /\ host'[r].total >= host[r].total
      BY <2>1, <2>2, <2>5 DEF HostKept, PhoneTypeOK
    <3> QED BY <2>5, <3>1, PieceStays
  <2>6. CASE calls[c].at = "sent" /\ calls[c].op \in {"get", "earlier"}
    <3>1. calls[c].view.off \in Nat /\ calls[c].view.events \in Seq(1..MaxTotal)
      BY <2>6, CallIs DEF Copies
    <3>2. host[r] # None /\ Piece(calls[c].view, host[r])
      BY <2>1, <2>6 DEF CallOK
    <3>3. host'[r] # None /\ Piece(calls[c].view, host'[r])
      BY <2>1, <2>2, <2>5, <3>1, <3>2, RecordsExist DEF HostKept
    <3> QED BY <1>2, <2>1, <2>3, <2>6, <3>3 DEF CallOK
  <2>7. CASE calls[c].at = "sent" /\ calls[c].op \notin {"get", "earlier"}
    <3>1. host'[r] = None => host[r] = None
      BY <2>1, <2>2, RecordsExist DEF HostKept
    <3> QED BY <1>2, <2>1, <2>3, <2>4, <2>7, <3>1 DEF CallOK
  <2>8. CASE calls[c].at = "answered"
    <3>1. host[r] # None /\ (calls[c].view = None => ~host[r].there)
          /\ (calls[c].view # None => Piece(calls[c].view, host[r]))
      BY <2>1, <2>8 DEF CallOK
    <3>2. calls[c].view # None => /\ calls[c].view.off \in Nat
                                  /\ calls[c].view.events \in Seq(1..MaxTotal)
      BY <2>8, CallIs DEF Pages
    <3>3. host'[r] # None /\ (calls[c].view = None => ~host'[r].there)
          /\ (calls[c].view # None => Piece(calls[c].view, host'[r]))
      BY <2>1, <2>2, <2>5, <3>1, <3>2, RecordsExist DEF HostKept
    <3> QED BY <1>2, <2>3, <2>8, <3>3 DEF CallOK
  <2> QED BY <1>2, <2>6, <2>7, <2>8, CallIs
<1> QED
  BY <1>1, <1>2

\* An answer that is a piece of the run.
LEMMA ReplyOK ==
  ASSUME PhoneTypeOK, NEW c \in Calls, calls[c].at = "sent", NEW view \in Pages,
         Reply(c, view), host'[calls[c].run] # None, Piece(view, host'[calls[c].run]), shared'
  PROVE  CallOK(c)' /\ \A d \in Calls \ {c} : calls'[d] = calls[d]
<1>1. /\ calls'[c] = [at |-> "answered", run |-> calls[c].run, view |-> view]
      /\ \A d \in Calls \ {c} : calls'[d] = calls[d]
  BY DEF Reply, PhoneTypeOK
<1>2. view # None
  BY RecordsExist
<1> QED
  BY <1>1, <1>2 DEF CallOK

LEMMA CallInvStep ==
  ASSUME PhoneTypeOK, PhoneTypeOK', MobileInv, [PhoneNext]_phoneVars
  PROVE  CallInv'
<1> USE DEF MobileInv
<1>1. ASSUME NEW c \in Calls, \A d \in Calls \ {c} : calls'[d] = calls[d], CallOK(c)'
      PROVE  CallInv'
  BY <1>1, RequestKeeps DEF CallInv
<1>2. CASE \A c \in Calls : calls'[c] = calls[c] \/ calls'[c] = Idle
  BY <1>2, RequestKeeps DEF CallInv
<1>3. CASE UNCHANGED calls
  BY <1>2, <1>3
<1>4. ASSUME NEW r \in Runs, NEW c \in Calls, GetRun(c, r) \/ Touch(c, r) PROVE CallInv'
  <2>1. \A d \in Calls \ {c} : calls'[d] = calls[d]
    BY <1>4 DEF Touch, GetRun, LoadEarlierRun, StartRun, DeleteShared, Request, PhoneTypeOK
  <2>2. UNCHANGED <<host, phone, made, shared>>
    BY <1>4 DEF Touch, GetRun, LoadEarlierRun, StartRun, DeleteShared
  <2>3. Shown(r) => shared /\ host[r] # None /\ Piece(Copy(r), host[r])
    BY DEF ShownInv, Copy, Piece
  <2>4. CASE GetRun(c, r)
    <3>1. calls'[c] = [at |-> "sent", op |-> "get", run |-> r, view |-> Copy(r)] /\ Shown(r)
      BY <2>4 DEF GetRun, Request, PhoneTypeOK
    <3>2. CallOK(c)'
      BY <2>2, <2>3, <3>1 DEF CallOK
    <3> QED BY <1>1, <2>1, <3>2
  <2>5. CASE LoadEarlierRun(c, r)
    <3>1. /\ calls'[c] = [at |-> "sent", op |-> "earlier", run |-> r, view |-> Copy(r)]
          /\ Shown(r) /\ phone[r].off > 0
      BY <2>5 DEF LoadEarlierRun, Request, PhoneTypeOK
    <3>2. Copy(r).off > 0
      BY <3>1 DEF Copy
    <3>3. CallOK(c)'
      BY <2>2, <2>3, <3>1, <3>2 DEF CallOK
    <3> QED BY <1>1, <2>1, <3>3
  <2>6. CASE StartRun(c, r)
    <3>1. /\ calls'[c] = [at |-> "sent", op |-> "start", run |-> r] /\ shared
          /\ host[r] = None => phone[r] = None /\ made[r] = -1
      BY <2>3, <2>6 DEF StartRun, New, Request, PhoneTypeOK
    <3>2. CallOK(c)'
      BY <2>2, <3>1 DEF CallOK
    <3> QED BY <1>1, <2>1, <3>2
  <2>7. CASE DeleteShared(c, r)
    <3>1. /\ calls'[c] = [at |-> "sent", op |-> "delete", run |-> r, paired |-> r \in paired] /\ Shown(r)
      BY <2>7 DEF DeleteShared, Request, PhoneTypeOK
    <3>2. CallOK(c)'
      BY <2>2, <2>3, <3>1 DEF CallOK
    <3> QED BY <1>1, <2>1, <3>2
  <2> QED BY <1>4, <2>4, <2>5, <2>6, <2>7 DEF Touch
<1>5. ASSUME NEW c \in Calls, Answer(c) \/ CallLost(c) PROVE CallInv'
  <2>1. CASE HostAnswersGet(c)
    <3> DEFINE view == Merge(calls[c].view, Page(host[calls[c].run], Max({Len(calls[c].view.events), Window}), 0))
    <3>1. calls[c].at = "sent" /\ calls[c].op = "get" /\ There(calls[c].run) /\ Reply(c, view)
          /\ UNCHANGED <<host, shared>>
      BY <2>1 DEF HostAnswersGet
    <3>2. view \in Pages /\ Piece(view, host[calls[c].run]) /\ shared
      BY <3>1, GetFits DEF CallInv, CallOK
    <3> HIDE DEF view
    <3>3. CallOK(c)' /\ \A d \in Calls \ {c} : calls'[d] = calls[d]
      BY <3>1, <3>2, ReplyOK DEF There
    <3> QED BY <1>1, <3>3
  <2>2. CASE HostAnswersEarlier(c)
    <3> DEFINE view == [Page(host[calls[c].run], Window, calls[c].view.off)
                          EXCEPT !.events = @ \o calls[c].view.events]
    <3>1. calls[c].at = "sent" /\ calls[c].op = "earlier" /\ There(calls[c].run) /\ Reply(c, view)
          /\ UNCHANGED <<host, shared>>
      BY <2>2 DEF HostAnswersEarlier
    <3>2. view \in Pages /\ Piece(view, host[calls[c].run]) /\ shared
      BY <3>1, EarlierAnswerFits DEF CallInv, CallOK
    <3> HIDE DEF view
    <3>3. CallOK(c)' /\ \A d \in Calls \ {c} : calls'[d] = calls[d]
      BY <3>1, <3>2, ReplyOK DEF There
    <3> QED BY <1>1, <3>3
  <2>3. CASE HostStarts(c)
    <3>1. PICK r \in {calls[c].run} :
            /\ host'[r] \in HostRuns /\ Reply(c, Whole(host'[r]))
            /\ Whole(host'[r]) \in Pages /\ Piece(Whole(host'[r]), host'[r])
      BY <2>3, StartFits
    <3>2. calls[c].at = "sent" /\ shared'
      BY <2>3 DEF HostStarts, CallInv, CallOK
    <3>3. CallOK(c)' /\ \A d \in Calls \ {c} : calls'[d] = calls[d]
      BY <3>1, <3>2, ReplyOK, RecordsExist
    <3> QED BY <1>1, <3>3
  <2>4. CASE HostRemoves(c)
    <3> DEFINE r == calls[c].run
    <3>1. r \in Runs /\ host'[r] \in HostRuns /\ ~host'[r].there
      BY <2>4, HostRemovesKept
    <3>2. calls[c].at = "sent" /\ Reply(c, None) /\ shared'
      BY <2>4 DEF HostRemoves, CallInv, CallOK
    <3>3. /\ calls'[c] = [at |-> "answered", run |-> r, view |-> None]
          /\ \A d \in Calls \ {c} : calls'[d] = calls[d]
      BY <3>2 DEF Reply, PhoneTypeOK
    <3>4. host'[r] # None
      BY <3>1, RecordsExist
    <3> HIDE DEF r
    <3>5. CallOK(c)'
      BY <3>1, <3>2, <3>3, <3>4 DEF CallOK
    <3> QED BY <1>1, <3>3, <3>5
  <2>5. CASE CallRefused(c) \/ CallLost(c) \/ Answered(c) \/ DeleteAnswered(c)
    <3>1. calls' = [calls EXCEPT ![c] = Idle]
      BY <2>5 DEF CallRefused, CallLost, Answered, DeleteAnswered
    <3> QED BY <1>2, <3>1 DEF PhoneTypeOK
  <2> QED BY <1>5, <2>1, <2>2, <2>3, <2>4, <2>5 DEF Answer
<1>6. CASE UNCHANGED phoneVars \/ HostShares \/ SyncUploadLost \/ SyncLost
  BY <1>3, <1>6 DEF phoneVars, HostShares, SyncUploadLost, SyncLost
<1>7. CASE Sync
  BY <1>3, <1>7 DEF Sync, SyncStarts, SyncUploads, SyncUploaded, SyncLists, SyncPage, SyncAdopts
<1>8. CASE Restart
  BY <1>2, <1>8 DEF Restart
<1>9. CASE Import
  BY <1>3, <1>9, ImportKept
<1>10. ASSUME NEW r \in Runs, HostRun(r) \/ LocalRun(r) PROVE CallInv'
  BY <1>3, <1>10, HostRunKept DEF LocalRun, StartLocal, LocalEvent, LocalEnd, DeleteLocal
<1>11. Polls \subseteq Calls /\ Touches \subseteq Calls
  BY DEF Calls
<1> QED
  BY <1>4, <1>5, <1>6, <1>7, <1>8, <1>9, <1>10, <1>11 DEF PhoneNext

(***************************************************************************)
(* The listing.                                                            *)
(***************************************************************************)
\* A listing that goes on loses at most the runs that moved out of its pages,
\* and who comes to be shown meanwhile is fresh.
LEMMA ListQuiet ==
  ASSUME PhoneTypeOK, ShownInv, ListInv, HostKept, shared => shared', sync'.at = sync.at,
         sync.at \in {"listing", "listed"} =>
           /\ sync'.first = sync.first /\ sync'.found = sync.found /\ sync'.rest \subseteq sync.rest
           /\ \A r \in Runs : Shown(r)' => r \in fresh' \/ (Shown(r) /\ r \notin fresh)
  PROVE  ListInv'
<1> SUFFICES ASSUME sync.at \in {"listing", "listed"}
             PROVE  /\ \A r \in DOMAIN sync'.found \union sync'.rest : shared' /\ host'[r] # None
                    /\ OnePage /\ sync'.at = "listing" => sync'.first
                    /\ OnePage /\ sync'.at = "listed" =>
                         \A r \in Runs : Shown(r)' /\ r \notin DOMAIN sync'.found /\ r \notin fresh'
                                           => ~There(r)'
  BY DEF ListInv, OnePage
<1>1. \A r \in DOMAIN sync'.found \union sync'.rest : r \in Runs /\ shared /\ host[r] # None
  BY SyncIs DEF ListInv
<1>2. \A r \in DOMAIN sync'.found \union sync'.rest : shared' /\ host'[r] # None
  BY <1>1, RecordsExist DEF HostKept
<1>3. OnePage /\ sync'.at = "listing" => sync'.first
  BY DEF ListInv
<1>4. ASSUME OnePage, sync'.at = "listed", NEW r \in Runs,
             Shown(r)', r \notin DOMAIN sync'.found, r \notin fresh'
      PROVE  ~There(r)'
  <2>1. Shown(r) /\ r \notin DOMAIN sync.found /\ r \notin fresh
    BY <1>4
  <2>2. ~There(r) /\ host[r] # None
    BY <1>4, <2>1 DEF ListInv, ShownInv
  <2> QED BY <2>2 DEF HostKept, There
<1> QED
  BY <1>2, <1>3, <1>4

LEMMA ListMoved ==
  ASSUME PhoneTypeOK, ShownInv, ListInv, HostKept, NEW r \in Runs, Moved(r) \/ sync' = sync,
         UNCHANGED <<shared, phone, fresh>>
  PROVE  ListInv'
<1>1. /\ sync'.at = sync.at
      /\ sync.at \in {"listing", "listed"} => /\ sync'.first = sync.first /\ sync'.found = sync.found
                                              /\ sync'.rest \subseteq sync.rest
  BY MovedKeeps
<1>2. \A q \in Runs : Shown(q)' => Shown(q)
  BY DEF Shown
<1> QED
  BY <1>1, <1>2, ListQuiet

LEMMA MinIsLeast ==
  ASSUME NEW a \in Int, NEW b \in Int, b <= a
  PROVE  Min({a, b}) = b
<1>1. \E x \in {a, b} : \A y \in {a, b} : x <= y
  OBVIOUS
<1>2. Min({a, b}) \in {a, b} /\ \A y \in {a, b} : Min({a, b}) <= y
  BY <1>1 DEF Min
<1> QED
  BY <1>2

\* One page is the whole listing.
LEMMA PageIsAll ==
  ASSUME OnePage, NEW left \in SUBSET Runs, NEW page \in SUBSET left,
         Cardinality(page) = Min({ListLimit, Cardinality(left)})
  PROVE  page = left
<1>1. IsFiniteSet(left) /\ Cardinality(left) \in Nat /\ Cardinality(left) <= ListLimit
  <2>1. IsFiniteSet(left) /\ Cardinality(left) <= Cardinality(Runs)
    BY FS_Subset, MobileAssumption
  <2>2. Cardinality(left) \in Nat /\ Cardinality(Runs) \in Nat
    BY <2>1, FS_CardinalityType, MobileAssumption
  <2> QED BY <2>1, <2>2, MobileAssumption DEF OnePage
<1>2. Cardinality(page) = Cardinality(left)
  BY <1>1, MinIsLeast, MobileAssumption
<1> QED
  BY <1>1, <1>2, FS_Subset

LEMMA ListPaged ==
  ASSUME PhoneTypeOK, ShownInv, ListInv, SyncPage
  PROVE  ListInv'
<1> DEFINE left == IF sync.first THEN {r \in Runs : shared /\ There(r)} ELSE sync.rest
<1>1. PICK page \in SUBSET left :
        /\ Cardinality(page) = Min({ListLimit, Cardinality(left)})
        /\ sync' = [at |-> IF page = left THEN "listed" ELSE "listing", first |-> FALSE,
                    rest |-> left \ page,
                    found |-> [r \in page \union DOMAIN sync.found |->
                               IF r \in page THEN host[r].status ELSE sync.found[r]]]
  BY DEF SyncPage
<1>2. sync.at = "listing" /\ UNCHANGED <<shared, host, phone, fresh>>
  BY DEF SyncPage
<1>3. left \subseteq Runs /\ \A r \in left : shared /\ host[r] # None
  BY <1>2, SyncIs DEF ListInv, There
<1>4. DOMAIN sync'.found = page \union DOMAIN sync.found /\ sync'.rest = left \ page
  BY <1>1
<1>5. \A r \in DOMAIN sync'.found \union sync'.rest : shared' /\ host'[r] # None
  BY <1>2, <1>3, <1>4 DEF ListInv
<1>6. ASSUME OnePage PROVE /\ sync'.at = "listed"
                           /\ \A r \in Runs : Shown(r)' /\ r \notin DOMAIN sync'.found => ~There(r)'
  <2>2. left = {r \in Runs : shared /\ There(r)}
    BY <1>2, <1>6 DEF ListInv
  <2> HIDE DEF left
  <2>1. page = left
    BY <1>1, <1>3, <1>6, PageIsAll
  <2>3. sync'.at = "listed"
    BY <1>1, <2>1
  <2>4. \A r \in Runs : Shown(r)' => shared /\ Shown(r)
    BY <1>2 DEF ShownInv, Shown
  <2> QED BY <1>2, <1>4, <2>1, <2>2, <2>3, <2>4 DEF There
<1> QED
  BY <1>5, <1>6 DEF ListInv, OnePage

LEMMA ListCached ==
  ASSUME PhoneTypeOK, ShownInv, ListInv, HostKept, NEW r \in Runs, NEW view \in Pages,
         Cached(r, view), UNCHANGED <<shared, sync>>
  PROVE  ListInv'
<1>1. /\ phone' = [phone EXCEPT ![r] = [shared |-> TRUE, status |-> view.status,
                                        off |-> view.off, events |-> view.events]]
      /\ sync.at \in {"listing", "listed"} => fresh' = fresh \union {r}
  BY DEF Cached
<1>2. \A q \in Runs \ {r} : phone'[q] = phone[q]
  BY <1>1 DEF PhoneTypeOK
<1>3. sync.at \in {"listing", "listed"} =>
        \A q \in Runs : Shown(q)' => q \in fresh' \/ (Shown(q) /\ q \notin fresh)
  BY <1>1, <1>2 DEF Shown
<1> QED
  BY <1>3, ListQuiet

LEMMA ListForgets ==
  ASSUME PhoneTypeOK, ShownInv, ListInv, HostKept, NEW r \in Runs, Forget({r}),
         UNCHANGED <<shared, sync>>
  PROVE  ListInv'
<1>1. \A q \in Runs : Shown(q)' => q \in fresh' \/ (Shown(q) /\ q \notin fresh)
  BY DEF Forget, Shown
<1> QED
  BY <1>1, ListQuiet

LEMMA ListInvStep ==
  ASSUME PhoneTypeOK, PhoneTypeOK', MobileInv, [PhoneNext]_phoneVars
  PROVE  ListInv'
<1> USE DEF MobileInv
<1>1. HostKept
  BY HostIsKept
<1>2. CASE sync' = sync /\ UNCHANGED <<phone, fresh>> /\ (shared => shared')
  BY <1>1, <1>2, ListQuiet DEF Shown
<1>3. CASE sync'.at \notin {"listing", "listed"}
  BY <1>3 DEF ListInv
<1>4. CASE Sync
  <2>1. CASE SyncStarts \/ SyncAdopts
    BY <1>3, <2>1 DEF SyncStarts, SyncAdopts, Idle
  <2>2. CASE SyncUploaded
    BY <1>3, <2>2, UploadedFits
  <2>3. ASSUME NEW r \in Runs, SyncUploads(r) PROVE ListInv'
    <3>1. sync'.at = "uploading"
      BY <2>3, SyncIs DEF SyncUploads, Handovers
    <3> QED BY <1>3, <3>1
  <2>4. CASE SyncLists
    <3>1. /\ sync'.at = "listing" /\ sync'.first = TRUE /\ sync'.rest = {}
          /\ DOMAIN sync'.found = {}
      BY <2>4 DEF SyncLists
    <3> QED BY <3>1 DEF ListInv
  <2>5. CASE SyncPage
    BY <2>5, ListPaged
  <2> QED BY <1>4, <2>1, <2>2, <2>3, <2>4, <2>5 DEF Sync
<1>5. CASE SyncUploadLost
  <2>1. sync'.at = "legacy"
    BY <1>5, SyncIs DEF SyncUploadLost, Handovers
  <2> QED BY <1>3, <2>1
<1>6. CASE SyncLost \/ Restart
  BY <1>3, <1>6 DEF SyncLost, Restart, Idle
<1>7. CASE Import
  <2>1. upload.run \in Runs
    BY <1>7, ImportKept DEF Uploads
  <2> QED BY <1>1, <1>7, <2>1, ImportKept, ListMoved
<1>8. ASSUME NEW r \in Runs, HostRun(r) PROVE ListInv'
  BY <1>1, <1>8, HostRunKept, ListMoved
<1>9. ASSUME NEW r \in Runs, LocalRun(r) PROVE ListInv'
  <2>1. CASE DeleteLocal(r)
    BY <1>1, <2>1, ListForgets DEF DeleteLocal
  <2>2. CASE StartLocal(r) \/ LocalEvent(r) \/ LocalEnd(r)
    <3>1. UNCHANGED <<shared, sync, fresh>> /\ \A q \in Runs \ {r} : phone'[q] = phone[q]
      BY <2>2 DEF StartLocal, LocalEvent, LocalEnd, PhoneTypeOK
    <3>2. ~Shown(r)'
      <4>1. CASE StartLocal(r)
        BY <4>1 DEF StartLocal, Shown, PhoneTypeOK
      <4>2. CASE LocalEvent(r) \/ LocalEnd(r)
        <5>1. phone[r] \in Views /\ ~phone[r].shared
          BY <4>2 DEF LocalEvent, LocalEnd, Local, PhoneTypeOK
        <5>2. \/ phone'[r] = [phone[r] EXCEPT !.status = "ended"]
              \/ phone'[r] = [phone[r] EXCEPT !.events = Append(@, Len(@) + 1)]
          BY <4>2 DEF LocalEvent, LocalEnd, PhoneTypeOK
        <5>3. phone'[r].shared = phone[r].shared
          BY <5>1, <5>2 DEF Views
        <5> QED BY <5>1, <5>3 DEF Shown
      <4> QED BY <2>2, <4>1, <4>2
    <3>3. \A q \in Runs : Shown(q)' => q \in fresh' \/ (Shown(q) /\ q \notin fresh)
      BY <3>1, <3>2 DEF Shown
    <3> QED BY <1>1, <3>1, <3>3, ListQuiet
  <2> QED BY <1>9, <2>1, <2>2 DEF LocalRun
<1>10. ASSUME NEW c \in Calls, Answer(c) \/ CallLost(c) PROVE ListInv'
  <2>1. CASE Answered(c)
    BY <1>1, <2>1, AnswerFits, ListCached
  <2>2. CASE DeleteAnswered(c)
    <3>1. calls[c].run \in Runs
      BY <2>2, CallIs DEF DeleteAnswered
    <3> QED BY <1>1, <2>2, <3>1, ListForgets DEF DeleteAnswered
  <2>3. CASE HostStarts(c)
    <3>1. calls[c].run \in Runs
      BY <2>3, CallIs DEF HostStarts
    <3> QED BY <1>1, <2>3, <3>1, ListMoved DEF HostStarts
  <2>4. CASE HostRemoves(c)
    <3>1. UNCHANGED <<shared, phone, fresh>>
      BY <2>4 DEF HostRemoves
    <3> QED BY <1>1, <2>4, <3>1, HostRemovesKept, ListMoved
  <2>5. CASE HostAnswersGet(c) \/ HostAnswersEarlier(c) \/ CallRefused(c) \/ CallLost(c)
    BY <1>2, <2>5 DEF HostAnswersGet, HostAnswersEarlier, CallRefused, CallLost
  <2> QED BY <1>10, <2>1, <2>2, <2>3, <2>4, <2>5 DEF Answer
<1>11. ASSUME NEW r \in Runs, NEW c \in Calls, GetRun(c, r) \/ Touch(c, r) PROVE ListInv'
  BY <1>2, <1>11 DEF Touch, GetRun, LoadEarlierRun, StartRun, DeleteShared
<1>12. CASE UNCHANGED phoneVars \/ HostShares
  BY <1>2, <1>12 DEF phoneVars, HostShares
<1>13. Polls \subseteq Calls /\ Touches \subseteq Calls
  BY DEF Calls
<1> QED
  BY <1>4, <1>5, <1>6, <1>7, <1>8, <1>9, <1>10, <1>11, <1>12, <1>13 DEF PhoneNext

(***************************************************************************)
(* The theorems.                                                           *)
(***************************************************************************)
LEMMA MobileInit == PhoneInit => MobileInv
<1> SUFFICES ASSUME PhoneInit PROVE MobileInv
  OBVIOUS
<1>1. \A r \in Runs : phone[r] = None /\ saved[r] = None /\ host[r] = None /\ made[r] = -1
  BY DEF PhoneInit
<1>2. upload = None /\ sync = Idle /\ \A c \in Calls : calls[c] = Idle
  BY DEF PhoneInit
<1>3. sync.at = "idle"
  BY <1>2 DEF Idle
<1>4. ImportInv
  BY <1>1, <1>2, <1>3 DEF ImportInv
<1>5. LocalInv
  BY <1>1 DEF LocalInv, Local
<1>6. CallInv
  BY <1>2 DEF CallInv, CallOK, Idle
<1>7. ListInv
  BY <1>3 DEF ListInv
<1>8. ShownInv
  BY <1>1 DEF ShownInv, Shown
<1> QED
  BY <1>4, <1>5, <1>6, <1>7, <1>8 DEF MobileInv

LEMMA MobileStep ==
  ASSUME ~CutUploads, PhoneTypeOK, MobileInv, [PhoneNext]_phoneVars
  PROVE  PhoneTypeOK' /\ MobileInv'
<1>1. PhoneTypeOK'
  BY PhoneTypeStep
<1>2. ImportInv'
  BY <1>1, ImportInvStep
<1>3. LocalInv'
  BY <1>1, LocalInvStep
<1>4. ShownInv'
  BY <1>1, <1>3, ShownInvStep
<1>5. CallInv'
  BY <1>1, CallInvStep
<1>6. ListInv'
  BY <1>1, ListInvStep
<1> QED
  BY <1>1, <1>2, <1>3, <1>4, <1>5, <1>6 DEF MobileInv

\* The types, and the inductive invariant of the phone, its runs.json, its
\* requests, its sync and the host's import: what a late answer, a lost reply or
\* a restart finds when no import is cut half way.
THEOREM MobileCorrect ==
  ASSUME ~CutUploads
  PROVE  PhoneSpec => [](PhoneTypeOK /\ MobileInv)
<1>1. PhoneInit => PhoneTypeOK /\ MobileInv
  BY PhoneTypeInit, MobileInit
<1>2. PhoneTypeOK /\ MobileInv /\ [PhoneNext]_phoneVars => PhoneTypeOK' /\ MobileInv'
  BY MobileStep
<1> QED
  BY <1>1, <1>2, PTL DEF PhoneSpec

\* Whatever pages are joined, and whichever answer comes late, the phone shows
\* one piece of the host's transcript (mergeTranscriptWindow, LoadEarlierRun).
THEOREM ShownCorrect ==
  ASSUME ~CutUploads
  PROVE  PhoneSpec => []ShownIsHosts
<1>1. MobileInv => ShownIsHosts
  BY DEF MobileInv, ShownInv, ShownIsHosts
<1> QED
  BY <1>1, MobileCorrect, PTL

LEMMA HistoryFollows ==
  ASSUME PhoneTypeOK, MobileInv
  PROVE  HistoryKept
<1> SUFFICES ASSUME NEW r \in Runs, made[r] >= 0, r \notin dropped
             PROVE  \/ phone[r] # None /\ phone[r].off = 0 /\ Len(phone[r].events) >= made[r]
                    \/ upload # None /\ upload.run = r
                    \/ There(r) /\ host[r].total >= made[r]
  BY DEF HistoryKept
<1>1. Local(r) \/ host[r] # None
  BY DEF MobileInv, LocalInv
<1>2. CASE Local(r)
  <2>1. phone[r] # None /\ phone[r].off = 0 /\ made[r] = Len(phone[r].events)
    BY <1>2 DEF MobileInv, LocalInv, Local
  <2>2. Len(phone[r].events) \in Nat
    BY <2>1 DEF PhoneTypeOK, Views
  <2> QED BY <2>1, <2>2
<1>3. CASE host[r] # None
  BY <1>3 DEF MobileInv, ImportInv, There
<1> QED
  BY <1>1, <1>2, <1>3

\* A run the phone made before the workspace was shared is never lost: it is on
\* the phone, on its way, or on the host as a whole.
THEOREM HistoryCorrect ==
  ASSUME ~CutUploads
  PROVE  PhoneSpec => []HistoryKept
<1>1. PhoneTypeOK /\ MobileInv => HistoryKept
  BY HistoryFollows
<1> QED
  BY <1>1, MobileCorrect, PTL

\* Why a run leaves the phone.
LEMMA RunLeaves ==
  ASSUME OnePage, PhoneTypeOK, MobileInv, [PhoneNext]_phoneVars,
         NEW r \in Runs, phone[r] # None, phone'[r] = None
  PROVE  r \in dropped' /\ (phone[r].shared => ~There(r))
<1> USE DEF MobileInv
<1>1. ASSUME NEW q \in Runs, NEW view \in Pages, Cached(q, view) PROVE FALSE
  BY <1>1, CachedType, RecordsExist DEF PhoneTypeOK
<1>2. CASE SyncAdopts
  <2>1. r \notin DOMAIN sync.found /\ r \in Stale(DOMAIN sync.found) /\ dropped' = dropped
    <3>1. r \notin DOMAIN sync.found
      BY <1>2, AdoptedType, RecordsExist DEF SyncAdopts
    <3> QED BY <1>2, <3>1 DEF SyncAdopts
  <2>2. Shown(r) /\ r \notin fresh
    BY <2>1 DEF Stale
  <2>3. ~There(r) /\ host[r] # None
    BY <1>2, <2>1, <2>2 DEF SyncAdopts, ListInv, ShownInv
  <2> QED BY <2>1, <2>3 DEF ImportInv, There
<1>3. CASE SyncUploaded
  BY <1>1, <1>3, UploadedFits
<1>4. CASE Restart
  BY <1>4, RecordsExist DEF Restart, LocalInv, PhoneTypeOK, Views, None
<1>5. ASSUME NEW q \in Runs, LocalRun(q) PROVE r \in dropped' /\ ~phone[r].shared
  <2>1. CASE DeleteLocal(q)
    <3>1. q = r
      BY <2>1 DEF DeleteLocal, Forget
    <3> QED BY <2>1, <3>1 DEF DeleteLocal, Local
  <2>2. CASE StartLocal(q)
    BY <2>2 DEF StartLocal, None, PhoneTypeOK
  <2>3. CASE LocalEvent(q) \/ LocalEnd(q)
    <3>1. phone[q] \in Views
      BY <2>3 DEF LocalEvent, LocalEnd, Local, PhoneTypeOK
    <3>2. \/ phone' = [phone EXCEPT ![q].status = "ended"]
          \/ phone' = [phone EXCEPT ![q].events = Append(@, Len(@) + 1)]
      BY <2>3 DEF LocalEvent, LocalEnd
    <3>3. DOMAIN phone'[q] = DOMAIN phone[q] /\ \A p \in Runs \ {q} : phone'[p] = phone[p]
      BY <3>1, <3>2 DEF PhoneTypeOK
    <3>4. "off" \in DOMAIN phone[q] /\ "off" \notin DOMAIN None
      BY <3>1 DEF Views, None
    <3> QED BY <3>3, <3>4
  <2> QED BY <1>5, <2>1, <2>2, <2>3 DEF LocalRun
<1>6. ASSUME NEW c \in Calls, Answer(c) \/ CallLost(c)
      PROVE  r \in dropped' /\ ~There(r)
  <2>1. CASE Answered(c)
    BY <1>1, <2>1, AnswerFits
  <2>2. CASE DeleteAnswered(c)
    <3>1. calls[c].run = r /\ dropped' = dropped
      BY <2>2 DEF DeleteAnswered, Forget
    <3>2. host[r] # None /\ ~host[r].there
      BY <2>2, <3>1 DEF DeleteAnswered, CallInv, CallOK
    <3> QED BY <3>1, <3>2 DEF ImportInv, There
  <2>3. CASE ~(Answered(c) \/ DeleteAnswered(c))
    <3>1. phone' = phone
      BY <1>6, <2>3
      DEF Answer, HostAnswersGet, HostAnswersEarlier, HostStarts, HostRemoves, CallRefused, CallLost
    <3> QED BY <3>1
  <2> QED BY <2>1, <2>2, <2>3
<1>7. CASE ~(\/ SyncAdopts \/ SyncUploaded \/ Restart \/ \E q \in Runs : LocalRun(q)
             \/ \E c \in Calls : Answer(c) \/ CallLost(c))
  <2>1. Polls \subseteq Calls /\ Touches \subseteq Calls
    BY DEF Calls
  <2>2. phone' = phone
    <3>1. CASE Import \/ HostShares \/ SyncStarts \/ SyncLists \/ SyncPage \/ SyncUploadLost \/ SyncLost
               \/ UNCHANGED phoneVars \/ (\E q \in Runs : SyncUploads(q))
      BY <3>1 DEF Import, ImportSavesRun, ImportAppends, ImportMarks, ImportKnown, HostShares, SyncStarts,
         SyncLists, SyncPage, SyncUploadLost, UploadFails, SyncLost, SyncUploads, phoneVars
    <3>2. ASSUME NEW q \in Runs, HostRun(q) PROVE phone' = phone
      BY <3>2 DEF HostRun, HostAppends, HostEnds, HostContinues, HostDeletes
    <3>3. ASSUME NEW q \in Runs, NEW c \in Calls, GetRun(c, q) \/ Touch(c, q) PROVE phone' = phone
      BY <3>3 DEF Touch, GetRun, LoadEarlierRun, StartRun, DeleteShared
    <3> QED BY <1>7, <2>1, <3>1, <3>2, <3>3 DEF PhoneNext, Sync
  <2> QED BY <2>2
<1> QED
  BY <1>2, <1>3, <1>4, <1>5, <1>6, <1>7

\* A run leaves the phone only when it was deleted: the sync sweeps away no
\* conversation the host still has, when the listing is one page.
THEOREM KeptCorrect ==
  ASSUME ~CutUploads, OnePage
  PROVE  PhoneSpec => RunsAreKept
<1>1. PhoneTypeOK /\ MobileInv /\ [PhoneNext]_phoneVars =>
        [\A r \in Runs : phone[r] # None /\ phone'[r] = None =>
           r \in dropped' /\ (phone[r].shared => ~There(r))]_phoneVars
  BY RunLeaves
<1> QED
  BY <1>1, MobileCorrect, PTL DEF PhoneSpec, RunsAreKept

===============================================================================
