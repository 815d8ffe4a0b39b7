------------------------------- MODULE UserInput ------------------------------
(***************************************************************************)
(* A question of Codex to the people who watch its run: the turn loop that *)
(* owns the question (internal/usecase/agentrun/codex_questions.go), the   *)
(* goroutine that waits for an answer, the table of pending questions, of  *)
(* the desktop (service/desktop/runtime.go) or of the worker that runs the *)
(* agent (service/worker/user_input.go), and the calls that answer it.     *)
(*                                                                         *)
(* Between Codex and the loop are two pipes: what Codex writes waits in    *)
(* reads (the pipe and the reader's buffer) while the loop may take an     *)
(* answer first, and what the loop writes waits for Codex. A question that *)
(* Codex waits on has no acknowledgement, so its caller hears of success   *)
(* when the answer is written (docs/codex-user-input.md:16); an answer     *)
(* that joins the turn is acknowledged. The answer carries a channel for   *)
(* that word, which the loop fills; the table's entry is closed for those  *)
(* whose answer nobody took.                                               *)
(***************************************************************************)
EXTENDS Naturals, Sequences

CONSTANTS
  Calls,  \* calls that answer, of several windows or retried
  None    \* no call

ASSUME InputAssumption == None \notin Calls

VARIABLES
  host,      \* who keeps the table: "desktop" or "worker"
  kind,      \* "blocking": Codex waits; "steer": the answer joins its turn
  turn,      \* "running", "closing", "ended"
  stopped,   \* the run's context has ended
  question,  \* of the turn loop: "none", "pending", "sent", "finished"
  unsaid,    \* the loop has finished the question and not yet published it
  asker,     \* the goroutine that waits for the answer
  answers,   \* answers on their way from it to the loop
  given,     \* the call whose answer the loop took
  table,     \* the entry of the question, 0 for none
  entries,   \* entries made for it: by the sink, then by the asker
  calls,     \* the calls, each with its entry
  told,      \* what was put into the channel an answer carries
  codex,     \* Codex: before its question, asking, done with it, done with the turn
  reads,     \* what Codex wrote and the loop has not read
  reply,     \* the answer the loop wrote: "sent" while Codex has not read it
  agent      \* the call whose answer Codex has

loopVars == <<turn, question, unsaid, given>>
codexVars == <<codex, reads, reply, agent>>
tableVars == <<table, entries>>
vars == <<host, kind, loopVars, codexVars, stopped, asker, answers, tableVars, calls, told>>

Answer == Calls \cup {None}
Outcomes == {"idle", "waiting", "ok", "failed", "unknown"}
Lines == {"request", "resolved", "reply", "ended"}
Entry == [chan : Answer, answered : BOOLEAN, closed : BOOLEAN, own : BOOLEAN]

TypeOK ==
  /\ host \in {"desktop", "worker"} /\ kind \in {"blocking", "steer"}
  /\ turn \in {"running", "closing", "ended"} /\ stopped \in BOOLEAN
  /\ question \in {"none", "pending", "sent", "finished"} /\ unsaid \in BOOLEAN
  /\ asker \in [at : {"none", "entering", "registering", "waiting", "leaving", "returned", "done"},
                entry : 0..2, got : Answer]
  /\ answers \in Seq(Answer) /\ given \in Answer
  /\ table \in 0..Len(entries) /\ entries \in Seq(Entry) /\ Len(entries) <= 2
  /\ calls \in [Calls -> [is : Outcomes, entry : 0..2]]
  /\ told \in [Calls -> {"nothing", "ok", "error"}]
  /\ codex \in {"working", "asking", "closed", "over"} /\ reads \in Seq(Lines)
  /\ reply \in {"none", "sent", "accepted", "rejected", "answered"} /\ agent \in Answer

Init ==
  /\ host \in {"desktop", "worker"} /\ kind \in {"blocking", "steer"}
  /\ turn = "running" /\ stopped = FALSE
  /\ question = "none" /\ unsaid = FALSE
  /\ asker = [at |-> "none", entry |-> 0, got |-> None]
  /\ answers = <<>> /\ given = None
  /\ table = 0 /\ entries = <<>>
  /\ calls = [c \in Calls |-> [is |-> "idle", entry |-> 0]]
  /\ told = [c \in Calls |-> "nothing"]
  /\ codex = "working" /\ reads = <<>> /\ reply = "none" /\ agent = None

-------------------------------------------------------------------------------
Ready == turn = "running" /\ ~unsaid

\* The context the asker was given: finish cancels it, like the run's end.
Withdrawn == stopped \/ question = "finished"

\* A channel for one word, which nobody waits to fill.
Tell(c, word) ==
  told' = IF c = None \/ told[c] # "nothing" THEN told ELSE [told EXCEPT ![c] = word]

Fresh(own) == [chan |-> None, answered |-> FALSE, closed |-> FALSE, own |-> own]

\* registerUserInput; the entry knows the context it was made with.
Register(own) ==
  IF table # 0
  THEN UNCHANGED tableVars
  ELSE entries' = Append(entries, Fresh(own)) /\ table' = Len(entries) + 1

\* Fault: the entry is forgotten, its callers are not told.
ForgetEntry == table' = 0 /\ UNCHANGED entries

\* Whoever waits at the entry of the question is sent away.
CloseEntry ==
  /\ table' = 0
  /\ entries' = IF table = 0 THEN entries ELSE [entries EXCEPT ![table].closed = TRUE]

-------------------------------------------------------------------------------
(***************************************************************************)
(* Codex, as the loop knows it by what it reads.                           *)
(***************************************************************************)
Elsewhere == <<host, kind, loopVars, stopped, asker, answers, tableVars, calls, told>>

CodexAsks ==
  /\ codex = "working"
  /\ codex' = "asking" /\ reads' = Append(reads, "request")
  /\ UNCHANGED <<Elsewhere, reply, agent>>

\* It no longer wants the answer it waited for.
CodexCloses ==
  /\ codex = "asking" /\ kind = "blocking"
  /\ codex' = "closed" /\ reads' = Append(reads, "resolved")
  /\ UNCHANGED <<Elsewhere, reply, agent>>

\* The turn completes or fails, or the process is gone.
CodexEnds ==
  /\ codex # "over"
  /\ codex' = "over" /\ reads' = Append(reads, "ended")
  /\ UNCHANGED <<Elsewhere, reply, agent>>

\* It takes an answer it still waits for, perhaps says so, and drops any other.
CodexReads ==
  /\ reply = "sent" /\ kind = "blocking"
  /\ \/ /\ codex = "asking"
        /\ codex' = "closed" /\ reply' = "accepted" /\ agent' = given
        /\ reads' \in {reads, Append(reads, "resolved")}
     \/ /\ codex \in {"closed", "over"}
        /\ reply' = "rejected"
        /\ UNCHANGED <<codex, reads, agent>>
  /\ UNCHANGED Elsewhere

\* It takes the answer into its turn, or the turn has moved on.
CodexSteers ==
  /\ reply = "sent" /\ kind = "steer"
  /\ \/ codex = "asking" /\ reply' = "accepted" /\ agent' = given
     \/ reply' = "rejected" /\ UNCHANGED agent
  /\ reads' = Append(reads, "reply")
  /\ UNCHANGED <<Elsewhere, codex>>

-------------------------------------------------------------------------------
(***************************************************************************)
(* The turn loop.                                                          *)
(***************************************************************************)
Read(line) ==
  /\ Ready /\ reads # <<>> /\ Head(reads) = line
  /\ reads' = Tail(reads)

\* start: the sink enters the question in the table before the card is shown. A
\* request is refused when the run has stopped.
Ask ==
  /\ Read("request") /\ question = "none"
  /\ IF kind = "blocking" /\ stopped
     THEN UNCHANGED <<question, asker, tableVars>>
     ELSE /\ question' = "pending"
          /\ asker' = [asker EXCEPT !.at = "entering"]
          /\ Register(FALSE)
  /\ UNCHANGED <<host, kind, turn, unsaid, given, codex, reply, agent, stopped, answers, calls, told>>

\* finish, up to the event that publishes it.
Finish(word) ==
  /\ question' = "finished" /\ unsaid' = TRUE
  /\ Tell(given', word)

\* The event passes the host's sink, which closes the entry.
Publish ==
  /\ unsaid /\ unsaid' = FALSE
  /\ CloseEntry
  /\ UNCHANGED <<host, kind, turn, question, given, codexVars, stopped, asker, answers, calls, told>>

\* An answer without text, or that comes when the run has stopped, is a
\* dismissal.
Dismissed(c) == c = None \/ stopped

\* Writing to Codex fails when its process is gone, and ends the turn.
WriteFails == turn' = "closing" /\ Finish("error") /\ UNCHANGED reply

TakeLate ==
  /\ Ready /\ answers # <<>> /\ question = "finished"
  /\ answers' = Tail(answers)
  /\ Tell(Head(answers), "error")
  /\ UNCHANGED <<host, kind, loopVars, codexVars, stopped, asker, tableVars, calls>>

\* The answer is written, whatever reads holds by now; of a dismissal, which is
\* written too, Codex has no call's answer.
TakeBlocking ==
  /\ Ready /\ answers # <<>> /\ question = "pending" /\ kind = "blocking"
  /\ answers' = Tail(answers) /\ given' = Head(answers)
  /\ \/ /\ reply' = IF Dismissed(given') THEN "none" ELSE "sent"
        /\ Finish("ok")
        /\ UNCHANGED turn
     \/ WriteFails
  /\ UNCHANGED <<host, kind, codex, reads, agent, stopped, asker, tableVars, calls>>

\* A dismissed question is only finished; an answer is sent into the turn.
TakeSteer ==
  /\ Ready /\ answers # <<>> /\ question = "pending" /\ kind = "steer"
  /\ answers' = Tail(answers) /\ given' = Head(answers)
  /\ \/ /\ Dismissed(given')
        /\ Finish("ok")
        /\ UNCHANGED <<turn, reply>>
     \/ /\ ~Dismissed(given')
        /\ question' = "sent" /\ reply' = "sent"
        /\ UNCHANGED <<turn, unsaid, told>>
     \/ ~Dismissed(given') /\ WriteFails
  /\ UNCHANGED <<host, kind, codex, reads, agent, stopped, asker, tableVars, calls>>

Ack ==
  /\ Read("reply") /\ question = "sent" /\ reply \in {"accepted", "rejected"}
  /\ reply' = "answered"
  /\ given' = given
  /\ Finish(IF reply = "accepted" THEN "ok" ELSE "error")
  /\ UNCHANGED <<host, kind, turn, codex, agent, stopped, asker, answers, tableVars, calls>>

\* serverRequest/resolved ends a question that is still open.
Withdraw ==
  /\ Read("resolved")
  /\ given' = given
  /\ IF question = "pending"
     THEN Finish("error")
     ELSE UNCHANGED <<question, unsaid, told>>
  /\ UNCHANGED <<host, kind, turn, codex, reply, agent, stopped, asker, answers, tableVars, calls>>

EndTurn ==
  /\ Read("ended")
  /\ turn' = "closing"
  /\ UNCHANGED <<host, kind, question, unsaid, given, codex, reply, agent, stopped, asker, answers,
                 tableVars, calls, told>>

\* The loop sees that the run has stopped, or fails at something else it reads.
LeaveTurn ==
  /\ Ready
  /\ turn' = "closing"
  /\ UNCHANGED <<host, kind, question, unsaid, given, codexVars, stopped, asker, answers, tableVars,
                 calls, told>>

\* close: what is open is finished, then the loop waits for the asker.
CloseOpen ==
  /\ turn = "closing" /\ ~unsaid
  /\ question \in {"pending", "sent"}
  /\ given' = given
  /\ Finish("error")
  /\ UNCHANGED <<host, kind, turn, codexVars, stopped, asker, answers, tableVars, calls>>

\* Fault: the loop does not wait for the asker.
AskerIgnored == TRUE

AskerGone == asker.at \in {"none", "done"}

Drain ==
  /\ turn = "closing" /\ ~unsaid
  /\ question \in {"none", "finished"} /\ AskerGone
  /\ IF answers # <<>>
     THEN Tell(Head(answers), "error") /\ answers' = Tail(answers) /\ UNCHANGED turn
     ELSE turn' = "ended" /\ UNCHANGED <<told, answers>>
  /\ UNCHANGED <<host, kind, question, unsaid, given, codexVars, stopped, asker, tableVars, calls>>

\* untrack: the worker forgets the run and closes what its table still holds.
Untrack ==
  /\ host = "worker" /\ turn = "ended" /\ table # 0
  /\ CloseEntry
  /\ UNCHANGED <<host, kind, loopVars, codexVars, stopped, asker, answers, calls, told>>

\* An interrupt, a timeout, or the end of the program.
Stop ==
  /\ ~stopped /\ turn # "ended"
  /\ stopped' = TRUE
  /\ UNCHANGED <<host, kind, loopVars, codexVars, asker, answers, tableVars, calls, told>>

-------------------------------------------------------------------------------
(***************************************************************************)
(* The asker: awaitUserInput of the host, then its answer to the loop.     *)
(***************************************************************************)
Others == <<host, kind, loopVars, codexVars, stopped, calls>>

Enter ==
  /\ asker.at = "entering"
  /\ asker' = [asker EXCEPT !.at = IF Withdrawn THEN "returned" ELSE "registering"]
  /\ UNCHANGED <<Others, answers, tableVars, told>>

\* Usually finds the sink's entry; makes one if that was closed in between.
AskerRegisters ==
  /\ asker.at = "registering"
  /\ Register(TRUE)
  /\ asker' = [asker EXCEPT !.at = "waiting", !.entry = table']
  /\ UNCHANGED <<Others, answers, told>>

\* The desktop leaves through its deferred function, the worker does not.
Receive ==
  /\ asker.at = "waiting" /\ entries[asker.entry].chan # None
  /\ asker' = [asker EXCEPT !.at = IF host = "desktop" THEN "leaving" ELSE "returned",
                           !.got = entries[asker.entry].chan]
  /\ entries' = [entries EXCEPT ![asker.entry].chan = None]
  /\ UNCHANGED <<Others, answers, table, told>>

GiveUp ==
  /\ asker.at = "waiting" /\ Withdrawn
  /\ asker' = [asker EXCEPT !.at = "leaving"]
  /\ UNCHANGED <<Others, answers, tableVars, told>>

\* The desktop closes the entry the asker waited at, the worker the one that is in
\* the table.
Leave ==
  /\ asker.at = "leaving"
  /\ asker' = [asker EXCEPT !.at = "returned"]
  /\ CASE host = "worker" -> CloseEntry
       [] host = "desktop" /\ Withdrawn ->
            /\ entries' = [entries EXCEPT ![asker.entry].closed = TRUE]
            /\ table' = IF table = asker.entry THEN 0 ELSE table
       [] OTHER -> UNCHANGED tableVars
  /\ UNCHANGED <<Others, answers, told>>

\* Both ways may be open.
Return ==
  /\ asker.at = "returned"
  /\ asker' = [asker EXCEPT !.at = "done"]
  /\ \/ answers' = Append(answers, asker.got) /\ UNCHANGED told
     \/ Withdrawn /\ Tell(asker.got, "error") /\ UNCHANGED answers
  /\ UNCHANGED <<Others, tableVars>>

-------------------------------------------------------------------------------
(***************************************************************************)
(* The calls: ResolveUserInput of the desktop, or respondUserInput of the  *)
(* worker with the desktop's request to it.                                *)
(***************************************************************************)
\* Only the desktop looks at the context the entry was made with.
Gone(e) == IF entries[e].own THEN Withdrawn ELSE stopped

Pending ==
  /\ table # 0
  /\ ~entries[table].answered
  /\ host = "desktop" => ~Gone(table)

Respond(c) ==
  /\ calls[c].is = "idle" /\ question # "none"
  /\ IF Pending
     THEN /\ entries' = [entries EXCEPT ![table].chan = c, ![table].answered = TRUE]
          /\ calls' = [calls EXCEPT ![c] = [is |-> "waiting", entry |-> table]]
     ELSE /\ calls' = [calls EXCEPT ![c].is = "failed"]
          /\ UNCHANGED entries
  /\ UNCHANGED <<host, kind, loopVars, codexVars, stopped, asker, answers, table, told>>

Settle(c, outcome) ==
  /\ calls' = [calls EXCEPT ![c].is = outcome]
  /\ UNCHANGED <<host, kind, loopVars, codexVars, stopped, asker, answers, tableVars, told>>

\* What the loop put into the channel counts, also when the entry is closed.
Hear(c) ==
  /\ calls[c].is = "waiting" /\ told[c] # "nothing"
  /\ Settle(c, IF told[c] = "ok" THEN "ok" ELSE "failed")

\* Fault: a closed entry counts, whatever the channel holds.
SentAwayAnyhow(c) ==
  /\ calls[c].is = "waiting"
  /\ entries[calls[c].entry].closed
  /\ Settle(c, "failed")

SentAway(c) ==
  /\ calls[c].is = "waiting" /\ told[c] = "nothing"
  /\ entries[calls[c].entry].closed
  /\ Settle(c, "failed")

\* The desktop's request to the worker has 15 seconds, and may fail.
GiveUpCall(c) ==
  /\ host = "worker" /\ calls[c].is = "waiting"
  /\ Settle(c, "unknown")

-------------------------------------------------------------------------------
Loop ==
  \/ Ask \/ Withdraw \/ Ack \/ EndTurn
  \/ Publish \/ TakeLate \/ TakeBlocking \/ TakeSteer
  \/ CloseOpen \/ Drain \/ Untrack

Asker == Enter \/ AskerRegisters \/ Receive \/ GiveUp \/ Leave \/ Return

Next ==
  \/ CodexAsks \/ CodexCloses \/ CodexEnds \/ CodexReads \/ CodexSteers
  \/ Loop \/ LeaveTurn \/ Stop \/ Asker
  \/ \E c \in Calls : Respond(c) \/ Hear(c) \/ SentAway(c) \/ GiveUpCall(c)

Spec == Init /\ [][Next]_vars

\* The program's goroutines run, and Codex answers a request to steer its turn.
\* Nobody need answer, and a turn need not end unless the run was stopped.
FairSpec ==
  /\ Spec
  /\ WF_vars(Loop) /\ WF_vars(Asker) /\ WF_vars(CodexSteers)
  /\ WF_vars(stopped /\ LeaveTurn)
  /\ \A c \in Calls : WF_vars(Hear(c) \/ SentAway(c))

-------------------------------------------------------------------------------
\* Codex has the answer, or will find it in the pipe.
Reaches(c) == agent = c \/ (given = c /\ reply = "sent")

\* Codex had closed the question, or its turn, before it read the answer.
Dropped(c) == given = c /\ reply = "rejected" /\ codex \in {"closed", "over"}

Accepted(c) == agent = c \/ (kind = "blocking" /\ (Reaches(c) \/ Dropped(c)))

\* Who hears of success, in a run that is not stopped meanwhile: the answer joined
\* the turn; or, for a question Codex waits on, it was written, and is lost only
\* when Codex closed its question or turn and the loop had not read that yet. Who
\* is refused never reaches Codex, unless an answer sent into the turn was still
\* unacknowledged when the loop left the turn.
WhatIsToldIsTrue ==
  \A c \in Calls :
    /\ calls[c].is = "ok" => stopped \/ Accepted(c)
    /\ calls[c].is = "failed" /\ Reaches(c) => kind = "steer" /\ turn # "running"

\* Not promised of a question Codex waits on: success says that Codex has the
\* answer, or will read it and want it.
SuccessReachesCodex ==
  \A c \in Calls : calls[c].is = "ok" => stopped \/ Reaches(c)

\* A turn that has ended leaves no card to answer, no entry that would take an
\* answer and no goroutine behind.
TurnLeavesNothing ==
  turn = "ended" =>
    /\ asker.at \in {"none", "done"} /\ answers = <<>>
    /\ table # 0 => entries[table].answered
    /\ \A c \in Calls : calls[c].is = "waiting" =>
         told[c] # "nothing" \/ entries[calls[c].entry].closed

(***************************************************************************)
(* Why that is so.                                                         *)
(***************************************************************************)
\* The loop takes one answer, and acts on it before it finishes the question; only
\* an answer sent into a turn that ends is still underway when it is finished. An
\* answer Codex waits on is written in the step that finishes the question.
Underway == reply \in {"sent", "accepted", "rejected"}

LoopInv ==
  /\ unsaid => question = "finished"
  /\ turn = "ended" => question \in {"none", "finished"} /\ ~unsaid
  /\ question \in {"none", "pending"} => given = None /\ agent = None /\ reply = "none"
  /\ question = "sent" => kind = "steer" /\ Underway /\ given # None /\ told[given] = "nothing"
  /\ question = "finished" /\ Underway =>
       /\ given # None
       /\ kind = "steer" => turn # "running" /\ told[given] = "error"
       /\ kind = "blocking" => told[given] = "ok"
  /\ kind = "blocking" /\ reply = "rejected" => codex \in {"closed", "over"}
  /\ reply \in {"none", "sent", "rejected"} => agent = None
  /\ reply = "accepted" => agent = given
  /\ agent \in {None, given}

\* The asker goes its way once and brings one answer, none when it gave up.
AskerInv ==
  /\ asker.at = "none" <=> question = "none"
  /\ asker.at = "none" => entries = <<>>
  /\ asker.at \in {"none", "entering", "registering"} => Len(entries) <= 1 /\ asker.entry = 0
  /\ asker.at \in {"waiting", "leaving"} => asker.entry \in 1..Len(entries)
  /\ asker.at \in {"none", "entering", "registering", "waiting"} => asker.got = None
  /\ asker.at = "leaving" /\ host = "worker" => Withdrawn
  /\ answers # <<>> => asker.at = "done" /\ answers = <<asker.got>> /\ given = None
  /\ given # None => asker.at = "done" /\ given = asker.got /\ answers = <<>>
  /\ asker.at = "done" /\ asker.got # None =>
       \/ answers # <<>> /\ told[asker.got] = "nothing"
       \/ told[asker.got] # "nothing" /\ answers = <<>>
       \/ question = "sent"

\* An entry is closed when the question is withdrawn, and none but the one in the
\* table is open. After the card has gone the table holds only an entry the asker
\* made, until it leaves it.
EntryInv ==
  /\ \A i \in 1..Len(entries) :
       /\ i # table => entries[i].closed
       /\ entries[i].closed => Withdrawn /\ question # "sent"
       /\ entries[i].chan # None =>
            entries[i].answered /\ calls[entries[i].chan].entry = i /\ asker.got # entries[i].chan
  /\ question = "finished" /\ ~unsaid /\ table # 0 =>
       /\ asker.entry = table
       /\ \/ asker.at \in {"waiting", "leaving"}
          \/ host = "worker" /\ asker.at \in {"returned", "done"}
             /\ entries[table].answered /\ entries[table].chan = None

\* The answer of a call is at its entry or has been taken from there; it is told
\* about once, when it is acted on or can no longer be.
CallInv ==
  \A c \in Calls :
    /\ calls[c].entry \in 0..Len(entries)
    /\ calls[c].is = "idle" => calls[c].entry = 0
    /\ calls[c].is = "waiting" => calls[c].entry # 0
    /\ calls[c].entry # 0 => entries[calls[c].entry].chan = c \/ asker.got = c
    /\ asker.got = c => calls[c].entry # 0
    /\ calls[c].is = "failed" /\ calls[c].entry # 0 => Withdrawn
    /\ calls[c].is = "failed" => ~(question = "sent" /\ given = c)
    /\ told[c] # "nothing" => asker.at = "done" /\ asker.got = c /\ Withdrawn
    /\ told[c] = "ok" => question = "finished" /\ given = c /\ (stopped \/ Accepted(c))
    /\ told[c] = "error" /\ Reaches(c) => kind = "steer" /\ turn # "running"
    /\ question = "finished" /\ given = c => told[c] # "nothing"

QuestionInv == LoopInv /\ AskerInv /\ EntryInv /\ CallInv /\ WhatIsToldIsTrue /\ TurnLeavesNothing

\* Every answer gets a reply, whatever becomes of the question: the calls wait
\* without a timeout of their own.
CallsReturn == \A c \in Calls : calls[c].is = "waiting" ~> calls[c].is # "waiting"
===============================================================================
