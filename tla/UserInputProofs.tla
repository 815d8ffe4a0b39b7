--------------------------- MODULE UserInputProofs ----------------------------
(***************************************************************************)
(* Whatever order the answers, the withdrawal of the question, the end of  *)
(* the turn and the loss of the process come in: callers are told what     *)
(* became of their answer, and a turn that has ended leaves nothing        *)
(* behind. For any number of calls, on the desktop and on a worker.        *)
(*                                                                         *)
(* The argument follows the one answer the asker brings. It is at its      *)
(* entry, with the asker, on its way to the loop, or with the loop; the    *)
(* caller is told about it once. An entry is closed only for a question    *)
(* that is withdrawn, and the loop writes Codex no answer then, so whom a  *)
(* closed entry sends away was not heard. What is written waits for Codex, *)
(* which may be past its question: then the answer is dropped there. Once  *)
(* the card is gone the table holds an entry only for the asker, which     *)
(* leaves it.                                                              *)
(***************************************************************************)
EXTENDS UserInput, TLAPS

\* Entries are replaced in place.
LEMMA EntryReplaced ==
  ASSUME NEW s \in Seq(Entry), NEW i \in 1..Len(s), NEW e \in Entry
  PROVE  [s EXCEPT ![i] = e] \in Seq(Entry) /\ Len([s EXCEPT ![i] = e]) = Len(s)
  OBVIOUS

LEMMA EntryKept ==
  ASSUME TypeOK, NEW i \in 1..Len(entries)
  PROVE  /\ entries[i].chan \in Answer
         /\ [entries[i] EXCEPT !.closed = TRUE] \in Entry
         /\ [entries[i] EXCEPT !.chan = None] \in Entry
         /\ \A c \in Calls : [entries[i] EXCEPT !.chan = c, !.answered = TRUE] \in Entry
<1>1. entries[i] \in Entry
  BY DEF TypeOK
<1> QED
  BY <1>1 DEF Entry, Answer

\* What the table points at is an entry.
LEMMA TableEntry ==
  ASSUME TypeOK, table # 0
  PROVE  table \in 1..Len(entries)
<1>1. Len(entries) \in Nat /\ table \in 0..Len(entries)
  BY DEF TypeOK
<1> QED
  BY <1>1

\* Of an entry that is closed, or takes a call's answer, nothing else changes.
LEMMA ClosedAt ==
  ASSUME TypeOK, NEW k \in 1..Len(entries), entries' = [entries EXCEPT ![k].closed = TRUE]
  PROVE  /\ Len(entries') = Len(entries)
         /\ \A i \in 1..Len(entries) : entries'[i].chan = entries[i].chan
         /\ \A i \in 1..Len(entries) : entries'[i].answered = entries[i].answered
         /\ entries'[k].closed
         /\ \A i \in 1..Len(entries) : i # k => entries'[i] = entries[i]
<1>1. \A i \in 1..Len(entries) : entries[i] \in Entry
  BY DEF TypeOK
<1> QED
  BY <1>1 DEF TypeOK, Entry

LEMMA AnsweredAt ==
  ASSUME TypeOK, NEW k \in 1..Len(entries), NEW c,
         entries' = [entries EXCEPT ![k].chan = c, ![k].answered = TRUE]
  PROVE  /\ Len(entries') = Len(entries)
         /\ entries'[k].chan = c
         /\ entries'[k].answered
         /\ entries'[k].closed = entries[k].closed
         /\ \A i \in 1..Len(entries) : i # k => entries'[i] = entries[i]
<1>1. \A i \in 1..Len(entries) : entries[i] \in Entry
  BY DEF TypeOK
<1> QED
  BY <1>1 DEF TypeOK, Entry

LEMMA EntriesClosed ==
  ASSUME TypeOK, CloseEntry
  PROVE  table' = 0 /\ entries' \in Seq(Entry) /\ Len(entries') = Len(entries)
<1>1. CASE table = 0
  BY <1>1 DEF CloseEntry, TypeOK
<1>2. CASE table # 0
  <2>1. table \in 1..Len(entries) /\ [entries[table] EXCEPT !.closed = TRUE] \in Entry
    BY <1>2, TableEntry, EntryKept
  <2>2. entries' = [entries EXCEPT ![table] = [entries[table] EXCEPT !.closed = TRUE]]
    BY <1>2 DEF CloseEntry
  <2> QED
    BY <2>1, <2>2, EntryReplaced DEF CloseEntry, TypeOK
<1> QED
  BY <1>1, <1>2

LEMMA EntryRegistered ==
  ASSUME TypeOK, Len(entries) <= 1, NEW own \in BOOLEAN, Register(own)
  PROVE  table' \in 1..Len(entries') /\ entries' \in Seq(Entry) /\ Len(entries') <= 2
<1>1. Fresh(own) \in Entry
  BY DEF Fresh, Entry, Answer
<1>2. CASE table = 0
  <2>1. entries \in Seq(Entry) /\ Len(entries) \in Nat
    BY DEF TypeOK
  <2>2. entries' = Append(entries, Fresh(own)) /\ table' = Len(entries) + 1
    BY <1>2 DEF Register
  <2> QED
    BY <1>1, <2>1, <2>2
<1>3. CASE table # 0
  BY <1>3 DEF Register, TypeOK, tableVars
<1> QED
  BY <1>2, <1>3

\* Every step keeps the types.
LEMMA TypeStep == TypeOK /\ AskerInv /\ [Next]_vars => TypeOK'
<1> SUFFICES ASSUME TypeOK, AskerInv, Next PROVE TypeOK'
  BY DEF TypeOK, vars, loopVars, codexVars, tableVars
<1> USE InputAssumption DEF TypeOK, AskerInv, Entry, Answer, Outcomes, Lines, loopVars, codexVars, tableVars,
       Others, Elsewhere
<1>1. CASE Ask
  <2>0. reads' \in Seq(Lines)
    BY <1>1 DEF Ask, Read
  <2>1. Len(entries) <= 1
    BY <1>1 DEF Ask
  <2>2. table' \in 0..Len(entries') /\ entries' \in Seq(Entry) /\ Len(entries') <= 2
    <3>1. CASE Register(FALSE)
      <4>1. table' \in 1..Len(entries') /\ entries' \in Seq(Entry) /\ Len(entries') <= 2
        BY <2>1, <3>1, EntryRegistered
      <4> QED
        BY <4>1
    <3>2. CASE UNCHANGED tableVars
      BY <3>2
    <3> QED
      BY <1>1, <3>1, <3>2 DEF Ask
  <2>3. /\ question' \in {"none", "pending", "sent", "finished"}
        /\ asker' \in [at : {"none", "entering", "registering", "waiting", "leaving", "returned", "done"},
                       entry : 0..2, got : Answer]
    BY <1>1 DEF Ask
  <2>4. UNCHANGED <<host, kind, turn, unsaid, given, codex, reply, agent, stopped, answers, calls, told>>
    BY <1>1 DEF Ask
  <2> HIDE DEF Entry
  <2> QED
    BY <2>0, <2>2, <2>3, <2>4
<1>2. CASE Publish
  <2>1. table' = 0 /\ entries' \in Seq(Entry) /\ Len(entries') = Len(entries)
    BY <1>2, EntriesClosed DEF Publish
  <2>2. table' \in 0..Len(entries') /\ Len(entries') <= 2
    BY <2>1
  <2>3. unsaid' \in BOOLEAN
    BY <1>2 DEF Publish
  <2>4. UNCHANGED <<host, kind, turn, question, given, codexVars, stopped, asker, answers, calls, told>>
    BY <1>2 DEF Publish
  <2> HIDE DEF Entry
  <2> QED
    BY <2>1, <2>2, <2>3, <2>4
<1>3. CASE TakeLate
  BY <1>3 DEF TakeLate, Ready, Tell
<1>4. CASE TakeBlocking
  <2>1. Head(answers) \in Answer /\ Tail(answers) \in Seq(Answer)
    BY <1>4 DEF TakeBlocking
  <2>2. told' \in [Calls -> {"nothing", "ok", "error"}]
    BY <1>4, <2>1 DEF TakeBlocking, Finish, WriteFails, Tell
  <2> QED
    BY <1>4, <2>1, <2>2 DEF TakeBlocking, Finish, WriteFails
<1>5. CASE TakeSteer
  <2>1. Head(answers) \in Answer /\ Tail(answers) \in Seq(Answer)
    BY <1>5 DEF TakeSteer
  <2>2. told' \in [Calls -> {"nothing", "ok", "error"}]
    BY <1>5, <2>1 DEF TakeSteer, Finish, WriteFails, Tell
  <2>3. /\ turn' \in {"running", "closing", "ended"}
        /\ question' \in {"none", "pending", "sent", "finished"} /\ unsaid' \in BOOLEAN
        /\ reply' \in {"none", "sent", "accepted", "rejected", "answered"}
    BY <1>5 DEF TakeSteer, Finish, WriteFails
  <2>4. /\ answers' = Tail(answers) /\ given' = Head(answers)
        /\ UNCHANGED <<host, kind, codex, reads, agent, stopped, asker, tableVars, calls>>
    BY <1>5 DEF TakeSteer
  <2> HIDE DEF Entry
  <2> QED
    BY <2>1, <2>2, <2>3, <2>4
<1>6. CASE CodexSteers
  BY <1>6 DEF CodexSteers
<1>7. CASE Ack
  BY <1>7 DEF Ack, Read, Ready, Finish, Tell
<1>8. CASE Withdraw
  <2>1. /\ question' \in {"none", "pending", "sent", "finished"} /\ unsaid' \in BOOLEAN
        /\ told' \in [Calls -> {"nothing", "ok", "error"}]
    BY <1>8 DEF Withdraw, Finish, Tell
  <2>2. reads' \in Seq(Lines)
    BY <1>8 DEF Withdraw, Read
  <2>3. UNCHANGED <<host, kind, turn, given, codex, reply, agent, stopped, asker, answers, tableVars, calls>>
    BY <1>8 DEF Withdraw
  <2> HIDE DEF Entry
  <2> QED
    BY <2>1, <2>2, <2>3
<1>9. CASE EndTurn
  BY <1>9 DEF EndTurn, Read, Ready
<1>10. CASE CloseOpen
  BY <1>10 DEF CloseOpen, Finish, Tell
<1>11. CASE Drain
  BY <1>11 DEF Drain, AskerGone, Tell
<1>12. CASE Untrack
  BY <1>12, EntriesClosed DEF Untrack
<1>13. CASE Stop
  BY <1>13 DEF Stop
<1>14. CASE Enter
  BY <1>14 DEF Enter
<1>15. CASE AskerRegisters
  <2>1. Len(entries) <= 1
    BY <1>15 DEF AskerRegisters
  <2>2. table' \in 1..Len(entries') /\ entries' \in Seq(Entry) /\ Len(entries') <= 2
    BY <1>15, <2>1, EntryRegistered DEF AskerRegisters
  <2>3. Len(entries') \in Nat
    BY <2>2
  <2>4. table' \in 0..Len(entries') /\ table' \in 0..2
    BY <2>2, <2>3
  <2>5. asker' \in [at : {"none", "entering", "registering", "waiting", "leaving", "returned", "done"},
                    entry : 0..2, got : Answer]
    BY <1>15, <2>4 DEF AskerRegisters
  <2>6. UNCHANGED <<host, kind, loopVars, codexVars, stopped, calls, answers, told>>
    BY <1>15 DEF AskerRegisters
  <2> HIDE DEF Entry
  <2> QED
    BY <2>2, <2>4, <2>5, <2>6
<1>16. CASE Receive
  <2>1. asker.entry \in 1..Len(entries)
    BY <1>16 DEF Receive
  <2>2. [entries[asker.entry] EXCEPT !.chan = None] \in Entry /\ entries[asker.entry].chan \in Answer
    BY <2>1, EntryKept
  <2>3. entries' = [entries EXCEPT ![asker.entry] = [entries[asker.entry] EXCEPT !.chan = None]]
    BY <1>16 DEF Receive
  <2>4. entries' \in Seq(Entry) /\ Len(entries') = Len(entries)
    BY <2>1, <2>2, <2>3, EntryReplaced
  <2> QED
    <3>1. asker' \in [at : {"none", "entering", "registering", "waiting", "leaving", "returned", "done"},
                      entry : 0..2, got : Answer]
      BY <1>16, <2>2 DEF Receive
    <3> HIDE DEF Entry
    <3> QED
      BY <1>16, <2>4, <3>1 DEF Receive
<1>17. CASE GiveUp
  BY <1>17 DEF GiveUp
<1>18. CASE Leave
  <2>1. entries' \in Seq(Entry) /\ Len(entries') = Len(entries) /\ table' \in 0..Len(entries)
    <3>1. CASE host = "worker"
      BY <1>18, <3>1, EntriesClosed DEF Leave
    <3>2. CASE host = "desktop" /\ Withdrawn
      <4>0. asker.entry \in 1..Len(entries)
        BY <1>18 DEF Leave
      <4>1. [entries[asker.entry] EXCEPT !.closed = TRUE] \in Entry
        BY <4>0, EntryKept
      <4>2. entries' = [entries EXCEPT ![asker.entry] = [entries[asker.entry] EXCEPT !.closed = TRUE]]
        BY <1>18, <3>2 DEF Leave
      <4>3. entries' \in Seq(Entry) /\ Len(entries') = Len(entries)
        BY <4>0, <4>1, <4>2, EntryReplaced
      <4> QED
        BY <1>18, <3>2, <4>3 DEF Leave
    <3>3. CASE host = "desktop" /\ ~Withdrawn
      BY <1>18, <3>3 DEF Leave
    <3> QED
      BY <3>1, <3>2, <3>3
  <2>2. asker' \in [at : {"none", "entering", "registering", "waiting", "leaving", "returned", "done"},
                    entry : 0..2, got : Answer]
    BY <1>18 DEF Leave
  <2>3. UNCHANGED <<host, kind, loopVars, codexVars, stopped, calls, answers, told>>
    BY <1>18 DEF Leave
  <2> HIDE DEF Entry
  <2> QED
    BY <2>1, <2>2, <2>3
<1>19. CASE Return
  <2>1. asker' \in [at : {"none", "entering", "registering", "waiting", "leaving", "returned", "done"},
                    entry : 0..2, got : Answer]
    BY <1>19 DEF Return
  <2>2. asker.got \in Answer
    OBVIOUS
  <2>3. answers' \in Seq(Answer) /\ told' \in [Calls -> {"nothing", "ok", "error"}]
    <3>1. CASE answers' = Append(answers, asker.got) /\ UNCHANGED told
      BY <2>2, <3>1
    <3>2. CASE Withdrawn /\ Tell(asker.got, "error") /\ UNCHANGED answers
      BY <2>2, <3>2 DEF Tell
    <3> QED
      BY <1>19, <3>1, <3>2 DEF Return
  <2>4. UNCHANGED <<host, kind, loopVars, codexVars, stopped, calls, tableVars>>
    BY <1>19 DEF Return
  <2> HIDE DEF Entry
  <2> QED
    BY <2>1, <2>3, <2>4
<1>20. ASSUME NEW c \in Calls, Respond(c) PROVE TypeOK'
  <2>1. CASE Pending
    <3>1. table \in 1..Len(entries) /\ [entries[table] EXCEPT !.chan = c, !.answered = TRUE] \in Entry
      BY <2>1, TableEntry, EntryKept DEF Pending
    <3>2. entries' = [entries EXCEPT ![table] = [entries[table] EXCEPT !.chan = c, !.answered = TRUE]]
      BY <1>20, <2>1 DEF Respond
    <3>3. entries' \in Seq(Entry) /\ Len(entries') = Len(entries)
      BY <3>1, <3>2, EntryReplaced
    <3> QED
      BY <1>20, <2>1, <3>1, <3>3 DEF Respond
  <2>2. CASE ~Pending
    <3>1. calls' = [calls EXCEPT ![c] = [calls[c] EXCEPT !.is = "failed"]] /\ UNCHANGED entries
      BY <1>20, <2>2 DEF Respond
    <3>2. calls' \in [Calls -> [is : Outcomes, entry : 0..2]]
      BY <3>1
    <3> QED
      BY <1>20, <3>1, <3>2 DEF Respond
  <2> QED
    BY <2>1, <2>2
<1>21. ASSUME NEW c \in Calls, Hear(c) PROVE TypeOK'
  BY <1>21 DEF Hear, Settle
<1>22. ASSUME NEW c \in Calls, SentAway(c) PROVE TypeOK'
  BY <1>22 DEF SentAway, Settle
<1>23. ASSUME NEW c \in Calls, GiveUpCall(c) PROVE TypeOK'
  BY <1>23 DEF GiveUpCall, Settle
<1>24. CASE CodexAsks
  BY <1>24 DEF CodexAsks
<1>25. CASE CodexCloses
  BY <1>25 DEF CodexCloses
<1>26. CASE CodexEnds
  BY <1>26 DEF CodexEnds
<1>27. CASE CodexReads
  <2>1. reads' \in Seq(Lines)
    <3>1. reads' = reads \/ reads' = Append(reads, "resolved")
      BY <1>27 DEF CodexReads
    <3>2. reads \in Seq(Lines) /\ "resolved" \in Lines
      OBVIOUS
    <3> HIDE DEF TypeOK, AskerInv, Lines
    <3> QED
      BY <3>1, <3>2
  <2>2. /\ codex' \in {"working", "asking", "closed", "over"}
        /\ reply' \in {"none", "sent", "accepted", "rejected", "answered"} /\ agent' \in Answer
    BY <1>27 DEF CodexReads
  <2>3. UNCHANGED Elsewhere
    BY <1>27 DEF CodexReads
  <2> HIDE DEF Entry
  <2> QED
    BY <2>1, <2>2, <2>3
<1>28. CASE LeaveTurn
  BY <1>28 DEF LeaveTurn
<1> QED
  BY <1>1, <1>2, <1>3, <1>4, <1>5, <1>6, <1>7, <1>8, <1>9, <1>10, <1>11, <1>12, <1>13, <1>14, <1>15, <1>16,
     <1>17, <1>18, <1>19, <1>20, <1>21, <1>22, <1>23, <1>24, <1>25, <1>26, <1>27, <1>28
  DEF Next, Loop, Asker

LEMMA QuestionInit == Init => TypeOK /\ QuestionInv
<1> SUFFICES ASSUME Init PROVE TypeOK /\ QuestionInv
  OBVIOUS
<1> USE InputAssumption DEF Init, Answer
<1>1. Len(entries) = 0 /\ 1..Len(entries) = {}
  OBVIOUS
<1>2. TypeOK
  <2>1. /\ asker \in [at : {"none", "entering", "registering", "waiting", "leaving", "returned", "done"},
                    entry : 0..2, got : Answer]
        /\ calls \in [Calls -> [is : Outcomes, entry : 0..2]]
        /\ told \in [Calls -> {"nothing", "ok", "error"}]
    BY DEF Outcomes
  <2>2. /\ answers \in Seq(Answer) /\ reads \in Seq(Lines) /\ entries \in Seq(Entry)
        /\ table \in 0..Len(entries) /\ Len(entries) <= 2
    BY <1>1
  <2> HIDE DEF Answer
  <2>3. given \in Answer /\ agent \in Answer
    BY DEF Answer
  <2> QED
    BY <2>1, <2>2, <2>3 DEF TypeOK
<1>3. LoopInv /\ AskerInv
  BY <1>1 DEF LoopInv, AskerInv, Underway, Withdrawn, Reaches
<1>4. EntryInv /\ CallInv
  BY <1>1 DEF EntryInv, CallInv, Underway, Withdrawn, Reaches, Accepted, Dropped
<1>5. WhatIsToldIsTrue /\ TurnLeavesNothing
  BY DEF WhatIsToldIsTrue, TurnLeavesNothing, Reaches, Accepted
<1> QED
  BY <1>2, <1>3, <1>4, <1>5 DEF QuestionInv

-------------------------------------------------------------------------------
\* The invariant holds over every step of the loop, of the asker, of the calls and
\* of Codex.
LEMMA QuestionStep == TypeOK /\ QuestionInv /\ Next => QuestionInv'
<1> SUFFICES ASSUME TypeOK, QuestionInv, Next PROVE QuestionInv'
  OBVIOUS
<1> USE InputAssumption DEF TypeOK, QuestionInv, LoopInv, AskerInv, EntryInv, CallInv, WhatIsToldIsTrue,
       TurnLeavesNothing, Underway, Reaches, Dropped, Accepted, Withdrawn, Entry, Answer, Outcomes, loopVars,
       codexVars, tableVars, Others, Elsewhere
<1>1. CASE Ask
  <2>1. CASE UNCHANGED <<question, asker, tableVars>>
    BY <1>1, <2>1 DEF Ask
  <2>2. CASE question' = "pending" /\ asker' = [asker EXCEPT !.at = "entering"] /\ Register(FALSE)
    <3>a. question = "none" /\ entries = <<>> /\ table = 0 /\ asker.at = "none"
      BY <1>1 DEF Ask
    <3>b. entries' = <<Fresh(FALSE)>> /\ table' = 1
      <4>1. entries' = Append(entries, Fresh(FALSE)) /\ table' = Len(entries) + 1
        BY <2>2, <3>a DEF Register
      <4> HIDE DEF TypeOK, LoopInv, AskerInv, EntryInv, CallInv, WhatIsToldIsTrue, TurnLeavesNothing
      <4> QED
        BY <3>a, <4>1
    <3>c. UNCHANGED <<host, kind, turn, unsaid, given, codex, reply, agent, stopped, answers, calls, told>>
      BY <1>1 DEF Ask
    <3>d. Len(entries') = 1 /\ entries'[1] = Fresh(FALSE) /\ 1..Len(entries') = {1}
      BY <3>b
    <3>e. \A c \in Calls : calls[c].entry = 0 /\ told[c] = "nothing" /\ asker.got # c
      <4>1. Len(entries) = 0 /\ asker.got = None
        BY <3>a
      <4>2. \A c \in Calls : calls[c].entry \in 0..Len(entries)
        BY DEF CallInv
      <4>3. \A c \in Calls : told[c] # "nothing" => asker.at = "done"
        BY DEF CallInv
      <4> HIDE DEF TypeOK, LoopInv, AskerInv, EntryInv, CallInv, WhatIsToldIsTrue, TurnLeavesNothing
      <4>4. ASSUME NEW c \in Calls PROVE calls[c].entry = 0
        <5>1. calls[c].entry \in 0..Len(entries)
          BY <4>2
        <5>2. 0..Len(entries) = {0}
          BY <4>1
        <5> QED
          BY <5>1, <5>2
      <4> QED
        BY <3>a, <4>1, <4>3, <4>4
    <3>1. LoopInv'
      <4>1. turn = "running" /\ ~unsaid
        BY <1>1 DEF Ask, Read, Ready
      <4> HIDE DEF TypeOK, AskerInv, EntryInv, CallInv, WhatIsToldIsTrue, TurnLeavesNothing
      <4> QED
        BY <2>2, <3>a, <3>c, <4>1
    <3>2. AskerInv'
      <4>1. /\ asker'.at = "entering" /\ asker'.entry = asker.entry /\ asker'.got = asker.got
            /\ asker.entry = 0 /\ asker.got = None /\ answers = <<>> /\ given = None
        BY <2>2, <3>a
      <4> HIDE DEF TypeOK, LoopInv, EntryInv, CallInv, WhatIsToldIsTrue, TurnLeavesNothing
      <4> QED
        BY <2>2, <3>a, <3>c, <3>d, <4>1
    <3>3. EntryInv'
      BY <2>2, <3>a, <3>b, <3>c, <3>d DEF Fresh
    <3>4. CallInv'
      BY <2>2, <3>a, <3>c, <3>d, <3>e
    <3>5. WhatIsToldIsTrue'
      BY <3>c
    <3>6. TurnLeavesNothing'
      BY <2>2, <3>a, <3>c, <3>e, <1>1 DEF Ask, Read, Ready
    <3> QED
      BY <3>1, <3>2, <3>3, <3>4, <3>5, <3>6
  <2> QED
    BY <1>1, <2>1, <2>2 DEF Ask
<1>2. CASE Publish
  BY <1>2 DEF Publish, CloseEntry
<1>3. CASE TakeLate
  BY <1>3 DEF TakeLate, Ready, Tell
<1>4. CASE TakeBlocking
  <2>a. /\ Ready /\ question = "pending" /\ kind = "blocking" /\ given = None /\ agent = None /\ reply = "none"
        /\ answers = <<asker.got>> /\ asker.at = "done" /\ given' = asker.got /\ answers' = <<>>
        /\ question' = "finished" /\ unsaid' = TRUE
        /\ UNCHANGED <<host, kind, codex, reads, agent, stopped, asker, tableVars, calls>>
    BY <1>4 DEF TakeBlocking, Finish, WriteFails
  <2>b. \/ /\ Tell(given', "ok") /\ turn' = turn
           /\ reply' = IF Dismissed(given') THEN "none" ELSE "sent"
        \/ Tell(given', "error") /\ turn' = "closing" /\ reply' = reply
    BY <1>4 DEF TakeBlocking, Finish, WriteFails
  <2>c. /\ \A c \in Calls : c # asker.got => told'[c] = told[c]
        /\ \A c \in Calls : c # asker.got => told[c] = "nothing"
        /\ asker.got # None => told[asker.got] = "nothing" /\ told'[asker.got] \in {"ok", "error"}
    BY <2>a, <2>b DEF Tell
  <2>1. LoopInv'
    BY <2>a, <2>b DEF Ready, Tell, Dismissed
  <2>2. AskerInv'
    BY <2>a, <2>c
  <2>3. EntryInv'
    BY <2>a
  <2>4. CallInv'
    BY <2>a, <2>b, <2>c DEF Ready, Tell, Dismissed
  <2>5. WhatIsToldIsTrue'
    BY <2>a, <2>b, <2>c DEF Ready, Tell, Dismissed
  <2>6. TurnLeavesNothing'
    BY <2>a, <2>b, <2>c DEF Ready
  <2> QED
    BY <2>1, <2>2, <2>3, <2>4, <2>5, <2>6
<1>5. CASE TakeSteer
  <2>1. LoopInv'
    BY <1>5 DEF TakeSteer, Ready, Tell, Finish, WriteFails, Dismissed
  <2>2. AskerInv'
    BY <1>5 DEF TakeSteer, Ready, Tell, Finish, WriteFails, Dismissed
  <2>3. EntryInv'
    BY <1>5 DEF TakeSteer, Ready, Tell, Finish, WriteFails, Dismissed
  <2>4. CallInv'
    BY <1>5 DEF TakeSteer, Ready, Tell, Finish, WriteFails, Dismissed
  <2>5. WhatIsToldIsTrue'
    BY <1>5 DEF TakeSteer, Ready, Tell, Finish, WriteFails, Dismissed
  <2>6. TurnLeavesNothing'
    BY <1>5 DEF TakeSteer, Ready, Tell, Finish, WriteFails, Dismissed
  <2> QED
    BY <2>1, <2>2, <2>3, <2>4, <2>5, <2>6
<1>6. CASE CodexSteers
  BY <1>6 DEF CodexSteers
<1>7. CASE Ack
  BY <1>7 DEF Ack, Read, Ready, Finish, Tell
<1>8. CASE Withdraw
  BY <1>8 DEF Withdraw, Read, Ready, Finish, Tell
<1>9. CASE EndTurn
  BY <1>9 DEF EndTurn, Read, Ready
<1>10. CASE CloseOpen
  BY <1>10 DEF CloseOpen, Finish, Tell
<1>11. CASE Drain
  BY <1>11 DEF Drain, AskerGone, Tell
<1>12. CASE Untrack
  BY <1>12 DEF Untrack, CloseEntry
<1>13. CASE Stop
  BY <1>13 DEF Stop
<1>14. CASE Enter
  BY <1>14 DEF Enter
<1>15. CASE AskerRegisters
  BY <1>15 DEF AskerRegisters, Register, Fresh
<1>16. CASE Receive
  BY <1>16 DEF Receive
<1>17. CASE GiveUp
  BY <1>17 DEF GiveUp
<1>18. CASE Leave
  <2>a. \E k \in 0..Len(entries) :
         /\ Withdrawn \/ k = 0
         /\ Withdrawn => k \in {table, asker.entry}
         /\ table' = IF table = k THEN 0 ELSE table
         /\ Len(entries') = Len(entries)
         /\ \A i \in 1..Len(entries) : entries'[i].chan = entries[i].chan
         /\ \A i \in 1..Len(entries) : entries'[i].answered = entries[i].answered
         /\ k # 0 => entries'[k].closed
         /\ \A i \in 1..Len(entries) : i # k => entries'[i] = entries[i]
    <3>1. CASE host = "worker" /\ table = 0
      <4>1. table' = 0 /\ entries' = entries
        BY <1>18, <3>1 DEF Leave, CloseEntry
      <4>2. Withdrawn /\ 0 \in 0..Len(entries)
        BY <1>18, <3>1 DEF Leave
      <4> QED
        BY <3>1, <4>1, <4>2
    <3>2. CASE host = "worker" /\ table # 0
      <4>1. table' = 0 /\ entries' = [entries EXCEPT ![table].closed = TRUE]
        BY <1>18, <3>2 DEF Leave, CloseEntry
      <4>2. Withdrawn /\ table \in 1..Len(entries)
        BY <1>18, <3>2, TableEntry DEF Leave
      <4> HIDE DEF TypeOK, EntryInv, CallInv, AskerInv, LoopInv, Withdrawn
      <4> QED
        BY <4>1, <4>2, ClosedAt
    <3>3. CASE host = "desktop" /\ Withdrawn
      <4>1. entries' = [entries EXCEPT ![asker.entry].closed = TRUE]
            /\ table' = IF table = asker.entry THEN 0 ELSE table
        BY <1>18, <3>3 DEF Leave
      <4>2. asker.entry \in 1..Len(entries)
        BY <1>18 DEF Leave
      <4> HIDE DEF TypeOK, EntryInv, CallInv, AskerInv, LoopInv, Withdrawn
      <4> QED
        BY <3>3, <4>1, <4>2, ClosedAt
    <3>4. CASE host = "desktop" /\ ~Withdrawn
      <4>1. UNCHANGED tableVars /\ 0 \in 0..Len(entries)
        BY <1>18, <3>4 DEF Leave
      <4> QED
        BY <3>4, <4>1 DEF tableVars
    <3> QED
      BY <3>1, <3>2, <3>3, <3>4
  <2>b. /\ asker.at = "leaving" /\ given = None /\ question # "sent"
        /\ asker' = [asker EXCEPT !.at = "returned"]
        /\ UNCHANGED <<host, kind, loopVars, codexVars, stopped, calls, answers, told>>
    BY <1>18 DEF Leave
  <2>1. LoopInv'
    BY <1>18 DEF Leave, CloseEntry
  <2>2. AskerInv'
    BY <1>18 DEF Leave, CloseEntry
  <2>3. EntryInv'
    <3>1. PICK k \in 0..Len(entries) :
         /\ Withdrawn \/ k = 0
         /\ Withdrawn => k \in {table, asker.entry}
         /\ table' = IF table = k THEN 0 ELSE table
         /\ Len(entries') = Len(entries)
         /\ \A i \in 1..Len(entries) : entries'[i].chan = entries[i].chan
         /\ \A i \in 1..Len(entries) : entries'[i].answered = entries[i].answered
         /\ k # 0 => entries'[k].closed
         /\ \A i \in 1..Len(entries) : i # k => entries'[i] = entries[i]
      BY <2>a
    <3>2. /\ asker'.at = "returned" /\ asker'.entry = asker.entry /\ asker'.got = asker.got
          /\ Withdrawn' <=> Withdrawn
      BY <2>b
    <3>3. EntryInv /\ (host = "worker" => Withdrawn)
      BY <2>b
    <3>4. question = "finished" /\ ~unsaid /\ table' # 0 => FALSE
      <4>1. question = "finished" /\ ~unsaid /\ table # 0 => asker.entry = table /\ Withdrawn
        BY <3>3
      <4>2. question = "finished" /\ ~unsaid /\ table # 0 => k = table
        BY <3>1, <4>1
      <4> HIDE DEF TypeOK, LoopInv, AskerInv, EntryInv, CallInv, Withdrawn, WhatIsToldIsTrue, TurnLeavesNothing
      <4> QED
        BY <3>1, <4>2
    <3> HIDE DEF TypeOK, LoopInv, AskerInv, CallInv, WhatIsToldIsTrue, TurnLeavesNothing, Withdrawn
    <3> QED
      BY <2>b, <3>1, <3>2, <3>3, <3>4
  <2>4. CallInv'
    BY <2>a, <2>b
  <2>5. WhatIsToldIsTrue'
    BY <1>18 DEF Leave, CloseEntry
  <2>6. TurnLeavesNothing'
    BY <1>18 DEF Leave, CloseEntry
  <2> QED
    BY <2>1, <2>2, <2>3, <2>4, <2>5, <2>6
<1>19. CASE Return
  <2>1. LoopInv'
    BY <1>19 DEF Return, Tell
  <2>2. AskerInv'
    <3>1. asker.got # None => answers = <<>> /\ given = None
      BY <1>19 DEF Return
    <3>2. CASE answers' = Append(answers, asker.got) /\ UNCHANGED told
      <4>1. answers = <<>> /\ given = None
        BY <1>19 DEF Return
      <4>2. answers' = <<asker.got>>
        BY <3>2, <4>1
      <4>3. asker.got # None => told[asker.got] = "nothing"
        BY <1>19 DEF Return
      <4> QED
        BY <1>19, <3>2, <4>1, <4>2, <4>3 DEF Return
    <3>3. CASE Withdrawn /\ Tell(asker.got, "error") /\ UNCHANGED answers
      BY <1>19, <3>3 DEF Return, Tell
    <3> QED
      BY <1>19, <3>2, <3>3 DEF Return
  <2>3. EntryInv'
    BY <1>19 DEF Return, Tell
  <2>4. CallInv'
    BY <1>19 DEF Return, Tell
  <2>5. WhatIsToldIsTrue'
    BY <1>19 DEF Return, Tell
  <2>6. TurnLeavesNothing'
    BY <1>19 DEF Return, Tell
  <2> QED
    BY <2>1, <2>2, <2>3, <2>4, <2>5, <2>6
<1>20. ASSUME NEW c \in Calls, Respond(c) PROVE QuestionInv'
  <2>a. /\ calls[c].entry = 0 /\ asker.got # c /\ given # c /\ agent # c /\ told[c] = "nothing"
        /\ \A i \in 1..Len(entries) : entries[i].chan # c
    BY <1>20 DEF Respond
  <2>b. \A i \in 1..Len(entries) : entries[i].chan \in (Calls \ {c}) \cup {None}
    <3> SUFFICES ASSUME NEW i \in 1..Len(entries) PROVE entries[i].chan \in (Calls \ {c}) \cup {None}
      OBVIOUS
    <3>1. entries[i].chan \in Answer
      BY EntryKept
    <3> QED
      BY <2>a, <3>1
  <2>c. /\ UNCHANGED <<host, kind, loopVars, codexVars, stopped, asker, answers, table, told>>
        /\ \A d \in Calls \ {c} : calls'[d] = calls[d]
    BY <1>20 DEF Respond
  <2>d. ASSUME Pending
        PROVE  /\ table \in 1..Len(entries) /\ entries[table].chan = None /\ Len(entries') = Len(entries)
               /\ entries'[table].chan = c /\ entries'[table].answered
               /\ entries'[table].closed = entries[table].closed
               /\ \A i \in 1..Len(entries) \ {table} : entries'[i] = entries[i]
               /\ calls'[c].is = "waiting" /\ calls'[c].entry = table
    <3>1. table # 0 /\ ~entries[table].answered
      BY <2>d DEF Pending
    <3>2. table \in 1..Len(entries)
      BY <3>1, TableEntry
    <3>3. entries' = [entries EXCEPT ![table].chan = c, ![table].answered = TRUE]
      BY <1>20, <2>d DEF Respond
    <3>4. entries[table].chan = None
      BY <3>1, <3>2
    <3>5. calls'[c].is = "waiting" /\ calls'[c].entry = table
      BY <1>20, <2>d DEF Respond
    <3> HIDE DEF TypeOK, EntryInv, CallInv, AskerInv, LoopInv, Entry
    <3> QED
      BY <3>2, <3>3, <3>4, <3>5, AnsweredAt
  <2>e. ASSUME ~Pending
        PROVE  entries' = entries /\ calls'[c].is = "failed" /\ calls'[c].entry = 0
    BY <1>20, <2>a, <2>e DEF Respond
  <2>1. LoopInv'
    BY <1>20 DEF Respond, Pending, Gone
  <2>2. AskerInv'
    BY <1>20 DEF Respond, Pending, Gone
  <2>3. EntryInv'
    <3>1. CASE Pending
      <4>1. ASSUME NEW i \in 1..Len(entries)
            PROVE  /\ i # table => entries'[i].closed
                   /\ entries'[i].closed => Withdrawn' /\ question' # "sent"
        BY <2>c, <2>d, <3>1
      <4>2. ASSUME NEW i \in 1..Len(entries), entries'[i].chan # None
            PROVE  /\ entries'[i].answered
                   /\ calls'[entries'[i].chan].entry = i
                   /\ asker'.got # entries'[i].chan
        <5>1. CASE i = table
          BY <2>a, <2>c, <2>d, <3>1, <5>1
        <5>2. CASE i # table
          <6>1. entries'[i] = entries[i] /\ entries[i].chan \in Calls \ {c}
            BY <2>d, <2>b, <3>1, <4>2, <5>2
          <6> QED
            BY <2>c, <4>2, <6>1
        <5> QED
          BY <5>1, <5>2
      <4>3. question = "finished" /\ ~unsaid =>
              asker.entry = table /\ asker.at \in {"waiting", "leaving"}
        BY <2>d, <3>1 DEF Pending
      <4> QED
        BY <2>c, <2>d, <3>1, <4>1, <4>2, <4>3
    <3>2. CASE ~Pending
      <4>1. entries' = entries /\ \A i \in 1..Len(entries) : entries[i].chan # None =>
                                    calls'[entries[i].chan] = calls[entries[i].chan]
        BY <2>c, <2>e, <2>b, <3>2
      <4> QED
        BY <2>c, <4>1
    <3> QED
      BY <3>1, <3>2
  <2>4. CallInv'
    <3>1. CASE Pending
      <4>1. ASSUME NEW d \in Calls, d # c, calls[d].entry # 0
            PROVE  entries'[calls[d].entry].chan = d \/ asker.got = d
        <5>1. calls[d].entry \in 1..Len(entries) /\ (entries[calls[d].entry].chan = d \/ asker.got = d)
          BY <4>1
        <5>2. entries[table].chan = None /\ \A i \in 1..Len(entries) \ {table} : entries'[i] = entries[i]
          BY <2>d, <3>1
        <5> HIDE DEF TypeOK, LoopInv, AskerInv, EntryInv, CallInv, WhatIsToldIsTrue, TurnLeavesNothing
        <5> QED
          BY <5>1, <5>2
      <4> QED
        BY <2>a, <2>c, <2>d, <3>1, <4>1
    <3>2. CASE ~Pending
      <4>1. question = "sent" => given # c
        BY <2>a
      <4> QED
        BY <2>a, <2>c, <2>e, <3>2, <4>1
    <3> QED
      BY <3>1, <3>2
  <2>5. WhatIsToldIsTrue'
    BY <1>20 DEF Respond, Pending, Gone
  <2>6. TurnLeavesNothing'
    <3> HIDE DEF LoopInv
    <3>1. CASE Pending
      <4>1. turn = "ended" => table # 0 /\ entries[table].answered
        BY <2>d, <3>1
      <4>2. ~(turn = "ended")
        BY <3>1, <4>1 DEF Pending
      <4> QED
        BY <2>c, <4>2
    <3>2. CASE ~Pending
      BY <2>c, <2>e, <3>2
    <3> QED
      BY <3>1, <3>2
  <2> QED
    BY <2>1, <2>2, <2>3, <2>4, <2>5, <2>6
<1>21. ASSUME NEW c \in Calls, Hear(c) PROVE QuestionInv'
  BY <1>21 DEF Hear, Settle
<1>22. ASSUME NEW c \in Calls, SentAway(c) PROVE QuestionInv'
  BY <1>22 DEF SentAway, Settle
<1>23. ASSUME NEW c \in Calls, GiveUpCall(c) PROVE QuestionInv'
  BY <1>23 DEF GiveUpCall, Settle
<1>24. CASE CodexAsks
  BY <1>24 DEF CodexAsks
<1>25. CASE CodexCloses
  BY <1>25 DEF CodexCloses
<1>26. CASE CodexEnds
  BY <1>26 DEF CodexEnds
<1>27. CASE CodexReads
  <2>a. /\ reply = "sent" /\ kind = "blocking" /\ UNCHANGED Elsewhere
        /\ question = "finished" /\ given # None /\ agent = None /\ told[given] = "ok"
    BY <1>27 DEF CodexReads
  <2>b. \/ codex' = "closed" /\ reply' = "accepted" /\ agent' = given
        \/ codex \in {"closed", "over"} /\ reply' = "rejected" /\ UNCHANGED <<codex, agent>>
    BY <1>27 DEF CodexReads
  <2> QED
    BY <2>a, <2>b
<1>28. CASE LeaveTurn
  BY <1>28 DEF LeaveTurn
<1> QED
  BY <1>1, <1>2, <1>3, <1>4, <1>5, <1>6, <1>7, <1>8, <1>9, <1>10, <1>11, <1>12, <1>13, <1>14, <1>15, <1>16,
     <1>17, <1>18, <1>19, <1>20, <1>21, <1>22, <1>23, <1>24, <1>25, <1>26, <1>27, <1>28
  DEF Next, Loop, Asker

LEMMA QuestionStutter == QuestionInv /\ UNCHANGED vars => QuestionInv'
  BY DEF vars, loopVars, codexVars, tableVars, Reaches, Dropped, Accepted, QuestionInv, LoopInv, AskerInv, EntryInv, CallInv, WhatIsToldIsTrue,
         TurnLeavesNothing, Underway, Withdrawn

\* The inductive invariant, with the types it keeps.
THEOREM QuestionCorrect == Spec => [](TypeOK /\ QuestionInv)
<1>1. TypeOK /\ QuestionInv /\ [Next]_vars => (TypeOK /\ QuestionInv)'
  BY TypeStep, QuestionStep, QuestionStutter DEF QuestionInv
<1> QED
  BY <1>1, QuestionInit, PTL DEF Spec

\* In a run that is not stopped, a call that succeeds has its answer with Codex or,
\* for a question Codex waits on, written to it, and dropped there only if Codex had
\* closed the question or its turn. One that fails never reaches Codex, but for an
\* answer sent into a turn that was then left.
THEOREM ToldCorrect == Spec => []WhatIsToldIsTrue
<1>1. QuestionInv => WhatIsToldIsTrue
  BY DEF QuestionInv
<1> QED
  BY <1>1, QuestionCorrect, PTL

\* A turn that has ended leaves no asker, no entry that takes an answer, and no
\* caller that nobody will tell.
THEOREM EndCorrect == Spec => []TurnLeavesNothing
<1>1. QuestionInv => TurnLeavesNothing
  BY DEF QuestionInv
<1> QED
  BY <1>1, QuestionCorrect, PTL
===============================================================================
