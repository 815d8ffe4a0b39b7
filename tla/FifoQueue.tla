------------------------------ MODULE FifoQueue -------------------------------
(***************************************************************************)
(* What the task queue of a workspace promises its user                    *)
(* (internal/service/desktop/queue.go:74-79): tasks join at the end of one *)
(* line, one task at a time stands at its head, and the next one steps     *)
(* forward from the front of the line, only when the head is free.         *)
(* TaskQueue implements this with task records that a pass lists once and  *)
(* writes back whole.                                                      *)
(***************************************************************************)
EXTENDS Naturals

CONSTANT Tasks

VARIABLES
  line,    \* tasks that wait
  ticket,  \* the place each task was given when it joined
  head,    \* the task at the head, if any
  gone     \* tasks their user has deleted

vars == <<line, ticket, head, gone>>

Init ==
  /\ line = {}
  /\ ticket = [t \in Tasks |-> 0]
  /\ head = {}
  /\ gone = {}

\* A task joins behind everyone who was ever given a place.
Join(t) ==
  /\ t \notin line \cup head \cup gone
  /\ ticket' = [ticket EXCEPT ![t] = ticket'[t]]
  /\ \A u \in Tasks \ {t} : ticket[u] < ticket'[t]
  /\ line' = line \cup {t}
  /\ UNCHANGED <<head, gone>>

Front(t) == t \in line /\ \A u \in line : ticket[t] <= ticket[u]

StepForward(t) ==
  /\ head = {}
  /\ Front(t)
  /\ head' = {t}
  /\ line' = line \ {t}
  /\ UNCHANGED <<ticket, gone>>

Release ==
  /\ head # {}
  /\ head' = {}
  /\ UNCHANGED <<line, ticket, gone>>

\* A deleted task leaves the line or the head.
Delete(t) ==
  /\ gone' = gone \cup {t}
  /\ line' = line \ {t}
  /\ head' = head \ {t}
  /\ UNCHANGED ticket

\* A task deleted while it was being chosen comes back: as the head, which no
\* one else has taken, or as a task that was the head.
Return(t) ==
  /\ t \in gone
  /\ gone' = gone \ {t}
  /\ \/ head = {} /\ head' = {t} /\ \A u \in line : ticket[t] <= ticket[u]
     \/ UNCHANGED head
  /\ UNCHANGED <<line, ticket>>

Next ==
  \/ Release
  \/ \E t \in Tasks : Join(t) \/ StepForward(t) \/ Delete(t) \/ Return(t)

Spec == Init /\ [][Next]_vars
===============================================================================
