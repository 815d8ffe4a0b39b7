----------------------------- MODULE MCTaskQueue -----------------------------
(***************************************************************************)
(* Two tasks the user enqueues and one the user runs at once, in one       *)
(* workspace.                                                              *)
(***************************************************************************)
EXTENDS TaskQueue

CONSTANTS a, b, c  \* tasks

MCTasks == {a, b, c}
MCImmediate == {c}
===============================================================================
