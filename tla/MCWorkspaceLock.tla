--------------------------- MODULE MCWorkspaceLock ----------------------------
(***************************************************************************)
(* Three callers of the lock, all in one process or one of them in a       *)
(* second process.                                                         *)
(***************************************************************************)
EXTENDS WorkspaceLock

CONSTANTS x, y, z, p, q  \* callers and processes

MCCallers == {x, y, z}
MCHome == [c \in Callers |-> IF c = y /\ q \in Procs THEN q ELSE p]
===============================================================================
