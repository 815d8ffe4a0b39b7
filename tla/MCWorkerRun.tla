---------------------------- MODULE MCWorkerRun -------------------------------
(***************************************************************************)
(* Runs of two desktops, or of two steps of one, in one workspace.         *)
(***************************************************************************)
EXTENDS WorkerRun, TLC

CONSTANTS w1, w2  \* runs
===============================================================================
