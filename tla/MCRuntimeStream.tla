--------------------------- MODULE MCRuntimeStream ----------------------------
(***************************************************************************)
(* A response of two deltas and a window that opens its run twice.       *)
(***************************************************************************)
EXTENDS RuntimeStream, TLC

CONSTANTS l1, l2  \* loads
===============================================================================
