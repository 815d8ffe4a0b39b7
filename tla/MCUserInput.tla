------------------------------ MODULE MCUserInput ------------------------------
(***************************************************************************)
(* One question that two calls answer, on either host and of either kind.  *)
(***************************************************************************)
EXTENDS UserInput, TLC

CONSTANTS c1, c2  \* calls
===============================================================================
