---------------------------- MODULE MCRunDispatch -----------------------------
(***************************************************************************)
(* A window and a phone, two messages.                                     *)
(***************************************************************************)
EXTENDS RunDispatch, TLC

CONSTANTS window, phone, m1, m2, j1, j2
===============================================================================
