--------------------------- MODULE MCSandboxSync ------------------------------
(***************************************************************************)
(* A project of few files.                                                 *)
(***************************************************************************)
EXTENDS SandboxSync, TLC

CONSTANTS f, g  \* files
===============================================================================
