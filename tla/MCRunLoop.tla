------------------------------ MODULE MCRunLoop ------------------------------
(***************************************************************************)
(* A worker step and a checker that may send its work back, in a run whose *)
(* outer loop the user may switch on and off, with guidance addressed to   *)
(* the worker.                                                             *)
(***************************************************************************)
EXTENDS RunScheduler

CONSTANTS impl, check,  \* steps
          hint          \* an instruction for impl

MCSteps == {impl, check}
MCNextEdges == {<<impl, check>>}
MCReworkEdges == {<<check, impl>>}
MCWriters == {impl}
MCInstructions == {hint}
MCTarget == [i \in MCInstructions |-> impl]
MCReworkLimit == [e \in MCReworkEdges |-> 1]
===============================================================================
