-------------------------- MODULE MCParallelWriters --------------------------
(***************************************************************************)
(* An implementation step, a reviewer that may send it back and, beside    *)
(* the reviewer, a step that writes documentation: a definition Validate   *)
(* accepts, because a dependency orders the two steps that write.          *)
(***************************************************************************)
EXTENDS RunScheduler

CONSTANTS impl, review, docs  \* steps

MCSteps == {impl, review, docs}
MCNextEdges == {<<impl, review>>, <<impl, docs>>}
MCReworkEdges == {<<review, impl>>}
MCWriters == {impl, docs}
MCReworkLimit == [e \in MCReworkEdges |-> 1]
MCTarget == [i \in {} |-> NoStep]
===============================================================================
