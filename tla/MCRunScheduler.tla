--------------------------- MODULE MCRunScheduler ----------------------------
(***************************************************************************)
(* Two reviewers check an implementation step side by side and may send it *)
(* back: the smallest graph in which steps run in parallel and rework from *)
(* two edges meets in one target.                                          *)
(***************************************************************************)
EXTENDS RunScheduler, TLC

CONSTANTS impl, revA, revB,  \* steps
          note               \* an instruction that names no step

MCSteps == {impl, revA, revB}
MCNextEdges == {<<impl, revA>>, <<impl, revB>>}
MCReworkEdges == {<<revA, impl>>, <<revB, impl>>}
MCWriters == {impl}
MCInstructions == {note}
MCTarget == [i \in MCInstructions |-> NoStep]
MCReworkLimit == [e \in MCReworkEdges |-> 1]

\* The graph and its limits treat the two reviewers alike.
Reviewers == Permutations({revA, revB})
===============================================================================
