---------------------------- MODULE WorkflowGraph ----------------------------
(***************************************************************************)
(* The definition of a workflow and the graph questions the engine and the *)
(* scheduler ask of it: internal/domain/workflows/{graph,validation}.go.   *)
(* Dependency ("next") edges decide order and form a DAG; a rework edge    *)
(* leads from a step back to one of its ancestors.                         *)
(***************************************************************************)
EXTENDS Integers, FiniteSets

CONSTANTS
  Steps,        \* the steps of the definition
  NextEdges,    \* dependency edges, pairs <<from, to>>
  ReworkEdges,  \* rework edges, pairs <<from, to>>
  Writers       \* the steps that may write the workspace

(***************************************************************************)
(* Direct neighbours along dependency edges.                               *)
(***************************************************************************)
Upstream(s) == {t \in Steps : <<t, s>> \in NextEdges}

Downstream(s) == {t \in Steps : <<s, t>> \in NextEdges}

EntrySteps == {s \in Steps : Upstream(s) = {}}

SinkSteps == {s \in Steps : Downstream(s) = {}}

(***************************************************************************)
(* The steps reachable from s through dependency edges. The code's         *)
(* breadth-first search returns the least set that holds s's children and  *)
(* the children of its members; so does the intersection below.            *)
(***************************************************************************)
ClosedBelow(s, C) ==
  /\ Downstream(s) \subseteq C
  /\ \A t \in C : Downstream(t) \subseteq C

Descendants(s) == {t \in Steps : \A C \in SUBSET Steps : ClosedBelow(s, C) => t \in C}

(***************************************************************************)
(* The steps that run again when `from` sends work back to `target`.       *)
(***************************************************************************)
ReworkPath(from, target) ==
  {target, from} \cup {t \in Descendants(target) : t = from \/ from \in Descendants(t)}

ReworkTargets(s) == {t \in Steps : <<s, t>> \in ReworkEdges}

(***************************************************************************)
(* What Validate accepts: edges between known, different steps, no         *)
(* dependency cycle, rework only to an ancestor, and no two write steps    *)
(* that no dependency orders.                                              *)
(***************************************************************************)
ParallelWriteConflict(s, t) ==
  /\ s # t
  /\ {s, t} \subseteq Writers
  /\ t \notin Descendants(s)
  /\ s \notin Descendants(t)

ValidDefinition ==
  /\ \A s \in Steps : s \notin Descendants(s)
  /\ \A e \in ReworkEdges : e[1] \in Descendants(e[2])
  /\ \A s, t \in Steps : ~ParallelWriteConflict(s, t)

ASSUME DefinitionAssumption ==
  /\ IsFiniteSet(Steps)
  /\ Steps # {}
  /\ NextEdges \subseteq Steps \X Steps
  /\ ReworkEdges \subseteq Steps \X Steps
  /\ Writers \subseteq Steps
  /\ ValidDefinition
===============================================================================
