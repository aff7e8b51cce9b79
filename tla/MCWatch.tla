------------------------------ MODULE MCWatch ------------------------------
(***************************************************************************)
(* Instances of Watch: a graph file, a doc both watchers cover, and a code *)
(* file in a tree only a node's source names.                              *)
(***************************************************************************)
EXTENDS Watch

CONSTANTS graph, guide, code, v1, v2

MCDir == [f \in Files |-> IF f = graph THEN "graph" ELSE IF f = guide THEN "docs" ELSE "backend"]
MCExt == [f \in Files |-> IF f = graph THEN ".yml" ELSE IF f = guide THEN ".md" ELSE ".py"]
MCSourceDirs == {"backend", "docs"}
=============================================================================
