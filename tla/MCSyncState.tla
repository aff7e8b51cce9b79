---------------------------- MODULE MCSyncState ----------------------------
(***************************************************************************)
(* Instances of SyncState for TLC.  v0 carries no annotation, v1 and v2    *)
(* differ only in a body, v3 has one symbol more for the first node.       *)
(***************************************************************************)
EXTENDS SyncState, TLC

CONSTANTS r1, r2, d1, d2, c1, c2, v0, v1, v2, v3, s1, s2, w1, w2

MCDocRef == [d \in Docs |-> IF d = d2 /\ r2 \in Refs THEN r2 ELSE r1]

MCAnnotated ==
  [v \in CodeVersions |->
     LET Found == CASE v = v0 -> {}
                    [] v \in {v1, v2} -> {s1}
                    [] v = v3 -> {s1, s2}
     IN  (({r1} \X Found) \cup ({r2} \X (Found \ {s2}))) \cap (Refs \X Symbols)]

\* Contents of docs are compared with each other only.
DocSymmetry == Permutations(DocVersions)
=============================================================================
