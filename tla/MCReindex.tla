------------------------------ MODULE MCReindex ------------------------------
(***************************************************************************)
(* Instances of Reindex for TLC: code file c1 documented by d1, c2 by d2.   *)
(***************************************************************************)
EXTENDS Reindex

CONSTANTS d1, d2, c1, c2, v1, v2, g1, g2, p1, p2

MCDocOf == [c \in Codes |-> IF c = c2 /\ d2 \in Docs THEN d2 ELSE d1]

\* Runs that no crash and no exception cuts short.
UncutNext == Next /\ UNCHANGED failures
=============================================================================
