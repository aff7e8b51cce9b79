------------------------------ MODULE MCServed ------------------------------
(***************************************************************************)
(* What others are told of the graph, in one run: bundles from the caches  *)
(* of the MCP servers, and the verdicts of a federation over exports.      *)
(* They share no state; `part` says whose behaviour it is, the other       *)
(* rests.                                                                  *)
(***************************************************************************)
EXTENDS BundleCache, MCFederation, TLC

\* One node, two servers and the command line.
CONSTANTS s1, s2

Symmetric == Permutations(Servers)

VARIABLE part

\* A command that is given too few exports.
FederationRests == /\ exports = <<Export(r1, NoLandscape, Plain, << >>)>> /\ failOn = {"default"}

ServedInit ==
  /\ part \in {"cache", "federation"}
  /\ CacheInit
  /\ IF part = "federation" THEN MCInit ELSE Init /\ FederationRests

ServedNext ==
  /\ UNCHANGED part
  /\ \/ part = "cache" /\ CacheNext /\ UNCHANGED vars
     \/ part = "federation" /\ Next /\ UNCHANGED cacheVars
=============================================================================
