---------------------------- MODULE MCTechWriter ----------------------------
(***************************************************************************)
(* Instances of TechWriter for TLC: sequential runs whose budget can be    *)
(* spent, and parallel ones whose caps are out of reach - three docs       *)
(* without retries (a session is submitted while another still runs), or   *)
(* two docs with one retry each.                                           *)
(***************************************************************************)
EXTENDS TechWriter

CONSTANTS r1, r2, r3

MCScopes == {<< >>, <<r1, r2>>, <<r1, r2, r3>>}

Config(window, retries, rounds, cap, tries, target) ==
  [window |-> window, retries |-> retries, rounds |-> rounds, turns |-> cap, tokens |-> cap,
   tries |-> tries, target |-> target]

MCConfigs == {Config(1, 1, 2, 2, 2, "branch-pr"), Config(2, 0, 2, 9, 1, "pr-branch"),
              Config(2, 1, 1, 9, 1, "branch-pr")}

\* Bound: no retries where three sessions run in a window of two.
MCInit == Init /\ (cfg.window * cfg.retries > 1 => Len(queue) < 3)

MCSpec == MCInit /\ [][Next]_vars /\ WF_vars(Next)
=============================================================================
