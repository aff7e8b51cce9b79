--------------------------- MODULE SequentialRepair ---------------------------
(***************************************************************************)
(* What the repair phase of the AI tech-writer promises: the docs in scope *)
(* are repaired one after another, each by a session that sees the totals  *)
(* of all sessions before it, until the scope or the budget is spent.      *)
(* Module TechWriter, with its pool of concurrent sessions, is shown to    *)
(* implement this.                                                         *)
(***************************************************************************)
EXTENDS Naturals, Sequences

CONSTANTS
  Refs,       \* graph nodes that have a doc
  Scopes,     \* the lists of stale nodes a run may start from
  Configs,    \* the HarnessConfigs considered
  MaxCost     \* bound: tokens of one run of the agent

VARIABLES
  cfg,        \* the configuration of this run
  left,       \* nodes of the scope not accounted for yet
  result,     \* turns and tokens used, docs refreshed
  reasons,    \* why the run is flagged, if it is
  status      \* "repairing", "repaired" or "raised"

seqVars == <<cfg, left, result, reasons, status>>

NoResult == [turns |-> 0, tokens |-> 0, refreshed |-> << >>]

\* A cap counts as exceeded once it is reached.
Exceeded(turns, tokens) == turns >= cfg.turns \/ tokens >= cfg.tokens

\* What a session may report.
Outcome == [turns : 1..(cfg.retries + 1), tokens : 0..((cfg.retries + 1) * MaxCost),
            edited : BOOLEAN, reason : {"none", "budget", "failed", "still stale"}]

\* A session that began at the given totals starts no attempt after a cap is
\* reached, gives up only when its retries or the budget are spent, and leaves
\* without a reason only if the agent has edited the doc.
Possible(o, turns, tokens) ==
  /\ \E c \in 0..MaxCost :
        c <= o.tokens /\ ~Exceeded(turns + o.turns - 1, tokens + o.tokens - c)
  /\ o.reason = "none" => o.edited
  /\ o.reason = "budget" =>
       o.turns <= cfg.retries /\ Exceeded(turns + o.turns, tokens + o.tokens)
  /\ o.reason \in {"failed", "still stale"} =>
       o.turns = cfg.retries + 1 /\ (o.edited <=> o.reason = "still stale")

ReasonsOf(o) == IF o.reason = "none" THEN {} ELSE {o.reason}

Folded(r, o) ==
  [turns |-> result.turns + o.turns, tokens |-> result.tokens + o.tokens,
   refreshed |-> IF o.edited THEN Append(result.refreshed, r) ELSE result.refreshed]

Init ==
  /\ cfg \in Configs /\ left \in Scopes
  /\ result = NoResult /\ reasons = {} /\ status = "repairing"

\* One doc, one session, unless the budget is spent.
RepairNext ==
  /\ status = "repairing" /\ left # << >> /\ ~Exceeded(result.turns, result.tokens)
  /\ \E o \in Outcome :
       /\ Possible(o, result.turns, result.tokens)
       /\ result' = Folded(Head(left), o)
       /\ reasons' = reasons \cup ReasonsOf(o)
  /\ left' = Tail(left)
  /\ UNCHANGED <<cfg, status>>

\* The scope is done or the budget is, which is flagged.
Finish ==
  /\ status = "repairing" /\ (left = << >> \/ Exceeded(result.turns, result.tokens))
  /\ left' = << >> /\ status' = "repaired"
  /\ reasons' = IF Exceeded(result.turns, result.tokens)
                  THEN reasons \cup {"budget"} ELSE reasons
  /\ UNCHANGED <<cfg, result>>

\* A command that a session needs has failed, and the run with it.
Raise ==
  /\ status = "repairing" /\ status' = "raised"
  /\ UNCHANGED <<cfg, left, result, reasons>>

Next == RepairNext \/ Finish \/ Raise

Spec == Init /\ [][Next]_seqVars

=============================================================================
