------------------------------ MODULE TechWriter ------------------------------
(***************************************************************************)
(* One run of the AI tech-writer harness: a window of concurrent sessions, *)
(* each editing, re-baselining and re-checking its doc, folded in scope    *)
(* order under a budget; then the fixpoint over what is still stale, the   *)
(* gate, the run-record and its publication.                               *)
(*                                                                         *)
(* The agent, `sync-update` and the drift check are other programs.  Drift *)
(* is a set of stale nodes: an agent may change it in any way (it edits    *)
(* any files), a sync-update clears its node or fails to.                  *)
(***************************************************************************)
EXTENDS Naturals, Sequences, FiniteSets

CONSTANTS
  Refs,       \* graph nodes that have a doc
  Scopes,     \* the lists of stale nodes a run may start from
  Configs,    \* the HarnessConfigs considered
  MaxCost     \* bound: tokens of one run of the agent

ASSUME ScopesAssumption ==
  /\ Scopes \subseteq Seq(Refs)
  /\ \A s \in Scopes : \A i, j \in 1..Len(s) : s[i] = s[j] => i = j

\* window is max(max_parallel, 1), turns and tokens are the two caps.
ASSUME ConfigsAssumption ==
  Configs \subseteq [window : Nat \ {0}, retries : Nat, rounds : Nat, turns : Nat \ {0},
                     tokens : Nat \ {0}, tries : Nat \ {0},
                     target : {"branch-pr", "pr-branch"}]

ASSUME CostAssumption == MaxCost \in Nat

NoRecord == [gate |-> "none", url |-> FALSE]
Record == [gate : {"none", "green", "flagged"}, url : BOOLEAN]

VARIABLES
  cfg,       \* HarnessConfig of the run
  stale,     \* the nodes a drift check reports now
  queue,     \* nodes of the scope not submitted yet
  pending,   \* submitted, not folded: the FIFO of futures
  work,      \* the _DocWork of each session, with its place in the code
  result,    \* HarnessResult: turns, tokens, refreshed docs
  reasons,   \* HarnessResult.flagged_reasons, by kind
  phase,     \* where the harness is
  round, prev, stuck, todo,  \* of the fixpoint: number, its nodes, no progress?, nodes left
  store, head, remote,     \* the run-record: in the working tree, the local commit, the remote
  review                   \* has a PR/MR been opened (pr-branch: it exists before)

progress == <<phase, round, prev, stuck, todo>>
published == <<store, head, remote, review>>
vars == <<cfg, stale, queue, pending, work, result, reasons, progress, published>>

Phases == {"discover", "repair", "stopping", "fixpoint", "rebaseline", "gate", "record",
           "commit", "push", "open", "backfill", "amend", "repush",
           "done", "aborted", "failed"}

Session == [at : {"idle", "check", "agent", "update", "verify", "done", "raised"},
            turns : Nat, tokens : Nat, tries : Nat, edited : BOOLEAN,
            reason : {"none", "budget", "failed", "still stale"},
            priorTurns : Nat, priorTokens : Nat]

NoWork == [at |-> "idle", turns |-> 0, tokens |-> 0, tries |-> 0, edited |-> FALSE,
           reason |-> "none", priorTurns |-> 0, priorTokens |-> 0]

TypeOK ==
  /\ cfg \in Configs
  /\ stale \subseteq Refs /\ queue \in Seq(Refs) /\ pending \in Seq(Refs)
  /\ Len(pending) <= cfg.window
  /\ work \in [Refs -> Session]
  /\ result \in [turns : Nat, tokens : Nat, refreshed : Seq(Refs)]
  /\ reasons \subseteq {"budget", "failed", "still stale", "fixpoint", "gate"}
  /\ phase \in Phases /\ round \in 0..cfg.rounds
  /\ prev \subseteq Refs /\ stuck \in BOOLEAN /\ todo \subseteq Refs
  /\ store \in Record /\ head \in Record /\ remote \in Record
  /\ review \in BOOLEAN

Listed(s) == {s[i] : i \in 1..Len(s)}

Init ==
  /\ cfg \in Configs
  /\ queue \in Scopes /\ stale = Listed(queue)
  /\ pending = << >> /\ work = [r \in Refs |-> NoWork]
  /\ result = [turns |-> 0, tokens |-> 0, refreshed |-> << >>] /\ reasons = {}
  /\ phase = "discover" /\ round = 0 /\ prev = {} /\ stuck = FALSE /\ todo = {}
  /\ store = NoRecord /\ head = NoRecord /\ remote = NoRecord
  /\ review = (cfg.target = "pr-branch")

(***************************************************************************)
(* Discovering the scope; the commands this needs may fail.                *)
(***************************************************************************)
NoOp ==
  /\ phase = "discover" /\ queue = << >> /\ phase' = "done"
  /\ UNCHANGED <<cfg, stale, queue, pending, work, result, reasons, round, prev, stuck, todo,
                 published>>

StartRepair ==
  /\ phase = "discover" /\ queue # << >> /\ phase' = "repair"
  /\ UNCHANGED <<cfg, stale, queue, pending, work, result, reasons, round, prev, stuck, todo,
                 published>>

Abort ==
  /\ phase = "discover" /\ phase' = "aborted"
  /\ UNCHANGED <<cfg, stale, queue, pending, work, result, reasons, round, prev, stuck, todo,
                 published>>

(***************************************************************************)
(* The main thread: a window of sessions, folded in scope order.           *)
(***************************************************************************)
Exceeded(turns, tokens) == turns >= cfg.turns \/ tokens >= cfg.tokens

OverBudgetOnTokens == result.tokens >= cfg.tokens        \* mutant: turns are not counted
OverBudget == Exceeded(result.turns, result.tokens)

\* The session checks its own use on top of the totals folded when it began.
NewWorkAtZero == [NoWork EXCEPT !.at = "check"]          \* mutant: no snapshot
NewWork == [NoWork EXCEPT !.at = "check", !.priorTurns = result.turns,
                          !.priorTokens = result.tokens]

WindowOpen == Len(pending) < cfg.window

Submit ==
  /\ phase = "repair" /\ queue # << >> /\ WindowOpen /\ ~OverBudget
  /\ pending' = Append(pending, Head(queue)) /\ queue' = Tail(queue)
  /\ work' = [work EXCEPT ![Head(queue)] = NewWork]
  /\ UNCHANGED <<cfg, stale, result, reasons, progress, published>>

BudgetStop ==
  /\ phase = "repair" /\ queue # << >> /\ WindowOpen /\ OverBudget
  /\ phase' = "stopping"
  /\ UNCHANGED <<cfg, stale, queue, pending, work, result, reasons, round, prev, stuck, todo,
                 published>>

FoldDueWhenFull == Len(pending) = cfg.window             \* mutant: the rest is not drained
FoldDue == Len(pending) = cfg.window \/ queue = << >> \/ phase = "stopping"

\* The main thread blocks on the oldest session.
FoldDoc ==
  /\ phase \in {"repair", "stopping"} /\ pending # << >> /\ FoldDue
  /\ LET w == work[Head(pending)] IN
       /\ w.at = "done"
       /\ result' = [turns |-> result.turns + w.turns, tokens |-> result.tokens + w.tokens,
                     refreshed |-> IF w.edited THEN Append(result.refreshed, Head(pending))
                                               ELSE result.refreshed]
       /\ reasons' = reasons \cup (IF w.reason = "none" THEN {} ELSE {w.reason})
  /\ pending' = Tail(pending)
  /\ UNCHANGED <<cfg, stale, queue, work, progress, published>>

\* result() re-raises what a session raised; the pool lets the others end.
FoldRaises ==
  /\ phase \in {"repair", "stopping"} /\ pending # << >> /\ FoldDue
  /\ work[Head(pending)].at = "raised"
  /\ phase' = "aborted"
  /\ UNCHANGED <<cfg, stale, queue, pending, work, result, reasons, round, prev, stuck, todo,
                 published>>

EndRepair ==
  /\ phase \in {"repair", "stopping"} /\ pending = << >>
  /\ queue = << >> \/ phase = "stopping"
  /\ reasons' = IF OverBudget THEN reasons \cup {"budget"} ELSE reasons
  /\ phase' = "fixpoint"
  /\ UNCHANGED <<cfg, stale, queue, pending, work, result, round, prev, stuck, todo, published>>

(***************************************************************************)
(* A session: up to retries + 1 attempts.                                  *)
(***************************************************************************)
SessionStep ==
  UNCHANGED <<cfg, queue, pending, result, reasons, progress, published>>

Spent(w) == Exceeded(w.priorTurns + w.turns, w.priorTokens + w.tokens)

Attempt(r) ==
  /\ work[r].at = "check" /\ work[r].turns <= cfg.retries /\ ~Spent(work[r])
  /\ work' = [work EXCEPT ![r].at = "agent", ![r].turns = @ + 1, ![r].tries = 1]
  /\ UNCHANGED stale /\ SessionStep

\* HTTP 429 or 5xx: wait and try again within the attempt, or give it up.
RateLimited(r) ==
  /\ work[r].at = "agent"
  /\ work' = [work EXCEPT ![r].at = IF work[r].tries < cfg.tries THEN "agent" ELSE "check",
                          ![r].tries = IF work[r].tries < cfg.tries THEN @ + 1 ELSE @]
  /\ UNCHANGED stale /\ SessionStep

\* The agent ends: with an edit, or with nothing (a failure, an empty answer),
\* which may leave half an edit behind all the same.
AgentEnds(r, edit, cost) ==
  /\ work[r].at = "agent"
  /\ work' = [work EXCEPT ![r].at = IF edit THEN "update" ELSE "check",
                          ![r].tokens = @ + cost, ![r].edited = @ \/ edit]
  /\ stale' \in SUBSET Refs
  /\ SessionStep

SyncUpdated(s, r) == {s, s \ {r}}

UpdateOne(r) ==
  /\ work[r].at = "update"
  /\ work' = [work EXCEPT ![r].at = "verify"]
  /\ stale' \in SyncUpdated(stale, r)
  /\ SessionStep

Verify(r) ==
  /\ work[r].at = "verify"
  /\ work' = [work EXCEPT ![r].at = IF r \in stale THEN "check" ELSE "done"]
  /\ UNCHANGED stale /\ SessionStep

StopMidRetry(r) ==
  /\ work[r].at = "check" /\ work[r].turns <= cfg.retries /\ Spent(work[r])
  /\ work' = [work EXCEPT ![r].at = "done", ![r].reason = "budget"]
  /\ UNCHANGED stale /\ SessionStep

GiveUp(r) ==
  /\ work[r].at = "check" /\ work[r].turns > cfg.retries
  /\ work' = [work EXCEPT ![r].at = "done",
                          ![r].reason = IF work[r].edited
                                         THEN "still stale" ELSE "failed"]
  /\ UNCHANGED stale /\ SessionStep

\* Gathering the packet of an attempt, or the drift check, fails.
SessionRaises(r) ==
  /\ \/ work[r].at = "check" /\ work[r].turns <= cfg.retries /\ ~Spent(work[r])
     \/ work[r].at = "verify"
  /\ work' = [work EXCEPT ![r].at = "raised"]
  /\ UNCHANGED stale /\ SessionStep

(***************************************************************************)
(* The global fixpoint.                                                    *)
(***************************************************************************)
AfterRepair == UNCHANGED <<cfg, queue, pending, work, result, published>>

StableUnchecked == stale = {} \/ round = cfg.rounds      \* mutant: no last look
Stable == stale = {}

FixpointReached ==
  /\ phase = "fixpoint" /\ Stable /\ phase' = "gate"
  /\ UNCHANGED <<stale, reasons, round, prev, stuck, todo>> /\ AfterRepair

\* A round that meets the nodes of the last one is still carried out.
FixpointRound ==
  /\ phase = "fixpoint" /\ ~Stable /\ round < cfg.rounds
  /\ phase' = "rebaseline" /\ round' = round + 1
  /\ prev' = stale /\ todo' = stale /\ stuck' = (stale = prev)
  /\ UNCHANGED <<stale, reasons>> /\ AfterRepair

UpdateStale(r) ==
  /\ phase = "rebaseline" /\ r \in todo
  /\ todo' = todo \ {r}
  /\ stale' \in SyncUpdated(stale, r)
  /\ UNCHANGED <<reasons, phase, round, prev, stuck>> /\ AfterRepair

EndRound ==
  /\ phase = "rebaseline" /\ todo = {}
  /\ phase' = IF stuck THEN "gate" ELSE "fixpoint"
  /\ reasons' = IF stuck THEN reasons \cup {"fixpoint"} ELSE reasons
  /\ UNCHANGED <<stale, round, prev, stuck, todo>> /\ AfterRepair

RoundsSpent ==
  /\ phase = "fixpoint" /\ ~Stable /\ round = cfg.rounds /\ phase' = "gate"
  /\ reasons' = reasons \cup {"fixpoint"}
  /\ UNCHANGED <<stale, round, prev, stuck, todo>> /\ AfterRepair

\* The drift check produced no report.
FixpointRaises ==
  /\ phase = "fixpoint" /\ phase' = "failed"
  /\ UNCHANGED <<stale, reasons, round, prev, stuck, todo>> /\ AfterRepair

RunGate(green) ==
  /\ phase = "gate" /\ phase' = "record"
  /\ reasons' = IF green THEN reasons ELSE reasons \cup {"gate"}
  /\ UNCHANGED <<stale, round, prev, stuck, todo>> /\ AfterRepair

(***************************************************************************)
(* The run-record, then publication.                                       *)
(***************************************************************************)
RecordOfRepair ==                                        \* mutant: the gate is forgotten
  [gate |-> IF reasons \subseteq {"gate"} THEN "green" ELSE "flagged", url |-> FALSE]
RecordOfRun == [gate |-> IF reasons = {} THEN "green" ELSE "flagged", url |-> FALSE]

AtEnd(from, to) ==
  /\ phase = from /\ phase' = to
  /\ UNCHANGED <<cfg, stale, queue, pending, work, result, reasons, round, prev, stuck, todo>>

EmitRecord ==
  /\ AtEnd("record", "commit")
  /\ store' = RecordOfRun
  /\ UNCHANGED <<head, remote, review>>

\* git add docs and the record, git commit.
Commit ==
  /\ AtEnd("commit", "push")
  /\ head' = store
  /\ UNCHANGED <<store, remote, review>>

\* On a PR branch nothing is committed unless docs changed.
SkipCommit ==
  /\ cfg.target = "pr-branch" /\ AtEnd("commit", "done")
  /\ UNCHANGED published

Push ==
  /\ AtEnd("push", IF cfg.target = "branch-pr" THEN "open" ELSE "done")
  /\ remote' = head
  /\ UNCHANGED <<store, head, review>>

OpenReview ==
  /\ AtEnd("open", "backfill")
  /\ review' = TRUE
  /\ UNCHANGED <<store, head, remote>>

PublishFails ==
  /\ phase \in {"commit", "push", "open"} /\ AtEnd(phase, "failed")
  /\ UNCHANGED published

\* Best effort: the URL goes into the record, the commit is amended and pushed.
Backfill ==
  /\ AtEnd("backfill", "amend")
  /\ store' = [store EXCEPT !.url = TRUE]
  /\ UNCHANGED <<head, remote, review>>

Amend ==
  /\ AtEnd("amend", "repush")
  /\ head' = store
  /\ UNCHANGED <<store, remote, review>>

PushAgain ==
  /\ AtEnd("repush", "done")
  /\ remote' = head
  /\ UNCHANGED <<store, head, review>>

BackfillFails ==
  /\ phase \in {"backfill", "amend", "repush"} /\ AtEnd(phase, "done")
  /\ UNCHANGED published

SessionNext(r) ==
  \/ Attempt(r) \/ RateLimited(r) \/ UpdateOne(r) \/ Verify(r)
  \/ \E edit \in BOOLEAN, cost \in 0..MaxCost : AgentEnds(r, edit, cost)
  \/ StopMidRetry(r) \/ GiveUp(r) \/ SessionRaises(r)

Next ==
  \/ NoOp \/ StartRepair \/ Abort
  \/ Submit \/ BudgetStop \/ FoldDoc \/ FoldRaises \/ EndRepair
  \/ \E r \in Refs : SessionNext(r)
  \/ FixpointReached \/ FixpointRound \/ (\E r \in Refs : UpdateStale(r)) \/ EndRound
  \/ RoundsSpent \/ FixpointRaises \/ \E green \in BOOLEAN : RunGate(green)
  \/ EmitRecord \/ Commit \/ SkipCommit \/ Push \/ OpenReview \/ PublishFails
  \/ Backfill \/ Amend \/ PushAgain \/ BackfillFails

\* The pool's threads and the programs they wait for get on.
Spec == Init /\ [][Next]_vars /\ WF_vars(Next)

(***************************************************************************)
(* Properties.                                                             *)
(***************************************************************************)

\* A run that ends without a flag has repaired what it set out to: every doc
\* in scope was edited by the agent, and at the end of the fixpoint nothing was
\* stale - whatever one session's edits did to the docs of the others, before
\* or after these were checked.
AfterFixpoint == phase \in {"gate", "record", "commit", "push", "open", "backfill", "amend",
                            "repush"}

UnflaggedIsClean ==
  AfterFixpoint /\ reasons = {} =>
    /\ stale = {}
    /\ Listed(result.refreshed) = {r \in Refs : work[r].at # "idle"}
    /\ queue = << >>

\* The turn cap may be overrun only by the attempts of the other sessions of
\* one window, and not at all by a sequential run.
TurnsBounded ==
  result.turns <= cfg.turns + (cfg.window - 1) * (cfg.retries + 1)

\* What a reviewer gets carries the verdict of the run, the gate's included,
\* and a URL only of a review that was opened.
PublishedIsHonest ==
  remote # NoRecord =>
    /\ remote.gate = (IF reasons = {} THEN "green" ELSE "flagged")
    /\ remote.url => review

\* Caps "yield a flagged PR/MR, never a stuck job": every run ends.
RunEnds == <>(phase \in {"done", "aborted", "failed"})

\* The window of concurrent sessions gives what one session after the other
\* would: the parallel repair implements the sequential one.
Repairing == phase \in {"discover", "repair", "stopping", "aborted"}

Sequential == INSTANCE SequentialRepair WITH
  left <- IF Repairing THEN pending \o queue ELSE << >>,
  reasons <- reasons \ {"fixpoint", "gate"},
  status <- IF phase = "aborted" THEN "raised" ELSE IF Repairing THEN "repairing" ELSE "repaired"

ImplementsSequential == Sequential!Spec
=============================================================================
