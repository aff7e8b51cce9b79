-------------------------- MODULE TechWriterProofs --------------------------
(***************************************************************************)
(* Proofs about TechWriter, for every scope, window, number of retries and *)
(* pair of caps.                                                           *)
(***************************************************************************)
EXTENDS TechWriter, TLAPS

(***************************************************************************)
(* Type correctness.                                                       *)
(***************************************************************************)

\* The fields of the configuration that the steps compute with.
LEMMA ConfigType ==
  ASSUME cfg \in Configs
  PROVE  /\ cfg.window \in Nat \ {0} /\ cfg.retries \in Nat /\ cfg.rounds \in Nat
         /\ cfg.turns \in Nat \ {0} /\ cfg.tokens \in Nat \ {0} /\ cfg.tries \in Nat \ {0}
BY ConfigsAssumption

\* Sums of naturals, stated for values the provers need not look into.
LEMMA SumType == \A m, n \in Nat : m + n \in Nat
OBVIOUS

LEMMA NextRound ==
  ASSUME NEW n \in Nat, NEW k \in 0..n, k < n
  PROVE  k + 1 \in 0..n
OBVIOUS

\* A field of a session may be set to any value of its type.
LEMMA SetField ==
  ASSUME NEW w \in Session
  PROVE  /\ \A x \in {"idle", "check", "agent", "update", "verify", "done", "raised"} :
              [w EXCEPT !.at = x] \in Session
         /\ \A n \in Nat : /\ [w EXCEPT !.turns = n] \in Session
                          /\ [w EXCEPT !.tokens = n] \in Session
                          /\ [w EXCEPT !.tries = n] \in Session
         /\ \A e \in BOOLEAN : [w EXCEPT !.edited = e] \in Session
         /\ \A x \in {"none", "budget", "failed", "still stale"} :
              [w EXCEPT !.reason = x] \in Session
BY DEF Session

\* What a step of a session may do to its own work keeps it a Session.
LEMMA SessionStepType ==
  ASSUME TypeOK, NEW r \in Refs, SessionNext(r)
  PROVE  /\ work' \in [Refs -> Session] /\ stale' \subseteq Refs
         /\ UNCHANGED <<cfg, queue, pending, result, reasons, progress, published>>
         /\ \E w \in Session : work' = [work EXCEPT ![r] = w]
<1>1. work \in [Refs -> Session] /\ work[r] \in Session /\ stale \subseteq Refs
  BY DEF TypeOK
<1>2. UNCHANGED <<cfg, queue, pending, result, reasons, progress, published>>
  BY DEF SessionNext, Attempt, RateLimited, UpdateOne, Verify, AgentEnds, StopMidRetry,
         GiveUp, SessionRaises, SessionStep
<1>3. stale' \subseteq Refs
  BY <1>1 DEF SessionNext, Attempt, RateLimited, UpdateOne, Verify, AgentEnds, StopMidRetry,
              GiveUp, SessionRaises, SyncUpdated
<1>4. /\ work[r].turns \in Nat /\ work[r].tokens \in Nat /\ work[r].tries \in Nat
      /\ work[r].edited \in BOOLEAN
  BY <1>1 DEF Session
<1>5. \E w \in Session : work' = [work EXCEPT ![r] = w]
  <2>1. CASE Attempt(r)
    <3>1. work' = [work EXCEPT ![r] =
                     [work[r] EXCEPT !.at = "agent", !.turns = @ + 1, !.tries = 1]]
      BY <1>1, <2>1 DEF Attempt, Session
    <3>2. work[r].turns + 1 \in Nat
      BY <1>4, 1 \in Nat, SumType, Zenon
    <3>3. [work[r] EXCEPT !.at = "agent"] \in Session
      BY <1>1, SetField
    <3>4. [work[r] EXCEPT !.at = "agent", !.turns = work[r].turns + 1] \in Session
      BY <3>2, <3>3, SetField, Zenon
    <3>5. [work[r] EXCEPT !.at = "agent", !.turns = work[r].turns + 1, !.tries = 1] \in Session
      BY <3>4, 1 \in Nat, SetField, Zenon
    <3> QED
      BY <3>1, <3>5
  <2>2. CASE RateLimited(r)
    <3>1. work' = [work EXCEPT ![r] = [work[r] EXCEPT
                     !.at = IF work[r].tries < cfg.tries THEN "agent" ELSE "check",
                     !.tries = IF work[r].tries < cfg.tries THEN @ + 1 ELSE @]]
      BY <1>1, <2>2 DEF RateLimited, Session
    <3> DEFINE x == IF work[r].tries < cfg.tries THEN "agent" ELSE "check"
               n == IF work[r].tries < cfg.tries THEN work[r].tries + 1 ELSE work[r].tries
    <3>2. x \in {"agent", "check"} /\ n \in Nat
      BY <1>4, 1 \in Nat, SumType, Zenon
    <3> HIDE DEF x, n
    <3>3. [work[r] EXCEPT !.at = x] \in Session
      BY <1>1, <3>2, SetField
    <3>4. [work[r] EXCEPT !.at = x, !.tries = n] \in Session
      BY <3>2, <3>3, SetField, Zenon
    <3> QED
      BY <3>1, <3>4 DEF x, n
  <2>3. ASSUME NEW edit \in BOOLEAN, NEW cost \in 0..MaxCost, AgentEnds(r, edit, cost)
        PROVE  \E w \in Session : work' = [work EXCEPT ![r] = w]
    <3>1. work' = [work EXCEPT ![r] = [work[r] EXCEPT
                     !.at = IF edit THEN "update" ELSE "check",
                     !.tokens = @ + cost, !.edited = @ \/ edit]]
      BY <1>1, <2>3 DEF AgentEnds, Session
    <3>2. cost \in Nat
      BY CostAssumption
    <3>3. work[r].edited \in BOOLEAN /\ work[r].tokens + cost \in Nat
      BY <1>4, <3>2, SumType, Zenon
    <3> DEFINE x == IF edit THEN "update" ELSE "check"
               n == work[r].tokens + cost
               e == work[r].edited \/ edit
    <3>4. x \in {"update", "check"} /\ n \in Nat /\ e \in BOOLEAN
      BY <3>3
    <3> HIDE DEF x, n, e
    <3>5. [work[r] EXCEPT !.at = x] \in Session
      BY <1>1, <3>4, SetField
    <3>6. [work[r] EXCEPT !.at = x, !.tokens = n] \in Session
      BY <3>4, <3>5, SetField, Zenon
    <3>7. [work[r] EXCEPT !.at = x, !.tokens = n, !.edited = e] \in Session
      BY <3>4, <3>6, SetField, Zenon
    <3> QED
      BY <3>1, <3>7 DEF x, n, e
  <2>4. CASE UpdateOne(r)
    <3>1. work' = [work EXCEPT ![r] = [work[r] EXCEPT !.at = "verify"]]
      BY <1>1, <2>4 DEF UpdateOne, Session
    <3> QED
      BY <1>1, <3>1 DEF Session
  <2>5. CASE Verify(r)
    <3>1. work' = [work EXCEPT ![r] = [work[r] EXCEPT
                     !.at = IF r \in stale THEN "check" ELSE "done"]]
      BY <1>1, <2>5 DEF Verify, Session
    <3> QED
      BY <1>1, <3>1 DEF Session
  <2>6. CASE StopMidRetry(r)
    <3>1. work' = [work EXCEPT ![r] = [work[r] EXCEPT !.at = "done", !.reason = "budget"]]
      BY <1>1, <2>6 DEF StopMidRetry, Session
    <3> QED
      BY <1>1, <3>1 DEF Session
  <2>7. CASE GiveUp(r)
    <3>1. work' = [work EXCEPT ![r] = [work[r] EXCEPT !.at = "done",
                     !.reason = IF work[r].edited THEN "still stale" ELSE "failed"]]
      BY <1>1, <2>7 DEF GiveUp, Session
    <3> QED
      BY <1>1, <3>1 DEF Session
  <2>8. CASE SessionRaises(r)
    <3>1. work' = [work EXCEPT ![r] = [work[r] EXCEPT !.at = "raised"]]
      BY <1>1, <2>8 DEF SessionRaises, Session
    <3> QED
      BY <1>1, <3>1 DEF Session
  <2> QED
    BY <2>1, <2>2, <2>3, <2>4, <2>5, <2>6, <2>7, <2>8 DEF SessionNext
<1> QED
  BY <1>1, <1>2, <1>3, <1>5

\* What folding the oldest session reads and writes has its type.
LEMMA FoldType ==
  ASSUME TypeOK, FoldDoc
  PROVE  /\ result' \in [turns : Nat, tokens : Nat, refreshed : Seq(Refs)]
         /\ reasons' \subseteq {"budget", "failed", "still stale", "fixpoint", "gate"}
         /\ pending' \in Seq(Refs) /\ Len(pending') <= cfg.window
<1>1. pending \in Seq(Refs) /\ pending # << >> /\ pending' = Tail(pending)
  BY DEF TypeOK, FoldDoc
<1>2. Head(pending) \in Refs
  BY <1>1
<1>3. work[Head(pending)] \in Session
  BY <1>2 DEF TypeOK
<1>4. result.turns \in Nat /\ result.tokens \in Nat /\ result.refreshed \in Seq(Refs)
  BY DEF TypeOK
<1>5. /\ work[Head(pending)].turns \in Nat /\ work[Head(pending)].tokens \in Nat
      /\ work[Head(pending)].reason \in {"none", "budget", "failed", "still stale"}
  BY <1>3 DEF Session
<1>6. Append(result.refreshed, Head(pending)) \in Seq(Refs)
  BY <1>2, <1>4
<1>7. result' \in [turns : Nat, tokens : Nat, refreshed : Seq(Refs)]
  <2> DEFINE w == work[Head(pending)]
             docs == IF w.edited THEN Append(result.refreshed, Head(pending))
                                 ELSE result.refreshed
  <2>1. docs \in Seq(Refs)
    BY <1>4, <1>6
  <2>2. result.turns + w.turns \in Nat /\ result.tokens + w.tokens \in Nat
    BY <1>4, <1>5, SumType, Zenon
  <2>3. result' = [turns |-> result.turns + w.turns, tokens |-> result.tokens + w.tokens,
                   refreshed |-> docs]
    BY DEF FoldDoc
  <2> HIDE DEF w, docs
  <2> QED
    BY <2>1, <2>2, <2>3
<1>8. reasons' \subseteq {"budget", "failed", "still stale", "fixpoint", "gate"}
  <2>1. reasons' = reasons \cup (IF work[Head(pending)].reason = "none"
                                   THEN {} ELSE {work[Head(pending)].reason})
    BY DEF FoldDoc
  <2>2. reasons \subseteq {"budget", "failed", "still stale", "fixpoint", "gate"}
    BY DEF TypeOK
  <2> QED
    BY <1>5, <2>1, <2>2
<1>9. pending' \in Seq(Refs)
  BY <1>1
<1>10. Len(pending') <= cfg.window
  <2>1. cfg.window \in Nat /\ Len(pending) <= cfg.window
    BY ConfigType DEF TypeOK
  <2>2. Len(pending') = Len(pending) - 1 /\ Len(pending) \in Nat
    BY <1>1
  <2> QED
    BY <2>1, <2>2
<1> QED
  BY <1>7, <1>8, <1>9, <1>10

\* Submitting a node starts a session of its own.
LEMMA SubmitType ==
  ASSUME TypeOK, Submit
  PROVE  /\ queue' \in Seq(Refs) /\ pending' \in Seq(Refs) /\ Len(pending') <= cfg.window
         /\ Head(queue) \in Refs /\ NewWork \in Session
         /\ work' \in [Refs -> Session] /\ work' = [work EXCEPT ![Head(queue)] = NewWork]
<1>1. queue \in Seq(Refs) /\ queue # << >> /\ pending \in Seq(Refs)
  BY DEF TypeOK, Submit
<1>2. Head(queue) \in Refs /\ queue' \in Seq(Refs)
  BY <1>1 DEF Submit
<1>3. pending' \in Seq(Refs) /\ Len(pending') = Len(pending) + 1 /\ Len(pending) \in Nat
  BY <1>1, <1>2 DEF Submit
<1>4. Len(pending) < cfg.window /\ cfg.window \in Nat
  BY ConfigType DEF Submit, WindowOpen, TypeOK
<1>5. Len(pending') <= cfg.window
  BY <1>3, <1>4
<1>6. NewWork \in Session
  BY DEF NewWork, NoWork, Session, TypeOK
<1>7. work' \in [Refs -> Session] /\ work' = [work EXCEPT ![Head(queue)] = NewWork]
  BY <1>6 DEF Submit, TypeOK
<1> QED
  BY <1>1, <1>2, <1>3, <1>5, <1>6, <1>7

LEMMA TypeStep ==
  ASSUME TypeOK, [Next]_vars
  PROVE  TypeOK'
<1> USE DEF TypeOK, progress, published
<1>1. CASE NoOp \/ StartRepair \/ Abort \/ BudgetStop \/ FoldRaises
  BY <1>1 DEF NoOp, StartRepair, Abort, BudgetStop, FoldRaises, Phases
<1>2. CASE Submit
  BY <1>2, SubmitType DEF Submit
<1>3. CASE FoldDoc
  <2>1. UNCHANGED <<cfg, stale, queue, work, progress, published>>
    BY <1>3 DEF FoldDoc
  <2> QED
    BY <1>3, <2>1, FoldType
<1>4. CASE EndRepair
  BY <1>4 DEF EndRepair, Phases
<1>5. ASSUME NEW r \in Refs, SessionNext(r)
      PROVE  TypeOK'
  BY <1>5, SessionStepType
<1>6. CASE FixpointReached \/ RoundsSpent \/ FixpointRaises
  BY <1>6 DEF FixpointReached, RoundsSpent, FixpointRaises, AfterRepair, Phases
<1>7. CASE FixpointRound
  <2>1. round \in 0..cfg.rounds /\ round < cfg.rounds /\ cfg.rounds \in Nat
    BY <1>7, ConfigType DEF FixpointRound
  <2>2. round' \in 0..cfg.rounds
    <3>1. round' = round + 1
      BY <1>7 DEF FixpointRound
    <3> QED
      BY <2>1, <3>1, NextRound, Zenon
  <2>3. stuck' \in BOOLEAN /\ prev' \subseteq Refs /\ todo' \subseteq Refs /\ phase' \in Phases
    BY <1>7 DEF FixpointRound, Phases
  <2>4. UNCHANGED <<stale, reasons, cfg, queue, pending, work, result, published>>
    BY <1>7 DEF FixpointRound, AfterRepair
  <2> QED
    BY <2>2, <2>3, <2>4
<1>8. ASSUME NEW r \in Refs, UpdateStale(r)
      PROVE  TypeOK'
  BY <1>8 DEF UpdateStale, AfterRepair, SyncUpdated
<1>9. CASE EndRound
  BY <1>9 DEF EndRound, AfterRepair, Phases
<1>10. ASSUME NEW green \in BOOLEAN, RunGate(green)
       PROVE  TypeOK'
  BY <1>10 DEF RunGate, AfterRepair, Phases
<1>11. CASE EmitRecord \/ Commit \/ SkipCommit \/ Push \/ OpenReview \/ PublishFails
            \/ Backfill \/ Amend \/ PushAgain \/ BackfillFails
  <2>1. UNCHANGED <<cfg, stale, queue, pending, work, result, reasons, round, prev, stuck, todo>>
    BY <1>11 DEF AtEnd, EmitRecord, Commit, SkipCommit, Push, OpenReview, PublishFails,
                 Backfill, Amend, PushAgain, BackfillFails
  <2>2. phase' \in Phases
    BY <1>11 DEF AtEnd, EmitRecord, Commit, SkipCommit, Push, OpenReview, PublishFails,
                 Backfill, Amend, PushAgain, BackfillFails, Phases
  <2>3. RecordOfRun \in Record /\ [store EXCEPT !.url = TRUE] \in Record
    BY DEF RecordOfRun, Record
  <2>4. store' \in Record
    BY <1>11, <2>3 DEF AtEnd, EmitRecord, Commit, SkipCommit, Push, OpenReview, PublishFails,
                 Backfill, Amend, PushAgain, BackfillFails
  <2>5. head' \in Record /\ remote' \in Record /\ review' \in BOOLEAN
    BY <1>11 DEF AtEnd, EmitRecord, Commit, SkipCommit, Push, OpenReview, PublishFails,
                 Backfill, Amend, PushAgain, BackfillFails
  <2> QED
    BY <2>1, <2>2, <2>4, <2>5
<1>12. CASE UNCHANGED vars
  BY <1>12 DEF vars
<1> HIDE DEF TypeOK
<1> QED
  BY <1>1, <1>2, <1>3, <1>4, <1>5, <1>6, <1>7, <1>8, <1>9, <1>10, <1>11, <1>12 DEF Next

\* Every reachable state has its type: among others, no more sessions are
\* pending than the window admits (_dispatch_and_fold).
THEOREM TypeCorrect == Spec => []TypeOK
<1>1. Init => TypeOK
  <2> SUFFICES ASSUME Init PROVE TypeOK
    OBVIOUS
  <2>1. cfg \in Configs /\ queue \in Seq(Refs) /\ Listed(queue) \subseteq Refs
    BY ScopesAssumption DEF Init, Listed
  <2>2. NoWork \in Session
    BY DEF NoWork, Session
  <2>3. Len(pending) <= cfg.window /\ 0 \in 0..cfg.rounds
    BY <2>1, ConfigType DEF Init
  <2>4. work \in [Refs -> Session]
    BY <2>2 DEF Init
  <2>5. result \in [turns : Nat, tokens : Nat, refreshed : Seq(Refs)] /\ pending \in Seq(Refs)
    BY DEF Init
  <2>6. store \in Record /\ head \in Record /\ remote \in Record
    BY DEF Init, NoRecord, Record
  <2> QED
    BY <2>1, <2>3, <2>4, <2>5, <2>6 DEF Init, TypeOK, Phases
<1>2. TypeOK /\ [Next]_vars => TypeOK'
  BY TypeStep
<1> QED
  BY <1>1, <1>2, PTL DEF Spec

(***************************************************************************)
(* What is published carries the verdict of the run.                       *)
(***************************************************************************)

Verdict == IF reasons = {} THEN "green" ELSE "flagged"

\* A record of this run, with a URL only once the review is there.
Honest(record) == record.gate = Verdict /\ (record.url => review)

\* No record exists before the run's verdict is final; after that all are of
\* this run, and the one in the working tree is there to be amended.
HonestRecords ==
  /\ \A record \in {store, head, remote} : record # NoRecord => Honest(record)
  /\ phase \in {"discover", "repair", "stopping", "fixpoint", "rebaseline", "gate", "record"} =>
       store = NoRecord /\ head = NoRecord /\ remote = NoRecord
  /\ phase \in {"commit", "push", "open", "backfill", "amend", "repush"} => store # NoRecord
  /\ phase \in {"backfill", "amend", "repush"} => review

LEMMA HonestStep ==
  ASSUME TypeOK, HonestRecords, [Next]_vars
  PROVE  HonestRecords'
<1>1. store \in Record /\ head \in Record /\ remote \in Record /\ review \in BOOLEAN
  BY DEF TypeOK
<1> USE DEF HonestRecords, Honest, Verdict, progress, published
<1>2. CASE NoOp \/ StartRepair \/ Abort \/ BudgetStop \/ FoldRaises
  BY <1>2 DEF NoOp, StartRepair, Abort, BudgetStop, FoldRaises
<1>3. CASE Submit \/ FoldDoc
  BY <1>3 DEF Submit, FoldDoc
<1>4. CASE EndRepair
  BY <1>4 DEF EndRepair
<1>5. ASSUME NEW r \in Refs, SessionNext(r)
      PROVE  HonestRecords'
  BY <1>5, SessionStepType
<1>6. CASE FixpointReached \/ FixpointRound \/ EndRound \/ RoundsSpent \/ FixpointRaises
  BY <1>6 DEF FixpointReached, FixpointRound, EndRound, RoundsSpent, FixpointRaises, AfterRepair
<1>7. ASSUME NEW r \in Refs, UpdateStale(r)
      PROVE  HonestRecords'
  BY <1>7 DEF UpdateStale, AfterRepair
<1>8. ASSUME NEW green \in BOOLEAN, RunGate(green)
      PROVE  HonestRecords'
  BY <1>8 DEF RunGate, AfterRepair
<1>9. CASE EmitRecord
  <2>1. RecordOfRun.gate = Verdict /\ RecordOfRun.url = FALSE /\ RecordOfRun # NoRecord
    BY DEF RecordOfRun, NoRecord
  <2>2. UNCHANGED <<reasons, head, remote, review>> /\ store' = RecordOfRun /\ phase' = "commit"
    BY <1>9 DEF EmitRecord, AtEnd
  <2>3. head = NoRecord /\ remote = NoRecord
    BY <1>9 DEF EmitRecord, AtEnd
  <2> QED
    BY <2>1, <2>2, <2>3
<1>10. CASE Commit \/ SkipCommit \/ Push \/ PublishFails \/ Amend \/ PushAgain \/ BackfillFails
  BY <1>10 DEF Commit, SkipCommit, Push, PublishFails, Amend, PushAgain, BackfillFails, AtEnd
<1>11. CASE OpenReview
  BY <1>11 DEF OpenReview, AtEnd
<1>12. CASE Backfill
  <2>1. review /\ store # NoRecord /\ Honest(store)
    BY <1>12 DEF Backfill, AtEnd
  <2>2. UNCHANGED <<reasons, head, remote, review>> /\ phase' = "amend"
    BY <1>12 DEF Backfill, AtEnd
  <2>3. store'.gate = store.gate /\ store'.url = TRUE
    BY <1>1, <1>12 DEF Backfill, Record
  <2>4. store' # NoRecord
    BY <2>1, <2>3 DEF NoRecord
  <2>5. head # NoRecord => Honest(head)
    OBVIOUS
  <2>6. remote # NoRecord => Honest(remote)
    OBVIOUS
  <2> QED
    BY <2>1, <2>2, <2>3, <2>4, <2>5, <2>6
<1>13. CASE UNCHANGED vars
  BY <1>13 DEF vars
<1> HIDE DEF HonestRecords
<1> QED
  BY <1>2, <1>3, <1>4, <1>5, <1>6, <1>7, <1>8, <1>9, <1>10, <1>11, <1>12, <1>13 DEF Next

\* The record that reaches the remote is that of the finished run, the gate's
\* verdict included, and names a review only if one was opened
\* (_run_gate, _emit_record, _publish, _backfill_pr_url).
THEOREM PublishedAlwaysHonest == Spec => []PublishedIsHonest
<1>1. Init => HonestRecords
  BY DEF Init, HonestRecords
<1>2. TypeOK /\ HonestRecords /\ [Next]_vars => HonestRecords'
  BY HonestStep
<1>3. HonestRecords => PublishedIsHonest
  BY DEF HonestRecords, PublishedIsHonest, Honest, Verdict
<1> QED
  BY <1>1, <1>2, <1>3, TypeCorrect, PTL DEF Spec

(***************************************************************************)
(* How far a window of sessions can overrun the turn cap.                  *)
(***************************************************************************)

\* What one session may use, what the other sessions of a window may use, and
\* what the sessions ahead of the i-th of the window may still add.
PerDoc == cfg.retries + 1
Slack == (cfg.window - 1) * PerDoc
Ahead(i) == (i - 1) * PerDoc

\* A session stays within its retries and within the cap as it saw it.
WithinCap(r) ==
  work[r].turns <= PerDoc /\ work[r].priorTurns + work[r].turns <= cfg.turns

\* Sessions are started once, from the queue; the totals folded since one was
\* submitted are those of sessions that were ahead of it in its window.
WindowBudget ==
  /\ \A i, j \in 1..Len(queue) : queue[i] = queue[j] => i = j
  /\ \A i \in 1..Len(queue) : work[queue[i]].at = "idle"
  /\ \A i \in 1..Len(pending) : work[pending[i]].at # "idle"
  /\ \A r \in Refs : work[r].at # "idle" => WithinCap(r)
  /\ \A i \in 1..Len(pending) :
       result.turns + Ahead(i) <= work[pending[i]].priorTurns + Slack

\* The step of a session goes on from where it is, keeps the totals it began
\* with, and takes a turn only below both its retries and the cap.
LEMMA SessionEffect ==
  ASSUME TypeOK, NEW r \in Refs, SessionNext(r)
  PROVE  /\ work[r].at # "idle" /\ work'[r].at # "idle"
         /\ work'[r].priorTurns = work[r].priorTurns
         /\ \A q \in Refs \ {r} : work'[q] = work[q]
         /\ \/ work'[r].turns = work[r].turns
            \/ /\ work[r].turns <= cfg.retries
               /\ ~(work[r].priorTurns + work[r].turns >= cfg.turns)
               /\ work'[r].turns = work[r].turns + 1
<1>1. work \in [Refs -> Session] /\ work[r] \in Session
  BY DEF TypeOK
<1>2. CASE Attempt(r)
  BY <1>1, <1>2 DEF Attempt, Spent, Exceeded, Session
<1>3. CASE UpdateOne(r) \/ SessionRaises(r)
  BY <1>1, <1>3 DEF UpdateOne, SessionRaises, Session
<1>4. CASE RateLimited(r)
  BY <1>1, <1>4 DEF RateLimited, Session
<1>5. CASE Verify(r)
  BY <1>1, <1>5 DEF Verify, Session
<1>6. CASE StopMidRetry(r)
  BY <1>1, <1>6 DEF StopMidRetry, Session
<1>7. CASE GiveUp(r)
  BY <1>1, <1>7 DEF GiveUp, Session
<1>8. ASSUME NEW edit \in BOOLEAN, NEW cost \in 0..MaxCost, AgentEnds(r, edit, cost)
      PROVE  /\ work[r].at # "idle" /\ work'[r].at # "idle"
             /\ work'[r].priorTurns = work[r].priorTurns
             /\ \A q \in Refs \ {r} : work'[q] = work[q]
             /\ work'[r].turns = work[r].turns
  BY <1>1, <1>8 DEF AgentEnds, Session
<1> QED
  BY <1>2, <1>3, <1>8, <1>4, <1>5, <1>6, <1>7 DEF SessionNext

\* What the budget arithmetic needs of the numbers involved.
LEMMA BudgetNumbers ==
  ASSUME TypeOK
  PROVE  /\ PerDoc \in Nat /\ Slack \in Nat /\ cfg.turns \in Nat /\ result.turns \in Nat
         /\ \A r \in Refs : work[r].turns \in Nat /\ work[r].priorTurns \in Nat
<1>1. cfg.window \in Nat \ {0} /\ cfg.retries \in Nat /\ cfg.turns \in Nat
  BY ConfigType DEF TypeOK
<1>2. \A k \in Nat \ {0}, n \in Nat : n + 1 \in Nat /\ (k - 1) * (n + 1) \in Nat
  OBVIOUS
<1>3. PerDoc \in Nat /\ Slack \in Nat
  BY <1>1, <1>2, Zenon DEF PerDoc, Slack
<1>4. result.turns \in Nat /\ \A r \in Refs : work[r] \in Session
  BY DEF TypeOK
<1> QED
  BY <1>1, <1>3, <1>4 DEF Session

\* One place up the queue is one session's use fewer ahead.
LEMMA OneFewerAhead ==
  ASSUME NEW per \in Nat, NEW total \in Nat, NEW used \in Nat, used <= per,
         NEW seen \in Nat, NEW slack \in Nat, NEW i \in Nat \ {0},
         total + ((i + 1) - 1) * per <= seen + slack
  PROVE  (total + used) + (i - 1) * per <= seen + slack
<1>1. ((i + 1) - 1) * per = (i - 1) * per + per
  OBVIOUS
<1>2. (i - 1) * per \in Nat
  OBVIOUS
<1> DEFINE m == (i - 1) * per
<1>3. total + (m + per) <= seen + slack
  BY <1>1
<1>4. m \in Nat
  BY <1>2
<1> HIDE DEF m
<1>5. (total + used) + m <= seen + slack
  BY <1>3, <1>4
<1> QED
  BY <1>5 DEF m

\* The last session of a full window has the other ones ahead of it.
LEMMA AheadOfLast ==
  ASSUME NEW per \in Nat, NEW window \in Nat \ {0}, NEW n \in Nat, n < window
  PROVE  ((n + 1) - 1) * per <= (window - 1) * per
<1>1. \A a, b, c \in Nat : a <= b => a * c <= b * c
  OBVIOUS
<1>2. (n + 1) - 1 \in Nat /\ window - 1 \in Nat /\ (n + 1) - 1 <= window - 1
  OBVIOUS
<1> QED
  BY <1>1, <1>2

LEMMA BudgetSubmit ==
  ASSUME TypeOK, WindowBudget, Submit
  PROVE  WindowBudget'
<1>0. PICK r \in Refs : r = Head(queue)
  BY SubmitType
<1>1. queue \in Seq(Refs) /\ queue # << >> /\ pending \in Seq(Refs)
  BY DEF TypeOK, Submit
<1>2. queue' = Tail(queue) /\ pending' = Append(pending, r) /\ UNCHANGED <<cfg, result>>
  BY <1>0 DEF Submit
<1>3. work' = [work EXCEPT ![r] = NewWork] /\ work \in [Refs -> Session]
  BY <1>0, SubmitType DEF TypeOK
<1>4. /\ NewWork.at = "check" /\ NewWork.turns = 0 /\ NewWork.priorTurns = result.turns
  BY DEF NewWork, NoWork
<1>5. r = queue[1] /\ Len(queue') = Len(queue) - 1 /\ Len(queue) \in Nat \ {0}
      /\ \A i \in 1..Len(queue') : i + 1 \in 1..Len(queue) /\ queue'[i] = queue[i + 1]
  BY <1>0, <1>1, <1>2
<1>last. PICK last \in Nat : last = Len(pending) + 1
  BY <1>1
<1>6. Len(pending') = last /\ Len(pending) \in Nat
      /\ pending'[last] = r
      /\ \A i \in 1..Len(pending) : pending'[i] = pending[i] /\ pending[i] \in Refs
  BY <1>1, <1>2, <1>last
<1>7. work[r].at = "idle"
  BY <1>1, <1>5 DEF WindowBudget
<1>8. \A i \in 1..Len(pending) : pending[i] # r
  BY <1>7 DEF WindowBudget
<1>9. \A i \in 1..Len(queue') : queue'[i] # r /\ queue'[i] \in Refs
  <2> SUFFICES ASSUME NEW i \in 1..Len(queue')
               PROVE  queue'[i] # r /\ queue'[i] \in Refs
    OBVIOUS
  <2>1. i + 1 \in 1..Len(queue) /\ 1 \in 1..Len(queue) /\ i + 1 # 1 /\ queue'[i] = queue[i + 1]
    BY <1>5
  <2>2. queue[i + 1] # queue[1]
    BY <2>1 DEF WindowBudget
  <2> QED
    BY <1>1, <1>5, <2>1, <2>2
<1>10. work'[r] = NewWork /\ \A q \in Refs : q # r => work'[q] = work[q]
  BY <1>1, <1>3
<1>11. UNCHANGED <<PerDoc, Slack>> /\ \A i \in Nat : Ahead(i)' = Ahead(i)
  BY <1>2 DEF PerDoc, Slack, Ahead
<1>12. result.turns < cfg.turns /\ result.turns \in Nat /\ cfg.turns \in Nat /\ PerDoc \in Nat
  <2>1. result.turns \in Nat /\ cfg.turns \in Nat /\ PerDoc \in Nat
    BY BudgetNumbers
  <2>2. ~(result.turns >= cfg.turns)
    BY DEF Submit, OverBudget, Exceeded
  <2> QED
    BY <2>1, <2>2
<1>13. \A i, j \in 1..Len(queue') : queue'[i] = queue'[j] => i = j
  <2> SUFFICES ASSUME NEW i \in 1..Len(queue'), NEW j \in 1..Len(queue'),
                      queue'[i] = queue'[j]
               PROVE  i = j
    OBVIOUS
  <2>1. i + 1 = j + 1
    BY <1>5 DEF WindowBudget
  <2> QED
    BY <2>1, <1>5
<1>14. \A i \in 1..Len(queue') : work'[queue'[i]].at = "idle"
  BY <1>5, <1>9, <1>10 DEF WindowBudget
<1>15. \A i \in 1..Len(pending') : i \in 1..Len(pending) \/ i = last
  BY <1>6, <1>last
<1>16. \A i \in 1..Len(pending') : work'[pending'[i]].at # "idle"
  BY <1>4, <1>6, <1>8, <1>10, <1>15 DEF WindowBudget
<1>17. \A q \in Refs : work'[q].at # "idle" => WithinCap(q)'
  <2>1. 0 <= PerDoc /\ result.turns + 0 <= cfg.turns
    BY <1>12
  <2>2. WithinCap(r)'
    <3>1. work'[r].turns = 0 /\ work'[r].priorTurns = result.turns
      BY <1>4, <1>10
    <3>2. cfg' = cfg /\ PerDoc' = PerDoc
      BY <1>2, <1>11
    <3>3. work'[r].turns <= PerDoc' /\ work'[r].priorTurns + work'[r].turns <= cfg'.turns
      BY <2>1, <3>1, <3>2
    <3> QED
      BY <3>3 DEF WithinCap
  <2>3. ASSUME NEW q \in Refs, q # r, work'[q].at # "idle"
        PROVE  WithinCap(q)'
    BY <1>2, <1>10, <1>11, <2>3 DEF WithinCap, WindowBudget
  <2> SUFFICES ASSUME NEW q \in Refs, work'[q].at # "idle"
               PROVE  WithinCap(q)'
    OBVIOUS
  <2>4. CASE q = r
    BY <2>2, <2>4
  <2>5. CASE q # r
    BY <2>3, <2>5
  <2> QED
    BY <2>4, <2>5
<1>18. \A i \in 1..Len(pending') :
         result'.turns + Ahead(i)' <= work'[pending'[i]].priorTurns + Slack'
  <2>1. ASSUME NEW i \in 1..Len(pending)
        PROVE  result'.turns + Ahead(i)' <= work'[pending'[i]].priorTurns + Slack'
    <3>1. result.turns + Ahead(i) <= work[pending[i]].priorTurns + Slack
      BY DEF WindowBudget
    <3>2. work'[pending'[i]] = work[pending[i]]
      BY <1>6, <1>8, <1>10
    <3>3. i \in Nat
      OBVIOUS
    <3> QED
      BY <1>2, <1>11, <3>1, <3>2, <3>3
  <2>2. Ahead(last) <= Slack
    <3>1. Len(pending) < cfg.window /\ cfg.window \in Nat \ {0}
      BY ConfigType DEF Submit, WindowOpen, TypeOK
    <3> QED
      BY <1>6, <1>12, <1>last, <3>1, AheadOfLast DEF Ahead, Slack
  <2>3. Ahead(last) \in Nat /\ Slack \in Nat
    <3>1. \A n, k \in Nat : ((n + 1) - 1) * k \in Nat
      OBVIOUS
    <3> QED
      BY <1>6, <1>12, <1>last, <3>1, BudgetNumbers DEF Ahead
  <2>4. result.turns + Ahead(last) <= result.turns + Slack
    BY <1>12, <2>2, <2>3
  <2>5. result'.turns + Ahead(last)'
          <= work'[pending'[last]].priorTurns + Slack'
    <3>1. result'.turns = result.turns /\ Slack' = Slack
      BY <1>2, <1>11
    <3>2. Ahead(last)' = Ahead(last)
      BY <1>2 DEF Ahead, PerDoc
    <3>3. work'[pending'[last]].priorTurns = result.turns
      BY <1>4, <1>6, <1>10
    <3> QED
      BY <2>4, <3>1, <3>2, <3>3
  <2> SUFFICES ASSUME NEW i \in 1..Len(pending')
               PROVE  result'.turns + Ahead(i)' <= work'[pending'[i]].priorTurns + Slack'
    OBVIOUS
  <2>6. CASE i = last
    BY <2>5, <2>6
  <2>7. CASE i # last
    BY <1>15, <2>1, <2>7
  <2> QED
    BY <2>6, <2>7
<1> QED
  BY <1>13, <1>14, <1>16, <1>17, <1>18 DEF WindowBudget

LEMMA BudgetFold ==
  ASSUME TypeOK, WindowBudget, TurnsBounded, FoldDoc
  PROVE  WindowBudget' /\ TurnsBounded'
<1>0. PICK r \in Refs : r = Head(pending)
  <2>1. pending \in Seq(Refs) /\ pending # << >>
    BY DEF TypeOK, FoldDoc
  <2>2. Head(pending) \in Refs
    BY <2>1
  <2> QED
    BY <2>2
<1>1. pending \in Seq(Refs) /\ pending # << >> /\ pending' = Tail(pending)
  BY DEF TypeOK, FoldDoc
<1>2. UNCHANGED <<cfg, queue, work>> /\ work[r].at = "done"
      /\ result'.turns = result.turns + work[r].turns
  BY <1>0 DEF FoldDoc
<1>3. r = pending[1] /\ 1 \in 1..Len(pending)
      /\ \A i \in 1..Len(pending') :
           /\ i + 1 \in 1..Len(pending) /\ i \in Nat \ {0}
           /\ pending'[i] = pending[i + 1] /\ pending[i + 1] \in Refs
  BY <1>0, <1>1
<1>4. work[r].turns <= PerDoc /\ work[r].priorTurns + work[r].turns <= cfg.turns
  BY <1>2 DEF WindowBudget, WithinCap
<1>5. /\ PerDoc \in Nat /\ Slack \in Nat /\ cfg.turns \in Nat /\ result.turns \in Nat
      /\ work[r].turns \in Nat /\ work[r].priorTurns \in Nat
  BY BudgetNumbers
<1>6. UNCHANGED <<PerDoc, Slack>> /\ \A i \in Nat : Ahead(i)' = Ahead(i)
  BY <1>2 DEF PerDoc, Slack, Ahead
<1>7. \A i \in 1..Len(pending') :
        result'.turns + Ahead(i)' <= work'[pending'[i]].priorTurns + Slack'
  <2> SUFFICES ASSUME NEW i \in 1..Len(pending')
               PROVE  result'.turns + Ahead(i)' <= work'[pending'[i]].priorTurns + Slack'
    OBVIOUS
  <2>1. result.turns + Ahead(i + 1) <= work[pending[i + 1]].priorTurns + Slack
    BY <1>3 DEF WindowBudget
  <2>2. work[pending[i + 1]].priorTurns \in Nat /\ i \in Nat \ {0}
    BY <1>3, BudgetNumbers
  <2>3. (result.turns + work[r].turns) + Ahead(i) <= work[pending[i + 1]].priorTurns + Slack
    BY <1>4, <1>5, <2>1, <2>2, OneFewerAhead DEF Ahead
  <2> QED
    BY <1>2, <1>3, <1>6, <2>2, <2>3
<1>8. result'.turns <= cfg'.turns + (cfg'.window - 1) * (cfg'.retries + 1)
  <2>1. result.turns + Ahead(1) <= work[r].priorTurns + Slack
    BY <1>3 DEF WindowBudget
  <2>2. Ahead(1) = 0
    BY <1>5 DEF Ahead
  <2>3. result.turns + work[r].turns <= cfg.turns + Slack
    BY <1>4, <1>5, <2>1, <2>2
  <2> QED
    BY <1>2, <2>3 DEF Slack, PerDoc
<1>9. \A q \in Refs : WithinCap(q)' = WithinCap(q)
  BY <1>2, <1>6 DEF WithinCap
<1>10. \A i \in 1..Len(pending') : work'[pending'[i]].at # "idle"
  BY <1>2, <1>3 DEF WindowBudget
<1> QED
  BY <1>2, <1>7, <1>8, <1>9, <1>10 DEF WindowBudget, TurnsBounded

LEMMA BudgetSession ==
  ASSUME TypeOK, WindowBudget, NEW r \in Refs, SessionNext(r)
  PROVE  WindowBudget'
<1>1. UNCHANGED <<cfg, queue, pending, result>>
  BY SessionStepType
<1>2. UNCHANGED <<PerDoc, Slack>> /\ \A i \in Nat : Ahead(i)' = Ahead(i)
  BY <1>1 DEF PerDoc, Slack, Ahead
<1>3. queue \in Seq(Refs) /\ pending \in Seq(Refs)
  BY DEF TypeOK
<1>4. \A q \in Refs : /\ work'[q].priorTurns = work[q].priorTurns
                      /\ work'[q].at = "idle" <=> work[q].at = "idle"
  BY SessionEffect
<1>5. WithinCap(r)'
  <2>1. WithinCap(r)
    BY SessionEffect DEF WindowBudget
  <2>2. /\ cfg.retries \in Nat /\ cfg.turns \in Nat
        /\ work[r].turns \in Nat /\ work[r].priorTurns \in Nat
    BY BudgetNumbers, ConfigType DEF TypeOK
  <2>3. CASE work'[r].turns = work[r].turns
    BY <1>1, <1>2, <1>4, <2>1, <2>3 DEF WithinCap
  <2>4. CASE /\ work[r].turns <= cfg.retries
             /\ ~(work[r].priorTurns + work[r].turns >= cfg.turns)
             /\ work'[r].turns = work[r].turns + 1
    <3>1. work[r].turns + 1 <= cfg.retries + 1
      BY <2>2, <2>4
    <3>2. work[r].priorTurns + (work[r].turns + 1) <= cfg.turns
      BY <2>2, <2>4
    <3> QED
      BY <1>1, <1>4, <2>4, <3>1, <3>2 DEF WithinCap, PerDoc
  <2> QED
    BY <2>3, <2>4, SessionEffect
<1>6. \A q \in Refs : work'[q].at # "idle" => WithinCap(q)'
  <2> SUFFICES ASSUME NEW q \in Refs, work'[q].at # "idle"
               PROVE  WithinCap(q)'
    OBVIOUS
  <2>1. CASE q = r
    BY <1>5, <2>1
  <2>2. CASE q # r
    BY <1>1, <1>2, <2>2, SessionEffect DEF WindowBudget, WithinCap
  <2> QED
    BY <2>1, <2>2
<1>7. \A i \in 1..Len(queue) : queue[i] \in Refs
  BY <1>3
<1>8. \A i \in 1..Len(pending) : pending[i] \in Refs /\ i \in Nat
  BY <1>3
<1>9. \A i \in 1..Len(queue') : work'[queue'[i]].at = "idle"
  BY <1>1, <1>4, <1>7 DEF WindowBudget
<1>10. \A i \in 1..Len(pending') : work'[pending'[i]].at # "idle"
  BY <1>1, <1>4, <1>8 DEF WindowBudget
<1>11. \A i \in 1..Len(pending') :
         result'.turns + Ahead(i)' <= work'[pending'[i]].priorTurns + Slack'
  BY <1>1, <1>2, <1>4, <1>8 DEF WindowBudget
<1> QED
  BY <1>1, <1>6, <1>9, <1>10, <1>11 DEF WindowBudget

LEMMA BudgetStep ==
  ASSUME TypeOK, WindowBudget, TurnsBounded, [Next]_vars
  PROVE  WindowBudget' /\ TurnsBounded'
<1>1. ASSUME UNCHANGED <<cfg, queue, pending, work, result>>
      PROVE  WindowBudget' /\ TurnsBounded'
  <2>1. UNCHANGED <<PerDoc, Slack>> /\ \A i \in Nat : Ahead(i)' = Ahead(i)
    BY <1>1 DEF PerDoc, Slack, Ahead
  <2>2. \A r \in Refs : WithinCap(r)' = WithinCap(r)
    BY <1>1, <2>1 DEF WithinCap
  <2>3. \A i \in 1..Len(pending) : i \in Nat
    OBVIOUS
  <2>4. WindowBudget'
    BY <1>1, <2>1, <2>2, <2>3 DEF WindowBudget
  <2> QED
    BY <1>1, <2>4 DEF TurnsBounded
<1>2. ASSUME UNCHANGED <<cfg, result>>
      PROVE  TurnsBounded'
  BY <1>2 DEF TurnsBounded
<1>3. CASE Submit
  BY <1>2, <1>3, BudgetSubmit DEF Submit
<1>4. CASE FoldDoc
  BY <1>4, BudgetFold
<1>5. ASSUME NEW r \in Refs, SessionNext(r)
      PROVE  WindowBudget' /\ TurnsBounded'
  BY <1>2, <1>5, BudgetSession, SessionStepType
<1>6. CASE NoOp \/ StartRepair \/ Abort \/ BudgetStop \/ FoldRaises \/ EndRepair
  BY <1>1, <1>6 DEF NoOp, StartRepair, Abort, BudgetStop, FoldRaises, EndRepair
<1>7. CASE \/ FixpointReached \/ FixpointRound \/ (\E r \in Refs : UpdateStale(r)) \/ EndRound
           \/ RoundsSpent \/ FixpointRaises \/ (\E green \in BOOLEAN : RunGate(green))
  BY <1>1, <1>7 DEF FixpointReached, FixpointRound, UpdateStale, EndRound, RoundsSpent,
                    FixpointRaises, RunGate, AfterRepair
<1>8. CASE EmitRecord \/ Commit \/ SkipCommit \/ Push \/ OpenReview \/ PublishFails
           \/ Backfill \/ Amend \/ PushAgain \/ BackfillFails
  BY <1>1, <1>8 DEF AtEnd, EmitRecord, Commit, SkipCommit, Push, OpenReview, PublishFails,
                    Backfill, Amend, PushAgain, BackfillFails
<1>9. CASE UNCHANGED vars
  BY <1>1, <1>9 DEF vars
<1> QED
  BY <1>3, <1>4, <1>5, <1>6, <1>7, <1>8, <1>9 DEF Next

\* A run overruns its turn cap by the attempts of the other sessions of one
\* window at most; a sequential one, not at all (_budget_stop,
\* _doc_budget_exceeded).
THEOREM TurnsAlwaysBounded == Spec => []TurnsBounded
<1>1. Init => WindowBudget /\ TurnsBounded
  <2> SUFFICES ASSUME Init PROVE WindowBudget /\ TurnsBounded
    OBVIOUS
  <2>1. queue \in Seq(Refs) /\ \A i, j \in 1..Len(queue) : queue[i] = queue[j] => i = j
    BY ScopesAssumption DEF Init
  <2>2. \A r \in Refs : work[r].at = "idle"
    BY DEF Init, NoWork
  <2>3. \A i \in 1..Len(queue) : queue[i] \in Refs
    BY <2>1
  <2>4. Len(pending) = 0 /\ result.turns = 0
    BY DEF Init
  <2>5. WindowBudget
    BY <2>1, <2>2, <2>3, <2>4 DEF WindowBudget
  <2>6. TurnsBounded
    <3>1. \A t \in Nat \ {0}, k \in Nat \ {0}, n \in Nat : 0 <= t + (k - 1) * (n + 1)
      OBVIOUS
    <3> QED
      BY <2>4, <3>1, ConfigType DEF Init, TurnsBounded
  <2> QED
    BY <2>5, <2>6
<1>2. TypeOK /\ WindowBudget /\ TurnsBounded /\ [Next]_vars => WindowBudget' /\ TurnsBounded'
  BY BudgetStep
<1> QED
  BY <1>1, <1>2, TypeCorrect, PTL DEF Spec

(***************************************************************************)
(* A run without a flag has repaired what it set out to.                   *)
(***************************************************************************)

\* A session is checked, and ends without a reason, only after an edit.
EditedFirst(r) ==
  /\ work[r].at \in {"update", "verify"} => work[r].edited
  /\ work[r].at = "done" /\ work[r].reason = "none" => work[r].edited

\* While no reason is recorded, every doc a session was started for is
\* refreshed or still pending; past the repair no session is left to disturb
\* what the fixpoint has seen.
SessionsAccounted ==
  /\ \A r \in Refs : work[r].at \notin {"idle", "done"} => r \in Listed(pending)
  /\ phase \notin {"repair", "stopping", "aborted"} => pending = << >>
  /\ \A r \in Refs : EditedFirst(r)
  /\ reasons = {} =>
       {r \in Refs : work[r].at # "idle"} = Listed(result.refreshed) \cup Listed(pending)
  /\ phase = "stopping" => OverBudget
  /\ phase \notin {"discover", "repair", "stopping", "aborted"} /\ reasons = {} => queue = << >>
  /\ AfterFixpoint /\ reasons = {} => stale = {}

LEMMA ListedAppend ==
  ASSUME NEW s \in Seq(Refs), NEW r \in Refs
  PROVE  Listed(Append(s, r)) = Listed(s) \cup {r}
<1>1. /\ Len(Append(s, r)) = Len(s) + 1 /\ Len(s) \in Nat /\ Append(s, r)[Len(s) + 1] = r
      /\ \A i \in 1..Len(s) : Append(s, r)[i] = s[i]
  OBVIOUS
<1>2. \A i \in 1..(Len(s) + 1) : i \in 1..Len(s) \/ i = Len(s) + 1
  BY <1>1
<1>3. \A i \in 1..Len(s) : i \in 1..(Len(s) + 1)
  BY <1>1
<1>4. Len(s) + 1 \in 1..(Len(s) + 1)
  BY <1>1
<1> QED
  BY <1>1, <1>2, <1>3, <1>4, Zenon DEF Listed

LEMMA ListedTail ==
  ASSUME NEW s \in Seq(Refs), s # << >>
  PROVE  Listed(s) = {Head(s)} \cup Listed(Tail(s))
<1>1. /\ Len(Tail(s)) = Len(s) - 1 /\ Len(s) \in Nat \ {0} /\ Head(s) = s[1]
      /\ \A i \in 1..Len(Tail(s)) : Tail(s)[i] = s[i + 1] /\ i + 1 \in 1..Len(s)
  OBVIOUS
<1>2. \A i \in 1..Len(s) : i = 1 \/ (i - 1 \in 1..Len(Tail(s)) /\ (i - 1) + 1 = i)
  BY <1>1
<1>3. \A i \in 1..Len(s) : s[i] \in {Head(s)} \cup Listed(Tail(s))
  <2> SUFFICES ASSUME NEW i \in 1..Len(s), i # 1
               PROVE  s[i] \in Listed(Tail(s))
    BY <1>1
  <2>1. PICK j \in 1..Len(Tail(s)) : j + 1 = i
    BY <1>2
  <2>2. Tail(s)[j] = s[i]
    BY <1>1, <2>1
  <2> QED
    BY <2>2 DEF Listed
<1>4. 1 \in 1..Len(s)
  BY <1>1
<1> QED
  BY <1>1, <1>3, <1>4 DEF Listed

\* A session that steps has not ended, and ends without a reason, or is
\* checked, only after an edit.
LEMMA SessionEnds ==
  ASSUME TypeOK, NEW r \in Refs, SessionNext(r), EditedFirst(r)
  PROVE  /\ work[r].at \notin {"idle", "done"}
         /\ EditedFirst(r)'
<1>1. work \in [Refs -> Session] /\ work[r] \in Session
  BY DEF TypeOK
<1>2. CASE Attempt(r)
  BY <1>1, <1>2 DEF Attempt, Session, EditedFirst
<1>3. CASE UpdateOne(r)
  BY <1>1, <1>3 DEF UpdateOne, Session, EditedFirst
<1>4. CASE SessionRaises(r)
  BY <1>1, <1>4 DEF SessionRaises, Session, EditedFirst
<1>5. CASE RateLimited(r)
  BY <1>1, <1>5 DEF RateLimited, Session, EditedFirst
<1>6. CASE Verify(r)
  BY <1>1, <1>6 DEF Verify, Session, EditedFirst
<1>7. CASE StopMidRetry(r)
  BY <1>1, <1>7 DEF StopMidRetry, Session, EditedFirst
<1>8. CASE GiveUp(r)
  BY <1>1, <1>8 DEF GiveUp, Session, EditedFirst
<1>9. ASSUME NEW edit \in BOOLEAN, NEW cost \in 0..MaxCost, AgentEnds(r, edit, cost)
      PROVE  work[r].at \notin {"idle", "done"} /\ EditedFirst(r)'
  BY <1>1, <1>9 DEF AgentEnds, Session, EditedFirst
<1> QED
  BY <1>2, <1>3, <1>4, <1>5, <1>6, <1>7, <1>8, <1>9 DEF SessionNext

LEMMA AccountedSubmit ==
  ASSUME TypeOK, SessionsAccounted, Submit
  PROVE  SessionsAccounted'
<1>1. PICK r \in Refs : r = Head(queue)
  BY SubmitType
<1>2. /\ work' = [work EXCEPT ![r] = NewWork] /\ pending' = Append(pending, r)
      /\ UNCHANGED <<cfg, stale, result, reasons, phase>> /\ phase = "repair"
  BY <1>1 DEF Submit, progress
<1>3. work \in [Refs -> Session] /\ pending \in Seq(Refs)
  BY DEF TypeOK
<1>4. Listed(pending') = Listed(pending) \cup {r}
  BY <1>2, <1>3, ListedAppend
<1>5. NewWork.at = "check"
  BY DEF NewWork, NoWork
<1>6. work'[r] = NewWork /\ \A q \in Refs : q # r => work'[q] = work[q]
  BY <1>2, <1>3
<1>7. \A q \in Refs : work'[q].at \notin {"idle", "done"} => q \in Listed(pending')
  BY <1>4, <1>6 DEF SessionsAccounted
<1>8. \A q \in Refs : EditedFirst(q)'
  BY <1>5, <1>6 DEF SessionsAccounted, EditedFirst
<1>9. reasons' = {} =>
        {q \in Refs : work'[q].at # "idle"} = Listed(result'.refreshed) \cup Listed(pending')
  <2> SUFFICES ASSUME reasons = {}
               PROVE  {q \in Refs : work'[q].at # "idle"}
                        = Listed(result.refreshed) \cup Listed(pending')
    BY <1>2
  <2>1. {q \in Refs : work[q].at # "idle"} = Listed(result.refreshed) \cup Listed(pending)
    BY DEF SessionsAccounted
  <2>2. {q \in Refs : work'[q].at # "idle"} = {q \in Refs : work[q].at # "idle"} \cup {r}
    BY <1>5, <1>6
  <2> QED
    BY <1>4, <2>1, <2>2
<1> QED
  BY <1>2, <1>7, <1>8, <1>9 DEF SessionsAccounted, AfterFixpoint

LEMMA AccountedFold ==
  ASSUME TypeOK, SessionsAccounted, FoldDoc
  PROVE  SessionsAccounted'
<1>1. pending \in Seq(Refs) /\ pending # << >> /\ pending' = Tail(pending)
  BY DEF TypeOK, FoldDoc
<1>2. Head(pending) \in Refs
  BY <1>1
<1>3. PICK r \in Refs : r = Head(pending)
  BY <1>2
<1>4. /\ UNCHANGED <<cfg, stale, queue, work, phase>> /\ phase \in {"repair", "stopping"}
      /\ work[r].at = "done"
      /\ result'.turns = result.turns + work[r].turns
      /\ result'.tokens = result.tokens + work[r].tokens
      /\ result'.refreshed = IF work[r].edited THEN Append(result.refreshed, r)
                                               ELSE result.refreshed
      /\ reasons' = reasons \cup (IF work[r].reason = "none" THEN {} ELSE {work[r].reason})
  BY <1>3 DEF FoldDoc, progress
<1>5. Listed(pending) = {r} \cup Listed(pending')
  BY <1>1, <1>3, ListedTail
<1>6. \A q \in Refs : work'[q].at \notin {"idle", "done"} => q \in Listed(pending')
  BY <1>4, <1>5 DEF SessionsAccounted
<1>7. \A q \in Refs : EditedFirst(q)'
  BY <1>4 DEF SessionsAccounted, EditedFirst
<1>8. reasons' = {} =>
        {q \in Refs : work'[q].at # "idle"} = Listed(result'.refreshed) \cup Listed(pending')
  <2> SUFFICES ASSUME reasons' = {}
               PROVE  {q \in Refs : work[q].at # "idle"}
                        = Listed(result'.refreshed) \cup Listed(pending')
    BY <1>4
  <2>1. reasons = {} /\ work[r].reason = "none"
    BY <1>4
  <2>2. work[r].edited
    BY <1>4, <2>1 DEF SessionsAccounted, EditedFirst
  <2>3. result.refreshed \in Seq(Refs)
    BY DEF TypeOK
  <2>4. Listed(result'.refreshed) = Listed(result.refreshed) \cup {r}
    BY <1>4, <2>2, <2>3, ListedAppend
  <2>5. {q \in Refs : work[q].at # "idle"} = Listed(result.refreshed) \cup Listed(pending)
    BY <2>1 DEF SessionsAccounted
  <2> QED
    BY <1>5, <2>4, <2>5
<1>9. phase = "stopping" => OverBudget'
  <2>1. OverBudget => OverBudget'
    <3>1. /\ result.turns \in Nat /\ result.tokens \in Nat /\ cfg.turns \in Nat
          /\ cfg.tokens \in Nat /\ work[r].turns \in Nat /\ work[r].tokens \in Nat
      BY ConfigType DEF TypeOK, Session
    <3>2. \A a, b, c \in Nat : a >= c => a + b >= c
      OBVIOUS
    <3> QED
      BY <1>4, <3>1, <3>2 DEF OverBudget, Exceeded
  <2> QED
    BY <2>1 DEF SessionsAccounted
<1> QED
  BY <1>4, <1>6, <1>7, <1>8, <1>9 DEF SessionsAccounted, AfterFixpoint

LEMMA AccountedSession ==
  ASSUME TypeOK, SessionsAccounted, NEW r \in Refs, SessionNext(r)
  PROVE  SessionsAccounted'
<1>1. UNCHANGED <<cfg, queue, pending, result, reasons, phase>>
  BY SessionStepType DEF progress
<1>2. work[r].at \notin {"idle", "done"} /\ EditedFirst(r)'
  BY SessionEnds DEF SessionsAccounted
<1>3. \A q \in Refs \ {r} : work'[q] = work[q]
  BY SessionEffect
<1>4. work'[r].at # "idle"
  BY SessionEffect
<1>5. r \in Listed(pending)
  BY <1>2 DEF SessionsAccounted
<1>6. pending # << >>
  <2>1. Len(<< >>) = 0
    OBVIOUS
  <2> QED
    BY <1>5, <2>1 DEF Listed
<1>7. phase \in {"repair", "stopping", "aborted"}
  BY <1>6 DEF SessionsAccounted
<1>8. \A q \in Refs : work'[q].at \notin {"idle", "done"} => q \in Listed(pending')
  BY <1>1, <1>3, <1>5 DEF SessionsAccounted
<1>9. \A q \in Refs : EditedFirst(q)'
  <2> SUFFICES ASSUME NEW q \in Refs PROVE EditedFirst(q)'
    OBVIOUS
  <2>1. CASE q = r
    BY <1>2, <2>1
  <2>2. CASE q # r
    BY <1>3, <2>2 DEF SessionsAccounted, EditedFirst
  <2> QED
    BY <2>1, <2>2
<1>10. {q \in Refs : work'[q].at # "idle"} = {q \in Refs : work[q].at # "idle"}
  BY <1>2, <1>3, <1>4
<1>11. reasons' = {} =>
         {q \in Refs : work'[q].at # "idle"} = Listed(result'.refreshed) \cup Listed(pending')
  BY <1>1, <1>10 DEF SessionsAccounted
<1>12. OverBudget' = OverBudget /\ ~AfterFixpoint'
  BY <1>1, <1>7 DEF OverBudget, Exceeded, AfterFixpoint
<1> QED
  BY <1>1, <1>7, <1>8, <1>9, <1>11, <1>12 DEF SessionsAccounted

LEMMA AccountedStep ==
  ASSUME TypeOK, SessionsAccounted, [Next]_vars
  PROVE  SessionsAccounted'
<1>1. ASSUME UNCHANGED <<cfg, pending, work, result>>
      PROVE  /\ \A r \in Refs : work'[r].at \notin {"idle", "done"} => r \in Listed(pending')
             /\ \A r \in Refs : EditedFirst(r)'
             /\ reasons = {} => {r \in Refs : work'[r].at # "idle"}
                                  = Listed(result'.refreshed) \cup Listed(pending')
             /\ OverBudget' = OverBudget
  BY <1>1 DEF SessionsAccounted, EditedFirst, OverBudget, Exceeded
<1>2. CASE Submit
  BY <1>2, AccountedSubmit
<1>3. CASE FoldDoc
  BY <1>3, AccountedFold
<1>4. ASSUME NEW r \in Refs, SessionNext(r)
      PROVE  SessionsAccounted'
  BY <1>4, AccountedSession
<1>5. CASE NoOp \/ StartRepair \/ Abort \/ BudgetStop \/ FoldRaises
  <2>1. UNCHANGED <<cfg, stale, queue, pending, work, result, reasons>>
    BY <1>5 DEF NoOp, StartRepair, Abort, BudgetStop, FoldRaises
  <2> QED
    BY <1>1, <1>5, <2>1
    DEF SessionsAccounted, AfterFixpoint, NoOp, StartRepair, Abort, BudgetStop, FoldRaises
<1>6. CASE EndRepair
  <2>1. UNCHANGED <<cfg, stale, queue, pending, work, result>>
    BY <1>6 DEF EndRepair
  <2>2. phase' = "fixpoint" /\ pending = << >> /\ (reasons' = {} => reasons = {} /\ ~OverBudget)
    BY <1>6 DEF EndRepair
  <2>3. queue = << >> \/ OverBudget
    BY <1>6 DEF EndRepair, SessionsAccounted
  <2> QED
    BY <1>1, <2>1, <2>2, <2>3 DEF SessionsAccounted, AfterFixpoint
<1>7. CASE FixpointReached
  BY <1>1, <1>7 DEF FixpointReached, Stable, AfterRepair, SessionsAccounted, AfterFixpoint
<1>8. CASE FixpointRound \/ FixpointRaises \/ \E r \in Refs : UpdateStale(r)
  <2>1. UNCHANGED <<cfg, queue, pending, work, result, reasons>>
    BY <1>8 DEF FixpointRound, FixpointRaises, UpdateStale, AfterRepair
  <2>2. phase \in {"fixpoint", "rebaseline"} /\ phase' \in {"rebaseline", "failed"}
    BY <1>8 DEF FixpointRound, FixpointRaises, UpdateStale
  <2> QED
    BY <1>1, <2>1, <2>2 DEF SessionsAccounted, AfterFixpoint
<1>9. CASE EndRound \/ RoundsSpent
  <2>1. UNCHANGED <<cfg, stale, queue, pending, work, result>>
    BY <1>9 DEF EndRound, RoundsSpent, AfterRepair
  <2>2. /\ phase \in {"fixpoint", "rebaseline"} /\ phase' \in {"fixpoint", "gate"}
        /\ reasons' = {} => reasons = {} /\ phase' = "fixpoint"
    BY <1>9 DEF EndRound, RoundsSpent
  <2> QED
    BY <1>1, <2>1, <2>2 DEF SessionsAccounted, AfterFixpoint
<1>10. ASSUME NEW green \in BOOLEAN, RunGate(green)
       PROVE  SessionsAccounted'
  <2>1. UNCHANGED <<cfg, stale, queue, pending, work, result>>
    BY <1>10 DEF RunGate, AfterRepair
  <2>2. phase = "gate" /\ phase' = "record" /\ (reasons' = {} => reasons = {})
    BY <1>10 DEF RunGate
  <2> QED
    BY <1>1, <2>1, <2>2 DEF SessionsAccounted, AfterFixpoint
<1>11. CASE EmitRecord \/ Commit \/ SkipCommit \/ Push \/ OpenReview \/ PublishFails
            \/ Backfill \/ Amend \/ PushAgain \/ BackfillFails
  <2>1. /\ UNCHANGED <<cfg, stale, queue, pending, work, result, reasons>>
        /\ AfterFixpoint /\ phase' \notin {"discover", "repair", "stopping", "aborted"}
    BY <1>11 DEF AtEnd, EmitRecord, Commit, SkipCommit, Push, OpenReview, PublishFails,
                 Backfill, Amend, PushAgain, BackfillFails, AfterFixpoint
  <2> QED
    BY <1>1, <2>1 DEF SessionsAccounted, AfterFixpoint
<1>12. CASE UNCHANGED vars
  BY <1>1, <1>12 DEF vars, progress, SessionsAccounted, AfterFixpoint
<1> QED
  BY <1>2, <1>3, <1>4, <1>5, <1>6, <1>7, <1>8, <1>9, <1>10, <1>11, <1>12 DEF Next

LEMMA AccountedInit ==
  ASSUME Init
  PROVE  SessionsAccounted
<1>1. \A r \in Refs : work[r].at = "idle"
  BY DEF Init, NoWork
<1>2. Len(<< >>) = 0 /\ Listed(<< >>) = {}
  BY DEF Listed
<1> QED
  BY <1>1, <1>2 DEF Init, SessionsAccounted, EditedFirst, AfterFixpoint

\* A run that reaches the gate unflagged was given an edit for every doc in
\* scope, and left none stale, whatever the sessions of one window did to the
\* docs of one another (_fold_doc, _run_fixpoint).
THEOREM UnflaggedAlwaysClean == Spec => []UnflaggedIsClean
<1>1. Init => SessionsAccounted
  BY AccountedInit
<1>2. TypeOK /\ SessionsAccounted /\ [Next]_vars => SessionsAccounted'
  BY AccountedStep
<1>3. SessionsAccounted => UnflaggedIsClean
  <2>1. Listed(<< >>) = {}
    BY DEF Listed
  <2> QED
    BY <2>1 DEF SessionsAccounted, UnflaggedIsClean, AfterFixpoint
<1> QED
  BY <1>1, <1>2, <1>3, TypeCorrect, PTL DEF Spec

(***************************************************************************)
(* A window of sessions repairs as one session after the other would, when *)
(* there is one session at a time or no run can reach its caps.            *)
(***************************************************************************)

\* The caps of c, the totals that leave n docs all they may use, and caps that
\* leave it to every doc of every scope.
Reached(c, turns, tokens) == turns >= c.turns \/ tokens >= c.tokens
RoomFor(c, turns, tokens, n) ==
  /\ turns + n * (c.retries + 1) < c.turns
  /\ tokens + n * ((c.retries + 1) * MaxCost) < c.tokens
OutOfReach(c) == \A s \in Scopes : RoomFor(c, 0, 0, Len(s))

SequentialOrAmple == \A c \in Configs : c.window = 1 \/ OutOfReach(c)

\* The last attempt of w, of at most MaxCost tokens, was begun below the caps
\* by one who counts from the given totals.
BegunBelow(c, w, turns, tokens) ==
  \E k \in 0..MaxCost :
    k <= w.tokens /\ ~Reached(c, turns + w.turns - 1, tokens + w.tokens - k)

\* A session keeps to its retries and to the cost of an attempt, begins no
\* attempt at a cap, and ends for the reason it gives.
Used(c, w) ==
  /\ w.turns <= c.retries + 1 /\ w.tokens <= w.turns * MaxCost
  /\ w.turns = 0 => /\ w.at \in {"check", "raised"}
                    /\ ~Reached(c, w.priorTurns, w.priorTokens)
  /\ w.turns # 0 => BegunBelow(c, w, w.priorTurns, w.priorTokens)
  /\ w.at = "agent" => /\ w.tokens <= (w.turns - 1) * MaxCost
                       /\ ~Reached(c, w.priorTurns + w.turns - 1, w.priorTokens + w.tokens)
  /\ w.at \notin {"done", "raised"} => w.reason = "none"
  /\ w.at = "done" /\ w.reason = "budget" =>
       w.turns <= c.retries /\ Reached(c, w.priorTurns + w.turns, w.priorTokens + w.tokens)
  /\ w.at = "done" /\ w.reason \in {"failed", "still stale"} =>
       w.turns = c.retries + 1 /\ (w.edited <=> w.reason = "still stale")

\* What a session took for the totals of the docs before it: those it will be
\* folded into, or fewer when that makes no difference.
SawTotals(w, turns, tokens) == w.priorTurns = turns /\ w.priorTokens = tokens
SawFewer(w, turns, tokens) == w.priorTurns <= turns /\ w.priorTokens <= tokens

DocsLeft == Len(pending) + Len(queue)

SessionsSawEnough ==
  /\ \A r \in Refs : work[r].at # "idle" => Used(cfg, work[r])
  /\ phase = "discover" => result.turns = 0 /\ result.tokens = 0
  /\ \/ /\ cfg.window = 1
        /\ \A i \in 1..Len(pending) : SawTotals(work[pending[i]], result.turns, result.tokens)
     \/ /\ RoomFor(cfg, result.turns, result.tokens, DocsLeft)
        /\ \A i \in 1..Len(pending) : SawFewer(work[pending[i]], result.turns, result.tokens)

LEMMA NumbersOf ==
  ASSUME NEW c \in Configs, NEW w \in Session
  PROVE  /\ c.retries \in Nat /\ c.turns \in Nat \ {0} /\ c.tokens \in Nat \ {0}
         /\ c.window \in Nat \ {0} /\ MaxCost \in Nat
         /\ w.turns \in Nat /\ w.tokens \in Nat
         /\ w.priorTurns \in Nat /\ w.priorTokens \in Nat
BY ConfigsAssumption, CostAssumption DEF Session

\* One more attempt, or one more doc, is one more share.
LEMMA OneMoreShare ==
  ASSUME NEW n \in Nat, NEW k \in Nat
  PROVE  /\ n * k \in Nat /\ (n + 1) * k \in Nat /\ 0 * k = 0
         /\ (n + 1) * k = n * k + k
OBVIOUS

LEMMA SharesGrow ==
  ASSUME NEW m \in Nat, NEW n \in Nat, NEW k \in Nat, m <= n
  PROVE  m * k <= n * k
OBVIOUS

LEMMA UsedAttempt ==
  ASSUME NEW c \in Configs, NEW w \in Session, NEW v \in Session, Used(c, w),
         w.turns <= c.retries,
         ~Reached(c, w.priorTurns + w.turns, w.priorTokens + w.tokens),
         v.at = "agent", v.turns = w.turns + 1, v.tokens = w.tokens,
         w.at = "check", v.reason = w.reason,
         v.priorTurns = w.priorTurns, v.priorTokens = w.priorTokens
  PROVE  Used(c, v)
<1>1. /\ c.retries \in Nat /\ c.turns \in Nat /\ c.tokens \in Nat /\ MaxCost \in Nat
      /\ w.turns \in Nat /\ w.tokens \in Nat /\ w.priorTurns \in Nat /\ w.priorTokens \in Nat
  BY NumbersOf
<1>2. v.turns # 0 /\ v.turns - 1 = w.turns /\ v.turns <= c.retries + 1 /\ v.turns \in Nat
  BY <1>1
<1>3. v.tokens <= (v.turns - 1) * MaxCost
  BY <1>2 DEF Used
<1>4. v.tokens <= v.turns * MaxCost
  <2>1. w.turns * MaxCost \in Nat /\ v.turns * MaxCost = w.turns * MaxCost + MaxCost
    BY <1>1, OneMoreShare
  <2>2. w.tokens <= w.turns * MaxCost
    BY DEF Used
  <2>3. \A a, b, d \in Nat : a <= b => a <= b + d
    OBVIOUS
  <2> QED
    BY <1>1, <2>1, <2>2, <2>3
<1>5. ~Reached(c, v.priorTurns + v.turns - 1, v.priorTokens + v.tokens)
  <2>1. v.priorTurns + v.turns - 1 = w.priorTurns + w.turns
    BY <1>1
  <2> QED
    BY <2>1
<1>6. BegunBelow(c, v, v.priorTurns, v.priorTokens)
  <2>1. 0 \in 0..MaxCost /\ 0 <= v.tokens
    BY <1>1
  <2>2. v.priorTokens + v.tokens - 0 = v.priorTokens + v.tokens
    BY <1>1
  <2> QED
    BY <1>5, <2>1, <2>2 DEF BegunBelow
<1>7. v.reason = "none"
  BY DEF Used
<1> QED
  BY <1>2, <1>3, <1>4, <1>5, <1>6, <1>7 DEF Used

LEMMA UsedAgentEnds ==
  ASSUME NEW c \in Configs, NEW w \in Session, NEW v \in Session, Used(c, w),
         NEW cost \in 0..MaxCost, w.at = "agent", v.at \in {"update", "check"},
         v.turns = w.turns, v.tokens = w.tokens + cost, v.reason = w.reason,
         v.priorTurns = w.priorTurns, v.priorTokens = w.priorTokens
  PROVE  Used(c, v)
<1>1. /\ c.retries \in Nat /\ c.turns \in Nat /\ c.tokens \in Nat /\ MaxCost \in Nat
      /\ w.turns \in Nat /\ w.tokens \in Nat /\ w.priorTurns \in Nat /\ w.priorTokens \in Nat
  BY NumbersOf
<1>2. cost \in Nat /\ cost <= MaxCost
  BY <1>1
<1>3. v.turns # 0 /\ v.turns <= c.retries + 1
  BY DEF Used
<1>4. v.tokens <= v.turns * MaxCost
  <2>1. PICK n \in Nat : n + 1 = w.turns /\ w.turns - 1 = n
    <3>1. w.turns - 1 \in Nat /\ (w.turns - 1) + 1 = w.turns
      BY <1>1, <1>3
    <3> QED
      BY <3>1
  <2>2. w.tokens <= n * MaxCost
    BY <2>1 DEF Used
  <2>3. w.turns * MaxCost = n * MaxCost + MaxCost /\ n * MaxCost \in Nat
    BY <1>1, <2>1, OneMoreShare
  <2>4. \A a, b, d, e \in Nat : a <= b /\ d <= e => a + d <= b + e
    OBVIOUS
  <2>5. w.tokens + cost <= n * MaxCost + MaxCost
    BY <1>1, <1>2, <2>2, <2>3, <2>4
  <2> QED
    BY <2>3, <2>5
<1>5. BegunBelow(c, v, v.priorTurns, v.priorTokens)
  <2>1. ~Reached(c, w.priorTurns + w.turns - 1, w.priorTokens + w.tokens)
    BY DEF Used
  <2>2. v.priorTokens + v.tokens - cost = w.priorTokens + w.tokens /\ cost <= v.tokens
    BY <1>1, <1>2
  <2> QED
    BY <2>1, <2>2 DEF BegunBelow
<1>6. v.reason = "none"
  BY DEF Used
<1> QED
  BY <1>3, <1>4, <1>5, <1>6 DEF Used

\* A step that takes no turn and costs nothing.
LEMMA UsedMove ==
  ASSUME NEW c \in Configs, NEW w \in Session, NEW v \in Session, Used(c, w),
         v.turns = w.turns, v.tokens = w.tokens,
         v.priorTurns = w.priorTurns, v.priorTokens = w.priorTokens,
         w.turns = 0 => v.at \in {"check", "raised"},
         v.at = "agent" => w.at = "agent",
         v.at \notin {"done", "raised"} => v.reason = "none",
         v.at = "done" /\ v.reason = "budget" =>
           /\ v.turns <= c.retries
           /\ Reached(c, v.priorTurns + v.turns, v.priorTokens + v.tokens),
         v.at = "done" /\ v.reason \in {"failed", "still stale"} =>
           v.turns = c.retries + 1 /\ (v.edited <=> v.reason = "still stale")
  PROVE  Used(c, v)
BY DEF Used, BegunBelow

\* A new session has used nothing, of caps that are not reached.
LEMMA UsedNew ==
  ASSUME NEW c \in Configs, NEW v \in Session,
         v.at = "check", v.turns = 0, v.tokens = 0, v.reason = "none",
         ~Reached(c, v.priorTurns, v.priorTokens)
  PROVE  Used(c, v)
<1>1. c.retries \in Nat /\ MaxCost \in Nat
  BY NumbersOf
<1>2. 0 <= c.retries + 1 /\ 0 <= 0 * MaxCost
  BY <1>1, OneMoreShare
<1> QED
  BY <1>2 DEF Used

LEMMA UsedSession ==
  ASSUME TypeOK, NEW r \in Refs, SessionNext(r), Used(cfg, work[r])
  PROVE  /\ Used(cfg, work'[r])
         /\ work'[r].priorTurns = work[r].priorTurns
         /\ work'[r].priorTokens = work[r].priorTokens
<1>1. work \in [Refs -> Session] /\ work[r] \in Session /\ cfg \in Configs
  BY DEF TypeOK
<1>2. work'[r] \in Session
  BY <1>1, SessionStepType
<1>3. /\ cfg.retries \in Nat /\ work[r].turns \in Nat
  BY <1>1, NumbersOf
<1>4. CASE Attempt(r)
  <2>1. /\ work[r].at = "check" /\ work[r].turns <= cfg.retries
        /\ ~Reached(cfg, work[r].priorTurns + work[r].turns,
                         work[r].priorTokens + work[r].tokens)
    BY <1>4 DEF Attempt, Spent, Exceeded, Reached
  <2>2. /\ work'[r].at = "agent" /\ work'[r].turns = work[r].turns + 1
        /\ work'[r].tokens = work[r].tokens /\ work'[r].reason = work[r].reason
        /\ work'[r].priorTurns = work[r].priorTurns
        /\ work'[r].priorTokens = work[r].priorTokens
    BY <1>1, <1>4 DEF Attempt, Session
  <2> QED
    BY <1>1, <1>2, <2>1, <2>2, UsedAttempt
<1>5. ASSUME NEW edit \in BOOLEAN, NEW cost \in 0..MaxCost, AgentEnds(r, edit, cost)
      PROVE  /\ Used(cfg, work'[r])
             /\ work'[r].priorTurns = work[r].priorTurns
             /\ work'[r].priorTokens = work[r].priorTokens
  <2>1. /\ work[r].at = "agent" /\ work'[r].at \in {"update", "check"}
        /\ work'[r].turns = work[r].turns /\ work'[r].tokens = work[r].tokens + cost
        /\ work'[r].reason = work[r].reason
        /\ work'[r].priorTurns = work[r].priorTurns
        /\ work'[r].priorTokens = work[r].priorTokens
    BY <1>1, <1>5 DEF AgentEnds, Session
  <2> QED
    BY <1>1, <1>2, <2>1, UsedAgentEnds
<1>6. ASSUME /\ work'[r].turns = work[r].turns /\ work'[r].tokens = work[r].tokens
             /\ work'[r].priorTurns = work[r].priorTurns
             /\ work'[r].priorTokens = work[r].priorTokens,
             work[r].turns = 0 => work'[r].at \in {"check", "raised"},
             work'[r].at = "agent" => work[r].at = "agent",
             work'[r].at \notin {"done", "raised"} => work'[r].reason = "none",
             work'[r].at = "done" /\ work'[r].reason = "budget" =>
               /\ work[r].turns <= cfg.retries
               /\ Reached(cfg, work[r].priorTurns + work[r].turns,
                               work[r].priorTokens + work[r].tokens),
             work'[r].at = "done" /\ work'[r].reason \in {"failed", "still stale"} =>
               /\ work[r].turns = cfg.retries + 1
               /\ work'[r].edited <=> work'[r].reason = "still stale"
      PROVE  Used(cfg, work'[r])
  BY <1>1, <1>2, <1>6, UsedMove
<1>7. CASE RateLimited(r)
  <2>1. /\ work'[r].at \in {"agent", "check"} /\ work[r].at = "agent"
        /\ work'[r].turns = work[r].turns /\ work'[r].tokens = work[r].tokens
        /\ work'[r].reason = work[r].reason
        /\ work'[r].priorTurns = work[r].priorTurns
        /\ work'[r].priorTokens = work[r].priorTokens
    BY <1>1, <1>7 DEF RateLimited, Session
  <2>2. work[r].turns # 0 /\ work[r].reason = "none"
    BY <2>1 DEF Used
  <2> QED
    BY <1>6, <2>1, <2>2
<1>8. CASE UpdateOne(r) \/ Verify(r)
  <2>1. /\ work[r].at \in {"update", "verify"} /\ work'[r].at \in {"verify", "check", "done"}
        /\ work'[r].turns = work[r].turns /\ work'[r].tokens = work[r].tokens
        /\ work'[r].reason = work[r].reason
        /\ work'[r].priorTurns = work[r].priorTurns
        /\ work'[r].priorTokens = work[r].priorTokens
    <3>1. CASE UpdateOne(r)
      BY <1>1, <3>1 DEF UpdateOne, Session
    <3>2. CASE Verify(r)
      BY <1>1, <3>2 DEF Verify, Session
    <3> QED
      BY <1>8, <3>1, <3>2
  <2>2. work[r].turns # 0 /\ work[r].reason = "none"
    BY <2>1 DEF Used
  <2> QED
    BY <1>6, <2>1, <2>2
<1>9. CASE StopMidRetry(r)
  <2>1. /\ work'[r].at = "done" /\ work'[r].reason = "budget"
        /\ work'[r].turns = work[r].turns /\ work'[r].tokens = work[r].tokens
        /\ work'[r].priorTurns = work[r].priorTurns
        /\ work'[r].priorTokens = work[r].priorTokens
    BY <1>1, <1>9 DEF StopMidRetry, Session
  <2>2. /\ work[r].turns <= cfg.retries
        /\ Reached(cfg, work[r].priorTurns + work[r].turns,
                        work[r].priorTokens + work[r].tokens)
    BY <1>9 DEF StopMidRetry, Spent, Exceeded, Reached
  <2>3. work[r].turns # 0
    <3>1. SUFFICES ASSUME work[r].turns = 0 PROVE FALSE
      OBVIOUS
    <3>2. work[r].tokens = 0
      <4>1. MaxCost \in Nat /\ work[r].tokens \in Nat
        BY <1>1, NumbersOf
      <4>2. work[r].tokens <= 0 * MaxCost /\ 0 * MaxCost = 0
        BY <3>1, <4>1, OneMoreShare DEF Used
      <4> QED
        BY <4>1, <4>2
    <3>3. ~Reached(cfg, work[r].priorTurns, work[r].priorTokens)
      BY <3>1 DEF Used
    <3>4. work[r].priorTurns + 0 = work[r].priorTurns
          /\ work[r].priorTokens + 0 = work[r].priorTokens
      <4>1. work[r].priorTurns \in Nat /\ work[r].priorTokens \in Nat
        BY <1>1, NumbersOf
      <4> QED
        BY <4>1
    <3> QED
      BY <2>2, <3>1, <3>2, <3>3, <3>4
  <2> QED
    BY <1>6, <2>1, <2>2, <2>3
<1>10. CASE GiveUp(r)
  <2>1. /\ work'[r].at = "done"
        /\ work'[r].reason = IF work[r].edited THEN "still stale" ELSE "failed"
        /\ work'[r].edited = work[r].edited
        /\ work'[r].turns = work[r].turns /\ work'[r].tokens = work[r].tokens
        /\ work'[r].priorTurns = work[r].priorTurns
        /\ work'[r].priorTokens = work[r].priorTokens
        /\ work[r].turns > cfg.retries
    BY <1>1, <1>10 DEF GiveUp, Session
  <2>2. work[r].turns = cfg.retries + 1 /\ work[r].turns # 0
    <3>1. work[r].turns <= cfg.retries + 1
      BY DEF Used
    <3> QED
      <4>1. \A a, b \in Nat : a > b /\ a <= b + 1 => a = b + 1 /\ a # 0
        OBVIOUS
      <4> QED
        BY <1>3, <2>1, <3>1, <4>1
  <2>3. work'[r].edited <=> work'[r].reason = "still stale"
    BY <2>1
  <2> QED
    BY <1>6, <2>1, <2>2, <2>3
<1>11. CASE SessionRaises(r)
  <2>1. /\ work'[r].at = "raised"
        /\ work'[r].turns = work[r].turns /\ work'[r].tokens = work[r].tokens
        /\ work'[r].priorTurns = work[r].priorTurns
        /\ work'[r].priorTokens = work[r].priorTokens
    BY <1>1, <1>11 DEF SessionRaises, Session
  <2> QED
    BY <1>6, <2>1
<1> QED
  BY <1>4, <1>5, <1>7, <1>8, <1>9, <1>10, <1>11 DEF SessionNext

\* A session that saw the totals it is folded into, or fewer while there was
\* room for all, ends as a sequential one might have.
LEMMA FoldPossible ==
  ASSUME NEW c \in Configs, NEW w \in Session, Used(c, w), w.at = "done",
         NEW turns \in Nat, NEW tokens \in Nat,
         \/ SawTotals(w, turns, tokens)
         \/ SawFewer(w, turns, tokens) /\ RoomFor(c, turns, tokens, 1)
  PROVE  /\ ~Reached(c, turns, tokens)
         /\ w.turns \in 1..(c.retries + 1) /\ w.tokens \in 0..((c.retries + 1) * MaxCost)
         /\ BegunBelow(c, w, turns, tokens)
         /\ w.reason = "budget" =>
              w.turns <= c.retries /\ Reached(c, turns + w.turns, tokens + w.tokens)
<1>1. /\ c.retries \in Nat /\ c.turns \in Nat /\ c.tokens \in Nat /\ MaxCost \in Nat
      /\ w.turns \in Nat /\ w.tokens \in Nat /\ w.priorTurns \in Nat /\ w.priorTokens \in Nat
  BY NumbersOf
<1>2. w.turns # 0 /\ w.turns <= c.retries + 1
  BY DEF Used
<1>3. w.turns \in 1..(c.retries + 1)
  BY <1>1, <1>2
<1>4. w.tokens <= (c.retries + 1) * MaxCost /\ (c.retries + 1) * MaxCost \in Nat
  <2>1. w.turns * MaxCost <= (c.retries + 1) * MaxCost
    BY <1>1, <1>2, c.retries + 1 \in Nat, SharesGrow
  <2>2. w.turns * MaxCost \in Nat /\ (c.retries + 1) * MaxCost \in Nat
    BY <1>1, c.retries + 1 \in Nat, OneMoreShare
  <2>3. w.tokens <= w.turns * MaxCost
    BY DEF Used
  <2>4. \A a, b, d \in Nat : a <= b /\ b <= d => a <= d
    OBVIOUS
  <2> QED
    BY <1>1, <2>1, <2>2, <2>3, <2>4
<1>5. w.tokens \in 0..((c.retries + 1) * MaxCost)
  BY <1>1, <1>4
<1>6. BegunBelow(c, w, w.priorTurns, w.priorTokens)
  BY <1>2 DEF Used
<1>7. CASE SawTotals(w, turns, tokens)
  <2>1. ~Reached(c, turns, tokens)
    <3>1. PICK k \in 0..MaxCost :
            k <= w.tokens /\ ~Reached(c, turns + w.turns - 1, tokens + w.tokens - k)
      BY <1>6, <1>7 DEF BegunBelow, SawTotals
    <3>2. ~(turns + w.turns - 1 >= c.turns) /\ ~(tokens + w.tokens - k >= c.tokens)
      BY <3>1 DEF Reached
    <3>3. k \in Nat
      BY <1>1
    <3>4. ~(turns >= c.turns) /\ ~(tokens >= c.tokens)
      BY <1>1, <1>2, <3>1, <3>2, <3>3
    <3> QED
      BY <3>4 DEF Reached
  <2>2. BegunBelow(c, w, turns, tokens)
    BY <1>6, <1>7 DEF SawTotals
  <2>3. w.reason = "budget" =>
          w.turns <= c.retries /\ Reached(c, turns + w.turns, tokens + w.tokens)
    BY <1>7 DEF SawTotals, Used
  <2> QED
    BY <1>3, <1>5, <2>1, <2>2, <2>3
<1>8. CASE SawFewer(w, turns, tokens) /\ RoomFor(c, turns, tokens, 1)
  <2> DEFINE per == (c.retries + 1) * MaxCost
  <2>1. turns + (c.retries + 1) < c.turns /\ tokens + per < c.tokens
    <3>1. 1 * (c.retries + 1) = c.retries + 1 /\ 1 * per = per
      BY <1>1, <1>4
    <3> QED
      BY <1>8, <3>1 DEF RoomFor
  <2>2. per \in Nat /\ w.tokens <= per
    BY <1>4
  <2> HIDE DEF per
  <2>3. turns + w.turns < c.turns /\ tokens + w.tokens < c.tokens
    BY <1>1, <1>2, <2>1, <2>2
  <2>4. w.priorTurns <= turns /\ w.priorTokens <= tokens
    BY <1>8 DEF SawFewer
  <2>5. ~Reached(c, turns, tokens)
    BY <1>1, <2>3 DEF Reached
  <2>6. BegunBelow(c, w, turns, tokens)
    <3>1. 0 \in 0..MaxCost /\ 0 <= w.tokens
      BY <1>1
    <3>2. ~Reached(c, turns + w.turns - 1, tokens + w.tokens - 0)
      BY <1>1, <2>3 DEF Reached
    <3> QED
      BY <3>1, <3>2 DEF BegunBelow
  <2>7. ~Reached(c, w.priorTurns + w.turns, w.priorTokens + w.tokens)
    BY <1>1, <2>3, <2>4 DEF Reached
  <2>8. w.reason # "budget"
    BY <2>7 DEF Used
  <2> QED
    BY <1>3, <1>5, <2>5, <2>6, <2>8
<1> QED
  BY <1>7, <1>8

\* Folding one of n + 1 docs leaves room for n.
LEMMA RoomAfterOne ==
  ASSUME NEW c \in Configs, NEW turns \in Nat, NEW tokens \in Nat, NEW n \in Nat,
         RoomFor(c, turns, tokens, n + 1)
  PROVE  /\ RoomFor(c, turns, tokens, 1)
         /\ \A t \in 1..(c.retries + 1), k \in 0..((c.retries + 1) * MaxCost) :
              RoomFor(c, turns + t, tokens + k, n)
<1>1. c.retries + 1 \in Nat /\ c.turns \in Nat /\ c.tokens \in Nat /\ MaxCost \in Nat
  BY ConfigsAssumption, CostAssumption
<1>2. PICK p \in Nat : p = c.retries + 1
  BY <1>1
<1>3. PICK q \in Nat : q = (c.retries + 1) * MaxCost
  BY <1>1, OneMoreShare
<1>4. /\ turns + (n + 1) * p < c.turns
      /\ tokens + (n + 1) * q < c.tokens
  BY <1>2, <1>3 DEF RoomFor
<1>5. (n + 1) * p = n * p + p /\ (n + 1) * q = n * q + q /\ n * p \in Nat /\ n * q \in Nat
  BY OneMoreShare
<1>6. PICK np \in Nat : np = n * p
  BY <1>5
<1>7. PICK nq \in Nat : nq = n * q
  BY <1>5
<1>8. turns + (np + p) < c.turns /\ tokens + (nq + q) < c.tokens
  BY <1>4, <1>5, <1>6, <1>7
<1>9. RoomFor(c, turns, tokens, 1)
  <2>1. 1 * p = p /\ 1 * q = q
    OBVIOUS
  <2>2. turns + p < c.turns /\ tokens + q < c.tokens
    BY <1>1, <1>8
  <2> QED
    BY <1>2, <1>3, <2>1, <2>2 DEF RoomFor
<1>10. ASSUME NEW t \in 1..p, NEW k \in 0..q
       PROVE  RoomFor(c, turns + t, tokens + k, n)
  <2>1. (turns + t) + np < c.turns /\ (tokens + k) + nq < c.tokens
    BY <1>1, <1>8
  <2> QED
    BY <1>2, <1>3, <1>6, <1>7, <2>1 DEF RoomFor
<1> QED
  BY <1>2, <1>3, <1>9, <1>10

LEMMA SawSubmit ==
  ASSUME TypeOK, SessionsSawEnough, Submit
  PROVE  SessionsSawEnough'
<1>1. PICK r \in Refs : r = Head(queue)
  BY SubmitType
<1>2. queue \in Seq(Refs) /\ queue # << >> /\ pending \in Seq(Refs) /\ cfg \in Configs
      /\ work \in [Refs -> Session]
  BY DEF TypeOK, Submit
<1>3. /\ queue' = Tail(queue) /\ pending' = Append(pending, r)
      /\ work' = [work EXCEPT ![r] = NewWork]
      /\ UNCHANGED <<cfg, result, phase>> /\ phase = "repair" /\ ~OverBudget
      /\ Len(pending) < cfg.window
  BY <1>1 DEF Submit, WindowOpen, progress
<1>4. NewWork \in Session /\ SawTotals(NewWork, result.turns, result.tokens)
      /\ Used(cfg, NewWork)
  <2>1. NewWork \in Session
    BY SubmitType
  <2>2. /\ NewWork.at = "check" /\ NewWork.turns = 0 /\ NewWork.tokens = 0
        /\ NewWork.reason = "none"
        /\ NewWork.priorTurns = result.turns /\ NewWork.priorTokens = result.tokens
    BY DEF NewWork, NoWork
  <2>3. ~Reached(cfg, result.turns, result.tokens)
    BY <1>3 DEF OverBudget, Exceeded, Reached
  <2>4. Used(cfg, NewWork)
    BY <1>2, <2>1, <2>2, <2>3, UsedNew
  <2> QED
    BY <2>1, <2>2, <2>4 DEF SawTotals
<1>5. work'[r] = NewWork /\ \A q \in Refs : q # r => work'[q] = work[q]
  BY <1>2, <1>3
<1>6. \A q \in Refs : work'[q].at # "idle" => Used(cfg', work'[q])
  BY <1>3, <1>4, <1>5 DEF SessionsSawEnough
<1>7. /\ Len(pending) \in Nat /\ Len(pending') = Len(pending) + 1
      /\ \A i \in 1..Len(pending) : pending'[i] = pending[i] /\ pending[i] \in Refs
      /\ pending'[Len(pending) + 1] = r
      /\ Len(queue') = Len(queue) - 1 /\ Len(queue) \in Nat \ {0}
  BY <1>1, <1>2, <1>3
<1>8. DocsLeft' = DocsLeft
  BY <1>7 DEF DocsLeft
<1>9. \A i \in 1..Len(pending') : i \in 1..Len(pending) \/ pending'[i] = r
  BY <1>7
<1>10. CASE /\ cfg.window = 1
            /\ \A i \in 1..Len(pending) :
                 SawTotals(work[pending[i]], result.turns, result.tokens)
  <2>1. Len(pending) = 0
    BY <1>3, <1>7, <1>10
  <2>2. \A i \in 1..Len(pending') : pending'[i] = r
    BY <1>9, <2>1
  <2>3. \A i \in 1..Len(pending') :
          SawTotals(work'[pending'[i]], result'.turns, result'.tokens)
    BY <1>3, <1>4, <1>5, <2>2
  <2> QED
    BY <1>3, <1>6, <1>10, <2>3 DEF SessionsSawEnough
<1>11. CASE /\ RoomFor(cfg, result.turns, result.tokens, DocsLeft)
            /\ \A i \in 1..Len(pending) :
                 SawFewer(work[pending[i]], result.turns, result.tokens)
  <2>1. result.turns \in Nat /\ result.tokens \in Nat
    BY DEF TypeOK
  <2>2. SawFewer(NewWork, result.turns, result.tokens)
    BY <1>4, <2>1 DEF SawTotals, SawFewer
  <2>3. \A i \in 1..Len(pending') :
          SawFewer(work'[pending'[i]], result'.turns, result'.tokens)
    <3> SUFFICES ASSUME NEW i \in 1..Len(pending')
                 PROVE  SawFewer(work'[pending'[i]], result.turns, result.tokens)
      BY <1>3
    <3>1. CASE pending'[i] = r
      BY <1>5, <2>2, <3>1
    <3>2. CASE pending'[i] # r
      BY <1>5, <1>7, <1>9, <1>11, <3>2
    <3> QED
      BY <3>1, <3>2
  <2>4. RoomFor(cfg', result'.turns, result'.tokens, DocsLeft')
    BY <1>3, <1>8, <1>11
  <2> QED
    BY <1>3, <1>6, <2>3, <2>4 DEF SessionsSawEnough
<1> QED
  BY <1>10, <1>11 DEF SessionsSawEnough

\* What folding the oldest session adds, and that it was possible.
LEMMA FoldSaw ==
  ASSUME TypeOK, SessionsSawEnough, FoldDoc
  PROVE  LET w == work[Head(pending)] IN
           /\ Used(cfg, w) /\ w.at = "done"
           /\ ~Reached(cfg, result.turns, result.tokens)
           /\ w.turns \in 1..(cfg.retries + 1)
           /\ w.tokens \in 0..((cfg.retries + 1) * MaxCost)
           /\ BegunBelow(cfg, w, result.turns, result.tokens)
           /\ w.reason = "budget" =>
                /\ w.turns <= cfg.retries
                /\ Reached(cfg, result.turns + w.turns, result.tokens + w.tokens)
<1>1. pending \in Seq(Refs) /\ pending # << >> /\ queue \in Seq(Refs) /\ cfg \in Configs
  BY DEF TypeOK, FoldDoc
<1>2. Head(pending) \in Refs
  BY <1>1
<1>3. PICK r \in Refs : r = Head(pending)
  BY <1>2
<1>4. work[r] \in Session /\ result.turns \in Nat /\ result.tokens \in Nat
  BY DEF TypeOK
<1>5. work[r].at = "done" /\ Used(cfg, work[r])
  BY <1>3 DEF FoldDoc, SessionsSawEnough
<1>6. 1 \in 1..Len(pending) /\ pending[1] = r /\ Len(pending) \in Nat \ {0} /\ Len(queue) \in Nat
  BY <1>1, <1>3
<1>7. \/ SawTotals(work[r], result.turns, result.tokens)
      \/ /\ SawFewer(work[r], result.turns, result.tokens)
         /\ RoomFor(cfg, result.turns, result.tokens, 1)
  <2>1. CASE RoomFor(cfg, result.turns, result.tokens, DocsLeft)
             /\ \A i \in 1..Len(pending) :
                  SawFewer(work[pending[i]], result.turns, result.tokens)
    <3>1. PICK n \in Nat : DocsLeft = n + 1
      <4>1. DocsLeft - 1 \in Nat /\ DocsLeft = (DocsLeft - 1) + 1
        BY <1>6 DEF DocsLeft
      <4> QED
        BY <4>1
    <3>2. RoomFor(cfg, result.turns, result.tokens, n + 1)
      BY <2>1, <3>1
    <3>3. RoomFor(cfg, result.turns, result.tokens, 1)
      BY <1>1, <1>4, <3>2, RoomAfterOne
    <3> QED
      BY <1>6, <2>1, <3>3
  <2>2. CASE \A i \in 1..Len(pending) :
               SawTotals(work[pending[i]], result.turns, result.tokens)
    BY <1>6, <2>2
  <2> QED
    BY <2>1, <2>2 DEF SessionsSawEnough
<1> QED
  BY <1>1, <1>3, <1>4, <1>5, <1>7, FoldPossible

LEMMA SawFold ==
  ASSUME TypeOK, SessionsSawEnough, FoldDoc
  PROVE  SessionsSawEnough'
<1>1. pending \in Seq(Refs) /\ pending # << >> /\ queue \in Seq(Refs) /\ cfg \in Configs
      /\ pending' = Tail(pending) /\ Len(pending) <= cfg.window
  BY DEF TypeOK, FoldDoc
<1>2. PICK r \in Refs : r = Head(pending)
  BY <1>1
<1>3. /\ UNCHANGED <<cfg, queue, work, phase>> /\ phase # "discover"
      /\ result'.turns = result.turns + work[r].turns
      /\ result'.tokens = result.tokens + work[r].tokens
  BY <1>2 DEF FoldDoc, progress
<1>4. /\ result.turns \in Nat /\ result.tokens \in Nat
      /\ work[r].turns \in Nat /\ work[r].tokens \in Nat
  BY DEF TypeOK, Session
<1>5. /\ Len(pending) \in Nat \ {0} /\ Len(pending') = Len(pending) - 1 /\ Len(queue) \in Nat
      /\ \A i \in 1..Len(pending') : i + 1 \in 1..Len(pending) /\ pending'[i] = pending[i + 1]
      /\ \A i \in 1..Len(pending) : pending[i] \in Refs
  BY <1>1
<1>6. \A q \in Refs : work'[q].at # "idle" => Used(cfg', work'[q])
  BY <1>3 DEF SessionsSawEnough
<1>7. CASE cfg.window = 1
  <2>1. \A i \in 1..Len(pending') :
          SawTotals(work'[pending'[i]], result'.turns, result'.tokens)
    BY <1>1, <1>5, <1>7
  <2> QED
    BY <1>3, <1>6, <1>7, <2>1 DEF SessionsSawEnough
<1>8. CASE /\ RoomFor(cfg, result.turns, result.tokens, DocsLeft)
           /\ \A i \in 1..Len(pending) :
                SawFewer(work[pending[i]], result.turns, result.tokens)
  <2>1. DocsLeft' \in Nat /\ DocsLeft = DocsLeft' + 1
    BY <1>3, <1>5 DEF DocsLeft
  <2>2. PICK n \in Nat : n = DocsLeft'
    BY <2>1
  <2>3. RoomFor(cfg, result.turns, result.tokens, n + 1)
    BY <1>8, <2>1, <2>2
  <2>4. /\ work[r].turns \in 1..(cfg.retries + 1)
        /\ work[r].tokens \in 0..((cfg.retries + 1) * MaxCost)
    BY <1>2, FoldSaw
  <2>5. RoomFor(cfg, result.turns + work[r].turns, result.tokens + work[r].tokens, n)
    BY <1>1, <1>4, <2>3, <2>4, RoomAfterOne
  <2>6. RoomFor(cfg', result'.turns, result'.tokens, DocsLeft')
    BY <1>3, <2>2, <2>5
  <2>7. \A i \in 1..Len(pending') :
          SawFewer(work'[pending'[i]], result'.turns, result'.tokens)
    <3> SUFFICES ASSUME NEW i \in 1..Len(pending')
                 PROVE  SawFewer(work'[pending'[i]], result'.turns, result'.tokens)
      OBVIOUS
    <3>1. PICK q \in Refs : q = pending[i + 1]
      BY <1>5
    <3>2. SawFewer(work[q], result.turns, result.tokens)
      BY <1>5, <1>8, <3>1
    <3>3. work[q].priorTurns \in Nat /\ work[q].priorTokens \in Nat
      BY DEF TypeOK, Session
    <3>4. /\ work[q].priorTurns <= result.turns + work[r].turns
          /\ work[q].priorTokens <= result.tokens + work[r].tokens
      BY <1>4, <3>2, <3>3 DEF SawFewer
    <3>5. work'[pending'[i]] = work[q]
      BY <1>3, <1>5, <3>1
    <3> QED
      BY <1>3, <3>4, <3>5 DEF SawFewer
  <2> QED
    BY <1>3, <1>6, <2>6, <2>7 DEF SessionsSawEnough
<1> QED
  BY <1>7, <1>8 DEF SessionsSawEnough

LEMMA SawSession ==
  ASSUME TypeOK, SessionsSawEnough, NEW r \in Refs, SessionNext(r)
  PROVE  SessionsSawEnough'
<1>1. UNCHANGED <<cfg, queue, pending, result, phase>>
  BY SessionStepType DEF progress
<1>2. work[r].at # "idle" /\ \A q \in Refs \ {r} : work'[q] = work[q]
  BY SessionEffect
<1>3. Used(cfg, work[r])
  BY <1>2 DEF SessionsSawEnough
<1>4. /\ Used(cfg, work'[r])
      /\ work'[r].priorTurns = work[r].priorTurns
      /\ work'[r].priorTokens = work[r].priorTokens
  BY <1>3, UsedSession
<1>5. \A q \in Refs : work'[q].at # "idle" => Used(cfg', work'[q])
  BY <1>1, <1>2, <1>4 DEF SessionsSawEnough
<1>6. \A q \in Refs : /\ work'[q].priorTurns = work[q].priorTurns
                      /\ work'[q].priorTokens = work[q].priorTokens
  BY <1>2, <1>4
<1>7. \A i \in 1..Len(pending) : pending[i] \in Refs
  <2>1. pending \in Seq(Refs)
    BY DEF TypeOK
  <2> QED
    BY <2>1
<1>8. \A i \in 1..Len(pending) :
        /\ SawTotals(work'[pending[i]], result.turns, result.tokens)
             <=> SawTotals(work[pending[i]], result.turns, result.tokens)
        /\ SawFewer(work'[pending[i]], result.turns, result.tokens)
             <=> SawFewer(work[pending[i]], result.turns, result.tokens)
  BY <1>6, <1>7 DEF SawTotals, SawFewer
<1>9. DocsLeft' = DocsLeft
  BY <1>1 DEF DocsLeft
<1> QED
  BY <1>1, <1>5, <1>8, <1>9 DEF SessionsSawEnough

LEMMA SawStep ==
  ASSUME TypeOK, SessionsSawEnough, [Next]_vars
  PROVE  SessionsSawEnough'
<1>1. ASSUME UNCHANGED <<cfg, queue, pending, work, result>>,
             phase' = "discover" => phase = "discover"
      PROVE  SessionsSawEnough'
  <2>1. DocsLeft' = DocsLeft
    BY <1>1 DEF DocsLeft
  <2> QED
    BY <1>1, <2>1 DEF SessionsSawEnough
<1>2. CASE Submit
  BY <1>2, SawSubmit
<1>3. CASE FoldDoc
  BY <1>3, SawFold
<1>4. ASSUME NEW r \in Refs, SessionNext(r)
      PROVE  SessionsSawEnough'
  BY <1>4, SawSession
<1>5. CASE NoOp \/ StartRepair \/ Abort \/ BudgetStop \/ FoldRaises \/ EndRepair
  BY <1>1, <1>5 DEF NoOp, StartRepair, Abort, BudgetStop, FoldRaises, EndRepair
<1>6. CASE \/ FixpointReached \/ FixpointRound \/ (\E r \in Refs : UpdateStale(r)) \/ EndRound
           \/ RoundsSpent \/ FixpointRaises \/ (\E green \in BOOLEAN : RunGate(green))
  BY <1>1, <1>6 DEF FixpointReached, FixpointRound, UpdateStale, EndRound, RoundsSpent,
                    FixpointRaises, RunGate, AfterRepair
<1>7. CASE EmitRecord \/ Commit \/ SkipCommit \/ Push \/ OpenReview \/ PublishFails
           \/ Backfill \/ Amend \/ PushAgain \/ BackfillFails
  BY <1>1, <1>7 DEF AtEnd, EmitRecord, Commit, SkipCommit, Push, OpenReview, PublishFails,
                    Backfill, Amend, PushAgain, BackfillFails
<1>8. CASE UNCHANGED vars
  BY <1>1, <1>8 DEF vars, progress
<1> QED
  BY <1>2, <1>3, <1>4, <1>5, <1>6, <1>7, <1>8 DEF Next

LEMMA SawInit ==
  ASSUME SequentialOrAmple, Init
  PROVE  SessionsSawEnough
<1>1. cfg \in Configs /\ queue \in Scopes /\ Len(pending) = 0
  BY DEF Init
<1>2. \A r \in Refs : work[r].at = "idle"
  BY DEF Init, NoWork
<1>3. result.turns = 0 /\ result.tokens = 0
  BY DEF Init
<1>4. DocsLeft = Len(queue)
  <2>1. Len(queue) \in Nat
    BY <1>1, ScopesAssumption
  <2> QED
    BY <1>1, <2>1 DEF DocsLeft
<1>5. cfg.window = 1 \/ RoomFor(cfg, result.turns, result.tokens, DocsLeft)
  BY <1>1, <1>3, <1>4 DEF SequentialOrAmple, OutOfReach
<1>6. 1..Len(pending) = {}
  BY <1>1
<1> QED
  BY <1>2, <1>3, <1>5, <1>6 DEF SessionsSawEnough

\* The state of the sequential repair that a state of the run stands for.
LeftToFold == IF Repairing THEN pending \o queue ELSE << >>
RepairFlags == reasons \ {"fixpoint", "gate"}
RepairStatus ==
  IF phase = "aborted" THEN "raised" ELSE IF Repairing THEN "repairing" ELSE "repaired"

LEMMA StutterOfRepair ==
  ASSUME UNCHANGED <<cfg, LeftToFold, result, RepairFlags, RepairStatus>>
  PROVE  UNCHANGED Sequential!seqVars
BY DEF Sequential!seqVars, LeftToFold, RepairFlags, RepairStatus

\* A node moves from the queue to the end of the window.
LEMMA MovedOver ==
  ASSUME NEW p \in Seq(Refs), NEW q \in Seq(Refs), q # << >>
  PROVE  Append(p, Head(q)) \o Tail(q) = p \o q
<1>1. Head(q) \in Refs /\ Tail(q) \in Seq(Refs) /\ Len(Tail(q)) = Len(q) - 1
      /\ Len(q) \in Nat \ {0} /\ Head(q) = q[1]
      /\ \A i \in 1..Len(Tail(q)) : Tail(q)[i] = q[i + 1]
  OBVIOUS
<1>2. Append(p, Head(q)) \in Seq(Refs) /\ Len(Append(p, Head(q))) = Len(p) + 1
      /\ Len(p) \in Nat /\ Append(p, Head(q))[Len(p) + 1] = Head(q)
      /\ \A i \in 1..Len(p) : Append(p, Head(q))[i] = p[i]
  BY <1>1
<1> DEFINE a == Append(p, Head(q)) \o Tail(q)
           b == p \o q
<1>3. a \in Seq(Refs) /\ b \in Seq(Refs) /\ Len(a) = Len(p) + Len(q) /\ Len(b) = Len(p) + Len(q)
  BY <1>1, <1>2
<1>4. \A i \in 1..(Len(p) + Len(q)) : a[i] = b[i]
  <2> SUFFICES ASSUME NEW i \in 1..(Len(p) + Len(q))
               PROVE  a[i] = b[i]
    OBVIOUS
  <2>1. CASE i <= Len(p)
    BY <1>1, <1>2, <2>1
  <2>2. CASE i = Len(p) + 1
    BY <1>1, <1>2, <2>2
  <2>3. CASE i > Len(p) + 1
    <3>1. i - (Len(p) + 1) \in 1..Len(Tail(q)) /\ (i - (Len(p) + 1)) + 1 = i - Len(p)
      BY <1>1, <1>2, <2>3
    <3>2. a[i] = Tail(q)[i - (Len(p) + 1)]
      BY <1>1, <1>2, <2>3
    <3>3. b[i] = q[i - Len(p)]
      BY <1>1, <1>2, <2>3
    <3> QED
      BY <1>1, <3>1, <3>2, <3>3
  <2> QED
    BY <1>1, <1>2, <2>1, <2>2, <2>3
<1> HIDE DEF a, b
<1>5. a = b
  BY <1>3, <1>4
<1> QED
  BY <1>5 DEF a, b

LEMMA FirstOfJoined ==
  ASSUME NEW p \in Seq(Refs), NEW q \in Seq(Refs), p # << >>
  PROVE  /\ p \o q # << >> /\ Head(p \o q) = Head(p) /\ Tail(p \o q) = Tail(p) \o q
<1>1. Len(p \o q) = Len(p) + Len(q) /\ Len(p) \in Nat \ {0} /\ Len(q) \in Nat
      /\ p \o q \in Seq(Refs)
  OBVIOUS
<1>2. p \o q # << >> /\ Head(p \o q) = Head(p)
  BY <1>1
<1> DEFINE a == Tail(p \o q)
           b == Tail(p) \o q
<1>3. /\ a \in Seq(Refs) /\ b \in Seq(Refs)
      /\ Len(a) = (Len(p) + Len(q)) - 1 /\ Len(b) = (Len(p) + Len(q)) - 1
  BY <1>1, <1>2
<1>4. \A i \in 1..((Len(p) + Len(q)) - 1) : a[i] = b[i]
  <2> SUFFICES ASSUME NEW i \in 1..((Len(p) + Len(q)) - 1)
               PROVE  a[i] = b[i]
    OBVIOUS
  <2>1. a[i] = (p \o q)[i + 1]
    BY <1>1, <1>2
  <2>2. CASE i < Len(p)
    BY <1>1, <2>1, <2>2
  <2>3. CASE i >= Len(p)
    BY <1>1, <2>1, <2>3
  <2> QED
    BY <1>1, <2>2, <2>3
<1> HIDE DEF a, b
<1>5. a = b
  BY <1>1, <1>3, <1>4
<1> QED
  BY <1>2, <1>5 DEF a, b

\* Folding a session is repairing the next doc of the sequential run.
LEMMA FoldRepairsNext ==
  ASSUME TypeOK, SessionsAccounted, SessionsSawEnough, FoldDoc
  PROVE  Sequential!RepairNext
<1>1. pending \in Seq(Refs) /\ pending # << >> /\ queue \in Seq(Refs)
      /\ pending' = Tail(pending)
  BY DEF TypeOK, FoldDoc
<1>2. PICK r \in Refs : r = Head(pending)
  BY <1>1
<1>3. PICK w \in Session : w = work[r]
  BY DEF TypeOK
<1>4. /\ UNCHANGED <<cfg, queue, phase>> /\ phase \in {"repair", "stopping"}
      /\ w.at = "done"
      /\ result' = [turns |-> result.turns + w.turns, tokens |-> result.tokens + w.tokens,
                    refreshed |-> IF w.edited THEN Append(result.refreshed, r)
                                              ELSE result.refreshed]
      /\ reasons' = reasons \cup (IF w.reason = "none" THEN {} ELSE {w.reason})
  BY <1>2, <1>3 DEF FoldDoc, progress
<1>5. /\ Used(cfg, w)
      /\ ~Reached(cfg, result.turns, result.tokens)
      /\ w.turns \in 1..(cfg.retries + 1)
      /\ w.tokens \in 0..((cfg.retries + 1) * MaxCost)
      /\ BegunBelow(cfg, w, result.turns, result.tokens)
      /\ w.reason = "budget" =>
           w.turns <= cfg.retries /\ Reached(cfg, result.turns + w.turns, result.tokens + w.tokens)
  BY <1>2, <1>3, FoldSaw
<1>6. w.reason = "none" => w.edited
  BY <1>3, <1>4 DEF SessionsAccounted, EditedFirst
<1>7. w.reason \in {"failed", "still stale"} =>
        w.turns = cfg.retries + 1 /\ (w.edited <=> w.reason = "still stale")
  BY <1>4, <1>5 DEF Used
<1> DEFINE o == [turns |-> w.turns, tokens |-> w.tokens, edited |-> w.edited,
                 reason |-> w.reason]
<1>8. o \in Sequential!Outcome
  BY <1>5 DEF Sequential!Outcome, Session
<1>9. Sequential!Possible(o, result.turns, result.tokens)
  <2>1. \E k \in 0..MaxCost :
          k <= o.tokens /\ ~Sequential!Exceeded(result.turns + o.turns - 1,
                                                result.tokens + o.tokens - k)
    BY <1>5 DEF BegunBelow, Reached, Sequential!Exceeded
  <2>2. o.reason = "budget" =>
          /\ o.turns <= cfg.retries
          /\ Sequential!Exceeded(result.turns + o.turns, result.tokens + o.tokens)
    BY <1>5 DEF Reached, Sequential!Exceeded
  <2>3. o.turns = w.turns /\ o.edited = w.edited /\ o.reason = w.reason
    OBVIOUS
  <2> QED
    BY <1>6, <1>7, <2>1, <2>2, <2>3 DEF Sequential!Possible
<1>10. result' = Sequential!Folded(r, o)
  BY <1>4 DEF Sequential!Folded
<1>11. RepairFlags' = RepairFlags \cup Sequential!ReasonsOf(o)
  <2>1. w.reason \in {"none", "budget", "failed", "still stale"}
    BY DEF Session
  <2> QED
    BY <1>4, <2>1 DEF RepairFlags, Sequential!ReasonsOf
<1>12. /\ LeftToFold = pending \o queue /\ LeftToFold' = Tail(pending) \o queue
       /\ RepairStatus = "repairing" /\ RepairStatus' = RepairStatus
  BY <1>1, <1>4 DEF LeftToFold, RepairStatus, Repairing
<1>13. LeftToFold # << >> /\ Head(LeftToFold) = r /\ LeftToFold' = Tail(LeftToFold)
  BY <1>1, <1>2, <1>12, FirstOfJoined
<1>14. ~Sequential!Exceeded(result.turns, result.tokens)
  BY <1>5 DEF Reached, Sequential!Exceeded
<1> HIDE DEF o
<1>15. \E a \in Sequential!Outcome :
         /\ Sequential!Possible(a, result.turns, result.tokens)
         /\ result' = Sequential!Folded(Head(LeftToFold), a)
         /\ RepairFlags' = RepairFlags \cup Sequential!ReasonsOf(a)
  BY <1>8, <1>9, <1>10, <1>11, <1>13
<1> QED
  BY <1>4, <1>12, <1>13, <1>14, <1>15
  DEF Sequential!RepairNext, LeftToFold, RepairFlags, RepairStatus

\* The end of the repair, and a run with nothing to repair.
LEMMA EndFinishes ==
  ASSUME TypeOK, SessionsAccounted, SessionsSawEnough, NoOp \/ EndRepair
  PROVE  Sequential!Finish
<1>1. /\ cfg.turns \in Nat \ {0} /\ cfg.tokens \in Nat \ {0}
  BY ConfigType DEF TypeOK
<1>2. << >> \o << >> = << >>
  OBVIOUS
<1>3. LeftToFold' = << >> /\ RepairStatus = "repairing" /\ RepairStatus' = "repaired"
      /\ UNCHANGED <<cfg, result>>
  BY DEF NoOp, EndRepair, LeftToFold, RepairStatus, Repairing
<1>4. LeftToFold = << >> \/ Sequential!Exceeded(result.turns, result.tokens)
  <2>1. CASE NoOp
    <3>1. pending = << >> /\ queue = << >>
      BY <2>1 DEF NoOp, SessionsAccounted
    <3> QED
      BY <1>2, <3>1 DEF LeftToFold
  <2>2. CASE EndRepair
    <3>1. pending = << >> /\ (queue = << >> \/ phase = "stopping")
      BY <2>2 DEF EndRepair
    <3>2. CASE queue = << >>
      BY <1>2, <3>1, <3>2 DEF LeftToFold
    <3>3. CASE phase = "stopping"
      BY <3>3 DEF SessionsAccounted, OverBudget, Exceeded, Sequential!Exceeded
    <3> QED
      BY <3>1, <3>2, <3>3
  <2> QED
    BY <2>1, <2>2
<1>5. RepairFlags' = IF Sequential!Exceeded(result.turns, result.tokens)
                       THEN RepairFlags \cup {"budget"} ELSE RepairFlags
  <2>1. CASE NoOp
    <3>1. result.turns = 0 /\ result.tokens = 0
      BY <2>1 DEF NoOp, SessionsSawEnough
    <3>2. ~(0 >= cfg.turns) /\ ~(0 >= cfg.tokens)
      BY <1>1
    <3> QED
      BY <2>1, <3>1, <3>2 DEF NoOp, Sequential!Exceeded, RepairFlags
  <2>2. CASE EndRepair
    BY <2>2 DEF EndRepair, OverBudget, Exceeded, Sequential!Exceeded, RepairFlags
  <2> QED
    BY <2>1, <2>2
<1> QED
  BY <1>3, <1>4, <1>5 DEF Sequential!Finish, LeftToFold, RepairFlags, RepairStatus

LEMMA RaiseRaises ==
  ASSUME Abort \/ FoldRaises
  PROVE  Sequential!Raise
<1>1. /\ RepairStatus = "repairing" /\ RepairStatus' = "raised"
      /\ UNCHANGED <<cfg, LeftToFold, result, RepairFlags>>
  BY DEF Abort, FoldRaises, RepairStatus, LeftToFold, RepairFlags, Repairing
<1> QED
  BY <1>1 DEF Sequential!Raise, LeftToFold, RepairFlags, RepairStatus

\* Every step of a run is one of the sequential repair, or none.
LEMMA RepairStep ==
  ASSUME TypeOK, SessionsAccounted, SessionsSawEnough, [Next]_vars
  PROVE  [Sequential!Next]_(Sequential!seqVars)
<1>1. ASSUME UNCHANGED <<cfg, queue, pending, result, reasons>>,
             \/ phase' = phase
             \/ phase \in {"discover", "repair", "stopping"} /\ phase' \in {"repair", "stopping"}
      PROVE  UNCHANGED Sequential!seqVars
  BY <1>1, StutterOfRepair DEF LeftToFold, RepairFlags, RepairStatus, Repairing
<1>2. ASSUME UNCHANGED <<cfg, result>>,
             phase \notin {"discover", "repair", "stopping", "aborted"},
             phase' \notin {"discover", "repair", "stopping", "aborted"},
             reasons' \in {reasons, reasons \cup {"fixpoint"}, reasons \cup {"gate"}}
      PROVE  UNCHANGED Sequential!seqVars
  BY <1>2, StutterOfRepair DEF LeftToFold, RepairFlags, RepairStatus, Repairing
<1>3. CASE NoOp \/ EndRepair
  BY <1>3, EndFinishes DEF Sequential!Next
<1>4. CASE Abort \/ FoldRaises
  BY <1>4, RaiseRaises DEF Sequential!Next
<1>5. CASE FoldDoc
  BY <1>5, FoldRepairsNext DEF Sequential!Next
<1>6. CASE StartRepair \/ BudgetStop
  <2>1. /\ UNCHANGED <<cfg, queue, pending, result, reasons>>
        /\ phase \in {"discover", "repair", "stopping"} /\ phase' \in {"repair", "stopping"}
    BY <1>6 DEF StartRepair, BudgetStop
  <2> QED
    BY <1>1, <2>1
<1>7. CASE Submit
  <2>1. queue \in Seq(Refs) /\ queue # << >> /\ pending \in Seq(Refs)
    BY <1>7 DEF TypeOK, Submit
  <2>2. /\ queue' = Tail(queue) /\ pending' = Append(pending, Head(queue))
        /\ UNCHANGED <<cfg, result, reasons, phase>>
    BY <1>7 DEF Submit, progress
  <2>3. pending' \o queue' = pending \o queue
    BY <2>1, <2>2, MovedOver
  <2>4. UNCHANGED <<cfg, LeftToFold, result, RepairFlags, RepairStatus>>
    BY <2>2, <2>3 DEF LeftToFold, RepairFlags, RepairStatus, Repairing
  <2> QED
    BY <2>4, StutterOfRepair
<1>8. ASSUME NEW r \in Refs, SessionNext(r)
      PROVE  UNCHANGED Sequential!seqVars
  BY <1>1, <1>8, SessionStepType DEF progress
<1>9. CASE \/ FixpointReached \/ FixpointRound \/ (\E r \in Refs : UpdateStale(r)) \/ EndRound
           \/ RoundsSpent \/ FixpointRaises \/ (\E green \in BOOLEAN : RunGate(green))
  <2>1. UNCHANGED <<cfg, result>>
    BY <1>9 DEF FixpointReached, FixpointRound, UpdateStale, EndRound, RoundsSpent,
                FixpointRaises, RunGate, AfterRepair
  <2>2. /\ phase \in {"fixpoint", "rebaseline", "gate"}
        /\ phase' \in {"fixpoint", "rebaseline", "gate", "record", "failed"}
    BY <1>9 DEF FixpointReached, FixpointRound, UpdateStale, EndRound, RoundsSpent,
                FixpointRaises, RunGate
  <2>3. reasons' \in {reasons, reasons \cup {"fixpoint"}, reasons \cup {"gate"}}
    BY <1>9 DEF FixpointReached, FixpointRound, UpdateStale, EndRound, RoundsSpent,
                FixpointRaises, RunGate
  <2> QED
    BY <1>2, <2>1, <2>2, <2>3
<1>10. CASE EmitRecord \/ Commit \/ SkipCommit \/ Push \/ OpenReview \/ PublishFails
            \/ Backfill \/ Amend \/ PushAgain \/ BackfillFails
  <2>1. UNCHANGED <<cfg, result, reasons>>
    BY <1>10 DEF AtEnd, EmitRecord, Commit, SkipCommit, Push, OpenReview, PublishFails,
                 Backfill, Amend, PushAgain, BackfillFails
  <2>2. /\ phase \notin {"discover", "repair", "stopping", "aborted"}
        /\ phase' \notin {"discover", "repair", "stopping", "aborted"}
    BY <1>10 DEF AtEnd, EmitRecord, Commit, SkipCommit, Push, OpenReview, PublishFails,
                 Backfill, Amend, PushAgain, BackfillFails
  <2> QED
    BY <1>2, <2>1, <2>2
<1>11. CASE UNCHANGED vars
  BY <1>1, <1>11 DEF vars, progress
<1> QED
  BY <1>3, <1>4, <1>5, <1>6, <1>7, <1>8, <1>9, <1>10, <1>11 DEF Next

LEMMA RepairInit ==
  ASSUME Init
  PROVE  Sequential!Init
<1>1. \A s \in Seq(Refs) : << >> \o s = s
  OBVIOUS
<1>2. << >> \o queue = queue
  BY <1>1, ScopesAssumption DEF Init
<1>3. LeftToFold = queue /\ RepairFlags = {} /\ RepairStatus = "repairing"
  BY <1>2 DEF Init, LeftToFold, RepairFlags, RepairStatus, Repairing
<1> QED
  BY <1>3 DEF Init, Sequential!Init, Sequential!NoResult, LeftToFold, RepairFlags, RepairStatus

\* With one session at a time, or caps no run can reach, the window of
\* sessions gives what one session after the other would ("IDENTICAL to the
\* sequential behaviour", _dispatch_and_fold): each doc is folded with a
\* session that a sequential run might have had, in scope order.
THEOREM WindowImplementsSequential ==
  ASSUME SequentialOrAmple
  PROVE  Spec => ImplementsSequential
<1>1. Init => SessionsAccounted
  BY AccountedInit
<1>2. Init => SessionsSawEnough /\ Sequential!Init
  BY SawInit, RepairInit
<1>3. TypeOK /\ SessionsAccounted /\ [Next]_vars => SessionsAccounted'
  BY AccountedStep
<1>4. TypeOK /\ SessionsSawEnough /\ [Next]_vars => SessionsSawEnough'
  BY SawStep
<1>5. TypeOK /\ SessionsAccounted /\ SessionsSawEnough /\ [Next]_vars
        => [Sequential!Next]_(Sequential!seqVars)
  BY RepairStep
<1> QED
  BY <1>1, <1>2, <1>3, <1>4, <1>5, TypeCorrect, PTL
  DEF Spec, ImplementsSequential, Sequential!Spec
=============================================================================
