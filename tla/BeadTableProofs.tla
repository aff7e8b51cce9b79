-------------------------- MODULE BeadTableProofs --------------------------
(***************************************************************************)
(* Proofs about beads, for any number of beads, agents and calls: the      *)
(* verdict of the gate is honest whatever the other calls, bd and people   *)
(* at the tree do while it is formed, and active-sync leaves a table that  *)
(* agrees with bd, changing nothing else. And about a step of that gate,   *)
(* the docs audit: no false plain claim gets by it.                        *)
(***************************************************************************)
EXTENDS BeadTable, DocAudit, FiniteSetTheorems, SequenceTheorems, WellFoundedInduction, TLAPS

BeadSpec == BeadInit /\ [][BeadNext]_beadVars

Fields == {"op", "at", "bead", "tests", "pos", "made", "failing", "always", "ever", "epic",
           "word", "lines", "statuses", "verdict"}

\* The checks a call answers for.
Asked(c) == IF c.tests THEN Checks ELSE Checks \ {"tests"}

\* What a complete_bead knows of the tree at each stage: the steps behind it are in its
\* findings if they failed all along, and past the tests nothing failed all along.
Gathered(c) ==
  c.at = "gate" => /\ c.pos \in 1 .. 6
                   /\ \A i \in 1 .. 6 : (i < c.pos /\ GateSteps[i] \in c.always) => GateSteps[i] \in c.failing
Reviewed(c) ==
  c.at = "tests" => \A i \in 1 .. 6 : GateSteps[i] \in c.always => GateSteps[i] \in c.failing
Passed(c) == c.at \in {"show", "close", "table", "flip"} => c.always \cap Asked(c) = {}
Honest(c) ==
  c.at = "answered" =>
    /\ c.verdict = "PASS" => c.always \cap Asked(c) = {}
    /\ c.verdict = "FAIL" => c.failing # {} /\ c.always \cap Asked(c) \subseteq c.failing
                             /\ c.failing \subseteq c.ever
Witnessed(c, now) == c.at # "answered" => c.always \subseteq now /\ now \subseteq c.ever
GateOK(c, now) ==
  c.op = "complete_bead" =>
    /\ c.at \in {"gate", "tests", "show", "close", "table", "flip", "answered"}
    /\ c.failing \subseteq c.ever
    /\ Witnessed(c, now) /\ Gathered(c) /\ Reviewed(c) /\ Passed(c) /\ Honest(c)
CallOK(c, now) == DOMAIN c = Fields /\ GateOK(c, now)
GateInv == DOMAIN call = Agents /\ \A a \in Agents : CallOK(call[a], red)

\* The gate has six steps, and every check is one of them or the tests.
LEMMA GateStepsAre ==
  /\ Len(GateSteps) = 6
  /\ \A i \in 1 .. 6 : GateSteps[i] \in Checks
  /\ \A x \in Checks \ {"tests"} : \E i \in 1 .. 6 : x = GateSteps[i]
<1>1. Len(GateSteps) = 6 /\ DOMAIN GateSteps = 1 .. 6
  BY DEF GateSteps
<1> QED
  BY <1>1 DEF Checks

\* A step of one call that leaves the tree alone disturbs no other call.
LEMMA OneCall ==
  ASSUME GateInv, NEW a \in Agents, NEW c, CallOK(c, red), red' = red,
         call' = [call EXCEPT ![a] = c]
  PROVE  GateInv'
<1>1. DOMAIN call' = Agents /\ call'[a] = c /\ \A d \in Agents : d # a => call'[d] = call[d]
  BY DEF GateInv
<1>2. \A d \in Agents : CallOK(call'[d], red')
  BY <1>1 DEF GateInv
<1> QED
  BY <1>1, <1>2 DEF GateInv

\* Whatever a call of another kind does is no concern of the gate.
LEMMA OtherCall ==
  ASSUME NEW c, NEW now, DOMAIN c = Fields, c.op # "complete_bead"
  PROVE  CallOK(c, now)
  BY DEF CallOK, GateOK

\* An answer that is neither PASS nor FAIL claims nothing.
LEMMA PlainAnswer ==
  ASSUME GateInv, NEW a \in Agents, NEW verdict, verdict \notin {"PASS", "FAIL"},
         Answer(a, verdict), red' = red
  PROVE  GateInv'
<1> DEFINE c == [call[a] EXCEPT !.at = "answered", !.verdict = verdict, !.lines = <<>>, !.statuses = <<>>]
<1>1. CallOK(call[a], red)
  BY DEF GateInv
<1>2. DOMAIN call[a] = Fields
  BY <1>1 DEF CallOK
<1>3. /\ DOMAIN c = Fields /\ c.op = call[a].op /\ c.at = "answered" /\ c.verdict = verdict
      /\ c.failing = call[a].failing /\ c.ever = call[a].ever
  BY <1>2 DEF Fields
<1>4. call' = [call EXCEPT ![a] = c]
  BY DEF Answer
<1> HIDE DEF c
<1>5. GateOK(call[a], red)
  BY <1>1 DEF CallOK
<1>6. GateOK(c, red)
  BY <1>3, <1>5 DEF GateOK, Witnessed, Gathered, Reviewed, Passed, Honest
<1>7. CallOK(c, red)
  BY <1>3, <1>6 DEF CallOK
<1> QED
  BY <1>4, <1>7, OneCall

\* A call that has passed the gate may go on.
LEMMA Onward ==
  ASSUME GateInv, NEW a \in Agents, NEW c, red' = red, call' = [call EXCEPT ![a] = c],
         DOMAIN c = Fields, c.op = call[a].op, c.tests = call[a].tests,
         c.failing = call[a].failing, c.always = call[a].always, c.ever = call[a].ever,
         call[a].at \in {"show", "close", "table", "flip"},
         \/ c.at \in {"show", "close", "table", "flip"}
         \/ c.at = "answered" /\ c.verdict # "FAIL"
         \/ c.op # "complete_bead"
  PROVE  GateInv'
<1>1. GateOK(call[a], red)
  BY DEF GateInv, CallOK
<1>2. c.op = "complete_bead" => c.always \cap Asked(c) = {}
  BY <1>1 DEF GateOK, Passed, Asked
<1>3. c.op = "complete_bead" => c.always \subseteq red /\ red \subseteq c.ever
  BY <1>1 DEF GateOK, Witnessed
<1>4. GateOK(c, red)
  BY <1>1, <1>2, <1>3 DEF GateOK, Witnessed, Gathered, Reviewed, Passed, Honest
<1>5. CallOK(c, red)
  BY <1>4 DEF CallOK
<1> QED
  BY <1>5, OneCall

\* A call of another kind stays one.
LEMMA OtherGoesOn ==
  ASSUME GateInv, NEW a \in Agents, NEW c, red' = red, call' = [call EXCEPT ![a] = c],
         DOMAIN c = Fields, c.op # "complete_bead"
  PROVE  GateInv'
<1>1. CallOK(c, red)
  BY OtherCall
<1> QED
  BY <1>1, OneCall

LEMMA EmptyCall ==
  /\ DOMAIN NoCall = Fields
  /\ NoCall.op = "none" /\ NoCall.failing = {}
  BY DEF NoCall, Fields

LEMMA NewCalls ==
  ASSUME GateInv, NEW a \in Agents, task_init(a) \/ checkpoint(a) \/ active_sync(a)
  PROVE  GateInv'
<1>1. CASE task_init(a)
  <2> DEFINE c == [NoCall EXCEPT !.op = "task_init", !.at = "create"]
  <2>1. DOMAIN c = Fields /\ c.op = "task_init"
    BY EmptyCall DEF Fields
  <2>2. red' = red /\ call' = [call EXCEPT ![a] = c]
    BY <1>1 DEF task_init, Enter
  <2> HIDE DEF c
  <2> QED
    BY <2>1, <2>2, OtherGoesOn
<1>2. CASE checkpoint(a)
  <2>1. PICK b \in made, w \in {"in progress", "blocked"} :
           Enter(a, [NoCall EXCEPT !.op = "checkpoint", !.at = "show", !.bead = b, !.word = w])
    BY <1>2 DEF checkpoint
  <2> DEFINE c == [NoCall EXCEPT !.op = "checkpoint", !.at = "show", !.bead = b, !.word = w]
  <2>2. DOMAIN c = Fields /\ c.op = "checkpoint"
    BY EmptyCall DEF Fields
  <2>3. red' = red /\ call' = [call EXCEPT ![a] = c]
    BY <2>1 DEF Enter
  <2> HIDE DEF c
  <2> QED
    BY <2>2, <2>3, OtherGoesOn
<1>3. CASE active_sync(a)
  <2>1. PICK check \in BOOLEAN :
           Enter(a, [NoCall EXCEPT !.op = IF check THEN "check" ELSE "sync", !.at = "look"])
    BY <1>3 DEF active_sync
  <2>2. PICK op \in {"check", "sync"} : Enter(a, [NoCall EXCEPT !.op = op, !.at = "look"])
    BY <2>1
  <2> DEFINE c == [NoCall EXCEPT !.op = op, !.at = "look"]
  <2>3. DOMAIN c = Fields /\ c.op = op
    BY EmptyCall DEF Fields
  <2>4. red' = red /\ call' = [call EXCEPT ![a] = c]
    BY <2>2 DEF Enter
  <2> HIDE DEF c
  <2> QED
    BY <2>3, <2>4, OtherGoesOn
<1> QED
  BY <1>1, <1>2, <1>3

\* A complete_bead starts at the first step, with nothing found and the tree as it is.
LEMMA GateEntered ==
  ASSUME GateInv, NEW a \in Agents, complete_bead(a)
  PROVE  GateInv'
<1>1. PICK b \in made, t \in Tests :
         Enter(a, [NoCall EXCEPT !.op = "complete_bead", !.at = "gate", !.bead = b, !.tests = t,
                                 !.pos = 1, !.always = red, !.ever = red, !.word = "done"])
  BY DEF complete_bead
<1> DEFINE c == [NoCall EXCEPT !.op = "complete_bead", !.at = "gate", !.bead = b, !.tests = t,
                               !.pos = 1, !.always = red, !.ever = red, !.word = "done"]
<1>2. /\ DOMAIN c = Fields /\ c.at = "gate" /\ c.failing = {} /\ c.pos = 1
      /\ c.always = red /\ c.ever = red
  BY EmptyCall DEF Fields
<1>3. red' = red /\ call' = [call EXCEPT ![a] = c]
  BY <1>1 DEF Enter
<1> HIDE DEF c
<1>4. GateOK(c, red)
  BY <1>2 DEF GateOK, Witnessed, Gathered, Reviewed, Passed, Honest
<1>5. CallOK(c, red)
  BY <1>2, <1>4 DEF CallOK
<1> QED
  BY <1>3, <1>5, OneCall

\* One step of the gate: what fails now joins the findings, whatever they were.
LEMMA GateSteppedOn ==
  ASSUME GateInv, NEW a \in Agents, run_ci_gate(a)
  PROVE  GateInv'
<1> DEFINE step == IF call[a].pos = Len(GateSteps) THEN "tests" ELSE "gate"
           c == [call[a] EXCEPT !.failing = Findings(call[a]), !.pos = @ + 1, !.at = step]
<1>1. DOMAIN call[a] = Fields /\ GateOK(call[a], red)
  BY DEF GateInv, CallOK
<1>2. /\ DOMAIN c = Fields /\ c.at = step /\ c.failing = Findings(call[a]) /\ c.pos = call[a].pos + 1
      /\ c.always = call[a].always /\ c.ever = call[a].ever
  BY <1>1 DEF Fields
<1>3. red' = red /\ call' = [call EXCEPT ![a] = c]
  BY DEF run_ci_gate
<1>4. call[a].op = "complete_bead" /\ call[a].at = "gate"
  BY DEF run_ci_gate, At
<1> HIDE DEF c
<1>5. /\ call[a].pos \in 1 .. 6 /\ call[a].failing \subseteq call[a].ever
      /\ call[a].always \subseteq red /\ red \subseteq call[a].ever
      /\ \A i \in 1 .. 6 : (i < call[a].pos /\ GateSteps[i] \in call[a].always) => GateSteps[i] \in call[a].failing
  BY <1>1, <1>4 DEF GateOK, Witnessed, Gathered
<1>6. c.failing \subseteq c.ever /\ Witnessed(c, red)
  BY <1>2, <1>5 DEF Findings, Witnessed
<1>7. \A i \in 1 .. 6 : (i < c.pos /\ GateSteps[i] \in c.always) => GateSteps[i] \in c.failing
  <2> TAKE i \in 1 .. 6
  <2> HAVE i < c.pos /\ GateSteps[i] \in c.always
  <2>1. CASE i = call[a].pos
    BY <2>1, <1>2, <1>5 DEF Findings
  <2>2. CASE i # call[a].pos
    <3>1. i < call[a].pos
      BY <2>2, <1>2, <1>5
    <3>2. GateSteps[i] \in call[a].failing
      BY <3>1, <1>2, <1>5
    <3> QED
      BY <3>2, <1>2 DEF Findings
  <2> QED
    BY <2>1, <2>2
<1>8. CASE call[a].pos = 6
  <2>1. c.at = "tests" /\ c.pos = 7
    BY <1>8, <1>2, GateStepsAre
  <2>2. Reviewed(c)
    BY <2>1, <1>7 DEF Reviewed
  <2>3. GateOK(c, red)
    BY <2>1, <2>2, <1>6 DEF GateOK, Gathered, Passed, Honest
  <2> QED
    BY <2>3, <1>2, <1>3, OneCall DEF CallOK
<1>9. CASE call[a].pos # 6
  <2>1. c.at = "gate" /\ c.pos \in 1 .. 6
    BY <1>9, <1>2, <1>5, GateStepsAre
  <2>2. Gathered(c)
    BY <2>1, <1>7 DEF Gathered
  <2>3. GateOK(c, red)
    BY <2>1, <2>2, <1>6 DEF GateOK, Reviewed, Passed, Honest
  <2> QED
    BY <2>3, <1>2, <1>3, OneCall DEF CallOK
<1> QED
  BY <1>8, <1>9

\* The tests come last; then the call is answered with its findings, or has none.
LEMMA TestsRun ==
  ASSUME GateInv, NEW a \in Agents, _run_test_suite(a)
  PROVE  GateInv'
<1> DEFINE found == call[a].failing \cup (IF call[a].tests THEN red \cap {"tests"} ELSE {})
           step == IF found = {} THEN "show" ELSE "answered"
           verdict == IF found = {} THEN "" ELSE "FAIL"
           c == [call[a] EXCEPT !.failing = found, !.pos = 0, !.at = step, !.verdict = verdict]
<1>1. DOMAIN call[a] = Fields /\ GateOK(call[a], red)
  BY DEF GateInv, CallOK
<1>2. red' = red /\ call' = [call EXCEPT ![a] = c]
  BY DEF _run_test_suite
<1>3. call[a].op = "complete_bead" /\ call[a].at = "tests"
  BY DEF _run_test_suite, At
<1>4. /\ call[a].failing \subseteq call[a].ever
      /\ call[a].always \subseteq red /\ red \subseteq call[a].ever
      /\ \A i \in 1 .. 6 : GateSteps[i] \in call[a].always => GateSteps[i] \in call[a].failing
  BY <1>1, <1>3 DEF GateOK, Witnessed, Reviewed
<1>5. call[a].always \cap Asked(call[a]) \subseteq found
  BY <1>4, GateStepsAre DEF Asked
<1>6. found \subseteq call[a].ever
  BY <1>4
<1>7. (found = {} => step = "show") /\ (found # {} => step = "answered" /\ verdict = "FAIL")
  OBVIOUS
<1> HIDE DEF found, step, verdict
<1>8. /\ DOMAIN c = Fields /\ c.at = step /\ c.failing = found /\ c.verdict = verdict
      /\ c.always = call[a].always /\ c.ever = call[a].ever /\ c.tests = call[a].tests
  BY <1>1 DEF Fields
<1> HIDE DEF c
<1>9. Asked(c) = Asked(call[a])
  BY <1>8 DEF Asked
<1>10. CASE found = {}
  BY <1>2, <1>4, <1>5, <1>7, <1>8, <1>9, <1>10, OneCall
     DEF CallOK, GateOK, Witnessed, Gathered, Reviewed, Passed, Honest
<1>11. CASE found # {}
  BY <1>2, <1>5, <1>6, <1>7, <1>8, <1>9, <1>11, OneCall
     DEF CallOK, GateOK, Witnessed, Gathered, Reviewed, Passed, Honest
<1> QED
  BY <1>10, <1>11

LEMMA ScaffoldGoesOn ==
  ASSUME GateInv, NEW a \in Agents, NEW r \in Replies, _bd_create_bead(a, r) \/ dep_add(a, r)
  PROVE  GateInv'
<1>1. DOMAIN call[a] = Fields /\ call[a].op = "task_init"
  BY DEF GateInv, CallOK, _bd_create_bead, dep_add, At
<1>2. red' = red
  BY DEF _bd_create_bead, dep_add
<1>3. CASE Answer(a, "ERROR") \/ Answer(a, "OK")
  BY <1>2, <1>3, PlainAnswer
<1>4. CASE _bd_create_bead(a, r) /\ ~Answer(a, "ERROR")
  <2> DEFINE ids == Append(call[a].made, Ids[Cardinality(made) + 1])
             step == IF Len(ids) = Len(BeadRoles) THEN "wire" ELSE "create"
             c == [call[a] EXCEPT !.made = ids, !.pos = 2, !.at = step]
  <2>1. call' = [call EXCEPT ![a] = c]
    BY <1>4 DEF _bd_create_bead
  <2> HIDE DEF ids, step
  <2>2. DOMAIN c = Fields /\ c.op = "task_init"
    BY <1>1 DEF Fields
  <2> HIDE DEF c
  <2> QED
    BY <1>2, <2>1, <2>2, OtherGoesOn
<1>5. CASE dep_add(a, r) /\ ~Answer(a, "ERROR") /\ ~Answer(a, "OK")
  <2> DEFINE c == [call[a] EXCEPT !.pos = @ + 1]
  <2>1. call' = [call EXCEPT ![a] = c]
    BY <1>5 DEF dep_add
  <2>2. DOMAIN c = Fields /\ c.op = "task_init"
    BY <1>1 DEF Fields
  <2> HIDE DEF c
  <2> QED
    BY <1>2, <2>1, <2>2, OtherGoesOn
<1> QED
  BY <1>3, <1>4, <1>5

LEMMA BeadClosed ==
  ASSUME GateInv, NEW a \in Agents, NEW r \in Replies, _bd_show(a, r) \/ bd_close(a, r)
  PROVE  GateInv'
<1>1. DOMAIN call[a] = Fields
  BY DEF GateInv, CallOK
<1>2. red' = red /\ call[a].at \in {"show", "close"}
  BY DEF _bd_show, bd_close, At
<1>3. CASE Answer(a, "ERROR")
  BY <1>2, <1>3, PlainAnswer
<1>4. CASE _bd_show(a, r) /\ ~Answer(a, "ERROR")
  <2> DEFINE names == r = "ok" /\ bd[call[a].bead].epic
             step == IF call[a].op = "complete_bead" THEN "close" ELSE "comment"
             c == [call[a] EXCEPT !.epic = names, !.at = step]
  <2>1. call' = [call EXCEPT ![a] = c]
    BY <1>4 DEF _bd_show
  <2>2. step = "close" \/ call[a].op # "complete_bead"
    OBVIOUS
  <2> HIDE DEF names, step
  <2>3. /\ DOMAIN c = Fields /\ c.op = call[a].op /\ c.tests = call[a].tests /\ c.at = step
        /\ c.failing = call[a].failing /\ c.always = call[a].always /\ c.ever = call[a].ever
    BY <1>1 DEF Fields
  <2> HIDE DEF c
  <2> QED
    BY <1>2, <2>1, <2>2, <2>3, Onward
<1>5. CASE bd_close(a, r) /\ ~Answer(a, "ERROR")
  <2> DEFINE c == [call[a] EXCEPT !.at = "table"]
  <2>1. call' = [call EXCEPT ![a] = c]
    BY <1>5 DEF bd_close, Goto
  <2>2. /\ DOMAIN c = Fields /\ c.op = call[a].op /\ c.tests = call[a].tests /\ c.at = "table"
        /\ c.failing = call[a].failing /\ c.always = call[a].always /\ c.ever = call[a].ever
    BY <1>1 DEF Fields
  <2> HIDE DEF c
  <2> QED
    BY <1>2, <2>1, <2>2, Onward
<1> QED
  BY <1>3, <1>4, <1>5

\* The answer once the table is done: PASS of a complete_bead, OK of a checkpoint.
LEMMA TableAnswered ==
  ASSUME GateInv, NEW a \in Agents, call[a].at \in {"table", "flip"}, red' = red,
         Answer(a, IF call[a].op = "checkpoint" THEN "OK" ELSE "PASS")
  PROVE  GateInv'
<1> DEFINE verdict == IF call[a].op = "checkpoint" THEN "OK" ELSE "PASS"
           c == [call[a] EXCEPT !.at = "answered", !.verdict = verdict, !.lines = <<>>, !.statuses = <<>>]
<1>1. DOMAIN call[a] = Fields
  BY DEF GateInv, CallOK
<1>2. call' = [call EXCEPT ![a] = c]
  BY DEF Answer
<1>3. verdict # "FAIL"
  OBVIOUS
<1> HIDE DEF verdict
<1>4. /\ DOMAIN c = Fields /\ c.op = call[a].op /\ c.tests = call[a].tests
      /\ c.at = "answered" /\ c.verdict = verdict
      /\ c.failing = call[a].failing /\ c.always = call[a].always /\ c.ever = call[a].ever
  BY <1>1 DEF Fields
<1> HIDE DEF c
<1> QED
  BY <1>2, <1>3, <1>4, Onward

LEMMA TableFlipped ==
  ASSUME GateInv, NEW a \in Agents, ReadTable(a) \/ _set_bead_table_status(a)
  PROVE  GateInv'
<1>1. DOMAIN call[a] = Fields
  BY DEF GateInv, CallOK
<1>2. red' = red /\ call[a].at \in {"table", "flip"}
  BY DEF ReadTable, _set_bead_table_status
<1>3. CASE Answer(a, IF call[a].op = "checkpoint" THEN "OK" ELSE "PASS")
  BY <1>2, <1>3, TableAnswered
<1>4. CASE ReadTable(a) /\ ~Answer(a, IF call[a].op = "checkpoint" THEN "OK" ELSE "PASS")
  <2> DEFINE c == [call[a] EXCEPT !.at = "flip", !.lines = file]
  <2>1. call' = [call EXCEPT ![a] = c]
    BY <1>4 DEF ReadTable
  <2>2. /\ DOMAIN c = Fields /\ c.op = call[a].op /\ c.tests = call[a].tests /\ c.at = "flip"
        /\ c.failing = call[a].failing /\ c.always = call[a].always /\ c.ever = call[a].ever
    BY <1>1 DEF Fields
  <2> HIDE DEF c
  <2> QED
    BY <1>2, <2>1, <2>2, Onward
<1> QED
  BY <1>3, <1>4 DEF _set_bead_table_status

LEMMA CheckpointGoesOn ==
  ASSUME GateInv, NEW a \in Agents, NEW r \in Replies, comments_add(a, r) \/ _append_active_note(a)
  PROVE  GateInv'
<1>1. DOMAIN call[a] = Fields /\ call[a].op = "checkpoint"
  BY DEF GateInv, CallOK, comments_add, _append_active_note, At
<1>2. red' = red
  BY DEF comments_add, _append_active_note
<1>3. CASE Answer(a, "ERROR")
  BY <1>2, <1>3, PlainAnswer
<1>4. ASSUME NEW at, Goto(a, at) PROVE GateInv'
  <2> DEFINE c == [call[a] EXCEPT !.at = at]
  <2>1. call' = [call EXCEPT ![a] = c]
    BY <1>4 DEF Goto
  <2>2. DOMAIN c = Fields /\ c.op = "checkpoint"
    BY <1>1 DEF Fields
  <2> HIDE DEF c
  <2> QED
    BY <1>2, <2>1, <2>2, OtherGoesOn
<1> QED
  BY <1>3, <1>4 DEF comments_add, _append_active_note

LEMMA SyncGoesOn ==
  ASSUME GateInv, NEW a \in Agents, NEW r \in Replies,
         \/ _has_active_table(a) \/ _query_bd_statuses(a, r) \/ ReadActive(a)
         \/ reconcile_active_tables(a) \/ _active_sync_check(a)
  PROVE  GateInv'
<1>1. DOMAIN call[a] = Fields /\ GateOK(call[a], red)
  BY DEF GateInv, CallOK
<1>2. red' = red /\ call[a].op # "complete_bead"
  BY <1>1 DEF _has_active_table, _query_bd_statuses, ReadActive, reconcile_active_tables,
              _active_sync_check, At, GateOK
<1>3. ASSUME NEW verdict, verdict \notin {"PASS", "FAIL"}, Answer(a, verdict) PROVE GateInv'
  BY <1>2, <1>3, PlainAnswer
<1>4. CASE _has_active_table(a)
  <2>1. CASE Goto(a, "query")
    <3> DEFINE c == [call[a] EXCEPT !.at = "query"]
    <3>1. call' = [call EXCEPT ![a] = c]
      BY <2>1 DEF Goto
    <3>2. DOMAIN c = Fields /\ c.op = call[a].op
      BY <1>1 DEF Fields
    <3> HIDE DEF c
    <3> QED
      BY <1>2, <3>1, <3>2, OtherGoesOn
  <2>2. CASE Answer(a, "skipped")
    BY <2>2, <1>3
  <2> QED
    BY <1>4, <2>1, <2>2 DEF _has_active_table
<1>5. CASE _query_bd_statuses(a, r)
  <2>1. CASE r = "ok"
    <3> DEFINE c == [call[a] EXCEPT !.at = "read", !.statuses = _bd_statuses_from_list]
    <3>1. call' = [call EXCEPT ![a] = c]
      BY <1>5, <2>1 DEF _query_bd_statuses
    <3>2. DOMAIN c = Fields /\ c.op = call[a].op
      BY <1>1 DEF Fields
    <3> HIDE DEF c
    <3> QED
      BY <1>2, <3>1, <3>2, OtherGoesOn
  <2>2. CASE Answer(a, "skipped")
    BY <2>2, <1>3
  <2> QED
    BY <1>5, <2>1, <2>2 DEF _query_bd_statuses
<1>6. CASE ReadActive(a)
  <2> DEFINE c == [call[a] EXCEPT !.at = "write", !.lines = file]
  <2>1. call' = [call EXCEPT ![a] = c]
    BY <1>6 DEF ReadActive
  <2>2. DOMAIN c = Fields /\ c.op = call[a].op
    BY <1>1 DEF Fields
  <2> HIDE DEF c
  <2> QED
    BY <1>2, <2>1, <2>2, OtherGoesOn
<1>7. CASE reconcile_active_tables(a)
  <2>1. Answer(a, "done")
    BY <1>7 DEF reconcile_active_tables
  <2> QED
    BY <2>1, <1>3
<1>8. CASE _active_sync_check(a)
  <2>1. \/ Answer(a, "coherent") \/ Answer(a, "drift")
    BY <1>8 DEF _active_sync_check
  <2> QED
    BY <2>1, <1>3
<1> QED
  BY <1>4, <1>5, <1>6, <1>7, <1>8

LEMMA CallDies ==
  ASSUME GateInv, NEW a \in Agents, Die(a)
  PROVE  GateInv'
<1>1. red' = red /\ call' = [call EXCEPT ![a] = NoCall]
  BY DEF Die
<1>2. NoCall.op # "complete_bead"
  BY EmptyCall
<1> QED
  BY <1>1, <1>2, EmptyCall, OtherGoesOn

\* An edit of the tree takes what it repairs out of `always` and puts what it breaks into
\* `ever` of the calls that are running, and of no other.
LEMMA TreeEdited ==
  ASSUME GateInv, EditTree
  PROVE  GateInv'
<1> DEFINE Edited(now) ==
      [a \in Agents |-> IF Running(a) /\ call[a].op = "complete_bead"
                        THEN [call[a] EXCEPT !.always = @ \cap now, !.ever = @ \cup now] ELSE call[a]]
<1>0. PICK x \in Breakable :
         LET now == IF x \in red THEN red \ {x} ELSE red \cup {x}
         IN red' = now /\ call' = Edited(now)
  BY DEF EditTree
<1>1. PICK now : red' = now /\ call' = Edited(now)
  <2> DEFINE now == IF x \in red THEN red \ {x} ELSE red \cup {x}
  <2>1. red' = now /\ call' = Edited(now)
    BY <1>0
  <2> HIDE DEF now
  <2> QED
    BY <2>1
<1>2. DOMAIN call' = Agents
  BY <1>1
<1>3. ASSUME NEW a \in Agents PROVE CallOK(call'[a], now)
  <2>1. DOMAIN call[a] = Fields /\ GateOK(call[a], red)
    BY DEF GateInv, CallOK
  <2>2. CASE Running(a) /\ call[a].op = "complete_bead"
    <3> DEFINE c == [call[a] EXCEPT !.always = @ \cap now, !.ever = @ \cup now]
    <3>1. call'[a] = c
      BY <1>1, <2>2
    <3>2. /\ DOMAIN c = Fields /\ c.op = call[a].op /\ c.at = call[a].at /\ c.tests = call[a].tests
          /\ c.pos = call[a].pos /\ c.failing = call[a].failing /\ c.verdict = call[a].verdict
          /\ c.always = call[a].always \cap now /\ c.ever = call[a].ever \cup now
      BY <2>1 DEF Fields
    <3> HIDE DEF c
    <3>3. call[a].at # "answered" /\ call[a].op = "complete_bead"
      BY <2>2 DEF Running
    <3>4. /\ c.at \in {"gate", "tests", "show", "close", "table", "flip"} /\ c.op = "complete_bead"
          /\ c.failing \subseteq c.ever /\ Witnessed(c, now)
      BY <2>1, <3>2, <3>3 DEF GateOK, Witnessed
    <3>5. Gathered(c) /\ Reviewed(c)
      BY <2>1, <3>2, <3>3 DEF GateOK, Gathered, Reviewed
    <3>6. Asked(c) = Asked(call[a])
      BY <3>2 DEF Asked
    <3>7. Passed(c)
      BY <2>1, <3>2, <3>3, <3>6 DEF GateOK, Passed
    <3>8. GateOK(c, now)
      BY <3>4, <3>5, <3>7 DEF GateOK, Honest
    <3> QED
      BY <3>1, <3>2, <3>8 DEF CallOK
  <2>3. CASE ~(Running(a) /\ call[a].op = "complete_bead")
    <3>1. call'[a] = call[a]
      BY <1>1, <2>3
    <3>2. call[a].op = "complete_bead" => call[a].at = "answered"
      BY <2>1, <2>3 DEF Running, GateOK
    <3>3. GateOK(call[a], now)
      BY <2>1, <3>2 DEF GateOK, Witnessed
    <3> QED
      BY <2>1, <3>1, <3>3 DEF CallOK
  <2> QED
    BY <2>2, <2>3
<1> QED
  BY <1>1, <1>2, <1>3 DEF GateInv

LEMMA GateInvHolds == BeadSpec => []GateInv
<1>1. ASSUME BeadInit PROVE GateInv
  <2>1. call = [a \in Agents |-> NoCall]
    BY <1>1 DEF BeadInit
  <2>2. CallOK(NoCall, red)
    BY EmptyCall, OtherCall
  <2> QED
    BY <2>1, <2>2 DEF GateInv
<1>2. ASSUME GateInv, [BeadNext]_beadVars PROVE GateInv'
  <2>1. CASE UNCHANGED beadVars
    BY <1>2, <2>1 DEF beadVars, GateInv
  <2>2. CASE BdUpdate \/ EditTable
    BY <1>2, <2>2 DEF BdUpdate, EditTable, GateInv
  <2>3. CASE EditTree
    BY <1>2, <2>3, TreeEdited
  <2>4. ASSUME NEW a \in Agents,
               \/ task_init(a) \/ complete_bead(a) \/ checkpoint(a) \/ active_sync(a)
               \/ run_ci_gate(a) \/ _run_test_suite(a) \/ Die(a)
        PROVE  GateInv'
    BY <1>2, <2>4, NewCalls, GateEntered, GateSteppedOn, TestsRun, CallDies
  <2>5. ASSUME NEW a \in Agents,
               \/ _append_active_note(a) \/ ReadTable(a) \/ _set_bead_table_status(a)
               \/ _has_active_table(a) \/ ReadActive(a) \/ reconcile_active_tables(a)
               \/ _active_sync_check(a)
        PROVE  GateInv'
    <3>1. "ok" \in Replies
      BY DEF Replies
    <3> QED
      BY <1>2, <2>5, <3>1, TableFlipped, CheckpointGoesOn, SyncGoesOn
  <2>6. ASSUME NEW a \in Agents, NEW r \in Replies,
               \/ _bd_create_bead(a, r) \/ dep_add(a, r) \/ _bd_show(a, r)
               \/ bd_close(a, r) \/ comments_add(a, r) \/ _query_bd_statuses(a, r)
        PROVE  GateInv'
    BY <1>2, <2>6, ScaffoldGoesOn, BeadClosed, CheckpointGoesOn, SyncGoesOn
  <2> QED
    BY <1>2, <2>1, <2>2, <2>3, <2>4, <2>5, <2>6 DEF BeadNext
<1> QED
  BY <1>1, <1>2, PTL DEF BeadSpec

\* The verdict of the gate is honest, for any tree, any edits of it while the gate runs and
\* any number of calls at once: a check that failed all through a call is in its findings
\* and keeps it from passing, and a FAIL names only what did fail in it (run_ci_gate runs
\* every step, whatever failed before; complete_bead closes after it only).
THEOREM VerdictAlwaysHonest == BeadSpec => []HonestVerdict
<1>1. GateInv => HonestVerdict
  BY DEF GateInv, CallOK, GateOK, Honest, Asked, HonestVerdict
<1> QED
  BY <1>1, GateInvHolds, PTL

-----------------------------------------------------------------------------
(* The table.  Nothing that is written moves the header, and a call that   *)
(* carries the lines of the file carries such a table.                     *)

Table(lines) == lines \in Seq(ActiveLine) /\ Headed(lines)
TableOps == {"complete_bead", "checkpoint"}

CarriesTable(c) ==
  /\ c.op \in TableOps => c.bead \in Beads /\ c.word \in CellWords
  /\ c.at \in {"table", "flip"} => c.op \in TableOps
  /\ c.at \in {"flip", "write"} => Table(c.lines)
CallsCarryTables == \A a \in Agents : CarriesTable(call[a])

BeadsSound ==
  /\ made \in SUBSET Beads /\ bd \in [Beads -> [status : Statuses, epic : BOOLEAN]]
  /\ \A d \in deps : d = <<d[1], d[2]>>
  /\ Table(file)

\* An active-sync that nobody disturbed knows what bd says and, once it has read, the file.
SyncKnows ==
  /\ synced \in Agents \cup {"none", "settled"}
  /\ synced \in Agents =>
       /\ call[synced].op = "sync" /\ call[synced].at \in {"read", "write"}
       /\ call[synced].statuses = _bd_statuses_from_list
       /\ call[synced].at = "write" => call[synced].lines = file
  /\ SyncAgrees

LEMMA LeastPosition ==
  ASSUME NEW T \in SUBSET Nat, T # {}
  PROVE  \E i \in T : \A j \in T : i <= j
<1> DEFINE R == {ss \in Nat \X Nat : ss[1] < ss[2]}
<1>1. IsWellFoundedOn(R, Nat)
  BY NatLessThanWellFounded DEF OpToRel
<1> HIDE DEF R
<1>2. PICK x \in T : \A y \in T : ~(<<y, x>> \in R)
  BY <1>1, WFMin
<1>3. \A y \in T : ~(y < x)
  BY <1>2 DEF R
<1> QED
  BY <1>3

\* Writing a cell of a line.
Rewritten(line, k, x) == [line EXCEPT !.cells[k] = x]
SameButCell(new, line, k, x) ==
  /\ new \in ActiveLine /\ new.sep = line.sep /\ Len(new.cells) = Len(line.cells)
  /\ (line.cells # <<>>) <=> (new.cells # <<>>)
  /\ \A j \in DOMAIN line.cells : new.cells[j] = IF j = k THEN x ELSE line.cells[j]

LEMMA CellWritten ==
  ASSUME NEW line \in ActiveLine, NEW k, NEW x \in [word : CellWords, rich : BOOLEAN]
  PROVE  SameButCell(Rewritten(line, k, x), line, k, x)
<1> DEFINE new == Rewritten(line, k, x)
<1> DEFINE CellSet == [word : CellWords, rich : BOOLEAN]
           cs == [line.cells EXCEPT ![k] = x]
<1>1. x \in CellSet
  OBVIOUS
<1>2. line.cells \in Seq(CellSet) /\ line.sep \in BOOLEAN /\ line.note \in CellWords
  BY DEF ActiveLine
<1>3. new = [line EXCEPT !.cells = cs]
  BY DEF Rewritten
<1>4. DOMAIN line = {"cells", "sep", "note"}
  BY DEF ActiveLine
<1> HIDE DEF CellSet
<1>5. cs \in Seq(CellSet) /\ Len(cs) = Len(line.cells)
  <2>1. CASE k \in 1 .. Len(line.cells)
    BY <1>1, <1>2, <2>1, ExceptSeq
  <2>2. CASE k \notin 1 .. Len(line.cells)
    <3>1. DOMAIN line.cells = 1 .. Len(line.cells)
      BY <1>2
    <3>2. cs = line.cells
      BY <1>2, <2>2, <3>1
    <3> QED
      BY <1>2, <3>2
  <2> QED
    BY <2>1, <2>2
<1>6. \A j \in DOMAIN line.cells : cs[j] = IF j = k THEN x ELSE line.cells[j]
  BY <1>2
<1>7. (line.cells # <<>>) <=> (cs # <<>>)
  BY <1>2, <1>5
<1> HIDE DEF cs
<1>8. new.cells = cs /\ new.sep = line.sep /\ new.note = line.note
      /\ new = [cells |-> cs, sep |-> line.sep, note |-> line.note]
  BY <1>3, <1>4
<1>9. new \in ActiveLine
  BY <1>2, <1>5, <1>8 DEF ActiveLine, CellSet
<1> HIDE DEF new
<1>10. SameButCell(new, line, k, x)
  BY <1>5, <1>6, <1>7, <1>8, <1>9 DEF SameButCell
<1> QED
  BY <1>10 DEF new

LEMMA CellsAreWords == \A w \in CellWords : /\ Cell(w) \in [word : CellWords, rich : BOOLEAN]
                                        /\ Rich(w) \in [word : CellWords, rich : BOOLEAN]
  BY DEF Cell, Rich

LEMMA StatusColumn ==
  ASSUME NEW lines, Table(lines)
  PROVE  \/ /\ _find_status_column(lines) = [head |-> 0, col |-> 0]
            /\ \A i \in DOMAIN lines : ~IsRow(lines[i])
         \/ /\ _find_status_column(lines) = [head |-> 1, col |-> 3]
            /\ ~IsRow(lines[2]) /\ lines[1].cells[1].word = "Bead"
<1> DEFINE heads == {i \in 1 .. Len(lines) - 1 : /\ IsRow(lines[i])
                                                /\ lines[i].cells[1].word = "Bead"
                                                /\ lines[i + 1].sep}
           head == CHOOSE i \in heads : \A j \in heads : i <= j
           cols(h) == {c \in DOMAIN lines[h].cells : lines[h].cells[c].word = "Status"}
           col(h) == CHOOSE c \in cols(h) : \A d \in cols(h) : c <= d
<1>1. _find_status_column(lines) =
        IF heads = {} \/ cols(head) = {} THEN [head |-> 0, col |-> 0]
        ELSE [head |-> head, col |-> col(head)]
  BY DEF _find_status_column
<1>2. CASE \A i \in DOMAIN lines : ~IsRow(lines[i])
  <2>1. heads = {}
    BY <1>2 DEF Table
  <2> QED
    BY <1>1, <1>2, <2>1
<1>3. CASE ~\A i \in DOMAIN lines : ~IsRow(lines[i])
  <2>1. /\ Len(lines) >= 2 /\ IsRow(lines[1]) /\ lines[2].sep /\ Len(lines[1].cells) >= 3
        /\ lines[1].cells[2].word # "Status" /\ lines[1].cells[3].word = "Status"
        /\ lines[1].cells[1].word = "Bead"
    BY <1>3 DEF Table, Headed
  <2>2. 1 \in heads /\ heads \subseteq Nat /\ \A i \in heads : 1 <= i
    BY <2>1 DEF Table
  <2>3. head = 1
    BY <2>2
  <2>4. lines[1] \in ActiveLine
    BY <2>1 DEF Table
  <2>5. lines[1].cells \in Seq([word : CellWords, rich : BOOLEAN])
    BY <2>4 DEF ActiveLine
  <2>6. 3 \in cols(1) /\ cols(1) \subseteq Nat /\ \A c \in cols(1) : 3 <= c
    BY <2>1, <2>5
  <2>7. col(1) = 3
    BY <2>6
  <2> HIDE DEF heads, head, cols, col
  <2>8. _find_status_column(lines) = [head |-> 1, col |-> 3]
    BY <1>1, <2>2, <2>3, <2>6, <2>7
  <2> QED
    BY <2>1, <2>8 DEF IsRow
<1> QED
  BY <1>2, <1>3

\* Writing one cell below the header keeps the table a table.
LEMMA StillTable ==
  ASSUME NEW lines, Table(lines), NEW new \in Seq(ActiveLine), Len(new) = Len(lines),
         \A i \in DOMAIN lines : new[i] # lines[i] =>
            /\ IsRow(lines[i]) /\ IsRow(new[i])
            /\ i = 1 => lines[1].cells[1].word # "Bead"
  PROVE  Table(new)
<1>0. DOMAIN lines = 1 .. Len(lines) /\ DOMAIN new = 1 .. Len(lines) /\ Len(lines) \in Nat
  BY DEF Table
<1>1. CASE \A i \in DOMAIN lines : ~IsRow(lines[i])
  <2>1. \A i \in DOMAIN new : ~IsRow(new[i])
    BY <1>0, <1>1
  <2> QED
    BY <2>1 DEF Table, Headed
<1>2. CASE ~\A i \in DOMAIN lines : ~IsRow(lines[i])
  <2>1. /\ Len(lines) >= 2 /\ IsRow(lines[1]) /\ lines[2].sep /\ Len(lines[1].cells) >= 3
        /\ lines[1].cells[2].word # "Status" /\ lines[1].cells[3].word = "Status"
        /\ lines[1].cells[1].word = "Bead"
    BY <1>2 DEF Table, Headed
  <2>2. new[1] = lines[1] /\ new[2] = lines[2]
    BY <1>0, <2>1 DEF IsRow
  <2> QED
    BY <2>1, <2>2 DEF Table, Headed
<1> QED
  BY <1>1, <1>2

\* The flip of one call, and an author's remark.
LEMMA RowWritten ==
  ASSUME NEW lines, Table(lines), NEW i \in DOMAIN lines, IsRow(lines[i]),
         i = 1 => lines[1].cells[1].word # "Bead", NEW line \in ActiveLine,
         line.cells # <<>>, line.sep = lines[i].sep
  PROVE  Table([lines EXCEPT ![i] = line])
<1> DEFINE new == [lines EXCEPT ![i] = line]
<1>1. lines \in Seq(ActiveLine) /\ i \in 1 .. Len(lines)
  BY DEF Table
<1>2. new \in Seq(ActiveLine) /\ Len(new) = Len(lines) /\ new[i] = line
      /\ \A j \in 1 .. Len(lines) : j # i => new[j] = lines[j]
  BY <1>1, ExceptSeq
<1>3. IsRow(line)
  BY DEF IsRow
<1>4. DOMAIN lines = 1 .. Len(lines)
  BY <1>1
<1> HIDE DEF new
<1>5. Table(new)
  BY <1>2, <1>3, <1>4, StillTable
<1> QED
  BY <1>5 DEF new

LEMMA FlipKeepsTable ==
  ASSUME NEW lines, Table(lines), NEW b \in Beads, NEW w \in CellWords
  PROVE  Table(set_active_table_status(lines, b, w))
<1> DEFINE rows == {i \in DOMAIN lines : /\ IsRow(lines[i]) /\ Len(lines[i].cells) >= 2
                                         /\ lines[i].cells[1].word = b}
           row == CHOOSE i \in rows : \A j \in rows : i <= j
           k == Len(lines[row].cells)
           line == [lines[row] EXCEPT !.cells[k] = Cell(w)]
<1>1. CASE rows = {}
  BY <1>1 DEF set_active_table_status, RowsOf
<1>2. CASE rows # {}
  <2>1. rows \in SUBSET Nat
    BY DEF Table
  <2>2. row \in rows
    <3> HIDE DEF rows
    <3> QED
      BY <1>2, <2>1, LeastPosition
  <2> HIDE DEF row
  <2>3. row \in DOMAIN lines /\ IsRow(lines[row]) /\ lines[row].cells[1].word = b
    BY <2>2
  <2>4. lines[row] \in ActiveLine
    BY <2>3 DEF Table
  <2>5. set_active_table_status(lines, b, w) = [lines EXCEPT ![row] = line]
    BY <1>2 DEF set_active_table_status, RowsOf, row
  <2>6. b # "Bead"
    BY BeadConstants
  <2>10. SameButCell(Rewritten(lines[row], k, Cell(w)), lines[row], k, Cell(w))
    BY <2>4, CellWritten, CellsAreWords
  <2>7. line \in ActiveLine /\ line.cells # <<>> /\ line.sep = lines[row].sep
    <3>1. line = Rewritten(lines[row], k, Cell(w))
      BY DEF Rewritten
    <3> HIDE DEF line, k
    <3> QED
      BY <2>3, <2>10, <3>1 DEF IsRow, SameButCell
  <2> HIDE DEF line, rows
  <2>8. row = 1 => lines[1].cells[1].word # "Bead"
    BY <2>3, <2>6
  <2>9. Table([lines EXCEPT ![row] = line])
    BY <2>3, <2>7, <2>8, RowWritten
  <2> QED
    BY <2>5, <2>9, Zenon
<1> QED
  BY <1>1, <1>2

LEMMA CellsOfStatuses == ASSUME NEW s PROVE bd_status_to_cell(s) \in CellWords
  BY DEF bd_status_to_cell, CellWords

\* What active-sync makes of a table: it changes exactly the Status cells that disagree.
LEMMA Reconciled ==
  ASSUME NEW lines, Table(lines), NEW statuses
  PROVE  LET new == _reconcile_one(lines, statuses)
             Says(i) == bd_status_to_cell(statuses[lines[i].cells[1].word])
             Drifts(i) == /\ i > 2 /\ IsRow(lines[i]) /\ Len(lines[i].cells) >= 3
                          /\ lines[i].cells[1].word \in DOMAIN statuses
                          /\ Says(i) \notin {"none", lines[i].cells[3].word}
         IN /\ Table(new) /\ Len(new) = Len(lines)
            /\ \A i \in DOMAIN lines :
                 new[i] = IF Drifts(i) THEN [lines[i] EXCEPT !.cells[3] = Cell(Says(i))] ELSE lines[i]
<1> DEFINE new == _reconcile_one(lines, statuses)
           Says(i) == bd_status_to_cell(statuses[lines[i].cells[1].word])
           Drifts(i) == /\ i > 2 /\ IsRow(lines[i]) /\ Len(lines[i].cells) >= 3
                        /\ lines[i].cells[1].word \in DOMAIN statuses
                        /\ Says(i) \notin {"none", lines[i].cells[3].word}
           fixed(i) == [lines[i] EXCEPT !.cells[3] = Cell(Says(i))]
<1>0. lines \in Seq(ActiveLine) /\ DOMAIN lines = 1 .. Len(lines) /\ Len(lines) \in Nat
  BY DEF Table
<1>1. CASE _find_status_column(lines) = [head |-> 0, col |-> 0]
           /\ \A i \in DOMAIN lines : ~IsRow(lines[i])
  <2>1. new = lines
    BY <1>1 DEF _reconcile_one
  <2>2. \A i \in DOMAIN lines : ~Drifts(i)
    BY <1>1
  <2> HIDE DEF new, Drifts
  <2> QED
    BY <2>1, <2>2 DEF new, Drifts
<1>2. CASE _find_status_column(lines) = [head |-> 1, col |-> 3]
  <2>1. \A i \in DOMAIN lines : lines[i] \in ActiveLine
    BY <1>0
  <2>2. ASSUME NEW i \in DOMAIN lines
        PROVE  new[i] = IF Drifts(i) THEN fixed(i) ELSE lines[i]
    <3>1. Len(lines[i].cells) \in Nat
      BY <2>1 DEF ActiveLine
    <3>2. CASE i <= 2 \/ ~IsRow(lines[i])
      BY <1>0, <1>2, <3>2 DEF _reconcile_one
    <3>3. CASE i > 2 /\ IsRow(lines[i]) /\ lines[i].cells[1].word \notin DOMAIN statuses
      BY <1>0, <1>2, <3>3 DEF _reconcile_one
    <3>4. CASE i > 2 /\ IsRow(lines[i]) /\ lines[i].cells[1].word \in DOMAIN statuses
      BY <1>0, <1>2, <3>1, <3>4 DEF _reconcile_one, KeepsCell
    <3> QED
      BY <1>0, <3>2, <3>3, <3>4
  <2>3. DOMAIN new = DOMAIN lines /\ new = [i \in DOMAIN lines |-> new[i]]
    BY <1>2 DEF _reconcile_one
  <2>4. ASSUME NEW i \in DOMAIN lines, Drifts(i)
        PROVE  fixed(i) \in ActiveLine /\ IsRow(fixed(i))
    <3>1. Says(i) \in CellWords
      BY CellsOfStatuses
    <3>2. IsRow(lines[i])
      BY <2>4
    <3>3. fixed(i) = Rewritten(lines[i], 3, Cell(Says(i)))
      BY DEF Rewritten
    <3> HIDE DEF Says, fixed
    <3>4. SameButCell(Rewritten(lines[i], 3, Cell(Says(i))), lines[i], 3, Cell(Says(i)))
      BY <2>1, <3>1, CellWritten, CellsAreWords
    <3> QED
      BY <3>2, <3>3, <3>4 DEF IsRow, SameButCell
  <2> HIDE DEF new, Drifts, fixed
  <2>5. \A i \in DOMAIN lines : new[i] \in ActiveLine
    BY <2>1, <2>2, <2>4
  <2>6. new \in Seq(ActiveLine) /\ Len(new) = Len(lines)
    BY <1>0, <2>3, <2>5
  <2>7. \A i \in DOMAIN lines : new[i] # lines[i] => i # 1 /\ IsRow(lines[i]) /\ IsRow(new[i])
    BY <2>2, <2>4 DEF Drifts
  <2>8. Table(new)
    BY <2>6, <2>7, StillTable
  <2> QED
    BY <2>2, <2>6, <2>8 DEF new, Drifts, fixed
<1> QED
  BY <1>1, <1>2, StatusColumn

\* The table says of a bead what bd does.
LEMMA SaysWhatBdSays ==
  ASSUME BeadsSound, NEW b \in made
  PROVE  /\ DOMAIN _bd_statuses_from_list = made
         /\ bd_status_to_cell(_bd_statuses_from_list[b]) = Expected(b)
<1> DEFINE waits == \E d \in deps : d[1] = b /\ d[2] \in made /\ bd[d[2]].status # "closed"
<1>1. waits <=> \E x \in made : <<b, x>> \in deps /\ bd[x].status # "closed"
  BY DEF BeadsSound
<1>2. _bd_statuses_from_list[b] = IF bd[b].status = "open" /\ waits THEN "blocked" ELSE bd[b].status
  BY DEF _bd_statuses_from_list
<1>3. bd[b].status \in {"open", "in_progress", "closed", "deferred"}
  BY DEF BeadsSound, Statuses
<1> HIDE DEF waits
<1> QED
  BY <1>1, <1>2, <1>3 DEF bd_status_to_cell, Expected, _bd_statuses_from_list

\* The tables, bd and the file at a start.
LEMMA BeadsStart == BeadInit => BeadsSound /\ CallsCarryTables /\ SyncKnows
<1> SUFFICES ASSUME BeadInit PROVE BeadsSound /\ CallsCarryTables /\ SyncKnows
  OBVIOUS
<1>1. PICK s \in Starts : made = s.made /\ deps = s.deps /\ file = s.file
         /\ bd = [b \in Beads |-> [status |-> "open", epic |-> b \in s.made]]
  BY DEF BeadInit
<1>2. s.made \subseteq Beads /\ s.deps \subseteq s.made \X s.made /\ Table(s.file)
  BY BeadConstants DEF Table
<1>3. \A b \in Beads : [status |-> "open", epic |-> b \in s.made] \in [status : Statuses, epic : BOOLEAN]
  BY DEF Statuses
<1>4. BeadsSound
  BY <1>1, <1>2, <1>3 DEF BeadsSound
<1>5. CallsCarryTables
  BY DEF BeadInit, CallsCarryTables, CarriesTable, NoCall, TableOps
<1>6. synced = "none"
  BY DEF BeadInit
<1>7. synced # "settled" /\ synced \notin Agents
  BY <1>6, BeadConstants
<1> QED
  BY <1>4, <1>5, <1>6, <1>7 DEF SyncKnows, SyncAgrees

\* A call that moves on, carrying a table if it carries anything.
LEMMA CallMoved ==
  ASSUME GateInv, CallsCarryTables, NEW a \in Agents, NEW c, CarriesTable(c),
         call' = [call EXCEPT ![a] = c]
  PROVE  CallsCarryTables'
<1>1. DOMAIN call' = Agents /\ call'[a] = c /\ \A d \in Agents : d # a => call'[d] = call[d]
  BY DEF GateInv
<1>2. \A d \in Agents : CarriesTable(call'[d])
  BY <1>1 DEF CallsCarryTables
<1> QED
  BY <1>2 DEF CallsCarryTables, CarriesTable, Table, Headed, IsRow

LEMMA CallAnswered ==
  ASSUME GateInv, CallsCarryTables, NEW a \in Agents, NEW verdict, Answer(a, verdict)
  PROVE  CallsCarryTables'
<1> DEFINE c == [call[a] EXCEPT !.at = "answered", !.verdict = verdict, !.lines = <<>>, !.statuses = <<>>]
<1>1. CarriesTable(call[a]) /\ DOMAIN call[a] = Fields
  BY DEF GateInv, CallOK, CallsCarryTables
<1>2. c.at = "answered" /\ c.op = call[a].op /\ c.bead = call[a].bead /\ c.word = call[a].word
  BY <1>1 DEF Fields
<1>3. call' = [call EXCEPT ![a] = c]
  BY DEF Answer
<1> HIDE DEF c
<1>4. CarriesTable(c)
  BY <1>1, <1>2 DEF CarriesTable
<1> QED
  BY <1>3, <1>4, CallMoved

LEMMA CallWent ==
  ASSUME GateInv, CallsCarryTables, NEW a \in Agents, NEW at, Goto(a, at),
         at \in {"table", "flip"} => call[a].op \in TableOps, at \notin {"flip", "write"}
  PROVE  CallsCarryTables'
<1> DEFINE c == [call[a] EXCEPT !.at = at]
<1>1. CarriesTable(call[a]) /\ DOMAIN call[a] = Fields
  BY DEF GateInv, CallOK, CallsCarryTables
<1>2. c.at = at /\ c.op = call[a].op /\ c.bead = call[a].bead /\ c.word = call[a].word
  BY <1>1 DEF Fields
<1>3. call' = [call EXCEPT ![a] = c]
  BY DEF Goto
<1> HIDE DEF c
<1>4. CarriesTable(c)
  BY <1>1, <1>2 DEF CarriesTable
<1> QED
  BY <1>3, <1>4, CallMoved

LEMMA CallsEntered ==
  ASSUME GateInv, CallsCarryTables, BeadsSound, NEW a \in Agents,
         task_init(a) \/ complete_bead(a) \/ checkpoint(a) \/ active_sync(a)
  PROVE  CallsCarryTables'
<1>1. CASE task_init(a)
  <2> DEFINE c == [NoCall EXCEPT !.op = "task_init", !.at = "create"]
  <2>1. c.op = "task_init" /\ c.at = "create"
    BY EmptyCall DEF Fields
  <2>2. call' = [call EXCEPT ![a] = c]
    BY <1>1 DEF task_init, Enter
  <2> HIDE DEF c
  <2>3. CarriesTable(c)
    BY <2>1 DEF CarriesTable, TableOps
  <2> QED
    BY <2>2, <2>3, CallMoved
<1>2. CASE complete_bead(a)
  <2>1. PICK b \in made, t \in Tests :
           Enter(a, [NoCall EXCEPT !.op = "complete_bead", !.at = "gate", !.bead = b, !.tests = t,
                                   !.pos = 1, !.always = red, !.ever = red, !.word = "done"])
    BY <1>2 DEF complete_bead
  <2> DEFINE c == [NoCall EXCEPT !.op = "complete_bead", !.at = "gate", !.bead = b, !.tests = t,
                                 !.pos = 1, !.always = red, !.ever = red, !.word = "done"]
  <2>2. c.op = "complete_bead" /\ c.at = "gate" /\ c.bead = b /\ c.word = "done"
    BY EmptyCall DEF Fields
  <2>3. call' = [call EXCEPT ![a] = c]
    BY <2>1 DEF Enter
  <2> HIDE DEF c
  <2>4. CarriesTable(c)
    BY <2>2 DEF CarriesTable, TableOps, BeadsSound, CellWords
  <2> QED
    BY <2>3, <2>4, CallMoved
<1>3. CASE checkpoint(a)
  <2>1. PICK b \in made, w \in {"in progress", "blocked"} :
           Enter(a, [NoCall EXCEPT !.op = "checkpoint", !.at = "show", !.bead = b, !.word = w])
    BY <1>3 DEF checkpoint
  <2> DEFINE c == [NoCall EXCEPT !.op = "checkpoint", !.at = "show", !.bead = b, !.word = w]
  <2>2. c.op = "checkpoint" /\ c.at = "show" /\ c.bead = b /\ c.word = w
    BY EmptyCall DEF Fields
  <2>3. call' = [call EXCEPT ![a] = c]
    BY <2>1 DEF Enter
  <2> HIDE DEF c
  <2>4. CarriesTable(c)
    BY <2>2 DEF CarriesTable, TableOps, BeadsSound, CellWords
  <2> QED
    BY <2>3, <2>4, CallMoved
<1>4. CASE active_sync(a)
  <2>1. PICK check \in BOOLEAN :
           Enter(a, [NoCall EXCEPT !.op = IF check THEN "check" ELSE "sync", !.at = "look"])
    BY <1>4 DEF active_sync
  <2>2. PICK op \in {"check", "sync"} : Enter(a, [NoCall EXCEPT !.op = op, !.at = "look"])
    BY <2>1
  <2> DEFINE c == [NoCall EXCEPT !.op = op, !.at = "look"]
  <2>3. c.op = op /\ c.at = "look"
    BY EmptyCall DEF Fields
  <2>4. call' = [call EXCEPT ![a] = c]
    BY <2>2 DEF Enter
  <2> HIDE DEF c
  <2>5. CarriesTable(c)
    BY <2>3 DEF CarriesTable, TableOps
  <2> QED
    BY <2>4, <2>5, CallMoved
<1> QED
  BY <1>1, <1>2, <1>3, <1>4

\* The calls that carry something, or end.
LEMMA CallsGoOn ==
  ASSUME GateInv, CallsCarryTables, BeadsSound, NEW a \in Agents, NEW r \in Replies,
         \/ run_ci_gate(a) \/ _run_test_suite(a) \/ _append_active_note(a) \/ ReadTable(a)
         \/ _set_bead_table_status(a) \/ _has_active_table(a) \/ ReadActive(a)
         \/ reconcile_active_tables(a) \/ _active_sync_check(a) \/ Die(a)
         \/ _bd_create_bead(a, r) \/ dep_add(a, r) \/ _bd_show(a, r)
         \/ bd_close(a, r) \/ comments_add(a, r) \/ _query_bd_statuses(a, r)
  PROVE  CallsCarryTables'
<1>1. CarriesTable(call[a]) /\ DOMAIN call[a] = Fields
  BY DEF GateInv, CallOK, CallsCarryTables
<1>2. CASE \E verdict : Answer(a, verdict)
  BY <1>2, CallAnswered
<1>3. ASSUME NEW c, call' = [call EXCEPT ![a] = c], c.op = call[a].op,
             c.bead = call[a].bead, c.word = call[a].word,
             c.at \in {"table", "flip"} => call[a].op \in TableOps,
             c.at \in {"flip", "write"} => Table(c.lines)
      PROVE  CallsCarryTables'
  <2>1. CarriesTable(c)
    BY <1>1, <1>3 DEF CarriesTable
  <2> QED
    BY <1>3, <2>1, CallMoved
<1>4. CASE run_ci_gate(a)
  <2> DEFINE step == IF call[a].pos = Len(GateSteps) THEN "tests" ELSE "gate"
             c == [call[a] EXCEPT !.failing = Findings(call[a]), !.pos = @ + 1, !.at = step]
  <2>1. call' = [call EXCEPT ![a] = c]
    BY <1>4 DEF run_ci_gate
  <2>2. step \notin {"table", "flip", "write"}
    OBVIOUS
  <2> HIDE DEF step
  <2>3. c.op = call[a].op /\ c.bead = call[a].bead /\ c.word = call[a].word /\ c.at = step
    BY <1>1 DEF Fields
  <2> HIDE DEF c
  <2> QED
    BY <1>3, <2>1, <2>2, <2>3
<1>5. CASE _run_test_suite(a)
  <2> DEFINE found == call[a].failing \cup (IF call[a].tests THEN red \cap {"tests"} ELSE {})
             step == IF found = {} THEN "show" ELSE "answered"
             verdict == IF found = {} THEN "" ELSE "FAIL"
             c == [call[a] EXCEPT !.failing = found, !.pos = 0, !.at = step, !.verdict = verdict]
  <2>1. call' = [call EXCEPT ![a] = c]
    BY <1>5 DEF _run_test_suite
  <2>2. step \notin {"table", "flip", "write"}
    OBVIOUS
  <2> HIDE DEF step, verdict, found
  <2>3. c.op = call[a].op /\ c.bead = call[a].bead /\ c.word = call[a].word /\ c.at = step
    BY <1>1 DEF Fields
  <2> HIDE DEF c
  <2> QED
    BY <1>3, <2>1, <2>2, <2>3
<1>6. CASE _append_active_note(a)
  <2>1. Goto(a, "table") /\ call[a].op = "checkpoint"
    BY <1>6 DEF _append_active_note, At
  <2> QED
    BY <2>1, CallWent DEF TableOps
<1>7. CASE ReadTable(a) /\ ~\E verdict : Answer(a, verdict)
  <2> DEFINE c == [call[a] EXCEPT !.at = "flip", !.lines = file]
  <2>1. call' = [call EXCEPT ![a] = c] /\ call[a].at = "table"
    BY <1>7 DEF ReadTable
  <2>2. c.op = call[a].op /\ c.bead = call[a].bead /\ c.word = call[a].word /\ c.lines = file
    BY <1>1 DEF Fields
  <2>3. call[a].op \in TableOps /\ Table(file)
    BY <1>1, <2>1 DEF CarriesTable, BeadsSound
  <2> HIDE DEF c
  <2> QED
    BY <1>3, <2>1, <2>2, <2>3
<1>8. CASE ReadActive(a)
  <2> DEFINE c == [call[a] EXCEPT !.at = "write", !.lines = file]
  <2>1. call' = [call EXCEPT ![a] = c]
    BY <1>8 DEF ReadActive
  <2>2. /\ c.op = call[a].op /\ c.bead = call[a].bead /\ c.word = call[a].word
        /\ c.lines = file /\ c.at = "write"
    BY <1>1 DEF Fields
  <2>3. Table(file)
    BY DEF BeadsSound
  <2> HIDE DEF c
  <2> QED
    BY <1>3, <2>1, <2>2, <2>3
<1>9. CASE _has_active_table(a)
  BY <1>2, <1>9, CallWent DEF _has_active_table
<1>10. CASE Die(a)
  <2>1. call' = [call EXCEPT ![a] = NoCall]
    BY <1>10 DEF Die
  <2>2. CarriesTable(NoCall)
    BY DEF NoCall, CarriesTable, TableOps
  <2> QED
    BY <2>1, <2>2, CallMoved
<1>11. CASE _bd_create_bead(a, r) /\ ~\E verdict : Answer(a, verdict)
  <2> DEFINE ids == Append(call[a].made, Ids[Cardinality(made) + 1])
             step == IF Len(ids) = Len(BeadRoles) THEN "wire" ELSE "create"
             c == [call[a] EXCEPT !.made = ids, !.pos = 2, !.at = step]
  <2>1. call' = [call EXCEPT ![a] = c]
    BY <1>11 DEF _bd_create_bead
  <2>2. step \notin {"table", "flip", "write"}
    OBVIOUS
  <2> HIDE DEF ids, step
  <2>3. c.op = call[a].op /\ c.bead = call[a].bead /\ c.word = call[a].word /\ c.at = step
    BY <1>1 DEF Fields
  <2> HIDE DEF c
  <2> QED
    BY <1>3, <2>1, <2>2, <2>3
<1>12. CASE dep_add(a, r) /\ ~\E verdict : Answer(a, verdict)
  <2> DEFINE c == [call[a] EXCEPT !.pos = @ + 1]
  <2>1. call' = [call EXCEPT ![a] = c] /\ call[a].at = "wire"
    BY <1>12 DEF dep_add, At
  <2>2. c.op = call[a].op /\ c.bead = call[a].bead /\ c.word = call[a].word /\ c.at = "wire"
    BY <1>1, <2>1 DEF Fields
  <2> HIDE DEF c
  <2> QED
    BY <1>3, <2>1, <2>2
<1>13. CASE _bd_show(a, r) /\ ~\E verdict : Answer(a, verdict)
  <2> DEFINE names == r = "ok" /\ bd[call[a].bead].epic
             step == IF call[a].op = "complete_bead" THEN "close" ELSE "comment"
             c == [call[a] EXCEPT !.epic = names, !.at = step]
  <2>1. call' = [call EXCEPT ![a] = c]
    BY <1>13 DEF _bd_show
  <2>2. step \notin {"table", "flip", "write"}
    OBVIOUS
  <2> HIDE DEF names, step
  <2>3. c.op = call[a].op /\ c.bead = call[a].bead /\ c.word = call[a].word /\ c.at = step
    BY <1>1 DEF Fields
  <2> HIDE DEF c
  <2> QED
    BY <1>3, <2>1, <2>2, <2>3
<1>14. CASE bd_close(a, r)
  <2>1. call[a].op = "complete_bead"
    BY <1>14 DEF bd_close, At
  <2>2. Goto(a, "table") \/ Answer(a, "ERROR")
    BY <1>14 DEF bd_close
  <2> QED
    BY <1>2, <2>1, <2>2, CallWent DEF TableOps
<1>15. CASE comments_add(a, r)
  BY <1>2, <1>15, CallWent DEF comments_add
<1>16. CASE _query_bd_statuses(a, r) /\ ~\E verdict : Answer(a, verdict)
  <2> DEFINE c == [call[a] EXCEPT !.at = "read", !.statuses = _bd_statuses_from_list]
  <2>1. call' = [call EXCEPT ![a] = c]
    BY <1>16 DEF _query_bd_statuses
  <2>2. c.op = call[a].op /\ c.bead = call[a].bead /\ c.word = call[a].word /\ c.at = "read"
    BY <1>1 DEF Fields
  <2> HIDE DEF c
  <2> QED
    BY <1>3, <2>1, <2>2
<1>17. CASE _set_bead_table_status(a) \/ reconcile_active_tables(a) \/ _active_sync_check(a)
  BY <1>2, <1>17 DEF _set_bead_table_status, reconcile_active_tables, _active_sync_check
<1> QED
  BY <1>2, <1>4, <1>5, <1>6, <1>7, <1>8, <1>9, <1>10, <1>11, <1>12, <1>13, <1>14, <1>15, <1>16, <1>17

LEMMA CallsAmongEdits ==
  ASSUME GateInv, CallsCarryTables, EditTree
  PROVE  CallsCarryTables'
<1> DEFINE Edited(now) ==
      [a \in Agents |-> IF Running(a) /\ call[a].op = "complete_bead"
                        THEN [call[a] EXCEPT !.always = @ \cap now, !.ever = @ \cup now] ELSE call[a]]
<1>1. PICK x \in Breakable :
         call' = Edited(IF x \in red THEN red \ {x} ELSE red \cup {x})
  BY DEF EditTree
<1>2. PICK now : call' = Edited(now)
  BY <1>1
<1>3. ASSUME NEW a \in Agents PROVE CarriesTable(call'[a])
  <2>1. DOMAIN call[a] = Fields /\ CarriesTable(call[a])
    BY DEF GateInv, CallOK, CallsCarryTables
  <2> DEFINE c == [call[a] EXCEPT !.always = @ \cap now, !.ever = @ \cup now]
  <2>2. /\ c.op = call[a].op /\ c.at = call[a].at /\ c.bead = call[a].bead
        /\ c.word = call[a].word /\ c.lines = call[a].lines
    BY <2>1 DEF Fields
  <2>3. call'[a] = c \/ call'[a] = call[a]
    BY <1>2
  <2> HIDE DEF c
  <2>4. CarriesTable(c)
    BY <2>1, <2>2 DEF CarriesTable
  <2> QED
    BY <2>1, <2>3, <2>4
<1> QED
  BY <1>3 DEF CallsCarryTables, CarriesTable, Table, Headed, IsRow

\* There are finitely many beads, and the next id is one.
LEMMA NextBead ==
  ASSUME BeadsSound, Cardinality(made) < Len(Ids)
  PROVE  Ids[Cardinality(made) + 1] \in Beads
<1>1. Ids \in Seq(STRING) /\ Len(Ids) \in Nat /\ DOMAIN Ids = 1 .. Len(Ids)
  BY BeadConstants
<1>2. IsFiniteSet(1 .. Len(Ids))
  BY <1>1, FS_Interval
<1>3. Ids \in Surjection(DOMAIN Ids, Beads)
  BY <1>1 DEF Beads, Surjection
<1>4. IsFiniteSet(Beads)
  BY <1>1, <1>2, <1>3, FS_Surjection
<1>5. Cardinality(made) \in Nat
  BY <1>4, FS_Subset, FS_CardinalityType DEF BeadsSound
<1> QED
  BY <1>1, <1>5 DEF Beads

LEMMA BdChanged ==
  ASSUME BeadsSound, NEW b, NEW s \in Statuses
  PROVE  /\ [bd EXCEPT ![b].status = s] \in [Beads -> [status : Statuses, epic : BOOLEAN]]
         /\ [bd EXCEPT ![b].epic = TRUE] \in [Beads -> [status : Statuses, epic : BOOLEAN]]
<1> DEFINE R == [status : Statuses, epic : BOOLEAN]
           new == [bd EXCEPT ![b].status = s]
           named == [bd EXCEPT ![b].epic = TRUE]
<1>1. \A x \in R : [x EXCEPT !.status = s] \in R /\ [x EXCEPT !.epic = TRUE] \in R
  OBVIOUS
<1>2. bd \in [Beads -> R]
  BY DEF BeadsSound
<1>3. DOMAIN new = Beads /\ new = [x \in Beads |-> new[x]] /\ DOMAIN named = Beads /\ named = [x \in Beads |-> named[x]]
  BY <1>2
<1>4. ASSUME NEW x \in Beads PROVE new[x] \in R /\ named[x] \in R
  <2>1. CASE x = b
    <3>1. new[x] = [bd[x] EXCEPT !.status = s] /\ named[x] = [bd[x] EXCEPT !.epic = TRUE]
      BY <1>2, <2>1
    <3> HIDE DEF new, named, R
    <3> QED
      BY <1>1, <1>2, <3>1
  <2>2. CASE x # b
    <3>1. new[x] = bd[x] /\ named[x] = bd[x]
      BY <1>2, <2>2
    <3> HIDE DEF new, named, R
    <3> QED
      BY <1>2, <3>1
  <2> QED
    BY <2>1, <2>2
<1> HIDE DEF new, named, R
<1> QED
  BY <1>3, <1>4 DEF new, named, R

LEMMA TextsAreLines == \A n \in CellWords : Text(n) \in ActiveLine /\ ~IsRow(Text(n))
  BY DEF Text, ActiveLine, IsRow

\* Outside the file, and what is appended to it.
LEMMA BeadsStep ==
  ASSUME GateInv, CallsCarryTables, BeadsSound, [BeadNext]_beadVars
  PROVE  BeadsSound'
<1>1. ASSUME UNCHANGED <<bd, made, deps>>, file' = file \/ Table(file')
      PROVE  BeadsSound'
  BY <1>1 DEF BeadsSound, Table, Headed, IsRow
<1>2. ASSUME file' = file, made' \in SUBSET Beads,
             bd' \in [Beads -> [status : Statuses, epic : BOOLEAN]],
             \A d \in deps' : d = <<d[1], d[2]>>
      PROVE  BeadsSound'
  BY <1>2 DEF BeadsSound, Table, Headed, IsRow
<1>3. made \in SUBSET Beads /\ bd \in [Beads -> [status : Statuses, epic : BOOLEAN]]
      /\ (\A d \in deps : d = <<d[1], d[2]>>) /\ Table(file)
  BY DEF BeadsSound
<1>4. CASE UNCHANGED beadVars \/ EditTree
  BY <1>1, <1>4 DEF beadVars, EditTree
<1>5. CASE BdUpdate
  <2>1. "open" \in Statuses /\ "closed" \in Statuses
    BY DEF Statuses
  <2>2. PICK b \in made : \/ \E s \in Statuses : bd' = [bd EXCEPT ![b].status = s]
                          \/ bd' = [bd EXCEPT ![b].epic = TRUE]
    BY <1>5 DEF BdUpdate
  <2>3. ASSUME bd' = [bd EXCEPT ![b].epic = TRUE]
        PROVE  bd' \in [Beads -> [status : Statuses, epic : BOOLEAN]]
    BY <2>1, <2>3, BdChanged, Zenon
  <2>4. ASSUME NEW s \in Statuses, bd' = [bd EXCEPT ![b].status = s]
        PROVE  bd' \in [Beads -> [status : Statuses, epic : BOOLEAN]]
    BY <2>4, BdChanged, Zenon
  <2>5. bd' \in [Beads -> [status : Statuses, epic : BOOLEAN]]
    BY <2>2, <2>3, <2>4
  <2> QED
    BY <1>2, <1>3, <1>5, <2>5 DEF BdUpdate
<1>6. CASE EditTable
  <2>1. CASE \E s \in Starts : file' = s.file
    <3>1. Table(file')
      BY <2>1, BeadConstants DEF Table
    <3> QED
      BY <1>1, <1>6, <3>1 DEF EditTable
  <2>2. ASSUME NEW i \in DOMAIN file, NEW w \in {"done", "ready"}, IsRow(file[i]),
               i > _find_status_column(file).head + 1,
               file' = [file EXCEPT ![i].cells[_find_status_column(file).col] = Rich(w)]
        PROVE  BeadsSound'
    <3> DEFINE k == _find_status_column(file).col
               line == [file[i] EXCEPT !.cells[k] = Rich(w)]
    <3>1. i # 1
      BY <1>3, <2>2, StatusColumn
    <3>2. file[i] \in ActiveLine /\ file[i].cells # <<>>
      BY <1>3, <2>2 DEF Table, IsRow
    <3>3. Rich(w) \in [word : CellWords, rich : BOOLEAN]
      BY DEF Rich, CellWords
    <3>4. file' = [file EXCEPT ![i] = line]
      BY <2>2
    <3>5. line \in ActiveLine /\ line.cells # <<>> /\ line.sep = file[i].sep
      <4>1. line = Rewritten(file[i], k, Rich(w))
        BY DEF Rewritten
      <4>2. SameButCell(Rewritten(file[i], k, Rich(w)), file[i], k, Rich(w))
        BY <3>2, <3>3, CellWritten
      <4> HIDE DEF k, line
      <4> QED
        BY <3>2, <4>1, <4>2 DEF SameButCell
    <3>7. i = 1 => file[1].cells[1].word # "Bead"
      BY <3>1
    <3>6. Table(file')
      <4> HIDE DEF line
      <4>1. Table([file EXCEPT ![i] = line])
        BY <1>3, <2>2, <3>5, <3>7, RowWritten
      <4> QED
        BY <3>4, <4>1, Zenon
    <3> QED
      BY <1>1, <1>6, <3>6 DEF EditTable
  <2> QED
    BY <1>6, <2>1, <2>2 DEF EditTable
<1>7. ASSUME NEW a \in Agents, task_init(a)
      PROVE  BeadsSound'
  <2>1. Table(Skeleton)
    <3>1. Text("ACTIVE") \in ActiveLine /\ ~IsRow(Text("ACTIVE"))
      BY TextsAreLines DEF CellWords
    <3> DEFINE t == Text("ACTIVE")
    <3> HIDE DEF t
    <3>2. <<t>> \in Seq(ActiveLine) /\ \A i \in DOMAIN <<t>> : ~IsRow(<<t>>[i])
      BY <3>1 DEF t
    <3> QED
      BY <3>2 DEF Table, Headed, Skeleton, t
  <2>2. file' = file \/ file' = Skeleton
    BY <1>7 DEF task_init, _scaffold_docs
  <2>3. UNCHANGED <<bd, made, deps>>
    BY <1>7 DEF task_init, Enter
  <2>4. CASE file' = file
    BY <1>1, <2>3, <2>4
  <2>5. CASE file' = Skeleton
    <3>1. Table(file')
      BY <2>1, <2>5
    <3> QED
      BY <1>1, <2>3, <3>1
  <2> QED
    BY <2>2, <2>4, <2>5
<1>8. ASSUME NEW a \in Agents, _append_active_note(a)
      PROVE  BeadsSound'
  <2>1. UNCHANGED <<bd, made, deps>> /\ (file' = file \/ file' = Append(file, Text("note")))
    BY <1>8 DEF _append_active_note
  <2>2. Table(Append(file, Text("note")))
    <3>1. Text("note") \in ActiveLine /\ ~IsRow(Text("note"))
      BY TextsAreLines DEF CellWords
    <3> DEFINE t == Text("note")
               new == Append(file, t)
    <3> HIDE DEF t
    <3>2. file \in Seq(ActiveLine) /\ Len(file) \in Nat /\ DOMAIN file = 1 .. Len(file)
      BY <1>3 DEF Table
    <3>3. /\ new \in Seq(ActiveLine) /\ Len(new) = Len(file) + 1 /\ DOMAIN new = 1 .. Len(file) + 1
          /\ new[Len(file) + 1] = t /\ \A i \in 1 .. Len(file) : new[i] = file[i]
      BY <3>1, <3>2 DEF t
    <3> HIDE DEF new
    <3>4. Headed(new)
      <4>1. CASE \A i \in DOMAIN file : ~IsRow(file[i])
        BY <3>1, <3>2, <3>3, <4>1 DEF Headed, t
      <4>2. CASE ~\A i \in DOMAIN file : ~IsRow(file[i])
        BY <1>3, <3>2, <3>3, <4>2 DEF Headed, Table
      <4> QED
        BY <4>1, <4>2
    <3> QED
      BY <3>3, <3>4 DEF Table, new, t
  <2>3. CASE file' = file
    BY <1>1, <2>1, <2>3
  <2>4. CASE file' = Append(file, Text("note"))
    <3>1. Table(file')
      BY <2>2, <2>4
    <3> QED
      BY <1>1, <2>1, <3>1
  <2> QED
    BY <2>1, <2>3, <2>4
<1>9. ASSUME NEW a \in Agents, _set_bead_table_status(a)
      PROVE  BeadsSound'
  <2>1. Table(call[a].lines) /\ call[a].bead \in Beads /\ call[a].word \in CellWords
    BY <1>9 DEF _set_bead_table_status, CallsCarryTables, CarriesTable
  <2>2. UNCHANGED <<bd, made, deps>>
        /\ (file' = file \/ file' = set_active_table_status(call[a].lines, call[a].bead, call[a].word))
    BY <1>9 DEF _set_bead_table_status
  <2>3. Table(set_active_table_status(call[a].lines, call[a].bead, call[a].word))
    BY <2>1, FlipKeepsTable
  <2>4. file' = file \/ Table(file')
    BY <2>2, <2>3, Zenon
  <2> QED
    BY <1>1, <2>2, <2>4
<1>10. ASSUME NEW a \in Agents, reconcile_active_tables(a)
       PROVE  BeadsSound'
  <2>1. Table(call[a].lines)
    BY <1>10 DEF reconcile_active_tables, At, CallsCarryTables, CarriesTable
  <2>2. UNCHANGED <<bd, made, deps>>
        /\ (file' = file \/ file' = _reconcile_one(call[a].lines, call[a].statuses))
    BY <1>10 DEF reconcile_active_tables
  <2>3. Table(_reconcile_one(call[a].lines, call[a].statuses))
    BY <2>1, Reconciled
  <2>4. file' = file \/ Table(file')
    BY <2>2, <2>3, Zenon
  <2> QED
    BY <1>1, <2>2, <2>4
<1>11. ASSUME NEW a \in Agents, NEW r \in Replies, _bd_create_bead(a, r)
       PROVE  BeadsSound'
  <2>1. made' \in SUBSET Beads
    BY <1>3, <1>11, NextBead DEF _bd_create_bead
  <2> QED
    BY <1>2, <1>3, <1>11, <2>1 DEF _bd_create_bead
<1>12. ASSUME NEW a \in Agents, NEW r \in Replies, dep_add(a, r)
       PROVE  BeadsSound'
  <2>1. PICK x, y : deps' = deps \/ deps' = deps \cup {<<x, y>>}
    BY <1>12 DEF dep_add
  <2>2. \A d \in deps' : d = <<d[1], d[2]>>
    BY <1>3, <2>1
  <2>3. UNCHANGED <<bd, made, file>>
    BY <1>12 DEF dep_add
  <2> QED
    BY <1>2, <1>3, <2>2, <2>3
<1>13. ASSUME NEW a \in Agents, NEW r \in Replies, bd_close(a, r)
       PROVE  BeadsSound'
  <2>1. bd' \in [Beads -> [status : Statuses, epic : BOOLEAN]]
    <3>1. "closed" \in Statuses
      BY DEF Statuses
    <3>2. bd' = bd \/ bd' = [bd EXCEPT ![call[a].bead].status = "closed"]
      BY <1>13 DEF bd_close
    <3>3. [bd EXCEPT ![call[a].bead].status = "closed"] \in [Beads -> [status : Statuses, epic : BOOLEAN]]
      BY <3>1, BdChanged, Zenon
    <3> QED
      BY <1>3, <3>2, <3>3, Zenon
  <2> QED
    BY <1>2, <1>3, <1>13, <2>1 DEF bd_close
<1>14. ASSUME NEW a \in Agents, NEW r \in Replies,
             \/ complete_bead(a) \/ checkpoint(a) \/ active_sync(a)
             \/ run_ci_gate(a) \/ _run_test_suite(a) \/ ReadTable(a) \/ _has_active_table(a)
             \/ ReadActive(a) \/ _active_sync_check(a) \/ Die(a)
             \/ _bd_show(a, r) \/ comments_add(a, r) \/ _query_bd_statuses(a, r)
       PROVE  BeadsSound'
  <2>1. UNCHANGED <<bd, made, deps, file>>
    BY <1>14 DEF complete_bead, checkpoint, active_sync, Enter, run_ci_gate, _run_test_suite,
                ReadTable, _has_active_table, ReadActive, _active_sync_check, Die, _bd_show,
                comments_add, _query_bd_statuses
  <2> QED
    BY <1>1, <2>1
<1>15. "ok" \in Replies
  BY DEF Replies
<1> QED
  BY <1>4, <1>5, <1>6, <1>7, <1>8, <1>9, <1>10, <1>11, <1>12, <1>13, <1>14, <1>15 DEF BeadNext

-----------------------------------------------------------------------------
(* active-sync.  Whoever changes bd or the file disturbs it, and no call    *)
(* of another agent touches what it carries.                                *)

\* What a step of one agent leaves to the others.
LEMMA OthersStand ==
  ASSUME GateInv, NEW a \in Agents, NEW r \in Replies, NEW d \in Agents, d # a,
         \/ task_init(a) \/ complete_bead(a) \/ checkpoint(a) \/ active_sync(a)
         \/ run_ci_gate(a) \/ _run_test_suite(a) \/ _append_active_note(a) \/ ReadTable(a)
         \/ _set_bead_table_status(a) \/ _has_active_table(a) \/ ReadActive(a)
         \/ reconcile_active_tables(a) \/ _active_sync_check(a) \/ Die(a)
         \/ _bd_create_bead(a, r) \/ dep_add(a, r) \/ _bd_show(a, r)
         \/ bd_close(a, r) \/ comments_add(a, r) \/ _query_bd_statuses(a, r)
  PROVE  call'[d] = call[d]
<1>1. ASSUME NEW c, call' = [call EXCEPT ![a] = c] PROVE call'[d] = call[d]
  BY <1>1 DEF GateInv
<1>2. CASE task_init(a) \/ complete_bead(a) \/ checkpoint(a) \/ active_sync(a)
  <2>1. \E c : Enter(a, c)
    BY <1>2 DEF task_init, complete_bead, checkpoint, active_sync
  <2> QED
    BY <1>1, <2>1 DEF Enter
<1>3. CASE (\E verdict : Answer(a, verdict)) \/ (\E at : Goto(a, at))
  BY <1>1, <1>3 DEF Answer, Goto
<1>4. CASE run_ci_gate(a) \/ _run_test_suite(a) \/ ReadActive(a) \/ Die(a)
  BY <1>1, <1>4 DEF run_ci_gate, _run_test_suite, ReadActive, Die
<1>5. CASE \/ _append_active_note(a) \/ ReadTable(a) \/ _set_bead_table_status(a)
           \/ _has_active_table(a) \/ reconcile_active_tables(a) \/ _active_sync_check(a)
  BY <1>1, <1>3, <1>5
     DEF _append_active_note, ReadTable, _set_bead_table_status, _has_active_table,
         reconcile_active_tables, _active_sync_check
<1>6. CASE \/ _bd_create_bead(a, r) \/ dep_add(a, r) \/ _bd_show(a, r)
           \/ bd_close(a, r) \/ comments_add(a, r) \/ _query_bd_statuses(a, r)
  BY <1>1, <1>3, <1>6
     DEF _bd_create_bead, dep_add, _bd_show, bd_close, comments_add, _query_bd_statuses
<1> QED
  BY <1>2, <1>4, <1>5, <1>6

\* Nothing that bears on the rows has changed.
Unchanged == UNCHANGED <<bd, made, deps, file>>
LEMMA StillAgrees == Unchanged /\ SyncAgrees /\ synced' = synced => SyncAgrees'
<1> SUFFICES ASSUME Unchanged, SyncAgrees, synced' = synced PROVE SyncAgrees'
  OBVIOUS
<1>1. \A b : Expected(b)' = Expected(b)
  BY DEF Unchanged, Expected
<1>2. \A i, b : HasRow(i, b)' = HasRow(i, b)
  BY DEF Unchanged, HasRow, IsRow
<1> QED
  BY <1>1, <1>2 DEF Unchanged, SyncAgrees

LEMMA StatusesStand == Unchanged => _bd_statuses_from_list' = _bd_statuses_from_list
  BY DEF Unchanged, _bd_statuses_from_list

LEMMA Disturbs == synced' = "none" => SyncKnows'
<1> SUFFICES ASSUME synced' = "none" PROVE SyncKnows'
  OBVIOUS
<1>1. synced' \notin Agents /\ synced' # "settled"
  BY BeadConstants
<1> QED
  BY <1>1 DEF SyncKnows, SyncAgrees

\* Steps that leave the data, the mark and the call that is marked alone.
LEMMA Leaves ==
  ASSUME SyncKnows, Unchanged, synced' = synced,
         synced \in Agents => call'[synced] = call[synced]
  PROVE  SyncKnows'
<1>1. SyncAgrees'
  BY StillAgrees DEF SyncKnows
<1>2. _bd_statuses_from_list' = _bd_statuses_from_list
  BY StatusesStand
<1> QED
  BY <1>1, <1>2 DEF SyncKnows, Unchanged

\* The row that a settled sync leaves.
LEMMA Settled ==
  ASSUME BeadsSound, SyncKnows, NEW a \in Agents, reconcile_active_tables(a), synced = a
  PROVE  /\ SyncAgrees'
         /\ Len(file') = Len(file)
         /\ \A i \in DOMAIN file :
              file'[i] # file[i] =>
                \E b \in made :
                  /\ HasRow(i, b)
                  /\ Expected(b) \notin {"none", file[i].cells[3].word}
                  /\ file'[i] = [file[i] EXCEPT !.cells[3] = Cell(Expected(b))]
<1> DEFINE statuses == _bd_statuses_from_list
           new == _reconcile_one(file, statuses)
           Says(i) == bd_status_to_cell(statuses[file[i].cells[1].word])
           Drifts(i) == /\ i > 2 /\ IsRow(file[i]) /\ Len(file[i].cells) >= 3
                        /\ file[i].cells[1].word \in DOMAIN statuses
                        /\ Says(i) \notin {"none", file[i].cells[3].word}
<1>1. call[a].lines = file /\ call[a].statuses = statuses
  BY DEF SyncKnows, reconcile_active_tables, At
<1>2. file' = new /\ UNCHANGED <<bd, made, deps>>
  BY <1>1 DEF reconcile_active_tables
<1>3. /\ Table(new) /\ Len(new) = Len(file)
      /\ \A i \in DOMAIN file :
           new[i] = IF Drifts(i) THEN [file[i] EXCEPT !.cells[3] = Cell(Says(i))] ELSE file[i]
  BY Reconciled DEF BeadsSound
<1>4. DOMAIN statuses = made
  BY DEF _bd_statuses_from_list
<1>5. \A b \in made : bd_status_to_cell(statuses[b]) = Expected(b)
  BY SaysWhatBdSays
<1>6. Table(file) /\ DOMAIN file = 1 .. Len(file) /\ DOMAIN new = 1 .. Len(file)
  BY <1>3 DEF BeadsSound, Table
<1>7. \A b : Expected(b)' = Expected(b)
  BY <1>2 DEF Expected
<1> HIDE DEF new, statuses
<1>8. ASSUME NEW i \in DOMAIN file, Drifts(i)
      PROVE  /\ HasRow(i, file[i].cells[1].word) /\ file[i].cells[1].word \in made
             /\ Says(i) = Expected(file[i].cells[1].word)
  BY <1>4, <1>5, <1>8 DEF HasRow
<1>9. ASSUME NEW i \in DOMAIN file, new[i] # file[i]
      PROVE  \E b \in made :
               /\ HasRow(i, b)
               /\ Expected(b) \notin {"none", file[i].cells[3].word}
               /\ new[i] = [file[i] EXCEPT !.cells[3] = Cell(Expected(b))]
  <2>1. Drifts(i) /\ new[i] = [file[i] EXCEPT !.cells[3] = Cell(Says(i))]
    BY <1>3, <1>9
  <2>2. Says(i) \notin {"none", file[i].cells[3].word}
    BY <2>1
  <2> HIDE DEF Says, Drifts
  <2> QED
    BY <1>8, <2>1, <2>2
<1>10. ASSUME NEW i \in DOMAIN new, NEW b \in made, i > 2, IsRow(new[i]), Len(new[i].cells) >= 3,
              new[i].cells[1].word = b, Expected(b) # "none"
       PROVE  new[i].cells[3].word = Expected(b)
  <2>0. i \in DOMAIN file /\ file[i] \in ActiveLine
    BY <1>6, <1>10 DEF Table
  <2>1. CASE Drifts(i)
    <3> DEFINE w == Says(i)
    <3>1. new[i] = Rewritten(file[i], 3, Cell(w))
      BY <1>3, <2>0, <2>1 DEF Rewritten
    <3>2. w \in CellWords /\ Len(file[i].cells) >= 3
      BY <2>1, CellsOfStatuses
    <3>3. w = Expected(file[i].cells[1].word)
      BY <1>8, <2>0, <2>1
    <3> HIDE DEF w, Drifts
    <3>4. SameButCell(new[i], file[i], 3, Cell(w))
      BY <2>0, <3>1, <3>2, CellWritten, CellsAreWords
    <3>5. file[i].cells \in Seq([word : CellWords, rich : BOOLEAN])
      BY <2>0 DEF ActiveLine
    <3>6. new[i].cells[3] = Cell(w) /\ new[i].cells[1] = file[i].cells[1]
      BY <3>2, <3>4, <3>5 DEF SameButCell
    <3> QED
      BY <1>10, <3>3, <3>6 DEF Cell
  <2>2. CASE ~Drifts(i)
    <3>1. new[i] = file[i]
      BY <1>3, <2>0, <2>2
    <3>2. file[i].cells[1].word = b /\ b \in DOMAIN statuses /\ Says(i) = Expected(b)
      BY <1>4, <1>5, <1>10, <3>1
    <3>3. Says(i) \in {"none", file[i].cells[3].word}
      BY <1>10, <2>2, <3>1, <3>2
    <3> QED
      BY <1>10, <3>1, <3>2, <3>3
  <2> QED
    BY <2>1, <2>2
<1>11. SyncAgrees'
  BY <1>2, <1>7, <1>10 DEF SyncAgrees, HasRow, IsRow
<1> QED
  BY <1>2, <1>3, <1>9, <1>11

\* Steps that disturb nobody, or whoever is to be disturbed.
LEMMA MarkStands ==
  ASSUME NEW a \in Agents, NEW r \in Replies,
         \/ task_init(a) \/ complete_bead(a) \/ checkpoint(a) \/ active_sync(a)
         \/ run_ci_gate(a) \/ _run_test_suite(a) \/ _append_active_note(a) \/ ReadTable(a)
         \/ _set_bead_table_status(a) \/ _has_active_table(a)
         \/ _active_sync_check(a) \/ Die(a)
         \/ _bd_create_bead(a, r) \/ dep_add(a, r) \/ _bd_show(a, r)
         \/ bd_close(a, r) \/ comments_add(a, r)
  PROVE  synced' = "none" \/ (synced' = synced /\ Unchanged)
<1>1. CASE task_init(a) \/ complete_bead(a) \/ checkpoint(a) \/ active_sync(a)
  BY <1>1 DEF task_init, complete_bead, checkpoint, active_sync, Enter, _scaffold_docs,
              Disturbed, Undisturbed, Unchanged
<1>2. CASE \/ run_ci_gate(a) \/ _run_test_suite(a) \/ _append_active_note(a) \/ ReadTable(a)
           \/ _set_bead_table_status(a) \/ _has_active_table(a) \/ _active_sync_check(a)
  BY <1>2 DEF run_ci_gate, _run_test_suite, _append_active_note, ReadTable,
              _set_bead_table_status, _has_active_table, _active_sync_check, Disturbed,
              Undisturbed, Unchanged
<1>3. CASE \/ Die(a) \/ _bd_create_bead(a, r) \/ dep_add(a, r) \/ _bd_show(a, r)
           \/ bd_close(a, r) \/ comments_add(a, r)
  BY <1>3 DEF Die, _bd_create_bead, dep_add, _bd_show, bd_close, comments_add, Disturbed, Unchanged
<1> QED
  BY <1>1, <1>2, <1>3

LEMMA SyncStands ==
  ASSUME GateInv, SyncKnows, NEW a \in Agents, NEW r \in Replies,
         \/ task_init(a) \/ complete_bead(a) \/ checkpoint(a) \/ active_sync(a)
         \/ run_ci_gate(a) \/ _run_test_suite(a) \/ _append_active_note(a) \/ ReadTable(a)
         \/ _set_bead_table_status(a) \/ _has_active_table(a)
         \/ _active_sync_check(a) \/ Die(a)
         \/ _bd_create_bead(a, r) \/ dep_add(a, r) \/ _bd_show(a, r)
         \/ bd_close(a, r) \/ comments_add(a, r)
  PROVE  SyncKnows'
<1>1. synced' = "none" \/ (synced' = synced /\ Unchanged)
  BY MarkStands
<1>2. CASE synced' = "none"
  BY <1>2, Disturbs
<1>3. CASE synced' = synced /\ Unchanged
  <2>1. synced \in Agents => synced # a \/ synced' = "none"
    <3> SUFFICES ASSUME synced = a PROVE synced' = "none"
      OBVIOUS
    <3>1. call[a].op = "sync" /\ call[a].at \in {"read", "write"} /\ Running(a)
      BY DEF SyncKnows, Running
    <3> QED
      BY <3>1 DEF task_init, complete_bead, checkpoint, active_sync, Enter, run_ci_gate,
                  _run_test_suite, _append_active_note, ReadTable, _set_bead_table_status,
                  _has_active_table, _active_sync_check, Die, _bd_create_bead, dep_add, _bd_show,
                  bd_close, comments_add, At
  <2>2. "none" \notin Agents
    BY BeadConstants
  <2>3. synced \in Agents => synced # a
    BY <1>3, <2>1, <2>2
  <2>4. synced \in Agents => call'[synced] = call[synced]
    BY <2>3, OthersStand
  <2> QED
    BY <1>3, <2>4, Leaves
<1> QED
  BY <1>1, <1>2, <1>3

LEMMA SyncAsks ==
  ASSUME GateInv, SyncKnows, NEW a \in Agents, NEW r \in Replies, _query_bd_statuses(a, r)
  PROVE  SyncKnows'
<1>1. Unchanged /\ call[a].at = "query"
  BY DEF _query_bd_statuses, Unchanged
<1>2. synced # a
  BY <1>1 DEF SyncKnows
<1>3. CASE synced' = synced
  <2>1. synced \in Agents => call'[synced] = call[synced]
    BY <1>2, OthersStand
  <2> QED
    BY <1>1, <1>3, <2>1, Leaves
<1>4. CASE synced' # synced
  <2> DEFINE c == [call[a] EXCEPT !.at = "read", !.statuses = _bd_statuses_from_list]
  <2>1. r = "ok" /\ call[a].op = "sync" /\ synced' = a /\ call' = [call EXCEPT ![a] = c]
    BY <1>4 DEF _query_bd_statuses
  <2>2. DOMAIN call[a] = Fields /\ DOMAIN call = Agents
    BY DEF GateInv, CallOK
  <2>3. c.op = "sync" /\ c.at = "read" /\ c.statuses = _bd_statuses_from_list
    BY <2>1, <2>2 DEF Fields
  <2>4. call'[a] = c
    BY <2>1, <2>2
  <2> HIDE DEF c
  <2>5. _bd_statuses_from_list' = _bd_statuses_from_list
    BY <1>1, StatusesStand
  <2>6. synced' # "settled"
    BY <2>1, BeadConstants
  <2> QED
    BY <2>1, <2>3, <2>4, <2>5, <2>6 DEF SyncKnows, SyncAgrees
<1> QED
  BY <1>3, <1>4

LEMMA SyncReads ==
  ASSUME GateInv, SyncKnows, NEW a \in Agents, ReadActive(a)
  PROVE  SyncKnows'
<1>1. Unchanged /\ synced' = synced
  BY DEF ReadActive, Unchanged
<1>2. CASE synced # a
  <2>1. "ok" \in Replies
    BY DEF Replies
  <2>2. synced \in Agents => call'[synced] = call[synced]
    BY <1>2, <2>1, OthersStand
  <2> QED
    BY <1>1, <2>2, Leaves
<1>3. CASE synced = a
  <2> DEFINE c == [call[a] EXCEPT !.at = "write", !.lines = file]
  <2>1. call' = [call EXCEPT ![a] = c]
    BY DEF ReadActive
  <2>2. DOMAIN call[a] = Fields /\ DOMAIN call = Agents
    BY DEF GateInv, CallOK
  <2>3. c.op = call[a].op /\ c.at = "write" /\ c.statuses = call[a].statuses /\ c.lines = file
    BY <2>2 DEF Fields
  <2>4. call'[a] = c
    BY <2>1, <2>2
  <2> HIDE DEF c
  <2>5. _bd_statuses_from_list' = _bd_statuses_from_list /\ file' = file
    BY <1>1, StatusesStand DEF Unchanged
  <2>6. SyncAgrees'
    BY <1>1, StillAgrees DEF SyncKnows
  <2> QED
    BY <1>1, <1>3, <2>3, <2>4, <2>5, <2>6 DEF SyncKnows
<1> QED
  BY <1>2, <1>3

LEMMA SyncWrites ==
  ASSUME BeadsSound, SyncKnows, NEW a \in Agents, reconcile_active_tables(a)
  PROVE  SyncKnows'
<1>1. CASE synced = a
  <2>1. synced' = "settled" /\ SyncAgrees'
    BY <1>1, Settled DEF reconcile_active_tables
  <2>2. "settled" \notin Agents
    BY BeadConstants
  <2> QED
    BY <2>1, <2>2 DEF SyncKnows
<1>2. CASE synced # a
  <2>1. synced' = "none"
    BY <1>2 DEF reconcile_active_tables
  <2> QED
    BY <2>1, Disturbs
<1> QED
  BY <1>1, <1>2

LEMMA SyncStep ==
  ASSUME GateInv, BeadsSound, SyncKnows, [BeadNext]_beadVars
  PROVE  SyncKnows'
<1>1. CASE UNCHANGED beadVars
  <2>1. Unchanged /\ synced' = synced /\ call' = call
    BY <1>1 DEF beadVars, Unchanged
  <2> QED
    BY <2>1, Leaves
<1>2. CASE BdUpdate \/ EditTable
  BY <1>2, Disturbs DEF BdUpdate, EditTable, Disturbed
<1>3. CASE EditTree
  <2>1. Unchanged /\ synced' = synced
    BY <1>3 DEF EditTree, Unchanged
  <2>2. ASSUME synced \in Agents PROVE call'[synced] = call[synced]
    <3>1. call[synced].op # "complete_bead"
      BY <2>2 DEF SyncKnows
    <3> QED
      BY <1>3, <2>2, <3>1 DEF EditTree
  <2> QED
    BY <2>1, <2>2, Leaves
<1>4. ASSUME NEW a \in Agents, NEW r \in Replies,
             \/ _query_bd_statuses(a, r) \/ ReadActive(a) \/ reconcile_active_tables(a)
      PROVE  SyncKnows'
  BY <1>4, SyncAsks, SyncReads, SyncWrites
<1>5. "ok" \in Replies
  BY DEF Replies
<1> QED
  BY <1>1, <1>2, <1>3, <1>4, <1>5, SyncStands DEF BeadNext

LEMMA SyncInvHolds == BeadSpec => [](GateInv /\ CallsCarryTables /\ BeadsSound /\ SyncKnows)
<1> DEFINE Inv == CallsCarryTables /\ BeadsSound /\ SyncKnows
<1>1. BeadInit => Inv
  BY BeadsStart
<1>2. GateInv /\ Inv /\ [BeadNext]_beadVars => Inv'
  <2> SUFFICES ASSUME GateInv, Inv, [BeadNext]_beadVars PROVE Inv'
    OBVIOUS
  <2>1. BeadsSound'
    BY BeadsStep
  <2>2. SyncKnows'
    BY SyncStep
  <2>3. CallsCarryTables'
    <3>1. CASE UNCHANGED beadVars \/ BdUpdate \/ EditTable
      <4>1. call' = call
        BY <3>1 DEF beadVars, BdUpdate, EditTable
      <4> QED
        BY <4>1 DEF CallsCarryTables, CarriesTable, Table, Headed, IsRow
    <3>2. CASE EditTree
      BY <3>2, CallsAmongEdits
    <3>3. "ok" \in Replies
      BY DEF Replies
    <3> QED
      BY <3>1, <3>2, <3>3, CallsEntered, CallsGoOn DEF BeadNext
  <2> QED
    BY <2>1, <2>2, <2>3
<1> HIDE DEF Inv
<1>3. Inv => CallsCarryTables /\ BeadsSound /\ SyncKnows
  BY DEF Inv
<1> QED
  BY <1>1, <1>2, <1>3, GateInvHolds, PTL DEF BeadSpec

\* Once an active-sync has run undisturbed, and until somebody changes bd or the file, the
\* Status cell of every row agrees with bd, for any beads, tables and calls, wherever they
\* died (reconcile_active_tables, _set_bead_table_status).
THEOREM SyncAlwaysAgrees == BeadSpec => []SyncAgrees
<1>1. SyncKnows => SyncAgrees
  BY DEF SyncKnows
<1> QED
  BY <1>1, SyncInvHolds, PTL

\* Such a sync changes exactly the Status cells that disagree with bd.
THEOREM SyncTouchesDriftOnly == BeadSpec => SyncTouchesOnlyDrift
<1> DEFINE Touches ==
      \A a \in Agents : synced = a /\ synced' = "settled" =>
       /\ Len(file') = Len(file)
       /\ \A i \in DOMAIN file :
            file'[i] # file[i] =>
              \E b \in made :
                /\ HasRow(i, b)
                /\ Expected(b) \notin {"none", file[i].cells[3].word}
                /\ file'[i] = [file[i] EXCEPT !.cells[3] = Cell(Expected(b))]
<1>1. GateInv /\ CallsCarryTables /\ BeadsSound /\ SyncKnows /\ [BeadNext]_beadVars => Touches
  <2> SUFFICES ASSUME BeadsSound, SyncKnows, [BeadNext]_beadVars,
                      NEW a \in Agents, synced = a, synced' = "settled"
               PROVE  reconcile_active_tables(a)
    BY Settled
  <2>1. a # "settled" /\ a # "none" /\ "settled" \notin Agents
    BY BeadConstants
  <2>2. synced' # synced /\ synced' # "none"
    BY <2>1
  <2>3. PICK b \in Agents : reconcile_active_tables(b) \/ \E r \in Replies : _query_bd_statuses(b, r)
    <3>1. ~UNCHANGED beadVars /\ ~BdUpdate /\ ~EditTable /\ ~EditTree /\ \A b \in Agents : ~ReadActive(b)
      BY <2>2 DEF beadVars, BdUpdate, EditTable, EditTree, Disturbed, ReadActive
    <3>2. "ok" \in Replies
      BY DEF Replies
    <3> QED
      BY <2>2, <3>1, <3>2, MarkStands DEF BeadNext
  <2>4. ~\E r \in Replies : _query_bd_statuses(b, r)
    BY <2>1, <2>2 DEF _query_bd_statuses
  <2>5. b = a
    BY <2>2, <2>3, <2>4 DEF reconcile_active_tables
  <2> QED
    BY <2>3, <2>4, <2>5
<1>2. SyncTouchesOnlyDrift <=> [][Touches]_beadVars
  BY DEF SyncTouchesOnlyDrift
<1> QED
  BY <1>1, <1>2, SyncInvHolds, PTL DEF BeadSpec

-----------------------------------------------------------------------------
(* The docs audit. Nothing the author writes and nothing in the            *)
(* configuration keeps a false plain claim from being reported.            *)

AuditSpec == AuditInit /\ [][AuditNext]_dvars

AuditInv == /\ DOMAIN docs = Files
            /\ \A p \in Files : docs[p] \in Texts \cup {<<>>}
            /\ config \in Configs

LEMMA AuditInitial == AuditInit => AuditInv
  BY DEF AuditInit, AuditInv

LEMMA AuditStep == AuditInv /\ [AuditNext]_dvars => AuditInv'
  BY DEF AuditInv, AuditNext, EditDoc, Develop, Step, reindex, dvars

\* What a function takes on a finite domain is a finite set.
LEMMA FiniteRange ==
  ASSUME NEW f, IsFiniteSet(DOMAIN f)
  PROVE  IsFiniteSet({f[x] : x \in DOMAIN f})
<1> DEFINE T == {f[x] : x \in DOMAIN f}
           g == [x \in DOMAIN f |-> f[x]]
<1>1. g \in Surjection(DOMAIN f, T)
  BY DEF Surjection
<1> QED
  BY <1>1, FS_Surjection

\* The texts are sequences of sequences of words.
LEMMA TextsAre ==
  ASSUME AuditInv, NEW p \in Files
  PROVE  /\ DOMAIN docs[p] = 1 .. Len(docs[p]) /\ Len(docs[p]) \in Nat
         /\ \A i \in DOMAIN docs[p] : /\ DOMAIN docs[p][i] = 1 .. Len(docs[p][i])
                                      /\ Len(docs[p][i]) \in Nat
<1>1. docs[p] \in Seq(Seq(Word))
  <2>1. docs[p] \in Texts \cup {<<>>} /\ Texts \subseteq Seq(Seq(Word))
    BY AuditConstants DEF AuditInv
  <2>2. <<>> \in Seq(Seq(Word))
    BY EmptySeq
  <2> QED
    BY <2>1, <2>2
<1> HIDE DEF Word
<1>2. DOMAIN docs[p] = 1 .. Len(docs[p]) /\ Len(docs[p]) \in Nat
  BY <1>1, LenProperties
<1>3. ASSUME NEW i \in DOMAIN docs[p]
      PROVE  DOMAIN docs[p][i] = 1 .. Len(docs[p][i]) /\ Len(docs[p][i]) \in Nat
  <2>1. docs[p][i] \in Seq(Word)
    BY <1>1, <1>2, <1>3, ElementOfSeq
  <2> QED
    BY <2>1, LenProperties
<1> QED
  BY <1>2, <1>3

\* Places of a line are numbers.
LEMMA WordsAt ==
  ASSUME NEW line, NEW n \in Nat, DOMAIN line = 1 .. n
  PROVE  \E m \in Nat : DOMAIN Words(line) = 1 .. m
<1> DEFINE kept == {i \in DOMAIN line : line[i].is \notin {"masked", "quoted"}}
<1>1. IsFiniteSet(kept)
  <2>1. IsFiniteSet(1 .. n)
    BY FS_Interval
  <2>2. kept \in SUBSET (1 .. n)
    OBVIOUS
  <2> QED
    BY <2>1, <2>2, FS_Subset
<1>2. Cardinality(kept) \in Nat
  BY <1>1, FS_CardinalityType
<1>3. DOMAIN Words(line) = 1 .. Cardinality(kept)
  BY DEF Words
<1> HIDE DEF kept
<1> QED
  BY <1>2, <1>3

\* A keyword right after a number is the one the scanner takes.
LEMMA NearestIsNext ==
  ASSUME NEW ws, NEW n \in Nat, DOMAIN ws = 1 .. n, NEW k \in 1 .. n, k + 1 \in 1 .. n,
         ws[k].is = "num", ws[k + 1].is = "key"
  PROVE  Near(ws, k) # {} /\ Nearest(ws, k) = k + 1
<1>1. k + 1 \in Near(ws, k)
  BY DEF Near, Apart, IsKeyword, PROXIMITY_WINDOW
<1>2. \A j \in Near(ws, k) : j \in 1 .. n /\ j # k
  BY DEF Near, IsKeyword
<1>3. Score(k, k + 1) = 2
  BY DEF Score, Apart
<1>4. \A j \in Near(ws, k) : j # k + 1 => Score(k, j) > 2 /\ Score(k, j) \in Nat
  BY <1>2 DEF Score, Apart
<1> DEFINE Q(j) == \A i \in Near(ws, k) : Score(k, j) <= Score(k, i)
<1>5. Q(k + 1)
  <2> SUFFICES ASSUME NEW i \in Near(ws, k) PROVE Score(k, k + 1) <= Score(k, i)
    OBVIOUS
  <2>1. CASE i = k + 1
    BY <1>3, <2>1
  <2>2. CASE i # k + 1
    BY <1>3, <1>4, <2>2
  <2> QED
    BY <2>1, <2>2
<1>6. \A j \in Near(ws, k) : Q(j) => j = k + 1
  <2> SUFFICES ASSUME NEW j \in Near(ws, k), Q(j), j # k + 1 PROVE FALSE
    OBVIOUS
  <2>1. Score(k, j) <= Score(k, k + 1)
    BY <1>1
  <2> QED
    BY <1>3, <1>4, <2>1
<1>7. Nearest(ws, k) = CHOOSE j \in Near(ws, k) : Q(j)
  BY DEF Nearest
<1> HIDE DEF Q
<1>8. \E j \in Near(ws, k) : Q(j)
  BY <1>1, <1>5
<1>9. (CHOOSE j \in Near(ws, k) : Q(j)) = k + 1
  BY <1>6, <1>8
<1> QED
  BY <1>1, <1>7, <1>9

\* So is the only keyword of a line that is in the window.
LEMMA NearestIsOnly ==
  ASSUME NEW ws, NEW n \in Nat, DOMAIN ws = 1 .. n, NEW k \in 1 .. n, NEW j \in 1 .. n,
         ws[j].is = "key", j <= k + 5, k <= j + 5,
         \A i \in (1 .. n) \ {j} : ws[i].is \notin {"key", "lead"}
  PROVE  Near(ws, k) # {} /\ Nearest(ws, k) = j
<1>1. j \in Near(ws, k)
  BY DEF Near, Apart, IsKeyword, PROXIMITY_WINDOW
<1>2. \A i \in Near(ws, k) : i = j
  BY DEF Near, IsKeyword
<1>3. Score(k, j) <= Score(k, j)
  BY DEF Score, Apart
<1> DEFINE Q(i) == \A m \in Near(ws, k) : Score(k, i) <= Score(k, m)
<1>4. Q(j)
  BY <1>2, <1>3
<1>5. Nearest(ws, k) = CHOOSE i \in Near(ws, k) : Q(i)
  BY DEF Nearest
<1> HIDE DEF Q
<1>6. (CHOOSE i \in Near(ws, k) : Q(i)) \in Near(ws, k)
  BY <1>1, <1>4
<1> QED
  BY <1>1, <1>2, <1>5, <1>6

LEMMA CountedIsNearest ==
  ASSUME NEW ws, NEW n \in Nat, DOMAIN ws = 1 .. n, NEW k \in 1 .. n, NEW j \in 1 .. n,
         ws[k].is = "num", Counts(ws, k, j)
  PROVE  Near(ws, k) # {} /\ Nearest(ws, k) = j
<1>1. CASE j = k + 1
  BY <1>1, NearestIsNext DEF Counts
<1>2. CASE j # k + 1
  <2>1. /\ ws[j].is = "key" /\ j <= k + 5 /\ k <= j + 5
        /\ \A i \in (1 .. n) \ {j} : ws[i].is \notin {"key", "lead"}
    BY <1>2 DEF Counts
  <2> QED
    BY <2>1, NearestIsOnly
<1> QED
  BY <1>1, <1>2

\* The pages a reader takes for audited are audited.
LEMMA PagesAreAudited ==
  ASSUME Above \cap _EXCLUDE_DIRS = {}
  PROVE  Pages \subseteq resolve_paths
<1> SUFFICES ASSUME NEW p \in Pages PROVE p \in resolve_paths
  OBVIOUS
<1>1. p \in Files /\ p \in Seq(STRING) /\ p # <<>> /\ Last(p) \notin _EXCLUDE_DIRS
  BY AuditConstants DEF Pages
<1>2. Len(p) \in Nat /\ DOMAIN p = 1 .. Len(p) /\ Len(p) # 0
  BY <1>1, LenProperties, EmptySeq
<1>3. p \in default_globs
  BY <1>1, <1>2 DEF Pages, default_globs
<1>4. Range(p) \cap _EXCLUDE_DIRS = {}
  <2>1. CASE Len(p) = 1
    <3>1. Last(p) = p[1] /\ Range(p) = {p[1]}
      BY <1>2, <2>1 DEF Last, Range
    <3> QED
      BY <1>1, <3>1
  <2>2. CASE Len(p) # 1
    BY <2>2 DEF Pages
  <2> QED
    BY <2>1, <2>2
<1>5. Last(p) \notin {"CHANGELOG.md", "SPEC.md"} /\ p \notin _load_exclude_paths
  BY DEF Pages, _load_exclude_paths
<1>6. p \notin _EXCLUDE_PATTERNS
  BY <1>5 DEF _EXCLUDE_PATTERNS
<1> QED
  BY <1>3, <1>4, <1>5, <1>6 DEF resolve_paths

\* What a line plainly claims, and what the scanner takes from it.
LineClaims(p, i) ==
  LET ws == Words(docs[p][i]) IN
  {[fact |-> ws[kj[2]].fact, value |-> ws[kj[1]].value, path |-> p] :
     kj \in {x \in (DOMAIN ws) \X (DOMAIN ws) :
               /\ ws[x[1]].is = "num" /\ ws[x[1]].value >= 10
               /\ Counts(ws, x[1], x[2]) /\ ~_has_modifier(ws, x[1])}}
    \cup {[fact |-> "version", value |-> w.value, path |-> p] :
            w \in {x \in Range(docs[p][i]) : x.is \in {"version", "quoted"}}}
LineMentions(p, i) ==
  _extract_versions(p, docs[p][i]) \cup _extract_number_mentions(p, docs[p][i])

LEMMA LineClaimsFound ==
  ASSUME AuditInv, NEW p \in Pages, NEW i \in DOMAIN docs[p]
  PROVE  LineClaims(p, i) \subseteq LineMentions(p, i)
<1> DEFINE line == docs[p][i]
           ws == Words(line)
<1>1. p \in Files /\ Last(p) \notin _LOW_CONFIDENCE
  BY DEF Pages, _LOW_CONFIDENCE
<1>2. DOMAIN line = 1 .. Len(line) /\ Len(line) \in Nat
  BY <1>1, TextsAre
<1>3. PICK n \in Nat : DOMAIN ws = 1 .. n
  BY <1>2, WordsAt
<1> HIDE DEF line, ws
<1>4. ASSUME NEW k \in DOMAIN ws, NEW j \in DOMAIN ws, ws[k].is = "num", ws[k].value >= 10,
             Counts(ws, k, j), ~_has_modifier(ws, k)
      PROVE  [fact |-> ws[j].fact, value |-> ws[k].value, path |-> p]
               \in _extract_number_mentions(p, line)
  <2>1. Near(ws, k) # {} /\ Nearest(ws, k) = j
    BY <1>3, <1>4, CountedIsNearest
  <2> QED
    BY <1>1, <1>4, <2>1 DEF _extract_number_mentions, ws
<1>5. ASSUME NEW w \in Range(line), w.is \in {"version", "quoted"}
      PROVE  [fact |-> "version", value |-> w.value, path |-> p] \in _extract_versions(p, line)
  <2>1. PICK k \in DOMAIN line : line[k] = w
    BY <1>5 DEF Range
  <2> QED
    BY <1>5, <2>1 DEF _extract_versions
<1>6. LineClaims(p, i) =
        {[fact |-> ws[kj[2]].fact, value |-> ws[kj[1]].value, path |-> p] :
           kj \in {x \in (DOMAIN ws) \X (DOMAIN ws) :
                     /\ ws[x[1]].is = "num" /\ ws[x[1]].value >= 10
                     /\ Counts(ws, x[1], x[2]) /\ ~_has_modifier(ws, x[1])}}
        \cup {[fact |-> "version", value |-> w.value, path |-> p] :
                w \in {x \in Range(line) : x.is \in {"version", "quoted"}}}
  BY DEF LineClaims, ws, line
<1>7. LineMentions(p, i) = _extract_versions(p, line) \cup _extract_number_mentions(p, line)
  BY DEF LineMentions, line
<1> QED
  BY <1>4, <1>5, <1>6, <1>7

\* Every plain claim is among the mentions.
LEMMA ClaimsAreMentions ==
  ASSUME AuditInv, Above \cap _EXCLUDE_DIRS = {}
  PROVE  Claims \subseteq Mentions
<1> SUFFICES ASSUME NEW m \in Claims PROVE m \in Mentions
  OBVIOUS
<1>1. PICK p \in Pages :
         m \in UNION {LineClaims(p, i) : i \in {j \in DOMAIN docs[p] : Shown(docs[p], j)}}
  BY DEF Claims, LineClaims
<1>a. PICK i \in DOMAIN docs[p] : Shown(docs[p], i) /\ m \in LineClaims(p, i)
  BY <1>1
<1>2. m \in LineMentions(p, i)
  BY <1>a, LineClaimsFound
<1>3. m \in scan_file(p)
  BY <1>a, <1>2 DEF scan_file, LineMentions
<1>4. p \in resolve_paths
  BY PagesAreAudited
<1> QED
  BY <1>3, <1>4 DEF Mentions

\* There are finitely many mentions, so they can be counted.
LEMMA LineFinite ==
  ASSUME AuditInv, NEW p \in Files, NEW i \in DOMAIN docs[p]
  PROVE  IsFiniteSet(LineMentions(p, i))
<1> DEFINE line == docs[p][i]
           ws == Words(line)
           V == {k \in DOMAIN line : line[k].is \in {"version", "quoted"}}
           N == {k \in DOMAIN ws : /\ ws[k].is = "num" /\ ws[k].value >= 10
                                   /\ ~_has_modifier(ws, k) /\ Last(p) \notin _LOW_CONFIDENCE
                                   /\ Near(ws, k) # {}}
           v == [k \in V |-> [fact |-> "version", value |-> line[k].value, path |-> p]]
           f == [k \in N |-> [fact |-> ws[Nearest(ws, k)].fact, value |-> ws[k].value, path |-> p]]
<1>1. DOMAIN line = 1 .. Len(line) /\ Len(line) \in Nat
  BY TextsAre
<1>2. PICK n \in Nat : DOMAIN ws = 1 .. n
  BY <1>1, WordsAt
<1>3. IsFiniteSet(1 .. Len(line)) /\ IsFiniteSet(1 .. n)
  BY <1>1, FS_Interval
<1>4. IsFiniteSet(V) /\ IsFiniteSet(N)
  <2>1. V \in SUBSET (1 .. Len(line)) /\ N \in SUBSET (1 .. n)
    BY <1>1, <1>2
  <2> HIDE DEF V, N
  <2> QED
    BY <1>3, <2>1, FS_Subset
<1>5. _extract_versions(p, line) = {v[k] : k \in V}
  BY DEF _extract_versions
<1>6. _extract_number_mentions(p, line) = {f[k] : k \in N}
  BY DEF _extract_number_mentions
<1>7. DOMAIN v = V /\ DOMAIN f = N
  OBVIOUS
<1>8. LineMentions(p, i) = _extract_versions(p, line) \cup _extract_number_mentions(p, line)
  BY DEF LineMentions
<1> HIDE DEF line, ws, V, N, v, f
<1>9. IsFiniteSet({v[k] : k \in V}) /\ IsFiniteSet({f[k] : k \in N})
  BY <1>4, <1>7, FiniteRange
<1>a. IsFiniteSet({v[k] : k \in V} \cup {f[k] : k \in N})
  <2> DEFINE A == {v[k] : k \in V}
             B == {f[k] : k \in N}
  <2> HIDE DEF A, B
  <2>1. IsFiniteSet(A) /\ IsFiniteSet(B)
    BY <1>9 DEF A, B
  <2>2. IsFiniteSet(A \cup B)
    BY <2>1, FS_Union
  <2> QED
    BY <2>2 DEF A, B
<1> QED
  BY <1>5, <1>6, <1>8, <1>a

LEMMA FileFinite ==
  ASSUME AuditInv, NEW p \in Files
  PROVE  IsFiniteSet(scan_file(p))
<1> DEFINE D == {k \in DOMAIN docs[p] : Shown(docs[p], k)}
           f == [i \in D |-> LineMentions(p, i)]
           T == {f[i] : i \in DOMAIN f}
<1>1. IsFiniteSet(D)
  <2>a. DOMAIN docs[p] = 1 .. Len(docs[p]) /\ Len(docs[p]) \in Nat
    BY TextsAre
  <2>1. D \in SUBSET (1 .. Len(docs[p])) /\ IsFiniteSet(1 .. Len(docs[p]))
    BY <2>a, FS_Interval
  <2> HIDE DEF D
  <2> QED
    BY <2>1, FS_Subset
<1>2. DOMAIN f = D
  OBVIOUS
<1>3. IsFiniteSet(T)
  <2> HIDE DEF D, f
  <2> QED
    BY <1>1, <1>2, FiniteRange
<1>4. \A S \in T : IsFiniteSet(S)
  BY LineFinite
<1>5. scan_file(p) = UNION T
  BY DEF scan_file, LineMentions
<1> HIDE DEF T
<1> QED
  BY <1>3, <1>4, <1>5, FS_UNION

LEMMA MentionsFinite == AuditInv => IsFiniteSet(Mentions)
<1> SUFFICES ASSUME AuditInv PROVE IsFiniteSet(Mentions)
  OBVIOUS
<1> DEFINE f == [p \in resolve_paths |-> scan_file(p)]
           T == {f[p] : p \in DOMAIN f}
<1>1. resolve_paths \in SUBSET Files
  BY DEF resolve_paths, default_globs
<1>2. IsFiniteSet(resolve_paths)
  BY <1>1, AuditConstants, FS_Subset
<1>3. DOMAIN f = resolve_paths
  OBVIOUS
<1>4. IsFiniteSet(T)
  <2> HIDE DEF f
  <2> QED
    BY <1>2, <1>3, FiniteRange
<1>5. \A S \in T : IsFiniteSet(S)
  BY <1>1, FileFinite
<1>6. Mentions = UNION T
  BY DEF Mentions
<1> HIDE DEF T
<1> QED
  BY <1>4, <1>5, <1>6, FS_UNION

\* The configuration changes no fact it does not usably replace, and no tolerance it does
\* not usably set.
LEMMA FactsAreTrue ==
  ASSUME NEW f, f \in DOMAIN BuiltIn(indexed), f \notin DOMAIN _collect_extra_facts
  PROVE  f \in DOMAIN collect /\ collect[f] = BuiltIn(indexed)[f]
  BY DEF collect

LEMMA ToleranceIs ==
  ASSUME NEW f
  PROVE  tolerance(f) = Percent(f)
<1> DEFINE t == _load_tolerances
<1>1. /\ DOMAIN t = {g \in DOMAIN config.tolerances : config.tolerances[g] # Unusable}
      /\ f \in DOMAIN t => t[f] = config.tolerances[f]
  BY DEF _load_tolerances
<1>2. /\ DOMAIN DEFAULT_TOLERANCES = {"node_count", "edge_count", "test_count"}
      /\ DEFAULT_TOLERANCES["node_count"] = 10 /\ DEFAULT_TOLERANCES["edge_count"] = 10
      /\ DEFAULT_TOLERANCES["test_count"] = 5
  BY DEF DEFAULT_TOLERANCES
<1>3. tolerance(f) = IF f \in DOMAIN t THEN t[f]
                     ELSE IF f \in DOMAIN DEFAULT_TOLERANCES THEN DEFAULT_TOLERANCES[f] ELSE 0
  BY DEF tolerance
<1> HIDE DEF t
<1> QED
  BY <1>1, <1>2, <1>3 DEF Percent

\* A report of one mention fails the gate and the command.
LEMMA ReportFails ==
  ASSUME AuditInv, NEW m \in compare_facts
  PROVE  ~AuditPasses /\ docs_audit([op |-> ">", threshold |-> 0]) = 1
<1> DEFINE condition == [op |-> ">", threshold |-> 0]
<1>1. condition \notin {Unset, Unusable}
  BY AuditConstants
<1>2. condition.op = ">" /\ condition.threshold = 0
  OBVIOUS
<1>3. IsFiniteSet(compare_facts)
  <2>1. compare_facts \in SUBSET Mentions
    BY DEF compare_facts
  <2> QED
    BY <2>1, MentionsFinite, FS_Subset
<1>4. Cardinality(compare_facts) \in Nat /\ Cardinality(compare_facts) # 0
  BY <1>3, FS_CardinalityType, FS_EmptySet
<1> HIDE DEF condition
<1>5. docs_audit(condition) = 1
  BY <1>1, <1>2, <1>4 DEF docs_audit
<1> QED
  BY <1>5 DEF AuditPasses, condition

LEMMA ClaimsHold == AuditInv => FalseClaimsFound
<1> SUFFICES ASSUME AuditInv, Above \cap _EXCLUDE_DIRS = {}, indexed = project.graph,
                    NEW m \in Claims,
                    m.fact \in DOMAIN BuiltIn(project.graph), ~Excused(m),
                    ~ IF m.fact = "version" THEN m.value = BuiltIn(project.graph).version
                      ELSE Within(BuiltIn(project.graph)[m.fact], m.value, Percent(m.fact))
             PROVE  m \in compare_facts
  BY ReportFails DEF FalseClaimsFound
<1> DEFINE truth == BuiltIn(indexed)
<1>1. m \in Mentions
  BY ClaimsAreMentions
<1>2. ~\E rule \in _load_ignore : Silences(rule, m)
  BY DEF _load_ignore, Silences, Excused
<1>3. m.fact \notin DOMAIN _collect_extra_facts
  BY DEF _collect_extra_facts, Excused
<1>4. m.fact \in DOMAIN truth
  OBVIOUS
<1>5. m.fact \in DOMAIN collect /\ collect[m.fact] = truth[m.fact]
  BY <1>3, <1>4, FactsAreTrue
<1>6. ~ IF m.fact = "version" THEN m.value = truth["version"]
        ELSE Within(truth[m.fact], m.value, Percent(m.fact))
  OBVIOUS
<1> HIDE DEF truth
<1>7. ~_values_match_with_tolerance(m.fact, collect[m.fact], m.value)
  BY <1>5, <1>6, ToleranceIs DEF _values_match_with_tolerance
<1> QED
  BY <1>1, <1>2, <1>5, <1>7 DEF compare_facts

\* Whatever files, words, configuration and facts there are, a plain claim that is out of
\* its tolerance is reported by the audit of a current index, which fails the gate and
\* `--fail-if stale>0` (scanner.py, audit.py, gate.py, docs.py).
THEOREM FalseClaimsAlwaysFound == AuditSpec => []FalseClaimsFound
<1>1. AuditInit => AuditInv
  BY AuditInitial
<1>2. AuditInv /\ [AuditNext]_dvars => AuditInv'
  BY AuditStep
<1>3. AuditInv => FalseClaimsFound
  BY ClaimsHold
<1> QED
  BY <1>1, <1>2, <1>3, PTL DEF AuditSpec
=============================================================================
