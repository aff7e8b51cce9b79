----------------------------- MODULE BeadTable -----------------------------
(***************************************************************************)
(* The beads of one work item: the issue tracker bd holds their state, the *)
(* item's ACTIVE.md repeats it in a table. MCP calls (task_init,           *)
(* complete_bead behind the gate, checkpoint) and `active-sync` run side   *)
(* by side, each one step at a time; bd may fail or be missing, and a call *)
(* may die anywhere. bd itself is external.                                *)
(***************************************************************************)
EXTENDS Naturals, Sequences, FiniteSets

CONSTANTS
  Ids,          \* the ids bd gives out, in order
  Agents,       \* processes
  Starts,       \* [made, deps, file, red]: what a run starts from
  Tests,        \* values of run_tests that calls may pass
  Breakable,    \* checks that edits of the tree break and repair
  MaxCalls,     \* bound on calls
  MaxOutside    \* bound on what else happens: bd updates, edits, calls that die

Beads == {Ids[i] : i \in DOMAIN Ids}
BeadRoles == <<"dev", "test", "review", "tech-writer">>
GateSteps == <<"reindex", "lint", "sync-check", "docs-audit", "config-check", "doctor">>
Checks == {GateSteps[i] : i \in DOMAIN GateSteps} \cup {"tests"}
Statuses == {"open", "in_progress", "closed", "deferred"}
Replies == {"ok", "failed", "missing"}   \* exit 0, another exit code, no bd binary

VARIABLES
  bd,       \* [Beads -> [status, epic]]: epic says whether the text names the item
  made,     \* beads that exist
  deps,     \* pairs <<bead, blocker>>
  file,     \* lines of ACTIVE.md, or NoFile
  red,      \* checks that fail on the tree as it is
  call,     \* [Agents -> the call in progress, or its answer]
  synced,   \* the agent whose active-sync nobody disturbed yet; "settled" after it
  calls, outside

beadVars == <<bd, made, deps, file, red, call, synced, calls, outside>>

\* A line: the cells of a table row, a separator row, or text (of a note's author).
Cell(w) == [word |-> w, rich |-> FALSE]
Rich(w) == [word |-> w, rich |-> TRUE]     \* the word followed by a remark
TableRow(cells) == [cells |-> cells, sep |-> FALSE, note |-> ""]
Separator(n) == [cells |-> [i \in 1 .. n |-> Cell("---")], sep |-> TRUE, note |-> ""]
Text(n) == [cells |-> <<>>, sep |-> FALSE, note |-> n]
NoFile == <<Text("no file")>>
Skeleton == <<Text("ACTIVE")>>
IsRow(line) == line.cells # <<>> /\ ~line.sep

\* Strings; the ones written here are named, as the provers know of none that it is one.
CellWords == STRING \cup {"", "done", "in progress", "blocked", "ready", "none", "ACTIVE", "note"}
ActiveLine == [cells : Seq([word : CellWords, rich : BOOLEAN]), sep : BOOLEAN, note : CellWords]

\* Authors write one table, at the top, with its Status in the third column; or none yet.
Headed(lines) ==
  \/ \A i \in DOMAIN lines : ~IsRow(lines[i])
  \/ /\ Len(lines) >= 2 /\ IsRow(lines[1]) /\ lines[2].sep /\ Len(lines[1].cells) >= 3
     /\ lines[1].cells[2].word # "Status" /\ lines[1].cells[3].word = "Status"
     /\ lines[1].cells[1].word = "Bead"

ASSUME BeadConstants ==
  /\ MaxCalls \in Nat /\ MaxOutside \in Nat /\ Tests \subseteq BOOLEAN
  /\ Breakable \subseteq Checks
  /\ Ids \in Seq(STRING) /\ "Bead" \notin Beads /\ Agents \cap {"none", "settled"} = {}
  /\ \A s \in Starts : /\ s.made \subseteq Beads /\ s.deps \subseteq s.made \X s.made
                      /\ s.red \subseteq Checks
                      /\ s.file \in Seq(ActiveLine) /\ Headed(s.file)

-----------------------------------------------------------------------------
(* The table.                                                              *)

\* A mutant: the status is the last cell, as in set_active_table_status.
LastColumn(lines) == IF ~IsRow(lines[1]) THEN [head |-> 0, col |-> 0]
                     ELSE [head |-> 1, col |-> Len(lines[1].cells)]
\* The first header whose first cell is Bead, with a separator under it; the column
\* is 0 when there is none, or when that header has no Status.
_find_status_column(lines) ==
  LET heads == {i \in 1 .. Len(lines) - 1 : /\ IsRow(lines[i])
                                            /\ lines[i].cells[1].word = "Bead"
                                            /\ lines[i + 1].sep}
      head == CHOOSE i \in heads : \A j \in heads : i <= j
      cols == {c \in DOMAIN lines[head].cells : lines[head].cells[c].word = "Status"}
  IN IF heads = {} \/ cols = {} THEN [head |-> 0, col |-> 0]
     ELSE [head |-> head, col |-> CHOOSE c \in cols : \A d \in cols : c <= d]

\* Of any table, the first row that starts with the bead; its last cell.
RowsOf(lines, b) == {i \in DOMAIN lines : /\ IsRow(lines[i]) /\ Len(lines[i].cells) >= 2
                                          /\ lines[i].cells[1].word = b}
set_active_table_status(lines, b, status) ==
  LET rows == RowsOf(lines, b)
      row == CHOOSE i \in rows : \A j \in rows : i <= j
  IN IF rows = {} THEN lines
     ELSE [lines EXCEPT ![row].cells[Len(lines[row].cells)] = Cell(status)]

bd_status_to_cell(s) == CASE s = "closed" -> "done" [] s = "in_progress" -> "in progress"
                          [] s = "blocked" -> "blocked" [] s = "open" -> "ready"
                          [] OTHER -> "none"

_bd_statuses_from_list ==
  [b \in made |-> IF /\ bd[b].status = "open"
                     /\ \E d \in deps : d[1] = b /\ d[2] \in made /\ bd[d[2]].status # "closed"
                  THEN "blocked" ELSE bd[b].status]

\* A cell that starts with the wanted word is kept, remark and all.
KeptOnlyIfEqual(cell, wanted) == cell = Cell(wanted)   \* a mutant
KeepsCell(cell, wanted) == cell.word = wanted

_reconcile_one(lines, statuses) ==
  LET at == _find_status_column(lines)
      Wanted(line) == LET b == line.cells[1].word
                      IN IF b \in DOMAIN statuses THEN bd_status_to_cell(statuses[b]) ELSE "none"
      Fix(i) == LET line == lines[i] IN
                IF \/ i < at.head + 2 \/ ~IsRow(line)
                THEN line
                ELSE IF \/ at.col > Len(line.cells)
                        \/ Wanted(line) = "none"
                        \/ KeepsCell(line.cells[at.col], Wanted(line))
                     THEN line
                     ELSE [line EXCEPT !.cells[at.col] = Cell(Wanted(line))]
  IN IF at.col = 0 THEN lines ELSE [i \in DOMAIN lines |-> Fix(i)]

-----------------------------------------------------------------------------
(* Calls. `always` and `ever` are the checks that failed on the tree all   *)
(* through the call, and at some time in it.                               *)

NoCall == [op |-> "none", at |-> "none", bead |-> "", tests |-> FALSE, pos |-> 0, made |-> <<>>,
         failing |-> {}, always |-> {}, ever |-> {}, epic |-> FALSE, word |-> "",
         lines |-> <<>>, statuses |-> <<>>, verdict |-> ""]

Answer(a, verdict) == call' = [call EXCEPT ![a].at = "answered", ![a].verdict = verdict,
                                           ![a].lines = <<>>, ![a].statuses = <<>>]
Goto(a, at) == call' = [call EXCEPT ![a].at = at]
Running(a) == call[a].at \notin {"none", "answered"}
At(a, op, at) == call[a].op = op /\ call[a].at = at
counters == <<calls, outside>>
Undisturbed == UNCHANGED synced
Disturbed == synced' = "none"

Enter(a, c) ==
  /\ ~Running(a) /\ calls < MaxCalls
  /\ calls' = calls + 1
  /\ call' = [call EXCEPT ![a] = c]
  /\ UNCHANGED <<bd, made, deps, red, outside>>

-----------------------------------------------------------------------------
(* task_init: documents that are missing, then a bead per role, then the   *)
(* chain of dependencies, whose failures are not looked at.                *)

_scaffold_docs == IF file = NoFile THEN Skeleton ELSE file

task_init(a) ==
  /\ Enter(a, [NoCall EXCEPT !.op = "task_init", !.at = "create"])
  /\ file' = _scaffold_docs
  /\ IF file = NoFile THEN Disturbed ELSE Undisturbed

_bd_create_bead(a, r) ==
  /\ At(a, "task_init", "create")
  /\ IF r = "ok"
     THEN LET ids == Append(call[a].made, Ids[Cardinality(made) + 1]) IN
          /\ Cardinality(made) < Len(Ids)
          /\ made' = made \cup {Ids[Cardinality(made) + 1]}
          /\ call' = [call EXCEPT ![a].made = ids, ![a].pos = 2,
                        ![a].at = IF Len(ids) = Len(BeadRoles) THEN "wire" ELSE "create"]
          /\ Disturbed
     ELSE Answer(a, "ERROR") /\ UNCHANGED <<made, synced>>
  /\ UNCHANGED <<bd, deps, file, red, counters>>

dep_add(a, r) ==
  /\ At(a, "task_init", "wire")
  /\ LET p == call[a].pos IN
     IF r = "ok" THEN deps' = deps \cup {<<call[a].made[p], call[a].made[p - 1]>>} /\ Disturbed
     ELSE UNCHANGED <<deps, synced>>
  /\ IF r = "missing" THEN Answer(a, "ERROR")
     ELSE IF call[a].pos = Len(BeadRoles) THEN Answer(a, "OK")
     ELSE call' = [call EXCEPT ![a].pos = @ + 1]
  /\ UNCHANGED <<bd, made, file, red, counters>>

-----------------------------------------------------------------------------
(* complete_bead: every step of the gate, the tests, then bd and the table. *)

complete_bead(a) ==
  \E b \in made, t \in Tests :
    /\ Enter(a, [NoCall EXCEPT !.op = "complete_bead", !.at = "gate", !.bead = b, !.tests = t,
                             !.pos = 1, !.always = red, !.ever = red, !.word = "done"])
    /\ UNCHANGED <<file, synced>>

\* Every step runs, whatever failed before it.
UntilTheFirst(c) == IF c.failing # {} THEN c.failing ELSE red \cap {GateSteps[c.pos]}  \* a mutant
Findings(c) == c.failing \cup (red \cap {GateSteps[c.pos]})

run_ci_gate(a) ==
  /\ At(a, "complete_bead", "gate")
  /\ call' = [call EXCEPT ![a].failing = Findings(call[a]), ![a].pos = @ + 1,
                          ![a].at = IF call[a].pos = Len(GateSteps) THEN "tests" ELSE "gate"]
  /\ UNCHANGED <<bd, made, deps, file, red, synced, counters>>

_run_test_suite(a) ==
  /\ At(a, "complete_bead", "tests")
  /\ LET failing == call[a].failing \cup (IF call[a].tests THEN red \cap {"tests"} ELSE {})
     IN call' = [call EXCEPT ![a].failing = failing, ![a].pos = 0,
                             ![a].at = IF failing = {} THEN "show" ELSE "answered",
                             ![a].verdict = IF failing = {} THEN "" ELSE "FAIL"]
  /\ UNCHANGED <<bd, made, deps, file, red, synced, counters>>

\* A record that bd does not give is an empty one: it names no item.
_bd_show(a, r) ==
  /\ Running(a) /\ call[a].at = "show"
  /\ IF r = "missing" THEN Answer(a, "ERROR")
     ELSE call' = [call EXCEPT ![a].epic = (r = "ok" /\ bd[call[a].bead].epic),
                     ![a].at = IF call[a].op = "complete_bead" THEN "close" ELSE "comment"]
  /\ UNCHANGED <<bd, made, deps, file, red, synced, counters>>

bd_close(a, r) ==
  /\ At(a, "complete_bead", "close")
  /\ IF r = "ok"
     THEN bd' = [bd EXCEPT ![call[a].bead].status = "closed"] /\ Disturbed /\ Goto(a, "table")
     ELSE Answer(a, "ERROR") /\ UNCHANGED <<bd, synced>>
  /\ UNCHANGED <<made, deps, file, red, counters>>

-----------------------------------------------------------------------------
(* checkpoint: a comment, a note at the end of ACTIVE.md, the table.       *)

checkpoint(a) ==
  \E b \in made, w \in {"in progress", "blocked"} :
    /\ Enter(a, [NoCall EXCEPT !.op = "checkpoint", !.at = "show", !.bead = b, !.word = w])
    /\ UNCHANGED <<file, synced>>

comments_add(a, r) ==
  /\ At(a, "checkpoint", "comment")
  /\ IF r = "ok" THEN Goto(a, "note") ELSE Answer(a, "ERROR")
  /\ UNCHANGED <<bd, made, deps, file, red, synced, counters>>

_append_active_note(a) ==
  /\ At(a, "checkpoint", "note")
  /\ IF call[a].epic /\ file # NoFile
     THEN file' = Append(file, Text("note")) /\ Disturbed
     ELSE UNCHANGED <<file, synced>>
  /\ Goto(a, "table")
  /\ UNCHANGED <<bd, made, deps, red, counters>>

\* _set_bead_table_status: the file is read, and written back from what was read, also
\* when the cell has the word already.
ReadTable(a) ==
  /\ Running(a) /\ call[a].at = "table"
  /\ IF call[a].epic /\ file # NoFile
     THEN call' = [call EXCEPT ![a].at = "flip", ![a].lines = file]
     ELSE Answer(a, IF call[a].op = "checkpoint" THEN "OK" ELSE "PASS")
  /\ UNCHANGED <<bd, made, deps, file, red, synced, counters>>

_set_bead_table_status(a) ==
  /\ Running(a) /\ call[a].at = "flip"
  /\ LET c == call[a] IN
     /\ file' = IF RowsOf(c.lines, c.bead) = {} THEN file
                ELSE set_active_table_status(c.lines, c.bead, c.word)
     /\ IF file' = file THEN Undisturbed ELSE Disturbed
  /\ Answer(a, IF call[a].op = "checkpoint" THEN "OK" ELSE "PASS")
  /\ UNCHANGED <<bd, made, deps, red, counters>>

-----------------------------------------------------------------------------
(* active-sync.                                                            *)

active_sync(a) ==
  /\ \E check \in BOOLEAN :
       Enter(a, [NoCall EXCEPT !.op = IF check THEN "check" ELSE "sync", !.at = "look"])
  /\ UNCHANGED <<file, synced>>

_has_active_table(a) ==
  /\ Running(a) /\ call[a].at = "look"
  /\ IF _find_status_column(file).col = 0 THEN Answer(a, "skipped") ELSE Goto(a, "query")
  /\ UNCHANGED <<bd, made, deps, file, red, synced, counters>>

_query_bd_statuses(a, r) ==
  /\ Running(a) /\ call[a].at = "query"
  /\ IF r = "ok"
     THEN /\ call' = [call EXCEPT ![a].at = "read", ![a].statuses = _bd_statuses_from_list]
          /\ synced' = IF call[a].op = "sync" THEN a ELSE synced
     ELSE Answer(a, "skipped") /\ UNCHANGED synced
  /\ UNCHANGED <<bd, made, deps, file, red, counters>>

ReadActive(a) ==
  /\ At(a, "sync", "read")
  /\ call' = [call EXCEPT ![a].at = "write", ![a].lines = file]
  /\ UNCHANGED <<bd, made, deps, file, red, synced, counters>>

reconcile_active_tables(a) ==
  /\ At(a, "sync", "write")
  /\ LET lines == _reconcile_one(call[a].lines, call[a].statuses)
     IN file' = IF lines = call[a].lines THEN file ELSE lines
  /\ synced' = IF synced = a THEN "settled" ELSE "none"
  /\ Answer(a, "done")
  /\ UNCHANGED <<bd, made, deps, red, counters>>

\* --check works on a copy.
_active_sync_check(a) ==
  /\ At(a, "check", "read")
  /\ Answer(a, IF _reconcile_one(file, call[a].statuses) = file THEN "coherent" ELSE "drift")
  /\ UNCHANGED <<bd, made, deps, file, red, synced, counters>>

-----------------------------------------------------------------------------
(* Everyone else.                                                          *)

OutsideStep == outside < MaxOutside /\ outside' = outside + 1 /\ UNCHANGED calls

BdUpdate ==
  /\ OutsideStep
  /\ \E b \in made :
       \/ \E s \in Statuses \ {bd[b].status} : bd' = [bd EXCEPT ![b].status = s]
       \/ ~bd[b].epic /\ bd' = [bd EXCEPT ![b].epic = TRUE]
  /\ Disturbed
  /\ UNCHANGED <<made, deps, file, red, call>>

\* The coordinator writes the table, or a remark into it.
EditTable ==
  /\ OutsideStep
  /\ \/ /\ file = Skeleton
        /\ \E s \in Starts : s.file \notin {Skeleton, NoFile} /\ file' = s.file
     \/ \E i \in DOMAIN file :
          /\ IsRow(file[i]) /\ i > _find_status_column(file).head + 1
          /\ _find_status_column(file).col \in DOMAIN file[i].cells
          /\ \E w \in {"done", "ready"} :
               file' = [file EXCEPT ![i].cells[_find_status_column(file).col] = Rich(w)]
  /\ file' # file
  /\ Disturbed
  /\ UNCHANGED <<bd, made, deps, red, call>>

EditTree ==
  /\ OutsideStep
  /\ \E c \in Breakable :
       LET now == IF c \in red THEN red \ {c} ELSE red \cup {c} IN
       /\ red' = now
       /\ call' = [a \in Agents |->
            IF Running(a) /\ call[a].op = "complete_bead"
            THEN [call[a] EXCEPT !.always = @ \cap now, !.ever = @ \cup now] ELSE call[a]]
  /\ UNCHANGED <<bd, made, deps, file, synced>>

\* A bd call that times out ends the call as a crash does: with no answer.
Die(a) ==
  /\ Running(a) /\ OutsideStep
  /\ call' = [call EXCEPT ![a] = NoCall]
  /\ synced' = IF synced = a THEN "none" ELSE synced
  /\ UNCHANGED <<bd, made, deps, file, red>>

-----------------------------------------------------------------------------
BeadInit ==
  /\ \E s \in Starts :
       /\ made = s.made /\ deps = s.deps /\ file = s.file /\ red = s.red
       /\ bd = [b \in Beads |-> [status |-> "open", epic |-> b \in s.made]]
  /\ call = [a \in Agents |-> NoCall]
  /\ synced = "none" /\ calls = 0 /\ outside = 0

BeadNext ==
  \/ \E a \in Agents :
       \/ task_init(a) \/ complete_bead(a) \/ checkpoint(a) \/ active_sync(a)
       \/ run_ci_gate(a) \/ _run_test_suite(a)
       \/ _append_active_note(a) \/ ReadTable(a) \/ _set_bead_table_status(a)
       \/ _has_active_table(a) \/ ReadActive(a) \/ reconcile_active_tables(a)
       \/ _active_sync_check(a) \/ Die(a)
       \/ \E r \in Replies : \/ _bd_create_bead(a, r) \/ dep_add(a, r) \/ _bd_show(a, r)
                             \/ bd_close(a, r) \/ comments_add(a, r) \/ _query_bd_statuses(a, r)
  \/ BdUpdate \/ EditTable \/ EditTree

-----------------------------------------------------------------------------
(* Properties.                                                             *)

\* What a row should say of a bead.
Expected(b) ==
  CASE bd[b].status = "closed" -> "done"
    [] bd[b].status = "in_progress" -> "in progress"
    [] bd[b].status = "open" ->
         IF \E x \in made : <<b, x>> \in deps /\ bd[x].status # "closed" THEN "blocked" ELSE "ready"
    [] OTHER -> "none"

HasRow(i, b) == i > 2 /\ IsRow(file[i]) /\ Len(file[i].cells) >= 3 /\ file[i].cells[1].word = b

\* Once an active-sync has run with nobody changing bd or the file meanwhile, and until
\* somebody does, the Status cell of every row agrees with bd, whatever the calls before
\* it did to the table and wherever they died (reconcile_active_tables; a table's Status
\* is its third column).
SyncAgrees ==
  synced = "settled" =>
    \A i \in DOMAIN file, b \in made :
      HasRow(i, b) /\ Expected(b) # "none" => file[i].cells[3].word = Expected(b)

\* Such a sync changes Status cells that disagree with bd and nothing else: no other
\* column, no remark behind a word that agrees, no row bd knows nothing about.
SyncTouchesOnlyDrift ==
  [][\A a \in Agents : synced = a /\ synced' = "settled" =>
       /\ Len(file') = Len(file)
       /\ \A i \in DOMAIN file :
            file'[i] # file[i] =>
              \E b \in made :
                /\ HasRow(i, b)
                /\ Expected(b) \notin {"none", file[i].cells[3].word}
                /\ file'[i] = [file[i] EXCEPT !.cells[3] = Cell(Expected(b))]]_beadVars

\* The gate's verdict under edits of the tree while it runs (run_ci_gate's two honesty
\* invariants): a check that failed all through a complete_bead keeps it from passing and
\* is in its findings however many failed before it; and a FAIL names only checks that did
\* fail at some time in the call.
HonestVerdict ==
  \A a \in Agents : LET c == call[a] IN
    c.op = "complete_bead" /\ c.at = "answered" =>
      LET asked == IF c.tests THEN Checks ELSE Checks \ {"tests"} IN
      /\ c.verdict = "PASS" => c.always \cap asked = {}
      /\ c.verdict = "FAIL" => c.failing # {} /\ c.always \cap asked \subseteq c.failing
                               /\ c.failing \subseteq c.ever
=============================================================================
