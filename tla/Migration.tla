----------------------------- MODULE Migration -----------------------------
(***************************************************************************)
(* create_schema on an index written by an earlier release: the statements *)
(* it runs, each committed on its own (executescript and ALTER TABLE), by  *)
(* processes that may be killed between two of them or run at once.        *)
(***************************************************************************)
EXTENDS Naturals, Sequences

CONSTANTS
  Callers,   \* processes that open the index: lint, reindex, watcher, MCP server
  NodeRows, EdgeRows, DocRows, ForeignRows,   \* what the earlier release stored
  MaxCalls, MaxKills                          \* bounds

ASSUME MigrationConstants == MaxCalls \in Nat /\ MaxKills \in Nat

VARIABLES
  db,         \* [names of the tables there are -> table]
  stored,     \* [Tables -> rows the earlier release left]
  caller,     \* [Callers -> connection and progress]
  completed,  \* the last call returned normally
  disturbed,  \* a call was killed, or two overlapped
  calls, kills

mvars == <<db, stored, caller, completed, disturbed, calls, kills>>

\* docs stands for the tables that refer to nodes and are never rebuilt.
Tables == {"nodes", "edges", "docs", "foreign_edges"}

\* The names a rebuild renames a table to, of a migration each.
KindOld(table) == IF table = "nodes" THEN "nodes_kindmig_old" ELSE "edges_kindmig_old"
LifeOld(table) ==
  CASE table = "nodes" -> "nodes_lifemig_old" [] table = "edges" -> "edges_lifemig_old"
    [] OTHER -> "foreign_edges_lifemig_old"
Copies(table) ==
  CASE table = "nodes" -> {KindOld("nodes"), LifeOld("nodes")}
    [] table = "edges" -> {"edges_old", KindOld("edges"), LifeOld("edges")}
    [] table = "foreign_edges" -> {LifeOld("foreign_edges")}
    [] OTHER -> {}

-----------------------------------------------------------------------------
(* Tables as their DDL: which columns and checks it has, and the table its *)
(* references bind to. A row that loses its reference counts as lost.      *)

Parent(table) == IF table \in {"edges", "docs"} THEN "nodes" ELSE ""
Ddl(table, lifecycle, contract, kindCheck, external) ==
  [lifecycle |-> lifecycle, contract |-> contract, kindCheck |-> kindCheck,
   external |-> external, parent |-> Parent(table), rows |-> {}]
Canonical(table) == Ddl(table, TRUE, TRUE, FALSE, TRUE)
ContractEdges == Ddl("edges", TRUE, TRUE, TRUE, FALSE)

\* The schema after the first v of its changes, in the order they were made.
Earlier(v) ==
  [t \in {"nodes", "edges", "docs"} \cup (IF v >= 3 THEN {"foreign_edges"} ELSE {}) |->
     CASE t = "nodes" -> [Ddl(t, v >= 1, v >= 2, v < 4, v >= 5) EXCEPT !.rows = NodeRows]
       [] t = "edges" -> [Ddl(t, v >= 1, v >= 2, v < 4, v >= 5) EXCEPT !.rows = EdgeRows]
       [] t = "docs" -> [Canonical(t) EXCEPT !.rows = DocRows]
       [] t = "foreign_edges" -> [Ddl(t, TRUE, TRUE, FALSE, v >= 5) EXCEPT !.rows = ForeignRows]]

-----------------------------------------------------------------------------
(* Statements and scripts.                                                 *)

Pragma(p, on) == [do |-> "pragma", pragma |-> p, on |-> on]
Rename(t, o) == [do |-> "rename", table |-> t, to |-> o]
Create(t, ddl) == [do |-> "create", table |-> t, ddl |-> ddl]
CreateIfMissing(t) == [do |-> "ensure", table |-> t]
Copy(o, t) == [do |-> "copy", from |-> o, table |-> t]
Drop(t) == [do |-> "drop", table |-> t]
AddLifecycle(t) == [do |-> "add", table |-> t]

_SCHEMA_SQL == <<CreateIfMissing("nodes"), CreateIfMissing("edges"),
                 CreateIfMissing("foreign_edges"), CreateIfMissing("docs")>>

\* Mutants: without the second pragma, with foreign keys left on, and the drop first.
WithoutLegacy(table, old) ==
  <<Pragma("fk", FALSE), Rename(table, old), Create(table, Canonical(table)),
    Copy(old, table), Drop(old), Pragma("fk", TRUE)>>
KeysLeftOn(table, old) ==
  <<Pragma("legacy", TRUE), Rename(table, old), Create(table, Canonical(table)),
    Copy(old, table), Drop(old), Pragma("legacy", FALSE)>>
_rebuild_table(table, old) ==
  <<Pragma("fk", FALSE), Pragma("legacy", TRUE),
    Rename(table, old), Create(table, Canonical(table)),
    Copy(old, table), Drop(old),
    Pragma("legacy", FALSE), Pragma("fk", TRUE)>>

ContractScript ==
  <<Pragma("fk", FALSE), Rename("edges", "edges_old"), Create("edges", ContractEdges),
    Copy("edges_old", "edges"), Drop("edges_old"), Pragma("fk", TRUE)>>

\* The steps of ensure_schema_migrations: each looks at the database when it is reached.
Exists(t) == t \in DOMAIN db
When(c, script) == IF c THEN script ELSE <<>>
_migrate_drop_kind_checks(t) ==
  When(Exists(t) /\ db[t].kindCheck, _rebuild_table(t, KindOld(t)))
_migrate_lifecycle_external(t) ==
  When(Exists(t) /\ ~db[t].external, _rebuild_table(t, LifeOld(t)))
_add_lifecycle(t) == When(Exists(t) /\ ~db[t].lifecycle, <<AddLifecycle(t)>>)
_migrate_edges_contract_kinds ==
  When(Exists("edges") /\ ~db["edges"].contract, ContractScript)
_ensure_foreign_edges_table ==
  When(~Exists("foreign_edges"), <<Create("foreign_edges", Canonical("foreign_edges"))>>)

Stages == 9
ensure_schema_migrations(stage) ==
  <<_add_lifecycle("nodes"), _add_lifecycle("edges"), _migrate_edges_contract_kinds,
    _ensure_foreign_edges_table,
    _migrate_drop_kind_checks("nodes"), _migrate_drop_kind_checks("edges"),
    _migrate_lifecycle_external("nodes"), _migrate_lifecycle_external("edges"),
    _migrate_lifecycle_external("foreign_edges")>>[stage]

-----------------------------------------------------------------------------
(* What SQLite does with a statement: when it raises, and its effect.      *)

TablesWithout(d, t) == [n \in DOMAIN d \ {t} |-> d[n]]
TablesWith(d, t, table) == [n \in DOMAIN d \cup {t} |-> IF n = t THEN table ELSE d[n]]

Raises(s) ==
  CASE s.do = "rename" -> ~Exists(s.table) \/ Exists(s.to)
    [] s.do = "create" -> Exists(s.table)
    [] s.do = "copy"   -> \/ ~Exists(s.from) \/ ~Exists(s.table)
                          \/ ~db[s.from].lifecycle
                          \/ db[s.table].rows \cap db[s.from].rows # {}
    [] s.do = "drop"   -> ~Exists(s.table)
    [] s.do = "add"    -> ~Exists(s.table) \/ db[s.table].lifecycle
    [] OTHER           -> FALSE

\* A rename takes the references to the table with it, but for a connection with keys off
\* and legacy_alter_table on.
Renamed(s, con) ==
  LET moved == TablesWith(TablesWithout(db, s.table), s.to, db[s.table]) IN
  [n \in DOMAIN moved |->
     IF moved[n].parent = s.table /\ (con.fk \/ ~con.legacy)
     THEN [moved[n] EXCEPT !.parent = s.to] ELSE moved[n]]

\* With keys on, dropping a table deletes its rows first, and that cascades.
Dropped(s, con) ==
  LET left == TablesWithout(db, s.table) IN
  [n \in DOMAIN left |->
     IF con.fk /\ left[n].parent = s.table THEN [left[n] EXCEPT !.rows = {}] ELSE left[n]]

After(s, con) ==
  CASE s.do = "rename" -> Renamed(s, con)
    [] s.do = "create" -> TablesWith(db, s.table, s.ddl)
    [] s.do = "ensure" -> IF Exists(s.table) THEN db ELSE TablesWith(db, s.table, Canonical(s.table))
    [] s.do = "copy"   -> [db EXCEPT ![s.table].rows = @ \cup db[s.from].rows]
    [] s.do = "drop"   -> Dropped(s, con)
    [] s.do = "add"    -> [db EXCEPT ![s.table].lifecycle = TRUE, ![s.table].external = TRUE]
    [] OTHER           -> db

-----------------------------------------------------------------------------
(* Steps.                                                                  *)

Away == [stage |-> 0, script |-> <<>>, fk |-> FALSE, legacy |-> FALSE]
open_db == [stage |-> 1, script |-> _SCHEMA_SQL, fk |-> TRUE, legacy |-> FALSE]
Quiet == \A c \in Callers : caller[c].stage = 0

create_schema(c) ==
  /\ caller[c].stage = 0 /\ calls < MaxCalls
  /\ calls' = calls + 1 /\ completed' = FALSE
  /\ disturbed' = (disturbed \/ ~Quiet)
  /\ caller' = [caller EXCEPT ![c] = open_db]
  /\ UNCHANGED <<db, stored, kills>>

Statement(c) ==
  LET s == Head(caller[c].script) IN
  /\ caller[c].script # <<>>
  /\ IF Raises(s)
     THEN caller' = [caller EXCEPT ![c] = Away] /\ UNCHANGED db
     ELSE /\ db' = After(s, caller[c])
          /\ caller' = [caller EXCEPT ![c].script = Tail(@),
                          ![c].fk = IF s.do = "pragma" /\ s.pragma = "fk" THEN s.on ELSE @,
                          ![c].legacy = IF s.do = "pragma" /\ s.pragma = "legacy" THEN s.on ELSE @]
  /\ UNCHANGED <<stored, completed, disturbed, calls, kills>>

Stage(c) ==
  /\ caller[c].stage \in 1..Stages /\ caller[c].script = <<>>
  /\ caller' = [caller EXCEPT ![c].stage = @ + 1,
                              ![c].script = ensure_schema_migrations(caller[c].stage)]
  /\ UNCHANGED <<db, stored, completed, disturbed, calls, kills>>

Return(c) ==
  /\ caller[c].stage > Stages /\ caller[c].script = <<>>
  /\ caller' = [caller EXCEPT ![c] = Away] /\ completed' = TRUE
  /\ UNCHANGED <<db, stored, disturbed, calls, kills>>

Killed(c) ==
  /\ caller[c].stage > 0 /\ kills < MaxKills
  /\ caller' = [caller EXCEPT ![c] = Away] /\ kills' = kills + 1 /\ disturbed' = TRUE
  /\ UNCHANGED <<db, stored, completed, calls>>

MigrationInit ==
  /\ db \in {Earlier(v) : v \in 0..5} \cup {<<>>}
  /\ stored = [t \in Tables |-> IF t \in DOMAIN db THEN db[t].rows ELSE {}]
  /\ caller = [c \in Callers |-> Away]
  /\ completed = FALSE /\ disturbed = FALSE /\ calls = 0 /\ kills = 0

MigrationNext == \E c \in Callers : \/ create_schema(c) \/ Statement(c) \/ Stage(c)
                                    \/ Return(c) \/ Killed(c)

-----------------------------------------------------------------------------
(* Properties.                                                             *)

\* From every earlier schema one undisturbed call reaches today's: the columns, the checks
\* and the references of each table, every row in it, and no copy left behind; the call
\* after it finds nothing to do.
UpgradeKeepsRows ==
  completed /\ Quiet /\ ~disturbed =>
    /\ DOMAIN db = Tables
    /\ \A t \in Tables : db[t] = [Canonical(t) EXCEPT !.rows = stored[t]]

\* Whatever is killed and whoever runs at once, no row is destroyed: it is in its table or
\* in a copy a rebuild left. The order copy, drop and the pragmas round them see to it.
RowsNeverDestroyed ==
  \A t \in Tables :
    stored[t] \subseteq UNION {db[n].rows : n \in ({t} \cup Copies(t)) \cap DOMAIN db}
=============================================================================
