------------------------------- MODULE Reindex -------------------------------
(***************************************************************************)
(* Inside a reindex: the full and the incremental pipeline as the sequence *)
(* of transactions they commit, the working tree being edited around (or   *)
(* during) them, and a process that may die between two commits.           *)
(*                                                                         *)
(* A row of docs or code_symbols is what it was built from: the version of *)
(* the file and, for a doc, the version of the graph that gave it its node *)
(* or, for code, the installed tree-sitter grammars.  One version of       *)
(* `graph` stands for all files under .beadloom/_graph.  Every code        *)
(* version has symbols, and each node one doc and at most one code file;   *)
(* module SyncState has the general case and the edit-hash half of the     *)
(* baselines.                                                              *)
(***************************************************************************)
EXTENDS Naturals, Sequences

CONSTANTS
  Docs, Codes,       \* files of kind "doc" and "code"
  Versions, Graphs,  \* contents of a file, contents of the graph directory
  Parsers,           \* sets of grammars that may be installed
  DocOf,             \* the doc of the node a code file is annotated with
  Absent,
  EditsDuringRun,    \* may files change while a reindex runs?
  MaxFailures        \* bound: runs that end early

ASSUME ReindexConstants ==
  /\ Docs \cap Codes = {}
  /\ DocOf \in [Codes -> Docs]
  /\ \A c1, c2 \in Codes : DocOf[c1] = DocOf[c2] => c1 = c2
  /\ Absent \notin Versions \cup Graphs \cup Parsers
  /\ EditsDuringRun \in BOOLEAN
  /\ MaxFailures \in Nat

Files == Docs \cup Codes
Entry == [ver : Versions, by : Graphs \cup Parsers]

VARIABLES
  disk, graph,        \* the working tree
  parser,             \* the grammars a process finds installed
  nodes,              \* the graph the nodes table was loaded from
  rows,               \* docs / code_symbols: the entries of each file
  imports,            \* code_imports: the version each file's imports were read from
  ledger,             \* sync_state: the entries each pair's symbols_hash was taken from
  fileIdx, graphIdx,  \* file_index
  parserIdx,          \* its sentinel row, the parser fingerprint
  pc,                 \* the step the running reindex is at, or "idle"
  scan, todo, snap,   \* its memory: scanned files, files left, snapshot of ledger
  done,               \* how the last run ended
  quiet,              \* history: nothing was edited since the last run began
  born,               \* history: the first baseline of each pair
  failures            \* number of runs that ended early

world == <<disk, graph, parser>>
index == <<fileIdx, graphIdx, parserIdx>>
tables == <<nodes, rows, imports, ledger, born>>
memory == <<scan, todo, snap>>
vars == <<world, index, tables, memory, pc, done, quiet, failures>>

NoRows == [c \in Codes |-> << >>]
NoFiles == [f \in Files |-> Absent]

\* The full pipeline, one commit per step.
NextStep ==
  [dropSyncState |-> "dropImports", dropImports |-> "dropSymbols",
   dropSymbols |-> "dropDocs", dropDocs |-> "dropNodes", dropNodes |-> "graph",
   graph |-> "docs", docs |-> "code", code |-> "imports", imports |-> "ledger",
   ledger |-> "fileIndex", fileIndex |-> "fingerprint"]

FullSteps == DOMAIN NextStep \cup {"fingerprint"}
IncrementalSteps == {"files", "rebuild", "fileIndexUpdate"}

TypeOK ==
  /\ disk \in [Files -> Versions \cup {Absent}] /\ graph \in Graphs
  /\ nodes \in Graphs \cup {Absent}
  /\ rows \in [Files -> Seq(Entry)]
  /\ imports \in [Codes -> Versions \cup {Absent}]
  /\ ledger \in [Codes -> Seq(Entry)]
  /\ fileIdx \in [Files -> Versions \cup {Absent}]
  /\ graphIdx \in Graphs \cup {Absent}
  /\ parser \in Parsers /\ parserIdx \in Parsers \cup {Absent}
  /\ pc \in {"idle"} \cup FullSteps \cup IncrementalSteps
  /\ scan \in [Files -> Versions \cup {Absent}]
  /\ todo \subseteq Files
  /\ snap \in [Codes -> Seq(Entry)]
  /\ done \in {"none", "full", "incremental", "failed"}
  /\ quiet \in BOOLEAN
  /\ born \in [Codes -> Seq(Entry)]
  /\ failures \in 0..MaxFailures

Init ==
  /\ disk \in [Files -> Versions \cup {Absent}] /\ graph \in Graphs /\ parser \in Parsers
  /\ nodes = Absent /\ rows = [f \in Files |-> << >>]
  /\ imports = [c \in Codes |-> Absent]
  /\ ledger = NoRows /\ born = NoRows
  /\ fileIdx = NoFiles /\ graphIdx = Absent /\ parserIdx = Absent
  /\ pc = "idle" /\ scan = NoFiles /\ todo = {} /\ snap = NoRows
  /\ done = "none" /\ quiet = FALSE /\ failures = 0

(***************************************************************************)
(* The working tree and the installed grammars.  A running process keeps   *)
(* the grammars it has found.                                              *)
(***************************************************************************)
MayEdit == EditsDuringRun \/ pc = "idle"

EditFile(f, v) ==
  /\ MayEdit /\ v # disk[f]
  /\ disk' = [disk EXCEPT ![f] = v]
  /\ quiet' = FALSE
  /\ UNCHANGED <<graph, parser, index, tables, memory, pc, done, failures>>

EditGraph(g) ==
  /\ MayEdit /\ g # graph
  /\ graph' = g
  /\ quiet' = FALSE
  /\ UNCHANGED <<disk, parser, index, tables, memory, pc, done, failures>>

InstallParser(p) ==
  /\ pc = "idle" /\ p # parser
  /\ parser' = p
  /\ quiet' = FALSE
  /\ UNCHANGED <<disk, graph, index, tables, memory, pc, done, failures>>

(***************************************************************************)
(* Starting a run.                                                         *)
(***************************************************************************)
NothingStored == graphIdx = Absent /\ fileIdx = NoFiles

GraphChangedNever == FALSE                    \* mutant: the graph check is lost
GraphChanged == graph # graphIdx

ParserChanged == parserIdx \notin {Absent, parser}

MustBeFull == NothingStored \/ ParserChanged \/ GraphChanged

Changed == {f \in Files : fileIdx[f] # Absent /\ scan[f] \notin {Absent, fileIdx[f]}}
Added == {f \in Files : fileIdx[f] = Absent /\ scan[f] # Absent}
Deleted == {f \in Files : fileIdx[f] # Absent /\ scan[f] = Absent}

BeginFull ==
  /\ pc' = "dropSyncState" /\ snap' = ledger
  /\ quiet' = TRUE
  /\ UNCHANGED <<world, index, tables, scan, todo, done, failures>>

StartFull == pc = "idle" /\ BeginFull

\* incremental_reindex hands over to reindex.
FallBack == pc = "idle" /\ MustBeFull /\ BeginFull

NothingChanged ==
  /\ pc = "idle" /\ ~MustBeFull /\ disk = fileIdx
  /\ done' = "incremental" /\ quiet' = TRUE
  /\ UNCHANGED <<world, index, tables, memory, pc, failures>>

BeginIncremental ==
  /\ pc = "idle" /\ ~MustBeFull /\ disk # fileIdx
  /\ pc' = "files" /\ scan' = disk
  /\ todo' = {f \in Files : disk[f] \notin {Absent, fileIdx[f]}}
  /\ snap' = ledger
  /\ quiet' = TRUE
  /\ UNCHANGED <<world, index, tables, done, failures>>

(***************************************************************************)
(* The incremental pipeline.                                               *)
(***************************************************************************)

\* Changed files are replaced, added ones inserted after them.
Due(f) == f \in todo /\ (f \in Added => todo \cap Changed = {})

\* docs.path is UNIQUE and docs.ref_id references nodes; a file may have gone.
Indexable(f) ==
  /\ disk[f] # Absent
  /\ f \in Docs => nodes # Absent /\ (f \in Added => rows[f] = << >>)

\* The node of a doc comes from the graph files, not from the nodes table.
EntryOf(f, g) == [ver |-> disk[f], by |-> IF f \in Docs THEN g ELSE parser]

Owned(c, fs) == c \in fs \/ DocOf[c] \in fs

\* One file, one commit; the first of them takes the deletions along.
IndexFile(f) ==
  /\ pc = "files" /\ Due(f) /\ Indexable(f)
  /\ rows' = [h \in Files |->
                IF h = f THEN Append(IF f \in Added THEN rows[f] ELSE << >>,
                                     EntryOf(f, graphIdx))
                ELSE IF h \in Deleted THEN << >> ELSE rows[h]]
  /\ ledger' = [c \in Codes |->
                  IF Owned(c, Deleted \cup ({f} \cap Changed)) THEN << >> ELSE ledger[c]]
  /\ todo' = todo \ {f}
  /\ UNCHANGED <<world, index, nodes, imports, born, pc, scan, snap, done, quiet, failures>>

\* _extract_and_store_routes commits, with the deletions if nothing did before.
StoreRoutes ==
  /\ pc = "files" /\ todo = {}
  /\ pc' = "rebuild"
  /\ rows' = [f \in Files |-> IF f \in Deleted THEN << >> ELSE rows[f]]
  /\ ledger' = [c \in Codes |-> IF Owned(c, Deleted) THEN << >> ELSE ledger[c]]
  /\ UNCHANGED <<world, index, nodes, imports, born, memory, done, quiet, failures>>

HasPair(c) == rows[c] # << >> /\ rows[DocOf[c]] # << >>

RebuiltFresh(c) == IF HasPair(c) THEN rows[c] ELSE << >>     \* mutant: no snapshot

\* _build_initial_sync_state: a pair keeps its snapshot, a new one starts afresh.
Rebuilt(c) == IF ~HasPair(c) THEN << >> ELSE IF snap[c] # << >> THEN snap[c] ELSE rows[c]

RebuildLedger ==
  /\ ledger' = [c \in Codes |-> Rebuilt(c)]
  /\ born' = [c \in Codes |-> IF Rebuilt(c) # << >> /\ born[c] # << >>
                                THEN born[c] ELSE Rebuilt(c)]
  /\ UNCHANGED <<nodes, rows, imports>>

RebuildIncremental ==
  /\ pc = "rebuild" /\ pc' = "fileIndexUpdate"
  /\ RebuildLedger
  /\ UNCHANGED <<world, index, memory, done, quiet, failures>>

Idle == pc' = "idle" /\ scan' = NoFiles /\ todo' = {} /\ snap' = NoRows

AffectedNotAdded == Changed \cup Deleted      \* mutant: added files are not recorded
Affected == Changed \cup Added \cup Deleted

\* _update_file_index: the hashes are those of the scan.
UpdateFileIndex ==
  /\ pc = "fileIndexUpdate"
  /\ fileIdx' = [f \in Files |-> IF f \in Affected THEN scan[f] ELSE fileIdx[f]]
  /\ done' = "incremental"
  /\ Idle
  /\ UNCHANGED <<world, graphIdx, parserIdx, tables, quiet, failures>>

(***************************************************************************)
(* The full pipeline.                                                      *)
(***************************************************************************)
Advance(step) ==
  /\ pc = step /\ pc' = NextStep[step]
  /\ UNCHANGED <<world, memory, done, quiet, failures>>

DropSyncState ==
  /\ Advance("dropSyncState")
  /\ ledger' = NoRows
  /\ UNCHANGED <<index, nodes, rows, imports, born>>

DropImports ==
  /\ Advance("dropImports")
  /\ imports' = [c \in Codes |-> Absent]
  /\ UNCHANGED <<index, nodes, rows, ledger, born>>

DropsNothing(fs) == rows                      \* mutant: a table missing from the drops
Without(fs) == [f \in Files |-> IF f \in fs THEN << >> ELSE rows[f]]

DropSymbols ==
  /\ Advance("dropSymbols")
  /\ rows' = Without(Codes)
  /\ UNCHANGED <<index, nodes, imports, ledger, born>>

DropDocs ==
  /\ Advance("dropDocs")
  /\ rows' = Without(Docs)
  /\ UNCHANGED <<index, nodes, imports, ledger, born>>

DropNodes ==
  /\ Advance("dropNodes")
  /\ nodes' = Absent
  /\ UNCHANGED <<index, rows, imports, ledger, born>>

LoadGraph ==
  /\ Advance("graph")
  /\ nodes' = graph
  /\ UNCHANGED <<index, rows, imports, ledger, born>>

Found(f) == IF disk[f] = Absent THEN << >> ELSE <<EntryOf(f, graph)>>

\* The files found are inserted next to the rows there are.
With(fs) == [f \in Files |-> IF f \in fs THEN rows[f] \o Found(f) ELSE rows[f]]

IndexDocs ==
  /\ Advance("docs")
  /\ rows' = With(Docs)
  /\ UNCHANGED <<index, nodes, imports, ledger, born>>

IndexCode ==
  /\ Advance("code")
  /\ rows' = With(Codes)
  /\ UNCHANGED <<index, nodes, imports, ledger, born>>

IndexImports ==
  /\ Advance("imports")
  /\ imports' = [c \in Codes |-> disk[c]]
  /\ UNCHANGED <<index, nodes, rows, ledger, born>>

BuildLedger ==
  /\ Advance("ledger")
  /\ RebuildLedger
  /\ UNCHANGED index

\* The hashes are those of a new scan, made after everything was indexed; the
\* sentinel is deleted with the rest.
PopulateFileIndex ==
  /\ Advance("fileIndex")
  /\ fileIdx' = disk /\ graphIdx' = graph /\ parserIdx' = Absent
  /\ UNCHANGED tables

StoreFingerprint ==
  /\ pc = "fingerprint"
  /\ parserIdx' = parser
  /\ done' = "full"
  /\ Idle
  /\ UNCHANGED <<world, fileIdx, graphIdx, tables, quiet, failures>>

(***************************************************************************)
(* A run that ends early: what was not committed is rolled back, and its   *)
(* memory is lost.                                                         *)
(***************************************************************************)
EndEarly ==
  /\ failures < MaxFailures /\ failures' = failures + 1
  /\ Idle
  /\ UNCHANGED <<world, index, tables, quiet>>

\* An exception: a file is gone, or the database refuses a doc (in a full run,
\* one whose node the graph has gained since the nodes were loaded).
Refuse ==
  /\ \/ pc = "files" /\ \E f \in Files : Due(f) /\ ~Indexable(f)
     \/ pc = "docs" /\ nodes # graph
  /\ EndEarly
  /\ done' = "failed"

Crash ==
  /\ pc # "idle"
  /\ EndEarly
  /\ done' = "failed"

FullStep ==
  \/ DropSyncState \/ DropImports \/ DropSymbols \/ DropDocs \/ DropNodes
  \/ LoadGraph \/ IndexDocs \/ IndexCode \/ IndexImports \/ BuildLedger
  \/ PopulateFileIndex \/ StoreFingerprint

IncrementalStep ==
  \/ \E f \in Files : IndexFile(f)
  \/ StoreRoutes \/ RebuildIncremental \/ UpdateFileIndex

Next ==
  \/ \E f \in Files, v \in Versions \cup {Absent} : EditFile(f, v)
  \/ \E g \in Graphs : EditGraph(g)
  \/ \E p \in Parsers : InstallParser(p)
  \/ StartFull \/ FallBack \/ NothingChanged \/ BeginIncremental
  \/ FullStep \/ IncrementalStep \/ Refuse \/ Crash

Spec == Init /\ [][Next]_vars

(***************************************************************************)
(* Properties.                                                             *)
(***************************************************************************)

\* The tables hold what a build from scratch of the working tree puts in them.
Current(f) ==
  \/ disk[f] = Absent /\ rows[f] = << >>
  \/ /\ disk[f] # Absent
     /\ rows[f] = <<[ver |-> disk[f], by |-> IF f \in Docs THEN graph ELSE parser]>>

BuiltFromDisk == nodes = graph /\ \A f \in Files : Current(f)

\* The contract of `beadloom reindex` ("rebuild the index from current
\* code/graph"): after a run during which nothing was edited, docs, symbols and
\* nodes are those a build from scratch gives - whichever files the incremental
\* path chose to skip, and whatever was edited since the run before.
QuietRunIsCurrent ==
  pc = "idle" /\ quiet /\ done \in {"full", "incremental"} => BuiltFromDisk

\* `reindex --full` repairs: the same, for full runs, after any history of
\* crashes, failed runs and edits in mid-run; the imports are then current too
\* (the incremental path leaves them as the last full run found them).
ImportsFromDisk == \A c \in Codes : imports[c] = disk[c]

FullRunRepairs ==
  pc = "idle" /\ quiet /\ done = "full" => BuiltFromDisk /\ ImportsFromDisk

\* The symbols baseline of a pair is never replaced while the pair exists: it
\* lives in memory only while a run has the table dropped, and comes back.
BaselineKept == \A c \in Codes : ledger[c] # << >> => ledger[c] = born[c]

\* An incremental run never stops at a file the database refuses.
RunCanProceed == pc = "files" /\ todo # {} => \E f \in todo : Due(f) /\ Indexable(f)

=============================================================================
