---------------------------- MODULE ReindexProofs ----------------------------
(***************************************************************************)
(* Proofs about Reindex, for every set of files, versions, graphs and      *)
(* grammars, and every bound on the number of failed runs, and about       *)
(* Migration, for every set of callers, rows and bound on kills.           *)
(***************************************************************************)
EXTENDS Reindex, Migration, TLAPS

(***************************************************************************)
(* Types.                                                                  *)
(***************************************************************************)

\* What a run reads from a file that is there is an entry.
LEMMA EntryType ==
  ASSUME TypeOK, NEW f \in Files, NEW g \in Graphs, disk[f] # Absent
  PROVE  EntryOf(f, g) \in Entry
  BY DEF TypeOK, EntryOf, Entry

\* So is what a full run inserts for a file, if anything.
LEMMA FoundType == ASSUME TypeOK, NEW f \in Files PROVE Found(f) \in Seq(Entry)
<1>1. CASE disk[f] = Absent
  BY <1>1 DEF Found
<1>2. CASE disk[f] # Absent
  <2>1. EntryOf(f, graph) \in Entry
    BY <1>2, EntryType DEF TypeOK
  <2> QED
    BY <1>2, <2>1 DEF Found
<1> QED
  BY <1>1, <1>2

LEMMA WithType == ASSUME TypeOK, NEW fs PROVE With(fs) \in [Files -> Seq(Entry)]
<1>1. \A f \in Files : Found(f) \in Seq(Entry)
  BY FoundType
<1>2. \A f \in Files : rows[f] \o Found(f) \in Seq(Entry)
  BY <1>1 DEF TypeOK
<1> QED
  BY <1>2 DEF With, TypeOK

LEMMA RebuiltType == ASSUME TypeOK, NEW c \in Codes PROVE Rebuilt(c) \in Seq(Entry)
  BY DEF TypeOK, Rebuilt, Files

\* Incremental runs start only over a populated file_index.
GraphStored == pc \in IncrementalSteps => graphIdx # Absent

LEMMA GraphStoredNext == ASSUME TypeOK, GraphStored, [Next]_vars PROVE GraphStored'
<1> USE DEF GraphStored, IncrementalSteps
<1>1. CASE BeginIncremental
  BY <1>1, ReindexConstants DEF BeginIncremental, MustBeFull, GraphChanged, index, TypeOK
<1>2. ASSUME NEW step \in DOMAIN NextStep, Advance(step) PROVE GraphStored'
  BY <1>2 DEF Advance, NextStep
<1>3. CASE FullStep
  BY <1>2, <1>3 DEF FullStep, NextStep, DropSyncState, DropImports, DropSymbols, DropDocs,
     DropNodes, LoadGraph, IndexDocs, IndexCode, IndexImports, BuildLedger,
     PopulateFileIndex, StoreFingerprint, Idle
<1>4. CASE IncrementalStep
  BY <1>4 DEF IncrementalStep, IndexFile, StoreRoutes, RebuildIncremental, UpdateFileIndex,
     Idle, index
<1>5. CASE \/ \E f \in Files, v \in Versions \cup {Absent} : EditFile(f, v)
           \/ \E g \in Graphs : EditGraph(g)
           \/ \E p \in Parsers : InstallParser(p)
           \/ StartFull \/ FallBack \/ NothingChanged
  BY <1>5 DEF EditFile, EditGraph, InstallParser, StartFull, FallBack, NothingChanged,
     BeginFull, index
<1>6. CASE Refuse \/ Crash \/ UNCHANGED vars
  BY <1>6 DEF Refuse, Crash, EndEarly, Idle, vars, index
<1> QED
  BY <1>1, <1>3, <1>4, <1>5, <1>6 DEF Next

LEMMA TypeNext == ASSUME TypeOK, GraphStored, [Next]_vars PROVE TypeOK'
<1> USE ReindexConstants DEF TypeOK, world, index, tables, memory
<1>1. ASSUME NEW f \in Files, NEW v \in Versions \cup {Absent}, EditFile(f, v) PROVE TypeOK'
  BY <1>1 DEF EditFile
<1>2. ASSUME NEW g \in Graphs, EditGraph(g) PROVE TypeOK'
  BY <1>2 DEF EditGraph
<1>3. ASSUME NEW p \in Parsers, InstallParser(p) PROVE TypeOK'
  BY <1>3 DEF InstallParser
<1>4. CASE StartFull \/ FallBack
  BY <1>4 DEF StartFull, FallBack, BeginFull, FullSteps, NextStep
<1>5. CASE NothingChanged
  BY <1>5 DEF NothingChanged
<1>6. CASE BeginIncremental
  BY <1>6 DEF BeginIncremental, IncrementalSteps
<1>7. ASSUME NEW f \in Files, IndexFile(f) PROVE TypeOK'
  <2>1. EntryOf(f, graphIdx) \in Entry
    BY <1>7, EntryType DEF IndexFile, Indexable, GraphStored, IncrementalSteps
  <2>2. rows' \in [Files -> Seq(Entry)]
    BY <1>7, <2>1 DEF IndexFile
  <2>3. ledger' \in [Codes -> Seq(Entry)]
    BY <1>7 DEF IndexFile
  <2> QED
    BY <1>7, <2>2, <2>3 DEF IndexFile
<1>8. CASE StoreRoutes
  <2>1. rows' \in [Files -> Seq(Entry)]
    BY <1>8 DEF StoreRoutes
  <2>2. ledger' \in [Codes -> Seq(Entry)]
    BY <1>8 DEF StoreRoutes
  <2>3. /\ pc' = "rebuild"
        /\ UNCHANGED <<world, index, nodes, imports, born, memory, done, quiet, failures>>
    BY <1>8 DEF StoreRoutes
  <2> QED
    BY <2>1, <2>2, <2>3 DEF IncrementalSteps
<1>9. ASSUME RebuildLedger
      PROVE  ledger' \in [Codes -> Seq(Entry)] /\ born' \in [Codes -> Seq(Entry)]
  BY <1>9, RebuiltType DEF RebuildLedger
<1>10. CASE RebuildIncremental
  BY <1>9, <1>10 DEF RebuildIncremental, RebuildLedger, IncrementalSteps
<1>11. ASSUME Idle
       PROVE  /\ pc' = "idle" /\ scan' \in [Files -> Versions \cup {Absent}]
              /\ todo' \subseteq Files /\ snap' \in [Codes -> Seq(Entry)]
  BY <1>11 DEF Idle, NoFiles, NoRows
<1>12. CASE UpdateFileIndex
  <2>1. fileIdx' \in [Files -> Versions \cup {Absent}]
    BY <1>12 DEF UpdateFileIndex
  <2> QED
    BY <1>11, <1>12, <2>1 DEF UpdateFileIndex
<1>13. ASSUME NEW step \in DOMAIN NextStep, Advance(step)
       PROVE  pc' \in FullSteps
  BY <1>13 DEF Advance, FullSteps, NextStep
<1>14. CASE DropSyncState \/ DropImports \/ DropSymbols \/ DropDocs \/ DropNodes \/ LoadGraph
  <2>1. pc' \in FullSteps
    BY <1>13, <1>14 DEF NextStep, DropSyncState, DropImports, DropSymbols, DropDocs, DropNodes,
       LoadGraph
  <2>2. \A fs : Without(fs) \in [Files -> Seq(Entry)]
    BY DEF Without
  <2>3. UNCHANGED <<world, memory, done, quiet, failures, index>>
    BY <1>14 DEF DropSyncState, DropImports, DropSymbols, DropDocs, DropNodes, LoadGraph, Advance
  <2>4. rows' \in [Files -> Seq(Entry)]
    BY <1>14, <2>2 DEF DropSyncState, DropImports, DropSymbols, DropDocs, DropNodes, LoadGraph
  <2>5. /\ nodes' \in Graphs \cup {Absent}
        /\ imports' \in [Codes -> Versions \cup {Absent}]
        /\ ledger' \in [Codes -> Seq(Entry)] /\ born' = born
    <3>1. NoRows \in [Codes -> Seq(Entry)]
      BY DEF NoRows
    <3>2. [c \in Codes |-> Absent] \in [Codes -> Versions \cup {Absent}]
      OBVIOUS
    <3>3. CASE DropSyncState
      BY <3>1, <3>3 DEF DropSyncState
    <3>4. CASE DropImports
      BY <3>2, <3>4 DEF DropImports
    <3>5. CASE DropSymbols \/ DropDocs \/ DropNodes \/ LoadGraph
      BY <3>5 DEF DropSymbols, DropDocs, DropNodes, LoadGraph
    <3> QED
      BY <1>14, <3>3, <3>4, <3>5
  <2> QED
    BY <2>1, <2>3, <2>4, <2>5
<1>15. CASE IndexDocs \/ IndexCode \/ IndexImports
  <2>1. pc' \in FullSteps
    BY <1>13, <1>15 DEF NextStep, IndexDocs, IndexCode, IndexImports
  <2>2. [c \in Codes |-> disk[c]] \in [Codes -> Versions \cup {Absent}]
    BY DEF Files
  <2> QED
    BY <1>15, <2>1, <2>2, WithType DEF IndexDocs, IndexCode, IndexImports, Advance
<1>16. CASE BuildLedger \/ PopulateFileIndex
  <2>1. pc' \in FullSteps
    BY <1>13, <1>16 DEF NextStep, BuildLedger, PopulateFileIndex
  <2> QED
    BY <1>9, <1>16, <2>1 DEF BuildLedger, PopulateFileIndex, RebuildLedger, Advance
<1>17. CASE StoreFingerprint
  BY <1>11, <1>17 DEF StoreFingerprint
<1>18. CASE Refuse \/ Crash
  BY <1>11, <1>18 DEF Refuse, Crash, EndEarly
<1>19. CASE UNCHANGED vars
  BY <1>19 DEF vars
<1> HIDE DEF TypeOK, world, index, tables, memory
<1>20. CASE FullStep
  BY <1>14, <1>15, <1>16, <1>17, <1>20 DEF FullStep
<1>21. CASE IncrementalStep
  BY <1>7, <1>8, <1>10, <1>12, <1>21 DEF IncrementalStep
<1> QED
  BY <1>1, <1>2, <1>3, <1>4, <1>5, <1>6, <1>18, <1>19, <1>20, <1>21 DEF Next

LEMMA TypeInit == Init => TypeOK /\ GraphStored
<1>1. NoRows \in [Codes -> Seq(Entry)]
  BY DEF NoRows
<1>2. NoFiles \in [Files -> Versions \cup {Absent}]
  BY DEF NoFiles
<1>3. [f \in Files |-> << >>] \in [Files -> Seq(Entry)]
  OBVIOUS
<1>4. [c \in Codes |-> Absent] \in [Codes -> Versions \cup {Absent}]
  OBVIOUS
<1>5. Init => /\ rows \in [Files -> Seq(Entry)]
              /\ imports \in [Codes -> Versions \cup {Absent}]
  BY <1>3, <1>4 DEF Init
<1>6. Init => /\ ledger \in [Codes -> Seq(Entry)] /\ born \in [Codes -> Seq(Entry)]
              /\ snap \in [Codes -> Seq(Entry)]
  BY <1>1 DEF Init
<1>7. Init => failures \in 0..MaxFailures
  BY ReindexConstants DEF Init
<1>8. Init => GraphStored
  BY DEF Init, GraphStored, IncrementalSteps
<1> HIDE DEF NoRows, NoFiles
<1> QED
  BY <1>2, <1>5, <1>6, <1>7, <1>8 DEF Init, TypeOK

\* No run leaves a row without a version or a doc without the graph it was
\* linked by, whatever it finds deleted and wherever it stops.
THEOREM TypeCorrect == Spec => []TypeOK
<1>1. Init => TypeOK /\ GraphStored
  BY TypeInit
<1>2. TypeOK /\ GraphStored /\ [Next]_vars => (TypeOK /\ GraphStored)'
  BY TypeNext, GraphStoredNext
<1> QED
  BY <1>1, <1>2, PTL DEF Spec

(***************************************************************************)
(* A full run, stage by stage: what it has dropped is empty, and what it   *)
(* has rebuilt since the last edit is what is on disk.                     *)
(***************************************************************************)
NoSymbolRows == pc \in {"dropDocs", "dropNodes", "graph", "docs", "code"} =>
                  \A c \in Codes : rows[c] = << >>
NoDocRows == pc \in {"dropNodes", "graph", "docs"} => \A d \in Docs : rows[d] = << >>

AfterImports == {"ledger", "fileIndex", "fingerprint"}
AfterCode == {"imports"} \cup AfterImports
AfterDocs == {"code"} \cup AfterCode
AfterGraph == {"docs"} \cup AfterDocs

GraphLoaded == quiet /\ pc \in AfterGraph => nodes = graph
DocsRebuilt == quiet /\ pc \in AfterDocs => \A d \in Docs : Current(d)
CodeRebuilt == quiet /\ pc \in AfterCode => \A c \in Codes : Current(c)
ImportsRebuilt == quiet /\ pc \in AfterImports => ImportsFromDisk

FullStages ==
  /\ NoSymbolRows /\ NoDocRows
  /\ GraphLoaded /\ DocsRebuilt /\ CodeRebuilt /\ ImportsRebuilt
  /\ FullRunRepairs

\* Inserting into an empty table gives the rows of a build from scratch.
LEMMA InsertedCurrent ==
  ASSUME TypeOK, NEW fs \in SUBSET Files, \A f \in fs : rows[f] = << >>,
         rows' = With(fs), UNCHANGED world
  PROVE  /\ \A f \in fs : Current(f)'
         /\ \A f \in Files \ fs : rows'[f] = rows[f]
<1>1. \A f \in Files \ fs : rows'[f] = rows[f]
  BY DEF With
<1>2. ASSUME NEW f \in fs PROVE Current(f)'
  <2>1. rows'[f] = rows[f] \o Found(f) /\ rows[f] = << >>
    BY DEF With
  <2>2. Found(f) \in Seq(Entry)
    BY FoundType
  <2>3. rows'[f] = Found(f)
    BY <2>1, <2>2
  <2> QED
    BY <2>3 DEF Found, EntryOf, Current, world
<1> QED
  BY <1>1, <1>2

LEMMA SameFileCurrent ==
  ASSUME NEW f \in Files, Current(f), UNCHANGED world, rows'[f] = rows[f]
  PROVE  Current(f)'
  BY DEF Current, world

LEMMA FullStagesNext == ASSUME TypeOK, FullStages, [Next]_vars PROVE FullStages'
<1> USE DEF FullStages, NoSymbolRows, NoDocRows, GraphLoaded, DocsRebuilt, CodeRebuilt,
            ImportsRebuilt, AfterImports, AfterCode, AfterDocs, AfterGraph, FullRunRepairs
<1>1. ASSUME quiet' = FALSE, UNCHANGED <<rows, pc>> PROVE FullStages'
  BY <1>1
<1>2. ASSUME NEW f \in Files, NEW v \in Versions \cup {Absent}, EditFile(f, v)
      PROVE  FullStages'
  BY <1>1, <1>2 DEF EditFile, tables
<1>3. ASSUME NEW g \in Graphs, EditGraph(g) PROVE FullStages'
  BY <1>1, <1>3 DEF EditGraph, tables
<1>4. ASSUME NEW p \in Parsers, InstallParser(p) PROVE FullStages'
  BY <1>1, <1>4 DEF InstallParser, tables
<1>5. ASSUME pc' \in {"dropSyncState", "dropImports", "dropSymbols"} \cup IncrementalSteps
      PROVE  FullStages'
  BY <1>5 DEF IncrementalSteps
<1>6. ASSUME pc' = "idle", done' # "full" PROVE FullStages'
  BY <1>6
<1>7. CASE StartFull \/ FallBack \/ BeginIncremental
  BY <1>5, <1>7 DEF StartFull, FallBack, BeginFull, BeginIncremental, IncrementalSteps
<1>8. CASE NothingChanged
  BY <1>6, <1>8 DEF NothingChanged
<1>9. CASE UpdateFileIndex \/ Refuse \/ Crash
  BY <1>6, <1>9 DEF UpdateFileIndex, Refuse, Crash, EndEarly, Idle
<1>10. CASE IncrementalStep /\ ~UpdateFileIndex
  BY <1>5, <1>10 DEF IncrementalStep, IndexFile, StoreRoutes, RebuildIncremental,
     IncrementalSteps
<1>11. CASE DropSyncState \/ DropImports
  BY <1>5, <1>11 DEF DropSyncState, DropImports, Advance, NextStep
<1>12. CASE DropSymbols
  <2>1. pc' = "dropDocs" /\ rows' = Without(Codes)
    BY <1>12 DEF DropSymbols, Advance, NextStep
  <2>2. \A c \in Codes : rows'[c] = << >>
    BY <2>1 DEF Without, Files
  <2> QED
    BY <2>1, <2>2
<1>13. CASE DropDocs
  <2>1. pc = "dropDocs" /\ pc' = "dropNodes" /\ rows' = Without(Docs)
    BY <1>13 DEF DropDocs, Advance, NextStep
  <2>2. /\ \A c \in Codes : rows'[c] = << >>
        /\ \A d \in Docs : rows'[d] = << >>
    BY <2>1 DEF Without, Files
  <2> QED
    BY <2>1, <2>2
<1>14. CASE DropNodes
  BY <1>14 DEF DropNodes, Advance, NextStep
<1>15. CASE LoadGraph
  BY <1>15 DEF LoadGraph, Advance, NextStep, world
<1>16. CASE IndexDocs
  <2>1. /\ pc = "docs" /\ pc' = "code" /\ rows' = With(Docs) /\ UNCHANGED world
        /\ nodes' = nodes /\ quiet' = quiet
    BY <1>16 DEF IndexDocs, Advance, NextStep
  <2>2. \A d \in Docs : Current(d)'
    BY <2>1, InsertedCurrent DEF Files
  <2>3. \A c \in Codes : rows'[c] = << >>
    BY <2>1, InsertedCurrent, ReindexConstants DEF Files
  <2> QED
    BY <2>1, <2>2, <2>3 DEF world
<1>17. CASE IndexCode
  <2>1. /\ pc = "code" /\ pc' = "imports" /\ rows' = With(Codes) /\ UNCHANGED world
        /\ nodes' = nodes /\ quiet' = quiet
    BY <1>17 DEF IndexCode, Advance, NextStep
  <2>2. \A c \in Codes : Current(c)'
    BY <2>1, InsertedCurrent DEF Files
  <2>3. \A d \in Docs : rows'[d] = rows[d]
    BY <2>1, InsertedCurrent, ReindexConstants DEF Files
  <2>4. quiet => \A d \in Docs : Current(d)'
    BY <2>1, <2>3, SameFileCurrent DEF Files
  <2> QED
    BY <2>1, <2>2, <2>4 DEF world
<1>18. CASE IndexImports \/ BuildLedger \/ PopulateFileIndex
  <2>1. /\ pc \in AfterCode /\ pc' \in AfterImports /\ UNCHANGED world
        /\ rows' = rows /\ nodes' = nodes /\ quiet' = quiet
    BY <1>18 DEF IndexImports, BuildLedger, PopulateFileIndex, RebuildLedger, tables, Advance,
       NextStep
  <2>2. quiet => \A f \in Files : Current(f)'
    BY <2>1, SameFileCurrent DEF Files
  <2>3. pc = "imports" => ImportsFromDisk'
    BY <1>18 DEF IndexImports, BuildLedger, PopulateFileIndex, Advance, ImportsFromDisk, world
  <2>4. pc # "imports" => imports' = imports /\ pc \in AfterImports
    BY <1>18, <2>1 DEF IndexImports, BuildLedger, PopulateFileIndex, RebuildLedger, tables,
       Advance
  <2>5. quiet => ImportsFromDisk'
    BY <2>1, <2>3, <2>4 DEF ImportsFromDisk, world
  <2> QED
    BY <2>1, <2>2, <2>5 DEF world, Files
<1>19. CASE StoreFingerprint
  <2>1. /\ pc = "fingerprint" /\ pc' = "idle" /\ UNCHANGED world
        /\ rows' = rows /\ nodes' = nodes /\ imports' = imports /\ quiet' = quiet
    BY <1>19 DEF StoreFingerprint, tables, Idle
  <2>2. quiet => nodes' = graph' /\ \A f \in Files : Current(f)'
    BY <2>1, SameFileCurrent DEF Files, world
  <2>3. quiet => ImportsFromDisk'
    BY <2>1 DEF ImportsFromDisk, world
  <2> QED
    BY <2>1, <2>2, <2>3 DEF BuiltFromDisk
<1>20. CASE UNCHANGED vars
  <2>1. UNCHANGED <<world, rows, nodes, imports, pc, quiet, done>>
    BY <1>20 DEF vars, tables
  <2>2. \A f \in Files : Current(f)' = Current(f)
    BY <2>1 DEF Current, world
  <2>3. ImportsFromDisk' = ImportsFromDisk
    BY <2>1 DEF ImportsFromDisk, world
  <2> QED
    BY <2>1, <2>2, <2>3 DEF BuiltFromDisk, world, Files
<1> HIDE DEF FullStages
<1>21. CASE FullStep
  BY <1>11, <1>12, <1>13, <1>14, <1>15, <1>16, <1>17, <1>18, <1>19, <1>21 DEF FullStep
<1>22. CASE IncrementalStep
  BY <1>9, <1>10, <1>22
<1> QED
  BY <1>2, <1>3, <1>4, <1>7, <1>8, <1>9, <1>20, <1>21, <1>22 DEF Next

\* `reindex --full` rebuilds: if nothing was edited while it ran, it leaves
\* docs, symbols, imports and nodes as a build from scratch would, whatever crashed or
\* failed runs and edits in mid-run had left behind.
THEOREM FullRunAlwaysRepairs == Spec => []FullRunRepairs
<1>1. Init => TypeOK /\ GraphStored /\ FullStages
  <2>1. Init => FullStages
    BY DEF Init, FullStages, NoSymbolRows, NoDocRows, GraphLoaded, DocsRebuilt, CodeRebuilt,
       ImportsRebuilt, AfterImports, AfterCode, AfterDocs, AfterGraph, FullRunRepairs
  <2> QED
    BY <2>1, TypeInit
<1>2. TypeOK /\ GraphStored /\ FullStages /\ [Next]_vars
        => (TypeOK /\ GraphStored /\ FullStages)'
  BY TypeNext, GraphStoredNext, FullStagesNext
<1>3. FullStages => FullRunRepairs
  BY DEF FullStages
<1> QED
  BY <1>1, <1>2, <1>3, PTL DEF Spec

(***************************************************************************)
(* The baselines, when every run comes to its end.                         *)
(***************************************************************************)
LedgerBuilt == {"idle", "fileIndexUpdate", "fileIndex", "fingerprint"}

\* While the ledger is being taken apart its baselines live in the snapshot.
BaselineStages ==
  /\ pc \in LedgerBuilt => ledger = born
  /\ pc \notin LedgerBuilt => snap = born /\ \A c \in Codes : ledger[c] \in {<< >>, snap[c]}

LEMMA RebuiltBaseline ==
  ASSUME snap = born, RebuildLedger PROVE ledger' = born'
<1>1. \A c \in Codes :
        Rebuilt(c) = IF Rebuilt(c) # << >> /\ born[c] # << >> THEN born[c] ELSE Rebuilt(c)
  BY DEF Rebuilt
<1> QED
  BY <1>1, Zenon DEF RebuildLedger

LEMMA BaselineStagesNext ==
  ASSUME MaxFailures = 0, TypeOK, BaselineStages, [Next]_vars
  PROVE  BaselineStages'
<1> USE DEF BaselineStages, LedgerBuilt
<1>1. ~Refuse /\ ~Crash
  BY DEF Refuse, Crash, EndEarly, TypeOK
<1>2. CASE \/ \E f \in Files, v \in Versions \cup {Absent} : EditFile(f, v)
           \/ \E g \in Graphs : EditGraph(g)
           \/ \E p \in Parsers : InstallParser(p)
           \/ NothingChanged
  BY <1>2 DEF EditFile, EditGraph, InstallParser, NothingChanged, tables, memory
<1>3. CASE StartFull \/ FallBack \/ BeginIncremental
  BY <1>3 DEF StartFull, FallBack, BeginFull, BeginIncremental, tables
<1>4. ASSUME NEW f \in Files, IndexFile(f) PROVE BaselineStages'
  <2>1. /\ pc = "files" /\ pc' = pc /\ snap' = snap /\ born' = born
        /\ \A c \in Codes : ledger'[c] \in {<< >>, ledger[c]}
    BY <1>4 DEF IndexFile
  <2> QED
    BY <2>1
<1>5. CASE StoreRoutes
  <2>1. /\ pc = "files" /\ pc' = "rebuild" /\ snap' = snap /\ born' = born
        /\ \A c \in Codes : ledger'[c] \in {<< >>, ledger[c]}
    BY <1>5 DEF StoreRoutes, memory
  <2> QED
    BY <2>1
<1>6. CASE RebuildIncremental \/ BuildLedger
  <2>1. pc \notin LedgerBuilt /\ pc' \in LedgerBuilt /\ RebuildLedger
    BY <1>6 DEF RebuildIncremental, BuildLedger, Advance, NextStep
  <2> QED
    BY <2>1, RebuiltBaseline
<1>7. CASE UpdateFileIndex \/ PopulateFileIndex \/ StoreFingerprint
  BY <1>7 DEF UpdateFileIndex, PopulateFileIndex, StoreFingerprint, Idle, Advance, NextStep,
     tables
<1>8. CASE DropSyncState
  <2>1. /\ pc = "dropSyncState" /\ pc' = "dropImports" /\ snap' = snap /\ born' = born
        /\ \A c \in Codes : ledger'[c] = << >>
    BY <1>8 DEF DropSyncState, Advance, NextStep, memory, NoRows
  <2> QED
    BY <2>1
<1>9. CASE \/ DropImports \/ DropSymbols \/ DropDocs \/ DropNodes \/ LoadGraph
           \/ IndexDocs \/ IndexCode \/ IndexImports
  <2>1. /\ pc \notin LedgerBuilt /\ pc' \notin LedgerBuilt
        /\ UNCHANGED <<snap, born, ledger>>
    BY <1>9 DEF DropImports, DropSymbols, DropDocs, DropNodes, LoadGraph, IndexDocs, IndexCode,
       IndexImports, Advance, NextStep, memory
  <2> QED
    BY <2>1
<1>10. CASE UNCHANGED vars
  BY <1>10 DEF vars, tables, memory
<1> HIDE DEF BaselineStages
<1>11. CASE FullStep
  BY <1>6, <1>7, <1>8, <1>9, <1>11 DEF FullStep
<1>12. CASE IncrementalStep
  BY <1>4, <1>5, <1>6, <1>7, <1>12 DEF IncrementalStep
<1> QED
  BY <1>1, <1>2, <1>3, <1>10, <1>11, <1>12 DEF Next

\* When no run ends early, no sequence of edits, full and incremental runs
\* replaces the symbols baseline of a pair that lasts (even when files change
\* while a run works on them).
THEOREM BaselineAlwaysKept == MaxFailures = 0 => (Spec => []BaselineKept)
<1> SUFFICES ASSUME MaxFailures = 0 PROVE Spec => []BaselineKept
  OBVIOUS
<1>1. Init => BaselineStages
  BY DEF Init, BaselineStages, LedgerBuilt
<1>2. TypeOK /\ BaselineStages /\ [Next]_vars => BaselineStages'
  BY BaselineStagesNext
<1>3. TypeOK /\ BaselineStages => BaselineKept
  BY DEF BaselineStages, BaselineKept
<1> QED
  BY <1>1, <1>2, <1>3, TypeCorrect, PTL DEF Spec

(***************************************************************************)
(* The incremental path, when every run comes to its end and nothing is    *)
(* edited while one is under way: between runs the tables hold what        *)
(* file_index says was indexed.                                            *)
(***************************************************************************)
Stored(f) ==
  IF fileIdx[f] = Absent THEN << >>
  ELSE <<[ver |-> fileIdx[f], by |-> IF f \in Docs THEN graphIdx ELSE parserIdx]>>

IndexTold ==
  /\ nodes = graphIdx /\ graphIdx # Absent /\ parserIdx # Absent
  /\ \A f \in Files : rows[f] = Stored(f)

IdleStage == pc = "idle" => NothingStored \/ IndexTold
RunIsQuiet == pc # "idle" => quiet
ScanStage ==
  pc \in IncrementalSteps =>
    /\ nodes = graph /\ graphIdx = graph /\ parserIdx = parser
    /\ scan = disk
FilesStage ==
  pc = "files" =>
    /\ \A f \in todo : f \in Changed \cup Added /\ rows[f] = Stored(f)
    /\ \A f \in Files \ (todo \cup Deleted) : Current(f)
RebuildStage == pc \in {"rebuild", "fileIndexUpdate"} => \A f \in Files : Current(f)
FingerprintStage == pc = "fingerprint" => fileIdx = disk /\ graphIdx = graph

QuietStages ==
  /\ IdleStage /\ RunIsQuiet /\ ScanStage /\ FilesStage /\ RebuildStage /\ FingerprintStage
  /\ QuietRunIsCurrent

\* What the index tells of a file that has not changed is still so.
LEMMA StoredCurrent ==
  ASSUME NEW f \in Files, rows[f] = Stored(f), fileIdx[f] = disk[f],
         graphIdx = graph, parserIdx = parser
  PROVE  Current(f)
  BY DEF Stored, Current

\* After a run that indexed what the index now tells, the index is right.
LEMMA EndOfRun ==
  ASSUME TypeOK', (nodes = graph)', (graphIdx = graph)', (parserIdx = parser)',
         (fileIdx = disk)', \A f \in Files : Current(f)'
  PROVE  (IndexTold /\ BuiltFromDisk)'
<1>1. \A f \in Files : (rows[f] = Stored(f))'
  BY DEF Current, Stored
<1>2. (graph # Absent /\ parser # Absent)'
  BY ReindexConstants DEF TypeOK
<1> QED
  BY <1>1, <1>2 DEF IndexTold, BuiltFromDisk

\* A file handled by the incremental path has the rows of a build from scratch.
LEMMA IndexFileCurrent ==
  ASSUME TypeOK, ScanStage, FilesStage, NEW f \in Files, IndexFile(f)
  PROVE  /\ Current(f)'
         /\ \A h \in Files \ (Deleted \cup {f}) : rows'[h] = rows[h]
<1>1. pc = "files" /\ f \in todo /\ disk[f] # Absent /\ UNCHANGED world
  BY DEF IndexFile, Due, Indexable
<1>2. graphIdx = graph /\ rows[f] = Stored(f)
  BY <1>1 DEF ScanStage, FilesStage, IncrementalSteps
<1>3. rows'[f] = Append(IF f \in Added THEN rows[f] ELSE << >>, EntryOf(f, graphIdx))
  BY DEF IndexFile
<1>4. f \in Added => rows[f] = << >>
  BY <1>2 DEF Added, Stored
<1>5. rows'[f] = <<EntryOf(f, graph)>>
  <2>1. (IF f \in Added THEN rows[f] ELSE << >>) = << >>
    BY <1>4
  <2>2. rows'[f] = Append(<< >>, EntryOf(f, graph))
    BY <1>2, <1>3, <2>1
  <2>3. EntryOf(f, graph) \in Entry
    BY <1>1, EntryType DEF TypeOK
  <2>4. \A e \in Entry : Append(<< >>, e) = <<e>>
    OBVIOUS
  <2> QED
    BY <2>2, <2>3, <2>4
<1>6. Current(f)'
  BY <1>1, <1>5 DEF Current, EntryOf, world
<1>7. \A h \in Files \ (Deleted \cup {f}) : rows'[h] = rows[h]
  BY DEF IndexFile
<1> QED
  BY <1>6, <1>7

LEMMA QuietStagesNext ==
  ASSUME MaxFailures = 0, EditsDuringRun = FALSE, TypeOK, TypeOK', FullStages, QuietStages,
         [Next]_vars
  PROVE  QuietStages'
<1> USE DEF QuietStages, IdleStage, RunIsQuiet, ScanStage, FilesStage, RebuildStage,
            FingerprintStage, IncrementalSteps
<1>1. ~Refuse /\ ~Crash
  BY DEF Refuse, Crash, EndEarly, TypeOK
<1>2. CASE \/ \E f \in Files, v \in Versions \cup {Absent} : EditFile(f, v)
           \/ \E g \in Graphs : EditGraph(g)
           \/ \E p \in Parsers : InstallParser(p)
  <2>1. /\ pc = "idle" /\ pc' = "idle" /\ quiet' = FALSE
        /\ UNCHANGED <<index, nodes, rows>>
    BY <1>2 DEF EditFile, EditGraph, InstallParser, MayEdit, tables
  <2>2. (NothingStored \/ IndexTold)'
    BY <2>1 DEF NothingStored, IndexTold, Stored, index
  <2> QED
    BY <2>1, <2>2 DEF QuietRunIsCurrent
<1>3. CASE StartFull \/ FallBack
  BY <1>3 DEF StartFull, FallBack, BeginFull, QuietRunIsCurrent
<1>4. ASSUME pc = "idle", ~MustBeFull
      PROVE  IndexTold /\ graphIdx = graph /\ parserIdx = parser /\ nodes = graph
  BY <1>4 DEF MustBeFull, GraphChanged, ParserChanged, IndexTold
<1>5. CASE NothingChanged
  <2>1. pc = "idle" /\ ~MustBeFull /\ disk = fileIdx /\ pc' = pc /\ UNCHANGED <<world, index, nodes, rows>>
    BY <1>5 DEF NothingChanged, tables
  <2>2. \A f \in Files : Current(f)
    BY <1>4, <2>1, StoredCurrent DEF IndexTold
  <2>3. BuiltFromDisk'
    BY <1>4, <2>1, <2>2, SameFileCurrent DEF BuiltFromDisk, world
  <2>4. IndexTold'
    BY <1>4, <2>1 DEF IndexTold, Stored, index
  <2> QED
    BY <2>1, <2>3, <2>4 DEF QuietRunIsCurrent
<1>6. CASE BeginIncremental
  <2>1. /\ pc = "idle" /\ ~MustBeFull /\ pc' = "files" /\ scan' = disk /\ quiet' = TRUE
        /\ UNCHANGED <<world, index, nodes, rows>>
        /\ todo' = {f \in Files : disk[f] \notin {Absent, fileIdx[f]}}
    BY <1>6 DEF BeginIncremental, tables
  <2>2. \A f \in todo' : f \in (Changed \cup Added)' /\ rows'[f] = Stored(f)'
    BY <1>4, <2>1 DEF Changed, Added, IndexTold, Stored, index
  <2>3. ASSUME NEW f \in Files \ (todo' \cup Deleted') PROVE Current(f)'
    <3>1. fileIdx[f] = disk[f]
      BY <2>1, <2>3 DEF Deleted, index
    <3> QED
      BY <1>4, <2>1, <3>1, StoredCurrent, SameFileCurrent DEF IndexTold
  <2> QED
    BY <1>4, <2>1, <2>2, <2>3 DEF QuietRunIsCurrent, world, index
<1>7. ASSUME NEW f \in Files, IndexFile(f) PROVE QuietStages'
  <2>1. /\ pc = "files" /\ pc' = "files" /\ todo' = todo \ {f} /\ scan' = scan
        /\ UNCHANGED <<world, index, nodes, quiet>>
    BY <1>7 DEF IndexFile
  <2>2. Current(f)' /\ \A h \in Files \ (Deleted \cup {f}) : rows'[h] = rows[h]
    BY <1>7, IndexFileCurrent
  <2>3. Deleted' = Deleted /\ Changed' = Changed /\ Added' = Added
    BY <2>1 DEF Deleted, Changed, Added, index
  <2>4. \A h \in Changed \cup Added : h \in Files \ Deleted
    BY DEF Deleted, Changed, Added
  <2>5. \A h \in todo' : h \in (Changed \cup Added)' /\ rows'[h] = Stored(h)'
    BY <2>1, <2>2, <2>3, <2>4 DEF Stored, index
  <2>6. \A h \in Files \ (todo' \cup Deleted') : Current(h)'
    BY <2>1, <2>2, <2>3, SameFileCurrent
  <2> QED
    BY <2>1, <2>5, <2>6 DEF QuietRunIsCurrent, world, index
<1>8. CASE StoreRoutes
  <2>1. /\ pc = "files" /\ todo = {} /\ pc' = "rebuild" /\ scan' = scan
        /\ UNCHANGED <<world, index, nodes, quiet>>
        /\ rows' = [f \in Files |-> IF f \in Deleted THEN << >> ELSE rows[f]]
    BY <1>8 DEF StoreRoutes, memory
  <2>2. ASSUME NEW f \in Files PROVE Current(f)'
    <3>1. CASE f \in Deleted
      BY <2>1, <3>1 DEF Deleted, Current, world
    <3>2. CASE f \notin Deleted
      BY <2>1, <3>2, SameFileCurrent
    <3> QED
      BY <3>1, <3>2
  <2> QED
    BY <2>1, <2>2 DEF QuietRunIsCurrent, world, index
<1>9. CASE RebuildIncremental
  <2>1. /\ pc = "rebuild" /\ pc' = "fileIndexUpdate" /\ scan' = scan
        /\ UNCHANGED <<world, index, nodes, rows, quiet>>
    BY <1>9 DEF RebuildIncremental, RebuildLedger, memory
  <2>2. \A f \in Files : Current(f)'
    BY <2>1, SameFileCurrent
  <2> QED
    BY <2>1, <2>2 DEF QuietRunIsCurrent, world, index
<1>10. CASE UpdateFileIndex
  <2>1. /\ pc = "fileIndexUpdate" /\ pc' = "idle"
        /\ UNCHANGED <<world, graphIdx, parserIdx, nodes, rows>>
        /\ fileIdx' = [f \in Files |-> IF f \in Affected THEN scan[f] ELSE fileIdx[f]]
    BY <1>10 DEF UpdateFileIndex, Idle, tables
  <2>2. \A f \in Files : Current(f)'
    BY <2>1, SameFileCurrent
  <2>3. \A f \in Files : fileIdx'[f] = disk[f]
    BY <2>1 DEF Affected, Changed, Added, Deleted
  <2>4. fileIdx' = disk'
    BY <2>1, <2>3 DEF TypeOK, world
  <2>5. (IndexTold /\ BuiltFromDisk)'
    BY <2>1, <2>2, <2>4, EndOfRun DEF world
  <2> QED
    BY <2>1, <2>5 DEF QuietRunIsCurrent
<1>11. CASE FullStep /\ ~StoreFingerprint
  <2>1. /\ pc # "idle" /\ pc' \in FullSteps /\ pc' # "idle" /\ pc' \notin IncrementalSteps
        /\ UNCHANGED <<world, quiet>>
    BY <1>11 DEF FullStep, DropSyncState, DropImports, DropSymbols, DropDocs, DropNodes,
       LoadGraph, IndexDocs, IndexCode, IndexImports, BuildLedger, PopulateFileIndex, Advance,
       NextStep, FullSteps
  <2>2. pc' = "fingerprint" => fileIdx' = disk' /\ graphIdx' = graph'
    BY <1>11 DEF FullStep, DropSyncState, DropImports, DropSymbols, DropDocs, DropNodes,
       LoadGraph, IndexDocs, IndexCode, IndexImports, BuildLedger, PopulateFileIndex, Advance,
       NextStep, world
  <2> QED
    BY <2>1, <2>2 DEF QuietRunIsCurrent
<1>12. CASE StoreFingerprint
  <2>1. /\ pc = "fingerprint" /\ pc' = "idle" /\ parserIdx' = parser
        /\ UNCHANGED <<world, fileIdx, graphIdx, nodes, rows>>
    BY <1>12 DEF StoreFingerprint, Idle, tables
  <2>2. nodes = graph /\ \A f \in Files : Current(f)
    BY <2>1 DEF FullStages, GraphLoaded, DocsRebuilt, CodeRebuilt, AfterGraph, AfterDocs,
       AfterCode, AfterImports, Files
  <2>3. \A f \in Files : Current(f)'
    BY <2>1, <2>2, SameFileCurrent
  <2>4. (IndexTold /\ BuiltFromDisk)'
    BY <2>1, <2>2, <2>3, EndOfRun DEF world
  <2> QED
    BY <2>1, <2>4 DEF QuietRunIsCurrent
<1>13. CASE UNCHANGED vars
  <2>1. UNCHANGED <<world, index, nodes, rows, scan, todo, pc, quiet, done>>
    BY <1>13 DEF vars, tables, memory
  <2>2. /\ NothingStored' = NothingStored /\ IndexTold' = IndexTold
        /\ Changed' = Changed /\ Added' = Added /\ Deleted' = Deleted
    BY <2>1 DEF NothingStored, IndexTold, Stored, Changed, Added, Deleted, index
  <2>3. \A f \in Files : Current(f)' = Current(f) /\ Stored(f)' = Stored(f)
    BY <2>1 DEF Current, Stored, world, index
  <2> QED
    BY <2>1, <2>2, <2>3 DEF QuietRunIsCurrent, BuiltFromDisk, world, index, TypeOK
<1> HIDE DEF QuietStages
<1>14. CASE FullStep
  BY <1>11, <1>12, <1>14
<1>15. CASE IncrementalStep
  BY <1>7, <1>8, <1>9, <1>10, <1>15 DEF IncrementalStep
<1> QED
  BY <1>1, <1>2, <1>3, <1>5, <1>6, <1>13, <1>14, <1>15 DEF Next

LEMMA QuietInvariant ==
  ASSUME MaxFailures = 0, EditsDuringRun = FALSE
  PROVE  Spec => [](TypeOK /\ QuietStages)
<1>1. Init => TypeOK /\ GraphStored /\ FullStages /\ QuietStages
  <2>1. Init => FullStages
    BY DEF Init, FullStages, NoSymbolRows, NoDocRows, GraphLoaded, DocsRebuilt, CodeRebuilt,
       ImportsRebuilt, AfterImports, AfterCode, AfterDocs, AfterGraph, FullRunRepairs
  <2>2. Init => QuietStages
    BY DEF Init, QuietStages, IdleStage, RunIsQuiet, ScanStage, FilesStage, RebuildStage,
       FingerprintStage, IncrementalSteps, NothingStored, QuietRunIsCurrent
  <2> QED
    BY <2>1, <2>2, TypeInit
<1>2. TypeOK /\ GraphStored /\ FullStages /\ QuietStages /\ [Next]_vars
        => (TypeOK /\ GraphStored /\ FullStages /\ QuietStages)'
  BY TypeNext, GraphStoredNext, FullStagesNext, QuietStagesNext
<1> QED
  BY <1>1, <1>2, PTL DEF Spec

\* Skipping is safe: when no run ends early and nothing is edited while one is
\* under way, every run, full or incremental, leaves the tables as a build from
\* scratch would, for any sequence of edits between the runs.
THEOREM EveryQuietRunIsCurrent ==
  MaxFailures = 0 /\ EditsDuringRun = FALSE => (Spec => []QuietRunIsCurrent)
<1> SUFFICES ASSUME MaxFailures = 0, EditsDuringRun = FALSE PROVE Spec => []QuietRunIsCurrent
  OBVIOUS
<1>1. TypeOK /\ QuietStages => QuietRunIsCurrent
  BY DEF QuietStages
<1> QED
  BY <1>1, QuietInvariant, PTL

\* Under the same conditions an incremental run always has a file it can index.
THEOREM RunsAlwaysProceed ==
  MaxFailures = 0 /\ EditsDuringRun = FALSE => (Spec => []RunCanProceed)
<1> SUFFICES ASSUME MaxFailures = 0, EditsDuringRun = FALSE PROVE Spec => []RunCanProceed
  OBVIOUS
<1>1. TypeOK /\ QuietStages => RunCanProceed
  <2> SUFFICES ASSUME TypeOK, QuietStages, pc = "files", todo # {}
               PROVE  \E f \in todo : Due(f) /\ Indexable(f)
    BY DEF RunCanProceed
  <2>1. PICK f \in todo : f \in Added => todo \cap Changed = {}
    BY DEF Changed, Added
  <2>2. /\ f \in Files /\ f \in Changed \cup Added /\ rows[f] = Stored(f)
        /\ scan = disk /\ nodes = graph
    BY DEF TypeOK, QuietStages, ScanStage, FilesStage, IncrementalSteps
  <2>3. disk[f] # Absent /\ nodes # Absent
    BY <2>2, ReindexConstants DEF Changed, Added, TypeOK
  <2>4. f \in Added => rows[f] = << >>
    BY <2>2 DEF Added, Stored
  <2> QED
    BY <2>1, <2>3, <2>4 DEF Due, Indexable
<1> QED
  BY <1>1, QuietInvariant, PTL

-----------------------------------------------------------------------------
(* Upgrades: the inductive invariant.                                      *)

\* Which table moves to which name.
Moves == {<<"nodes", "nodes_kindmig_old">>, <<"nodes", "nodes_lifemig_old">>,
          <<"edges", "edges_old">>, <<"edges", "edges_kindmig_old">>, <<"edges", "edges_lifemig_old">>,
          <<"foreign_edges", "foreign_edges_lifemig_old">>}

\* Statements that move no row and destroy none.
PlainStatements ==
  {Pragma("fk", TRUE), Pragma("legacy", FALSE), Create("foreign_edges", Canonical("foreign_edges"))}
    \cup {CreateIfMissing(t) : t \in Tables} \cup {AddLifecycle(t) : t \in Tables}
Plain(sc) == sc \in Seq(PlainStatements)

\* What is left of the script of a rebuild, from its end to its start.
AtDrop(sc, o) == sc # <<>> /\ Head(sc) = Drop(o) /\ Plain(Tail(sc))
AtCopy(sc, t, o) == sc # <<>> /\ Head(sc) = Copy(o, t) /\ AtDrop(Tail(sc), o)
AtCreate(sc, t, o) ==
  /\ sc # <<>> /\ AtCopy(Tail(sc), t, o)
  /\ Head(sc) \in {Create(t, Canonical(t)), Create(t, ContractEdges)}
AtRename(sc, t, o) == sc # <<>> /\ Head(sc) = Rename(t, o) /\ AtCreate(Tail(sc), t, o)
AtLegacy(sc, t, o) == sc # <<>> /\ Head(sc) = Pragma("legacy", TRUE) /\ AtRename(Tail(sc), t, o)
AtKeys(sc, t, o) ==
  /\ sc # <<>> /\ Head(sc) = Pragma("fk", FALSE)
  /\ AtLegacy(Tail(sc), t, o) \/ AtRename(Tail(sc), t, o)

\* The copy that a caller has made and has to see to.
Holding(sc, t, o) == AtCreate(sc, t, o) \/ AtCopy(sc, t, o) \/ AtDrop(sc, o)

CallerFields == {"stage", "script", "fk", "legacy"}
TableFields == {"lifecycle", "contract", "kindCheck", "external", "parent", "rows"}

\* Every call is somewhere in a script, with its keys off wherever rows are moved.
CallerOK(c) ==
  /\ DOMAIN caller[c] = CallerFields
  /\ \/ Plain(caller[c].script)
     \/ \E m \in Moves : AtKeys(caller[c].script, m[1], m[2])
     \/ /\ caller[c].fk = FALSE
        /\ \E m \in Moves : \/ AtLegacy(caller[c].script, m[1], m[2])
                            \/ AtRename(caller[c].script, m[1], m[2])
                            \/ Holding(caller[c].script, m[1], m[2])

Shapes ==
  /\ DOMAIN caller = Callers /\ \A c \in Callers : CallerOK(c)
  /\ \A n \in DOMAIN db : DOMAIN db[n] = TableFields

Holds(c, o) == \E m \in Moves : m[2] = o /\ Holding(caller[c].script, m[1], m[2])

\* A copy that a caller holds is there, and nobody else holds it: a rename onto a table
\* that is there raises.
Copied ==
  \A c \in Callers, m \in Moves :
    Holds(c, m[2]) => /\ m[2] \in DOMAIN db
                      /\ \A d \in Callers : Holds(d, m[2]) => d = c

\* Copies whose drop is the next statement of some caller.
Doomed(o) == \E c \in Callers : AtDrop(caller[c].script, o)

\* Every row is in a table that is not about to be dropped.
Covered ==
  \A t \in Tables : \A r \in stored[t] :
    \E n \in ({t} \cup Copies(t)) \cap DOMAIN db : r \in db[n].rows /\ ~Doomed(n)

MigrationInv == Shapes /\ Copied /\ Covered

MigrationSpec == MigrationInit /\ [][MigrationNext]_mvars

-----------------------------------------------------------------------------
(* Scripts.                                                                *)

LEMMA MovesAre ==
  ASSUME NEW m \in Moves
  PROVE  /\ m[1] \in Tables /\ m[2] \notin Tables /\ m[2] \in Copies(m[1])
         /\ \A t \in Tables : m[2] \in Copies(t) => t = m[1]
  BY DEF Moves, Tables, Copies, KindOld, LifeOld

LEMMA CopiesAre ==
  ASSUME NEW t \in Tables
  PROVE  t \notin Copies(t) /\ \A n \in Copies(t) : n \notin Tables
  BY DEF Tables, Copies, KindOld, LifeOld

\* The statements behind the first of a sequence of two, three ... and so on.
LEMMA Tails ==
  /\ \A a : Head(<<a>>) = a /\ Tail(<<a>>) = <<>> /\ <<a>> # <<>>
  /\ \A a, b : Head(<<a, b>>) = a /\ Tail(<<a, b>>) = <<b>> /\ <<a, b>> # <<>>
  /\ \A a, b, c : Head(<<a, b, c>>) = a /\ Tail(<<a, b, c>>) = <<b, c>> /\ <<a, b, c>> # <<>>
  /\ \A a, b, c, d : /\ Head(<<a, b, c, d>>) = a /\ Tail(<<a, b, c, d>>) = <<b, c, d>>
                     /\ <<a, b, c, d>> # <<>>
  /\ \A a, b, c, d, e : /\ Head(<<a, b, c, d, e>>) = a /\ Tail(<<a, b, c, d, e>>) = <<b, c, d, e>>
                        /\ <<a, b, c, d, e>> # <<>>
  /\ \A a, b, c, d, e, f : /\ Head(<<a, b, c, d, e, f>>) = a
                           /\ Tail(<<a, b, c, d, e, f>>) = <<b, c, d, e, f>>
                           /\ <<a, b, c, d, e, f>> # <<>>
  /\ \A a, b, c, d, e, f, g : /\ Head(<<a, b, c, d, e, f, g>>) = a
                              /\ Tail(<<a, b, c, d, e, f, g>>) = <<b, c, d, e, f, g>>
                              /\ <<a, b, c, d, e, f, g>> # <<>>
  /\ \A a, b, c, d, e, f, g, h : /\ Head(<<a, b, c, d, e, f, g, h>>) = a
                                 /\ Tail(<<a, b, c, d, e, f, g, h>>) = <<b, c, d, e, f, g, h>>
                                 /\ <<a, b, c, d, e, f, g, h>> # <<>>
<1>1. \A a : Head(<<a>>) = a /\ Tail(<<a>>) = <<>> /\ <<a>> # <<>>
  OBVIOUS
<1>2. \A a, b : Head(<<a, b>>) = a /\ Tail(<<a, b>>) = <<b>> /\ <<a, b>> # <<>>
  OBVIOUS
<1>3. \A a, b, c : Head(<<a, b, c>>) = a /\ Tail(<<a, b, c>>) = <<b, c>> /\ <<a, b, c>> # <<>>
  OBVIOUS
<1>4. \A a, b, c, d : /\ Head(<<a, b, c, d>>) = a /\ Tail(<<a, b, c, d>>) = <<b, c, d>>
                      /\ <<a, b, c, d>> # <<>>
  OBVIOUS
<1>5. \A a, b, c, d, e : /\ Head(<<a, b, c, d, e>>) = a /\ Tail(<<a, b, c, d, e>>) = <<b, c, d, e>>
                         /\ <<a, b, c, d, e>> # <<>>
  OBVIOUS
<1>6. \A a, b, c, d, e, f : /\ Head(<<a, b, c, d, e, f>>) = a
                            /\ Tail(<<a, b, c, d, e, f>>) = <<b, c, d, e, f>>
                            /\ <<a, b, c, d, e, f>> # <<>>
  OBVIOUS
<1>7. \A a, b, c, d, e, f, g : /\ Head(<<a, b, c, d, e, f, g>>) = a
                               /\ Tail(<<a, b, c, d, e, f, g>>) = <<b, c, d, e, f, g>>
                               /\ <<a, b, c, d, e, f, g>> # <<>>
  OBVIOUS
<1>8. \A a, b, c, d, e, f, g, h : /\ Head(<<a, b, c, d, e, f, g, h>>) = a
                                  /\ Tail(<<a, b, c, d, e, f, g, h>>) = <<b, c, d, e, f, g, h>>
                                  /\ <<a, b, c, d, e, f, g, h>> # <<>>
  OBVIOUS
<1> QED
  BY <1>1, <1>2, <1>3, <1>4, <1>5, <1>6, <1>7, <1>8

LEMMA EndsArePlain ==
  /\ Plain(<<>>) /\ Plain(<<Pragma("fk", TRUE)>>)
  /\ Plain(<<Pragma("legacy", FALSE), Pragma("fk", TRUE)>>)
<1>1. Pragma("fk", TRUE) \in PlainStatements /\ Pragma("legacy", FALSE) \in PlainStatements
  BY DEF PlainStatements
<1>2. ASSUME NEW S, NEW a \in S, NEW b \in S
      PROVE  <<>> \in Seq(S) /\ <<b>> \in Seq(S) /\ <<a, b>> \in Seq(S)
  OBVIOUS
<1> QED
  BY <1>1, <1>2, Zenon DEF Plain

LEMMA RebuildScript ==
  ASSUME NEW t, NEW o
  PROVE  AtKeys(_rebuild_table(t, o), t, o)
<1> DEFINE p1 == Pragma("fk", FALSE)
           p2 == Pragma("legacy", TRUE)
           s1 == Rename(t, o)
           s2 == Create(t, Canonical(t))
           s3 == Copy(o, t)
           s4 == Drop(o)
           p3 == Pragma("legacy", FALSE)
           p4 == Pragma("fk", TRUE)
<1>1. _rebuild_table(t, o) = <<p1, p2, s1, s2, s3, s4, p3, p4>>
  BY DEF _rebuild_table
<1>2. Plain(<<p3, p4>>)
  BY EndsArePlain
<1> HIDE DEF p1, p2, s1, s2, s3, s4, p3, p4
<1>3. AtDrop(<<s4, p3, p4>>, o)
  <2>1. Head(<<s4, p3, p4>>) = s4 /\ Tail(<<s4, p3, p4>>) = <<p3, p4>> /\ <<s4, p3, p4>> # <<>>
    BY Tails
  <2> QED
    BY <2>1, <1>2 DEF AtDrop, s4
<1>4. AtCopy(<<s3, s4, p3, p4>>, t, o)
  <2> DEFINE sc == <<s3, s4, p3, p4>>
  <2>1. Head(sc) = s3 /\ Tail(sc) = <<s4, p3, p4>> /\ sc # <<>>
    BY Tails
  <2> QED
    BY <2>1, <1>3 DEF AtCopy, s3
<1>5. AtCreate(<<s2, s3, s4, p3, p4>>, t, o)
  <2> DEFINE sc == <<s2, s3, s4, p3, p4>>
  <2>1. Head(sc) = s2 /\ Tail(sc) = <<s3, s4, p3, p4>> /\ sc # <<>>
    BY Tails
  <2> QED
    BY <2>1, <1>4 DEF AtCreate, s2
<1>6. AtRename(<<s1, s2, s3, s4, p3, p4>>, t, o)
  <2> DEFINE sc == <<s1, s2, s3, s4, p3, p4>>
  <2>1. Head(sc) = s1 /\ Tail(sc) = <<s2, s3, s4, p3, p4>> /\ sc # <<>>
    BY Tails
  <2> QED
    BY <2>1, <1>5 DEF AtRename, s1
<1>7. AtLegacy(<<p2, s1, s2, s3, s4, p3, p4>>, t, o)
  <2> DEFINE sc == <<p2, s1, s2, s3, s4, p3, p4>>
  <2>1. Head(sc) = p2 /\ Tail(sc) = <<s1, s2, s3, s4, p3, p4>> /\ sc # <<>>
    BY Tails
  <2> QED
    BY <2>1, <1>6 DEF AtLegacy, p2
<1>8. AtKeys(<<p1, p2, s1, s2, s3, s4, p3, p4>>, t, o)
  <2> DEFINE sc == <<p1, p2, s1, s2, s3, s4, p3, p4>>
  <2>1. Head(sc) = p1 /\ Tail(sc) = <<p2, s1, s2, s3, s4, p3, p4>> /\ sc # <<>>
    BY Tails
  <2> QED
    BY <2>1, <1>7 DEF AtKeys, p1
<1> QED
  BY <1>1, <1>8

LEMMA EdgesScript == AtKeys(ContractScript, "edges", "edges_old")
<1> DEFINE p1 == Pragma("fk", FALSE)
           s1 == Rename("edges", "edges_old")
           s2 == Create("edges", ContractEdges)
           s3 == Copy("edges_old", "edges")
           s4 == Drop("edges_old")
           p4 == Pragma("fk", TRUE)
<1>1. ContractScript = <<p1, s1, s2, s3, s4, p4>>
  BY DEF ContractScript
<1>2. Plain(<<p4>>)
  BY EndsArePlain
<1> HIDE DEF p1, s1, s2, s3, s4, p4
<1>3. AtDrop(<<s4, p4>>, "edges_old")
  <2>1. Head(<<s4, p4>>) = s4 /\ Tail(<<s4, p4>>) = <<p4>> /\ <<s4, p4>> # <<>>
    BY Tails
  <2> QED
    BY <2>1, <1>2 DEF AtDrop, s4
<1>4. AtCopy(<<s3, s4, p4>>, "edges", "edges_old")
  <2>1. Head(<<s3, s4, p4>>) = s3 /\ Tail(<<s3, s4, p4>>) = <<s4, p4>> /\ <<s3, s4, p4>> # <<>>
    BY Tails
  <2> QED
    BY <2>1, <1>3 DEF AtCopy, s3
<1>5. AtCreate(<<s2, s3, s4, p4>>, "edges", "edges_old")
  <2> DEFINE sc == <<s2, s3, s4, p4>>
  <2>1. Head(sc) = s2 /\ Tail(sc) = <<s3, s4, p4>> /\ sc # <<>>
    BY Tails
  <2> QED
    BY <2>1, <1>4 DEF AtCreate, s2
<1>6. AtRename(<<s1, s2, s3, s4, p4>>, "edges", "edges_old")
  <2> DEFINE sc == <<s1, s2, s3, s4, p4>>
  <2>1. Head(sc) = s1 /\ Tail(sc) = <<s2, s3, s4, p4>> /\ sc # <<>>
    BY Tails
  <2> QED
    BY <2>1, <1>5 DEF AtRename, s1
<1>7. AtKeys(<<p1, s1, s2, s3, s4, p4>>, "edges", "edges_old")
  <2> DEFINE sc == <<p1, s1, s2, s3, s4, p4>>
  <2>1. Head(sc) = p1 /\ Tail(sc) = <<s1, s2, s3, s4, p4>> /\ sc # <<>>
    BY Tails
  <2> QED
    BY <2>1, <1>6 DEF AtKeys, p1
<1> QED
  BY <1>1, <1>7

\* Every stage of an upgrade is a plain script or a rebuild.
LEMMA StageScripts ==
  ASSUME NEW i \in 1 .. Stages
  PROVE  \/ Plain(ensure_schema_migrations(i))
         \/ \E m \in Moves : AtKeys(ensure_schema_migrations(i), m[1], m[2])
<1>1. ASSUME NEW t \in {"nodes", "edges"}
      PROVE  Plain(_add_lifecycle(t))
             /\ (\/ Plain(_migrate_drop_kind_checks(t))
                 \/ \E m \in Moves : AtKeys(_migrate_drop_kind_checks(t), m[1], m[2]))
  <2>1. Plain(<<>>) /\ Plain(<<AddLifecycle(t)>>)
    <3>1. AddLifecycle(t) \in PlainStatements
      BY DEF PlainStatements, Tables
    <3> HIDE DEF PlainStatements
    <3> QED
      BY <3>1 DEF Plain
  <2>2. <<t, KindOld(t)>> \in Moves
    BY DEF Moves, KindOld
  <2>3. AtKeys(_rebuild_table(t, KindOld(t)), t, KindOld(t))
    BY RebuildScript
  <2> QED
    BY <2>1, <2>2, <2>3 DEF _add_lifecycle, _migrate_drop_kind_checks, When
<1>2. ASSUME NEW t \in {"nodes", "edges", "foreign_edges"}
      PROVE  \/ Plain(_migrate_lifecycle_external(t))
             \/ \E m \in Moves : AtKeys(_migrate_lifecycle_external(t), m[1], m[2])
  <2>1. <<t, LifeOld(t)>> \in Moves
    BY DEF Moves, LifeOld
  <2>2. AtKeys(_rebuild_table(t, LifeOld(t)), t, LifeOld(t))
    BY RebuildScript
  <2> QED
    BY <2>1, <2>2, EndsArePlain DEF _migrate_lifecycle_external, When
<1>3. \/ Plain(_migrate_edges_contract_kinds)
      \/ \E m \in Moves : AtKeys(_migrate_edges_contract_kinds, m[1], m[2])
  <2>1. <<"edges", "edges_old">> \in Moves
    BY DEF Moves
  <2> QED
    BY <2>1, EdgesScript, EndsArePlain DEF _migrate_edges_contract_kinds, When
<1>4. Plain(_ensure_foreign_edges_table)
  <2>1. Create("foreign_edges", Canonical("foreign_edges")) \in PlainStatements
    BY DEF PlainStatements
  <2> HIDE DEF PlainStatements
  <2>2. Plain(<<>>) /\ Plain(<<Create("foreign_edges", Canonical("foreign_edges"))>>)
    BY <2>1 DEF Plain
  <2> QED
    BY <2>2 DEF _ensure_foreign_edges_table, When
<1>5. ensure_schema_migrations(i) \in
        {_add_lifecycle("nodes"), _add_lifecycle("edges"), _migrate_edges_contract_kinds,
         _ensure_foreign_edges_table, _migrate_drop_kind_checks("nodes"), _migrate_drop_kind_checks("edges"),
         _migrate_lifecycle_external("nodes"), _migrate_lifecycle_external("edges"),
         _migrate_lifecycle_external("foreign_edges")}
  BY DEF ensure_schema_migrations, Stages
<1> QED
  BY <1>1, <1>2, <1>3, <1>4, <1>5

\* What the first statement of a script is.
LEMMA HeadKinds ==
  ASSUME NEW sc, sc # <<>>
  PROVE  /\ Plain(sc) => Head(sc) \in PlainStatements /\ Plain(Tail(sc))
         /\ Plain(sc) => Head(sc).do \in {"pragma", "create", "ensure", "add"}
         /\ \A t, o : /\ AtDrop(sc, o) => Head(sc).do = "drop" /\ Head(sc).table = o
                      /\ AtCopy(sc, t, o) => Head(sc).do = "copy" /\ Head(sc).table = t /\ Head(sc).from = o
                      /\ AtCreate(sc, t, o) => Head(sc).do = "create"
                      /\ AtRename(sc, t, o) => Head(sc).do = "rename" /\ Head(sc).table = t /\ Head(sc).to = o
                      /\ AtLegacy(sc, t, o) => Head(sc).do = "pragma" /\ Head(sc).pragma = "legacy"
                      /\ AtKeys(sc, t, o) => /\ Head(sc).do = "pragma" /\ Head(sc).pragma = "fk"
                                             /\ Head(sc).on = FALSE
<1>1. ASSUME Plain(sc) PROVE Head(sc) \in PlainStatements /\ Plain(Tail(sc))
  <2> HIDE DEF PlainStatements
  <2> QED
    BY <1>1 DEF Plain
<1>2. ASSUME NEW s \in PlainStatements PROVE s.do \in {"pragma", "create", "ensure", "add"}
  BY <1>2 DEF PlainStatements, Pragma, Create, CreateIfMissing, AddLifecycle
<1>3. ASSUME NEW t, NEW o
      PROVE  /\ AtDrop(sc, o) => Head(sc).do = "drop" /\ Head(sc).table = o
             /\ AtCopy(sc, t, o) => Head(sc).do = "copy" /\ Head(sc).table = t /\ Head(sc).from = o
             /\ AtCreate(sc, t, o) => Head(sc).do = "create"
             /\ AtRename(sc, t, o) => Head(sc).do = "rename" /\ Head(sc).table = t /\ Head(sc).to = o
  <2>1. AtDrop(sc, o) => Head(sc).do = "drop" /\ Head(sc).table = o
    BY DEF AtDrop, Drop
  <2>2. AtCopy(sc, t, o) => Head(sc).do = "copy" /\ Head(sc).table = t /\ Head(sc).from = o
    BY DEF AtCopy, Copy
  <2>3. AtCreate(sc, t, o) => Head(sc).do = "create"
    BY DEF AtCreate, Create
  <2>4. AtRename(sc, t, o) => Head(sc).do = "rename" /\ Head(sc).table = t /\ Head(sc).to = o
    BY DEF AtRename, Rename
  <2> QED
    BY <2>1, <2>2, <2>3, <2>4
<1>4. ASSUME NEW t, NEW o
      PROVE  /\ AtLegacy(sc, t, o) => Head(sc).do = "pragma" /\ Head(sc).pragma = "legacy"
             /\ AtKeys(sc, t, o) => /\ Head(sc).do = "pragma" /\ Head(sc).pragma = "fk"
                                    /\ Head(sc).on = FALSE
  BY DEF AtLegacy, AtKeys, Pragma
<1> QED
  BY <1>1, <1>2, <1>3, <1>4

\* Where a script can be, whatever the keys.
Placed(sc) ==
  \/ Plain(sc)
  \/ \E m \in Moves : \/ AtKeys(sc, m[1], m[2]) \/ AtLegacy(sc, m[1], m[2])
                      \/ AtRename(sc, m[1], m[2]) \/ Holding(sc, m[1], m[2])

LEMMA PlainHoldsNothing ==
  ASSUME NEW sc, Plain(sc)
  PROVE  \A t, o : ~Holding(sc, t, o) /\ ~AtDrop(sc, o)
<1>1. ASSUME NEW t, NEW o, AtDrop(sc, o) \/ AtCopy(sc, t, o) PROVE FALSE
  <2>1. sc # <<>>
    BY <1>1 DEF AtDrop, AtCopy
  <2> QED
    BY <1>1, <2>1, HeadKinds
<1>2. ASSUME NEW t, NEW o, AtCreate(sc, t, o) PROVE FALSE
  <2>1. sc # <<>> /\ AtCopy(Tail(sc), t, o)
    BY <1>2 DEF AtCreate
  <2>2. Tail(sc) # <<>>
    BY <2>1 DEF AtCopy
  <2>3. Plain(Tail(sc))
    BY <2>1, HeadKinds
  <2> QED
    BY <2>1, <2>2, <2>3, HeadKinds
<1> QED
  BY <1>1, <1>2 DEF Holding

LEMMA StartHoldsNothing ==
  ASSUME NEW sc, NEW t, NEW o, AtKeys(sc, t, o) \/ AtLegacy(sc, t, o) \/ AtRename(sc, t, o)
  PROVE  \A u, n : ~Holding(sc, u, n) /\ ~AtDrop(sc, n)
<1>1. sc # <<>>
  BY DEF AtKeys, AtLegacy, AtRename
<1>2. Head(sc).do \in {"pragma", "rename"}
  BY <1>1, HeadKinds
<1>3. ASSUME NEW u, NEW n, Holding(sc, u, n) \/ AtDrop(sc, n) PROVE Head(sc).do \in {"create", "copy", "drop"}
  BY <1>1, <1>3, HeadKinds DEF Holding
<1> QED
  BY <1>2, <1>3

\* The statement after: a copy that is held was held or has just been made, and only a
\* copy that has just been copied back is dropped.
LEMMA NextStatement ==
  ASSUME NEW sc, sc # <<>>, Placed(sc)
  PROVE  /\ \A t, o : Holding(Tail(sc), t, o) =>
              \E m \in Moves : m[2] = o /\ (Holding(sc, m[1], m[2]) \/ AtRename(sc, m[1], m[2]))
         /\ \A o : AtDrop(Tail(sc), o) => \E m \in Moves : m[2] = o /\ AtCopy(sc, m[1], m[2])
<1>1. CASE Plain(sc)
  <2>1. Plain(Tail(sc))
    BY <1>1, HeadKinds
  <2> QED
    BY <2>1, PlainHoldsNothing
<1>2. ASSUME NEW m \in Moves, AtKeys(sc, m[1], m[2]) \/ AtLegacy(sc, m[1], m[2])
      PROVE  \A t, o : ~Holding(Tail(sc), t, o) /\ ~AtDrop(Tail(sc), o)
  <2>1. AtLegacy(Tail(sc), m[1], m[2]) \/ AtRename(Tail(sc), m[1], m[2])
    BY <1>2 DEF AtKeys, AtLegacy
  <2> QED
    BY <2>1, StartHoldsNothing
<1>3. ASSUME NEW m \in Moves, AtDrop(sc, m[2])
      PROVE  \A t, o : ~Holding(Tail(sc), t, o) /\ ~AtDrop(Tail(sc), o)
  <2>1. Plain(Tail(sc))
    BY <1>3 DEF AtDrop
  <2> QED
    BY <2>1, PlainHoldsNothing
<1>4. ASSUME NEW m \in Moves, AtRename(sc, m[1], m[2]), NEW t, NEW o, Holding(Tail(sc), t, o)
      PROVE  o = m[2] /\ ~AtDrop(Tail(sc), o)
  <2>1. AtCreate(Tail(sc), m[1], m[2]) /\ Tail(sc) # <<>>
    BY <1>4 DEF AtRename, AtCreate
  <2>2. Head(Tail(sc)).do = "create"
    BY <2>1, HeadKinds
  <2>3. AtCreate(Tail(sc), t, o) /\ ~AtDrop(Tail(sc), o)
    BY <1>4, <2>1, <2>2, HeadKinds DEF Holding
  <2>4. AtCopy(Tail(Tail(sc)), t, o) /\ AtCopy(Tail(Tail(sc)), m[1], m[2])
    BY <2>1, <2>3 DEF AtCreate
  <2>5. Tail(Tail(sc)) # <<>>
    BY <2>4 DEF AtCopy
  <2>6. ASSUME NEW rest, NEW u, NEW n, AtCopy(rest, u, n) PROVE Head(rest).from = n
    BY <2>6 DEF AtCopy, Copy
  <2>7. Head(Tail(Tail(sc))).from = o /\ Head(Tail(Tail(sc))).from = m[2]
    BY <2>4, <2>6
  <2> QED
    BY <2>3, <2>7
<1>5. ASSUME NEW m \in Moves, AtCreate(sc, m[1], m[2]), NEW t, NEW o, Holding(Tail(sc), t, o)
      PROVE  o = m[2] /\ ~AtDrop(Tail(sc), o)
  <2>1. AtCopy(Tail(sc), m[1], m[2]) /\ Tail(sc) # <<>>
    BY <1>5 DEF AtCreate, AtCopy
  <2>2. Head(Tail(sc)).do = "copy" /\ Head(Tail(sc)).from = m[2]
    BY <2>1 DEF AtCopy, Copy
  <2>3. AtCopy(Tail(sc), t, o) /\ ~AtDrop(Tail(sc), o)
    BY <1>5, <2>1, <2>2, HeadKinds DEF Holding
  <2>4. Head(Tail(sc)).from = o
    BY <2>3 DEF AtCopy, Copy
  <2> QED
    BY <2>2, <2>3, <2>4
<1>6. ASSUME NEW m \in Moves, AtCopy(sc, m[1], m[2]), NEW t, NEW o, Holding(Tail(sc), t, o)
      PROVE  o = m[2]
  <2>1. AtDrop(Tail(sc), m[2]) /\ Tail(sc) # <<>>
    BY <1>6 DEF AtCopy, AtDrop
  <2>2. Head(Tail(sc)).do = "drop" /\ Head(Tail(sc)).table = m[2]
    BY <2>1, HeadKinds
  <2>3. AtDrop(Tail(sc), o)
    BY <1>6, <2>1, <2>2, HeadKinds DEF Holding
  <2> QED
    BY <2>1, <2>2, <2>3, HeadKinds
<1>7. \A o : AtDrop(Tail(sc), o) => Holding(Tail(sc), "nodes", o)
  BY DEF Holding
<1>8. CASE \E m \in Moves : AtKeys(sc, m[1], m[2]) \/ AtLegacy(sc, m[1], m[2]) \/ AtDrop(sc, m[2])
  BY <1>2, <1>3, <1>8
<1>9. CASE \E m \in Moves : AtRename(sc, m[1], m[2])
  BY <1>4, <1>7, <1>9
<1>10. CASE \E m \in Moves : AtCreate(sc, m[1], m[2])
  BY <1>5, <1>7, <1>10 DEF Holding
<1>11. CASE \E m \in Moves : AtCopy(sc, m[1], m[2])
  BY <1>6, <1>7, <1>11 DEF Holding
<1> QED
  BY <1>1, <1>8, <1>9, <1>10, <1>11 DEF Placed, Holding

-----------------------------------------------------------------------------
(* Steps of a caller.                                                      *)

\* What CallerOK says of a caller that has just taken record r.
LEMMA OneCaller ==
  ASSUME Shapes, NEW c \in Callers, NEW r, caller' = [caller EXCEPT ![c] = r],
         DOMAIN r = CallerFields,
         \/ Plain(r.script)
         \/ \E m \in Moves : AtKeys(r.script, m[1], m[2])
         \/ /\ r.fk = FALSE
            /\ \E m \in Moves : \/ AtLegacy(r.script, m[1], m[2]) \/ AtRename(r.script, m[1], m[2])
                                \/ Holding(r.script, m[1], m[2])
  PROVE  /\ DOMAIN caller' = Callers /\ caller'[c] = r
         /\ \A d \in Callers : d # c => caller'[d] = caller[d]
         /\ \A d \in Callers : CallerOK(d)'
<1>1. /\ DOMAIN caller' = Callers /\ caller'[c] = r
      /\ \A d \in Callers : d # c => caller'[d] = caller[d]
  BY DEF Shapes
<1>2. CallerOK(c)'
  BY <1>1 DEF CallerOK
<1>3. ASSUME NEW d \in Callers, d # c PROVE CallerOK(d)'
  BY <1>1, <1>3 DEF Shapes, CallerOK
<1> QED
  BY <1>1, <1>2, <1>3

\* A caller that leaves its script, or starts another, lets go of what it held.
LEMMA LetGo ==
  ASSUME MigrationInv, NEW c \in Callers, NEW r, caller' = [caller EXCEPT ![c] = r],
         DOMAIN r = CallerFields, UNCHANGED <<db, stored>>,
         Plain(r.script) \/ \E m \in Moves : AtKeys(r.script, m[1], m[2])
  PROVE  MigrationInv'
<1>1. /\ DOMAIN caller' = Callers /\ caller'[c] = r
      /\ \A d \in Callers : d # c => caller'[d] = caller[d]
      /\ \A d \in Callers : CallerOK(d)'
  BY OneCaller DEF MigrationInv
<1>2. \A t, o : ~Holding(r.script, t, o) /\ ~AtDrop(r.script, o)
  BY PlainHoldsNothing, StartHoldsNothing
<1>3. Shapes'
  BY <1>1 DEF MigrationInv, Shapes
<1>4. \A d \in Callers : \A o : Holds(d, o)' => d # c /\ Holds(d, o)
  BY <1>1, <1>2 DEF Holds
<1>5. Copied'
  BY <1>4 DEF MigrationInv, Copied
<1>6. \A o : Doomed(o)' => Doomed(o)
  BY <1>1, <1>2 DEF Doomed
<1>7. Covered'
  BY <1>6 DEF MigrationInv, Covered
<1> QED
  BY <1>3, <1>5, <1>7 DEF MigrationInv

LEMMA DdlFields ==
  /\ \A t : DOMAIN Canonical(t) = TableFields
  /\ DOMAIN ContractEdges = TableFields
<1>1. \A t, a, b, k, e : DOMAIN Ddl(t, a, b, k, e) = TableFields
  BY DEF Ddl, TableFields
<1> QED
  BY <1>1 DEF Canonical, ContractEdges

\* The caller of a statement that does not raise.
Moved(c) ==
  LET s == Head(caller[c].script) IN
  [caller[c] EXCEPT !.script = Tail(@),
                    !.fk = IF s.do = "pragma" /\ s.pragma = "fk" THEN s.on ELSE @,
                    !.legacy = IF s.do = "pragma" /\ s.pragma = "legacy" THEN s.on ELSE @]

LEMMA MovedFields ==
  ASSUME NEW c \in Callers, DOMAIN caller[c] = CallerFields
  PROVE  /\ DOMAIN Moved(c) = CallerFields /\ Moved(c).script = Tail(caller[c].script)
         /\ Moved(c).fk = IF Head(caller[c].script).do = "pragma" /\ Head(caller[c].script).pragma = "fk"
                          THEN Head(caller[c].script).on ELSE caller[c].fk
<1> DEFINE s == Head(caller[c].script)
           k == IF s.do = "pragma" /\ s.pragma = "fk" THEN s.on ELSE caller[c].fk
           g == IF s.do = "pragma" /\ s.pragma = "legacy" THEN s.on ELSE caller[c].legacy
<1>1. Moved(c) = [caller[c] EXCEPT !.script = Tail(caller[c].script), !.fk = k, !.legacy = g]
  BY DEF Moved
<1> HIDE DEF k, g
<1>2. DOMAIN Moved(c) = CallerFields /\ Moved(c).script = Tail(caller[c].script) /\ Moved(c).fk = k
  BY <1>1 DEF CallerFields
<1> QED
  BY <1>2 DEF k

\* The next statement leaves the caller somewhere in a script, with its keys off.
LEMMA TakesAStatement ==
  ASSUME MigrationInv, NEW c \in Callers, caller[c].script # <<>>,
         caller' = [caller EXCEPT ![c] = Moved(c)]
  PROVE  /\ DOMAIN caller' = Callers /\ \A d \in Callers : CallerOK(d)'
         /\ \A d \in Callers : d # c => caller'[d] = caller[d]
         /\ caller'[c].script = Tail(caller[c].script)
<1> DEFINE sc == caller[c].script
           r == Moved(c)
<1>1. DOMAIN caller[c] = CallerFields
  BY DEF MigrationInv, Shapes, CallerOK
<1>2. /\ DOMAIN r = CallerFields /\ r.script = Tail(sc)
      /\ r.fk = IF Head(sc).do = "pragma" /\ Head(sc).pragma = "fk" THEN Head(sc).on ELSE caller[c].fk
  BY <1>1, MovedFields
<1> HIDE DEF r
<1>3. Plain(sc) => Plain(r.script)
  BY <1>2, HeadKinds
<1>4. ASSUME NEW m \in Moves, AtKeys(sc, m[1], m[2])
      PROVE  r.fk = FALSE /\ (AtLegacy(r.script, m[1], m[2]) \/ AtRename(r.script, m[1], m[2]))
  <2>1. r.fk = FALSE
    BY <1>4, <1>2, HeadKinds
  <2> QED
    BY <2>1, <1>4, <1>2 DEF AtKeys
<1>5. ASSUME NEW m \in Moves, AtLegacy(sc, m[1], m[2]), caller[c].fk = FALSE
      PROVE  r.fk = FALSE /\ AtRename(r.script, m[1], m[2])
  <2>1. r.fk = FALSE
    BY <1>5, <1>2, HeadKinds
  <2> QED
    BY <2>1, <1>5, <1>2 DEF AtLegacy
<1>6. ASSUME NEW m \in Moves, AtRename(sc, m[1], m[2]), caller[c].fk = FALSE
      PROVE  r.fk = FALSE /\ Holding(r.script, m[1], m[2])
  <2>1. r.fk = FALSE
    BY <1>6, <1>2, HeadKinds
  <2> QED
    BY <2>1, <1>6, <1>2 DEF AtRename, Holding
<1>7. ASSUME NEW m \in Moves, AtCreate(sc, m[1], m[2]) \/ AtCopy(sc, m[1], m[2]), caller[c].fk = FALSE
      PROVE  r.fk = FALSE /\ Holding(r.script, m[1], m[2])
  <2>1. r.fk = FALSE
    BY <1>7, <1>2, HeadKinds
  <2> QED
    BY <2>1, <1>7, <1>2 DEF AtCreate, AtCopy, Holding
<1>8. ASSUME NEW m \in Moves, AtDrop(sc, m[2]) PROVE Plain(r.script)
  BY <1>8, <1>2 DEF AtDrop
<1>9. CallerOK(c)
  BY DEF MigrationInv, Shapes
<1>10. \/ Plain(sc) \/ \E m \in Moves : AtKeys(sc, m[1], m[2])
       \/ /\ caller[c].fk = FALSE
          /\ \E m \in Moves : \/ AtLegacy(sc, m[1], m[2]) \/ AtRename(sc, m[1], m[2])
                              \/ Holding(sc, m[1], m[2])
  BY <1>9 DEF CallerOK
<1>11. \/ Plain(r.script)
       \/ \E m \in Moves : AtKeys(r.script, m[1], m[2])
       \/ /\ r.fk = FALSE
          /\ \E m \in Moves : \/ AtLegacy(r.script, m[1], m[2]) \/ AtRename(r.script, m[1], m[2])
                              \/ Holding(r.script, m[1], m[2])
  <2>1. CASE Plain(sc)
    BY <2>1, <1>3
  <2>2. CASE \E m \in Moves : AtKeys(sc, m[1], m[2])
    BY <2>2, <1>4
  <2>3. CASE caller[c].fk = FALSE /\ \E m \in Moves : AtLegacy(sc, m[1], m[2])
    BY <2>3, <1>5
  <2>4. CASE caller[c].fk = FALSE /\ \E m \in Moves : AtRename(sc, m[1], m[2])
    BY <2>4, <1>6
  <2>5. CASE caller[c].fk = FALSE /\ \E m \in Moves : AtCreate(sc, m[1], m[2]) \/ AtCopy(sc, m[1], m[2])
    BY <2>5, <1>7
  <2>6. CASE \E m \in Moves : AtDrop(sc, m[2])
    BY <2>6, <1>8
  <2> QED
    BY <1>10, <2>1, <2>2, <2>3, <2>4, <2>5, <2>6 DEF Holding
<1>12. Shapes
  BY DEF MigrationInv
<1>13. caller' = [caller EXCEPT ![c] = r]
  BY DEF r
<1> HIDE DEF sc
<1> QED
  BY <1>2, <1>11, <1>12, <1>13, OneCaller DEF sc

\* What is held and what is doomed after a statement.
LEMMA HeldAfter ==
  ASSUME MigrationInv, NEW c \in Callers, caller[c].script # <<>>,
         caller' = [caller EXCEPT ![c] = Moved(c)]
  PROVE  /\ \A d \in Callers : \A o : Holds(d, o)' =>
              \/ Holds(d, o)
              \/ d = c /\ \E m \in Moves : m[2] = o /\ AtRename(caller[c].script, m[1], m[2])
         /\ \A o : Doomed(o)' =>
              Doomed(o) \/ \E m \in Moves : m[2] = o /\ AtCopy(caller[c].script, m[1], m[2])
<1> DEFINE sc == caller[c].script
<1>1. /\ \A d \in Callers : d # c => caller'[d] = caller[d]
      /\ caller'[c].script = Tail(sc)
  BY TakesAStatement
<1>2. Placed(sc)
  BY DEF MigrationInv, Shapes, CallerOK, Placed
<1>3. /\ \A t, o : Holding(Tail(sc), t, o) =>
              \E m \in Moves : m[2] = o /\ (Holding(sc, m[1], m[2]) \/ AtRename(sc, m[1], m[2]))
      /\ \A o : AtDrop(Tail(sc), o) => \E m \in Moves : m[2] = o /\ AtCopy(sc, m[1], m[2])
  BY <1>2, NextStatement
<1>4. ASSUME NEW d \in Callers, NEW o, Holds(d, o)'
      PROVE  Holds(d, o) \/ (d = c /\ \E m \in Moves : m[2] = o /\ AtRename(sc, m[1], m[2]))
  <2>1. CASE d # c
    BY <2>1, <1>1, <1>4 DEF Holds
  <2>2. CASE d = c
    <3>1. \E m \in Moves : m[2] = o /\ Holding(Tail(sc), m[1], m[2])
      BY <2>2, <1>1, <1>4 DEF Holds
    <3>2. \E m \in Moves : m[2] = o /\ (Holding(sc, m[1], m[2]) \/ AtRename(sc, m[1], m[2]))
      BY <3>1, <1>3
    <3> QED
      BY <2>2, <3>2 DEF Holds
  <2> QED
    BY <2>1, <2>2
<1>5. ASSUME NEW o, Doomed(o)'
      PROVE  Doomed(o) \/ \E m \in Moves : m[2] = o /\ AtCopy(sc, m[1], m[2])
  <2>1. PICK d \in Callers : AtDrop(caller[d].script, o)'
    BY <1>5 DEF Doomed
  <2>2. CASE d # c
    BY <2>1, <2>2, <1>1 DEF Doomed
  <2>3. CASE d = c
    BY <2>1, <2>3, <1>1, <1>3
  <2> QED
    BY <2>2, <2>3
<1> QED
  BY <1>4, <1>5

\* What a statement that moves no row does to the database.
Grown ==
  /\ DOMAIN db \subseteq DOMAIN db'
  /\ \A n \in DOMAIN db : db'[n].rows = db[n].rows
  /\ \A n \in DOMAIN db' : DOMAIN db'[n] = TableFields

LEMMA CreatesGrow ==
  ASSUME Shapes, NEW t, NEW ddl, ~Exists(t), DOMAIN ddl = TableFields, db' = TablesWith(db, t, ddl)
  PROVE  Grown
<1> DEFINE new == TablesWith(db, t, ddl)
<1>1. /\ DOMAIN new = DOMAIN db \cup {t} /\ new[t] = ddl
      /\ \A n \in DOMAIN db : n # t => new[n] = db[n]
  BY DEF TablesWith
<1>2. db' = new
  OBVIOUS
<1> HIDE DEF new
<1>3. /\ DOMAIN db' = DOMAIN db \cup {t} /\ db'[t] = ddl
      /\ \A n \in DOMAIN db : n # t => db'[n] = db[n]
  BY <1>1, <1>2
<1>4. t \notin DOMAIN db
  BY DEF Exists
<1> QED
  BY <1>3, <1>4 DEF Grown, Shapes

LEMMA PlainGrows ==
  ASSUME Shapes, NEW s \in PlainStatements, NEW con, ~Raises(s), db' = After(s, con)
  PROVE  Grown
<1>1. CASE s.do = "pragma"
  BY <1>1 DEF After, Grown, Shapes
<1>2. ASSUME s = Create("foreign_edges", Canonical("foreign_edges")) PROVE Grown
  <2>1. s.do = "create" /\ s.table = "foreign_edges" /\ s.ddl = Canonical("foreign_edges")
    BY <1>2 DEF Create
  <2>2. ~Exists("foreign_edges") /\ db' = TablesWith(db, "foreign_edges", Canonical("foreign_edges"))
    BY <2>1 DEF Raises, After
  <2> QED
    BY <2>2, DdlFields, CreatesGrow
<1>3. ASSUME NEW t \in Tables, s = CreateIfMissing(t) PROVE Grown
  <2>1. s.do = "ensure" /\ s.table = t
    BY <1>3 DEF CreateIfMissing
  <2>2. db' = IF Exists(t) THEN db ELSE TablesWith(db, t, Canonical(t))
    BY <2>1 DEF After
  <2>3. CASE Exists(t)
    BY <2>2, <2>3 DEF Grown, Shapes
  <2>4. CASE ~Exists(t)
    BY <2>2, <2>4, DdlFields, CreatesGrow
  <2> QED
    BY <2>3, <2>4
<1>4. ASSUME NEW t \in Tables, s = AddLifecycle(t) PROVE Grown
  <2>1. s.do = "add" /\ s.table = t
    BY <1>4 DEF AddLifecycle
  <2>2. t \in DOMAIN db /\ db' = [db EXCEPT ![t].lifecycle = TRUE, ![t].external = TRUE]
    BY <2>1 DEF Raises, After, Exists
  <2>3. DOMAIN db[t] = TableFields
    BY <2>2 DEF Shapes
  <2> DEFINE new == [db[t] EXCEPT !.lifecycle = TRUE, !.external = TRUE]
  <2>4. DOMAIN new = TableFields /\ new.rows = db[t].rows
    BY <2>3 DEF TableFields
  <2>5. db' = [db EXCEPT ![t] = new]
    BY <2>2
  <2> HIDE DEF new
  <2>6. DOMAIN db' = DOMAIN db /\ db'[t] = new /\ \A n \in DOMAIN db : n # t => db'[n] = db[n]
    BY <2>2, <2>5
  <2> QED
    BY <2>4, <2>6 DEF Grown, Shapes
<1>5. s.do = "pragma" \/ s = Create("foreign_edges", Canonical("foreign_edges"))
      \/ (\E t \in Tables : s = CreateIfMissing(t)) \/ (\E t \in Tables : s = AddLifecycle(t))
  BY DEF PlainStatements, Pragma
<1> QED
  BY <1>1, <1>2, <1>3, <1>4, <1>5

\* A statement that neither renames, copies nor drops.
LEMMA QuietStatement ==
  ASSUME MigrationInv, NEW c \in Callers, caller[c].script # <<>>,
         ~Raises(Head(caller[c].script)), db' = After(Head(caller[c].script), caller[c]),
         caller' = [caller EXCEPT ![c] = Moved(c)], UNCHANGED stored,
         Head(caller[c].script).do \notin {"rename", "copy", "drop"}
  PROVE  MigrationInv'
<1> DEFINE sc == caller[c].script
           s == Head(sc)
<1>1. ~ \E m \in Moves : AtRename(sc, m[1], m[2]) \/ AtCopy(sc, m[1], m[2]) \/ AtDrop(sc, m[2])
  BY HeadKinds
<1>2. Grown
  <2>1. CASE Plain(sc)
    <3>1. s \in PlainStatements
      BY <2>1, HeadKinds
    <3> QED
      BY <3>1, PlainGrows DEF MigrationInv
  <2>2. CASE \E m \in Moves : AtKeys(sc, m[1], m[2]) \/ AtLegacy(sc, m[1], m[2])
    <3>1. s.do = "pragma"
      BY <2>2, HeadKinds
    <3>2. db' = db
      BY <3>1 DEF After
    <3> QED
      BY <3>2 DEF Grown, MigrationInv, Shapes
  <2>3. ASSUME NEW m \in Moves, AtCreate(sc, m[1], m[2]) PROVE Grown
    <3>1. PICK ddl : s = Create(m[1], ddl) /\ DOMAIN ddl = TableFields
      BY <2>3, DdlFields DEF AtCreate
    <3>2. s.do = "create" /\ s.table = m[1] /\ s.ddl = ddl
      BY <3>1 DEF Create
    <3>3. ~Exists(m[1]) /\ db' = TablesWith(db, m[1], ddl)
      BY <3>2 DEF Raises, After
    <3> QED
      BY <3>1, <3>3, CreatesGrow DEF MigrationInv
  <2>4. Placed(sc)
    BY DEF MigrationInv, Shapes, CallerOK, Placed
  <2> QED
    BY <1>1, <2>1, <2>2, <2>3, <2>4 DEF Placed, Holding
<1>3. /\ DOMAIN caller' = Callers /\ \A d \in Callers : CallerOK(d)'
  BY TakesAStatement
<1>4. Shapes'
  BY <1>2, <1>3 DEF Shapes, Grown
<1>5. (\A d \in Callers : \A o : Holds(d, o)' => Holds(d, o)) /\ \A o : Doomed(o)' => Doomed(o)
  BY <1>1, HeldAfter
<1>6. Copied'
  BY <1>2, <1>5 DEF MigrationInv, Copied, Grown
<1>7. Covered'
  BY <1>2, <1>5 DEF MigrationInv, Covered, Grown
<1> QED
  BY <1>4, <1>6, <1>7 DEF MigrationInv

\* A table about to be dropped is a copy, and its caller holds it.
LEMMA DoomedIsHeld ==
  ASSUME Shapes, NEW c \in Callers, NEW o, AtDrop(caller[c].script, o)
  PROVE  /\ \E m \in Moves : m[2] = o
         /\ Holds(c, o) /\ caller[c].fk = FALSE
<1> DEFINE sc == caller[c].script
<1>1. sc # <<>> /\ Head(sc).do = "drop" /\ Head(sc).table = o
  BY HeadKinds DEF AtDrop
<1>2. ~Plain(sc) /\ \A m \in Moves : ~AtKeys(sc, m[1], m[2]) /\ ~AtLegacy(sc, m[1], m[2]) /\ ~AtRename(sc, m[1], m[2])
  BY PlainHoldsNothing, StartHoldsNothing
<1>3. caller[c].fk = FALSE /\ \E m \in Moves : Holding(sc, m[1], m[2])
  BY <1>2 DEF Shapes, CallerOK
<1>4. PICK m \in Moves : Holding(sc, m[1], m[2])
  BY <1>3
<1>5. AtDrop(sc, m[2])
  BY <1>1, <1>4, HeadKinds DEF Holding
<1>6. m[2] = o
  BY <1>1, <1>5, HeadKinds
<1> QED
  BY <1>3, <1>4, <1>6 DEF Holds

\* The rows of the copy are in the table before anyone can drop the copy.
LEMMA CopyStatement ==
  ASSUME MigrationInv, NEW c \in Callers, NEW m \in Moves, AtCopy(caller[c].script, m[1], m[2]),
         ~Raises(Head(caller[c].script)), db' = After(Head(caller[c].script), caller[c]),
         caller' = [caller EXCEPT ![c] = Moved(c)], UNCHANGED stored
  PROVE  MigrationInv'
<1> DEFINE sc == caller[c].script
           t == m[1]
           o == m[2]
<1>1. sc # <<>> /\ Head(sc).do = "copy" /\ Head(sc).table = t /\ Head(sc).from = o
  BY HeadKinds DEF AtCopy
<1>2. /\ t \in DOMAIN db /\ o \in DOMAIN db
      /\ db' = [db EXCEPT ![t].rows = @ \cup db[o].rows]
  BY <1>1 DEF Raises, After, Exists
<1>3. DOMAIN db[t] = TableFields
  BY <1>2 DEF MigrationInv, Shapes
<1> DEFINE new == [db[t] EXCEPT !.rows = @ \cup db[o].rows]
<1>4. DOMAIN new = TableFields /\ new.rows = db[t].rows \cup db[o].rows
  BY <1>3 DEF TableFields
<1>5. db' = [db EXCEPT ![t] = new]
  BY <1>2
<1> HIDE DEF new
<1>6. DOMAIN db' = DOMAIN db /\ db'[t] = new /\ \A n \in DOMAIN db : n # t => db'[n] = db[n]
  BY <1>2, <1>5
<1>7. t \in Tables /\ o \notin Tables /\ \A u \in Tables : o \in Copies(u) => u = t
  BY MovesAre
<1> HIDE DEF t, o
<1>8. DOMAIN caller' = Callers /\ \A d \in Callers : CallerOK(d)'
  BY <1>1, TakesAStatement
<1>9. Shapes'
  BY <1>4, <1>6, <1>8 DEF MigrationInv, Shapes
<1>10. \A d \in Callers : \A n : Holds(d, n)' => Holds(d, n)
  <2>1. \A k \in Moves : ~AtRename(sc, k[1], k[2])
    BY <1>1, HeadKinds
  <2> QED
    BY <1>1, <2>1, HeldAfter
<1>11. \A n : Doomed(n)' => Doomed(n) \/ n = o
  <2>1. \A k \in Moves : AtCopy(sc, k[1], k[2]) => k[2] = o
    BY <1>1, HeadKinds
  <2>2. \A n : Doomed(n)' => Doomed(n) \/ \E k \in Moves : k[2] = n /\ AtCopy(sc, k[1], k[2])
    BY <1>1, HeldAfter
  <2> QED
    BY <2>1, <2>2
<1>12. ~Doomed(t)'
  <2>1. ASSUME NEW d \in Callers, AtDrop(caller[d].script, t) PROVE FALSE
    <3>1. \E k \in Moves : k[2] = t
      BY <2>1, DoomedIsHeld DEF MigrationInv
    <3> QED
      BY <3>1, <1>7, MovesAre
  <2>2. ~Doomed(t)
    BY <2>1 DEF Doomed
  <2> QED
    BY <2>2, <1>7, <1>11
<1>13. Copied'
  BY <1>6, <1>10 DEF MigrationInv, Copied
<1>14. ASSUME NEW u \in Tables, NEW r \in stored'[u]
       PROVE  \E n \in ({u} \cup Copies(u)) \cap DOMAIN db' : r \in db'[n].rows /\ ~Doomed(n)'
  <2>1. PICK n \in ({u} \cup Copies(u)) \cap DOMAIN db : r \in db[n].rows /\ ~Doomed(n)
    BY <1>14 DEF MigrationInv, Covered
  <2>2. CASE n # o
    BY <2>1, <2>2, <1>4, <1>6, <1>11
  <2>3. CASE n = o
    BY <2>1, <2>3, <1>2, <1>4, <1>6, <1>7, <1>12
  <2> QED
    BY <2>2, <2>3
<1>15. Covered'
  BY <1>14 DEF Covered
<1> QED
  BY <1>9, <1>13, <1>15 DEF MigrationInv

\* A rename keeps the rows, and nobody held the name it takes: it would have raised.
LEMMA RenameStatement ==
  ASSUME MigrationInv, NEW c \in Callers, NEW m \in Moves, AtRename(caller[c].script, m[1], m[2]),
         ~Raises(Head(caller[c].script)), db' = After(Head(caller[c].script), caller[c]),
         caller' = [caller EXCEPT ![c] = Moved(c)], UNCHANGED stored
  PROVE  MigrationInv'
<1> DEFINE sc == caller[c].script
           t == m[1]
           o == m[2]
<1>1. sc # <<>> /\ Head(sc).do = "rename" /\ Head(sc).table = t /\ Head(sc).to = o
  BY HeadKinds DEF AtRename
<1>2. t \in DOMAIN db /\ o \notin DOMAIN db /\ db' = Renamed(Head(sc), caller[c])
  BY <1>1 DEF Raises, After, Exists
<1>3. t \in Tables /\ o \notin Tables /\ o \in Copies(t)
  BY MovesAre
<1> HIDE DEF t, o
<1> DEFINE moved == TablesWith(TablesWithout(db, t), o, db[t])
<1>4. /\ DOMAIN moved = (DOMAIN db \ {t}) \cup {o} /\ moved[o] = db[t]
      /\ \A n \in DOMAIN db \ {t} : moved[n] = db[n]
  BY <1>2 DEF TablesWith, TablesWithout
<1>5. /\ DOMAIN db' = DOMAIN moved
      /\ \A n \in DOMAIN moved : db'[n] = moved[n] \/ db'[n] = [moved[n] EXCEPT !.parent = o]
  BY <1>1, <1>2 DEF Renamed
<1>6. \A n \in DOMAIN moved : DOMAIN moved[n] = TableFields
  BY <1>2, <1>4 DEF MigrationInv, Shapes
<1> HIDE DEF moved
<1>7. \A n \in DOMAIN db' : DOMAIN db'[n] = TableFields /\ db'[n].rows = moved[n].rows
  BY <1>5, <1>6 DEF TableFields
<1>8. DOMAIN caller' = Callers /\ \A d \in Callers : CallerOK(d)'
  BY <1>1, TakesAStatement
<1>9. Shapes'
  BY <1>7, <1>8 DEF Shapes
<1>10. \A d \in Callers : \A n : Holds(d, n)' => Holds(d, n) \/ (d = c /\ n = o)
  <2>1. \A k \in Moves : AtRename(sc, k[1], k[2]) => k[2] = o
    BY <1>1, HeadKinds
  <2> QED
    BY <1>1, <2>1, HeldAfter
<1>11. \A n : Doomed(n)' => Doomed(n)
  <2>1. \A k \in Moves : ~AtCopy(sc, k[1], k[2])
    BY <1>1, HeadKinds
  <2> QED
    BY <1>1, <2>1, HeldAfter
<1>12. \A d \in Callers : ~Holds(d, o)
  BY <1>2 DEF MigrationInv, Copied, o
<1>13. ~Doomed(o)
  BY <1>12, DoomedIsHeld DEF MigrationInv, Doomed
<1>14. Copied'
  <2> SUFFICES ASSUME NEW d \in Callers, NEW k \in Moves, Holds(d, k[2])'
               PROVE  k[2] \in DOMAIN db' /\ \A e \in Callers : Holds(e, k[2])' => e = d
    BY DEF Copied
  <2>1. CASE k[2] = o
    BY <2>1, <1>4, <1>5, <1>10, <1>12
  <2>2. CASE k[2] # o
    <3>1. Holds(d, k[2]) /\ \A e \in Callers : Holds(e, k[2])' => Holds(e, k[2])
      BY <2>2, <1>10
    <3>2. k[2] \in DOMAIN db /\ \A e \in Callers : Holds(e, k[2]) => e = d
      BY <3>1 DEF MigrationInv, Copied
    <3>3. k[2] # t
      BY <1>3, MovesAre
    <3> QED
      BY <3>1, <3>2, <3>3, <1>4, <1>5
  <2> QED
    BY <2>1, <2>2
<1>15. ASSUME NEW u \in Tables, NEW r \in stored'[u]
       PROVE  \E n \in ({u} \cup Copies(u)) \cap DOMAIN db' : r \in db'[n].rows /\ ~Doomed(n)'
  <2>1. PICK n \in ({u} \cup Copies(u)) \cap DOMAIN db : r \in db[n].rows /\ ~Doomed(n)
    BY <1>15 DEF MigrationInv, Covered
  <2>2. CASE n # t
    BY <2>1, <2>2, <1>4, <1>5, <1>7, <1>11
  <2>3. CASE n = t
    <3>1. u = t
      BY <2>1, <2>3, <1>3, CopiesAre
    <3> QED
      BY <3>1, <2>1, <2>3, <1>3, <1>4, <1>5, <1>7, <1>11, <1>13
  <2> QED
    BY <2>2, <2>3
<1>16. Covered'
  BY <1>15 DEF Covered
<1> QED
  BY <1>9, <1>14, <1>16 DEF MigrationInv

\* A drop takes a doomed table, and with the keys off nothing else.
LEMMA DropStatement ==
  ASSUME MigrationInv, NEW c \in Callers, NEW o, AtDrop(caller[c].script, o),
         db' = After(Head(caller[c].script), caller[c]),
         caller' = [caller EXCEPT ![c] = Moved(c)], UNCHANGED stored
  PROVE  MigrationInv'
<1> DEFINE sc == caller[c].script
<1>1. sc # <<>> /\ Head(sc).do = "drop" /\ Head(sc).table = o /\ Plain(Tail(sc))
  BY HeadKinds DEF AtDrop
<1>2. Holds(c, o) /\ caller[c].fk = FALSE /\ \E m \in Moves : m[2] = o
  BY DoomedIsHeld DEF MigrationInv
<1>3. db' = Dropped(Head(sc), caller[c])
  BY <1>1 DEF After
<1>4. DOMAIN db' = DOMAIN db \ {o} /\ \A n \in DOMAIN db' : db'[n] = db[n]
  BY <1>1, <1>2, <1>3 DEF Dropped, TablesWithout
<1>5. DOMAIN caller' = Callers /\ \A d \in Callers : CallerOK(d)'
  BY <1>1, TakesAStatement
<1>6. Shapes'
  BY <1>4, <1>5 DEF MigrationInv, Shapes
<1>7. (\A d \in Callers : \A n : Holds(d, n)' => Holds(d, n)) /\ \A n : Doomed(n)' => Doomed(n)
  <2>1. \A k \in Moves : ~AtRename(sc, k[1], k[2]) /\ ~AtCopy(sc, k[1], k[2])
    BY <1>1, HeadKinds
  <2> QED
    BY <1>1, <2>1, HeldAfter
<1>9. ~Holds(c, o)'
  BY <1>1, TakesAStatement, PlainHoldsNothing DEF Holds
<1>10. \A d \in Callers : ~Holds(d, o)'
  BY <1>2, <1>7, <1>9 DEF MigrationInv, Copied
<1>11. Copied'
  BY <1>4, <1>7, <1>10 DEF MigrationInv, Copied
<1>12. Doomed(o)
  BY DEF Doomed
<1>13. Covered'
  BY <1>4, <1>7, <1>12 DEF MigrationInv, Covered
<1> QED
  BY <1>6, <1>11, <1>13 DEF MigrationInv

LEMMA StatementKeeps == ASSUME MigrationInv, NEW c \in Callers, Statement(c) PROVE MigrationInv'
<1> DEFINE sc == caller[c].script
           s == Head(sc)
<1>1. sc # <<>> /\ UNCHANGED stored
  BY DEF Statement
<1>2. CASE Raises(s)
  <2>1. caller' = [caller EXCEPT ![c] = Away] /\ UNCHANGED <<db, stored>>
    BY <1>2 DEF Statement
  <2>2. DOMAIN Away = CallerFields /\ Plain(Away.script)
    BY EndsArePlain DEF Away, CallerFields
  <2> QED
    BY <2>1, <2>2, LetGo
<1>3. CASE ~Raises(s)
  <2>1. db' = After(s, caller[c]) /\ caller' = [caller EXCEPT ![c] = Moved(c)]
    BY <1>3 DEF Statement, Moved
  <2>2. CASE s.do \notin {"rename", "copy", "drop"}
    BY <2>1, <2>2, <1>1, <1>3, QuietStatement
  <2>3. CASE \E m \in Moves : AtRename(sc, m[1], m[2])
    BY <2>1, <2>3, <1>1, <1>3, RenameStatement
  <2>4. CASE \E m \in Moves : AtCopy(sc, m[1], m[2])
    BY <2>1, <2>4, <1>1, <1>3, CopyStatement
  <2>5. CASE \E m \in Moves : AtDrop(sc, m[2])
    BY <2>1, <2>5, <1>1, <1>3, DropStatement
  <2>6. Placed(sc)
    BY DEF MigrationInv, Shapes, CallerOK, Placed
  <2>7. s.do \in {"rename", "copy", "drop"} =>
           \E m \in Moves : \/ AtRename(sc, m[1], m[2]) \/ AtCopy(sc, m[1], m[2]) \/ AtDrop(sc, m[2])
    BY <2>6, <1>1, HeadKinds DEF Placed, Holding
  <2> QED
    BY <2>2, <2>3, <2>4, <2>5, <2>7
<1> QED
  BY <1>2, <1>3

LEMMA MigrationStarts == MigrationInit => MigrationInv
<1> SUFFICES ASSUME MigrationInit PROVE MigrationInv
  OBVIOUS
<1>1. DOMAIN caller = Callers /\ \A c \in Callers : caller[c] = Away
  BY DEF MigrationInit
<1>2. DOMAIN Away = CallerFields /\ Away.script = <<>>
  BY DEF Away, CallerFields
<1>3. \A c \in Callers : CallerOK(c)
  BY <1>1, <1>2, EndsArePlain DEF CallerOK
<1>4. \A t, o : ~Holding(<<>>, t, o) /\ ~AtDrop(<<>>, o)
  BY PlainHoldsNothing, EndsArePlain
<1>5. \A c \in Callers : \A o : ~Holds(c, o)
  BY <1>1, <1>2, <1>4 DEF Holds
<1>6. \A o : ~Doomed(o)
  BY <1>1, <1>2, <1>4 DEF Doomed
<1>7. \A n \in DOMAIN db : DOMAIN db[n] = TableFields
  <2>1. ASSUME NEW v \in 0 .. 5, NEW n \in DOMAIN Earlier(v) PROVE DOMAIN Earlier(v)[n] = TableFields
    <3>1. \A t, a, b, k, e : \A x : DOMAIN [Ddl(t, a, b, k, e) EXCEPT !.rows = x] = TableFields
      BY DEF Ddl, TableFields
    <3> QED
      BY <3>1 DEF Earlier, Canonical
  <2>2. db = <<>> \/ \E v \in 0 .. 5 : db = Earlier(v)
    BY DEF MigrationInit
  <2> QED
    BY <2>1, <2>2
<1>8. Covered
  BY <1>6 DEF MigrationInit, Covered
<1> QED
  BY <1>1, <1>3, <1>5, <1>7, <1>8 DEF MigrationInv, Shapes, Copied

LEMMA MigrationKeeps == MigrationInv /\ [MigrationNext]_mvars => MigrationInv'
<1> SUFFICES ASSUME MigrationInv, [MigrationNext]_mvars PROVE MigrationInv'
  OBVIOUS
<1>1. DOMAIN Away = CallerFields /\ Plain(Away.script)
  BY EndsArePlain DEF Away, CallerFields
<1>2. ASSUME NEW c \in Callers, create_schema(c) PROVE MigrationInv'
  <2>1. CreateIfMissing("nodes") \in PlainStatements /\ CreateIfMissing("edges") \in PlainStatements
        /\ CreateIfMissing("foreign_edges") \in PlainStatements /\ CreateIfMissing("docs") \in PlainStatements
    BY DEF PlainStatements, Tables
  <2> HIDE DEF PlainStatements
  <2>2. ASSUME NEW S, NEW a \in S, NEW b \in S, NEW d \in S, NEW e \in S PROVE <<a, b, d, e>> \in Seq(S)
    OBVIOUS
  <2>3. Plain(_SCHEMA_SQL)
    BY <2>1, <2>2, Zenon DEF Plain, _SCHEMA_SQL
  <2>4. DOMAIN open_db = CallerFields /\ open_db.script = _SCHEMA_SQL
    BY DEF open_db, CallerFields
  <2>5. caller' = [caller EXCEPT ![c] = open_db] /\ UNCHANGED <<db, stored>>
    BY <1>2 DEF create_schema
  <2> QED
    BY <2>3, <2>4, <2>5, LetGo
<1>3. ASSUME NEW c \in Callers, Stage(c) PROVE MigrationInv'
  <2> DEFINE i == caller[c].stage
             r == [caller[c] EXCEPT !.stage = @ + 1, !.script = ensure_schema_migrations(i)]
  <2>1. i \in 1 .. Stages /\ caller' = [caller EXCEPT ![c] = r] /\ UNCHANGED <<db, stored>>
    BY <1>3 DEF Stage
  <2>2. DOMAIN caller[c] = CallerFields
    BY DEF MigrationInv, Shapes, CallerOK
  <2>3. DOMAIN r = CallerFields /\ r.script = ensure_schema_migrations(i)
    BY <2>2 DEF CallerFields
  <2>4. Plain(r.script) \/ \E m \in Moves : AtKeys(r.script, m[1], m[2])
    BY <2>1, <2>3, StageScripts
  <2> HIDE DEF r
  <2> QED
    BY <2>1, <2>3, <2>4, LetGo
<1>4. ASSUME NEW c \in Callers, Return(c) \/ Killed(c) PROVE MigrationInv'
  <2>1. caller' = [caller EXCEPT ![c] = Away] /\ UNCHANGED <<db, stored>>
    BY <1>4 DEF Return, Killed
  <2> QED
    BY <1>1, <2>1, LetGo
<1>5. CASE UNCHANGED mvars
  BY <1>5 DEF mvars, MigrationInv, Shapes, CallerOK, Copied, Holds, Covered, Doomed
<1> QED
  BY <1>2, <1>3, <1>4, <1>5, StatementKeeps DEF MigrationNext

\* Whatever is killed between two statements and whoever upgrades at once, every row an
\* earlier release stored is in its table or in a copy that no script still drops.
THEOREM RowsAreNeverDestroyed == MigrationSpec => []RowsNeverDestroyed
<1>1. MigrationInv => RowsNeverDestroyed
  BY DEF MigrationInv, Covered, RowsNeverDestroyed
<1> QED
  BY <1>1, MigrationStarts, MigrationKeeps, PTL DEF MigrationSpec

-----------------------------------------------------------------------------
(* Upgrades: an undisturbed call reaches the schema of today.              *)

\* A table of some release with the rows rs, and what the stages before the
\* k-th have made of it.
Whole(t, x, rs) ==
  /\ x = [lifecycle |-> x.lifecycle, contract |-> x.contract, kindCheck |-> x.kindCheck,
          external |-> x.external, parent |-> Parent(t), rows |-> rs]
  /\ {x.lifecycle, x.contract, x.kindCheck, x.external} \subseteq BOOLEAN
  /\ t \in {"nodes", "edges"} => x.contract \/ x.kindCheck
  /\ t \in {"foreign_edges", "docs"} => x.lifecycle /\ x.contract /\ ~x.kindCheck
  /\ t = "docs" => x.external
PastOf(t, x, k) ==
  /\ t = "nodes" => /\ k > 1 => x.lifecycle
                    /\ k > 5 => ~x.kindCheck
                    /\ k > 7 => x.external
  /\ t = "edges" => /\ k > 2 => x.lifecycle
                    /\ k > 3 => x.contract
                    /\ k > 6 => ~x.kindCheck
                    /\ k > 8 => x.external
  /\ t = "foreign_edges" => (k > 9 => x.external)
Fine(t, x, rs, k) == Whole(t, x, rs) /\ PastOf(t, x, k)

AllFine(k) == DOMAIN db = Tables /\ \A t \in Tables : Fine(t, db[t], stored[t], k)

\* The rebuilds, each with the stage its caller is at meanwhile.
Rebuild(at, t, o, ddl) == [at |-> at, table |-> t, old |-> o, ddl |-> ddl]
Rebuilds ==
  {Rebuild(4, "edges", "edges_old", ContractEdges),
   Rebuild(6, "nodes", KindOld("nodes"), Canonical("nodes")),
   Rebuild(7, "edges", KindOld("edges"), Canonical("edges")),
   Rebuild(8, "nodes", LifeOld("nodes"), Canonical("nodes")),
   Rebuild(9, "edges", LifeOld("edges"), Canonical("edges")),
   Rebuild(10, "foreign_edges", LifeOld("foreign_edges"), Canonical("foreign_edges"))}

\* The scripts of a rebuild from the end to the start, statement by statement.
ToEnd(sc) == sc \in Seq({Pragma("fk", TRUE), Pragma("legacy", FALSE)})
ToDrop(sc, b) == sc # <<>> /\ Head(sc) = Drop(b.old) /\ ToEnd(Tail(sc))
ToCopy(sc, b) == sc # <<>> /\ Head(sc) = Copy(b.old, b.table) /\ ToDrop(Tail(sc), b)
ToCreate(sc, b) == sc # <<>> /\ Head(sc) = Create(b.table, b.ddl) /\ ToCopy(Tail(sc), b)
ToRename(sc, b) == sc # <<>> /\ Head(sc) = Rename(b.table, b.old) /\ ToCreate(Tail(sc), b)
ToLegacy(sc, b) == sc # <<>> /\ Head(sc) = Pragma("legacy", TRUE) /\ ToRename(Tail(sc), b)
ToKeys(sc, b) ==
  /\ sc # <<>> /\ Head(sc) = Pragma("fk", FALSE)
  /\ ToLegacy(Tail(sc), b) \/ (b.table # "nodes" /\ ToRename(Tail(sc), b))

\* Where caller record r can be in a rebuild, and where the table is then.
BeforeMove(r, b) ==
  /\ \/ ToKeys(r.script, b)
     \/ r.fk = FALSE /\ ToLegacy(r.script, b)
     \/ r.fk = FALSE /\ (r.legacy = TRUE \/ b.table # "nodes") /\ ToRename(r.script, b)
  /\ DOMAIN db = Tables /\ Fine(b.table, db[b.table], stored[b.table], b.at - 1)
MovedAway(r, b) ==
  /\ r.fk = FALSE /\ ToCreate(r.script, b)
  /\ DOMAIN db = (Tables \ {b.table}) \cup {b.old}
  /\ Fine(b.table, db[b.old], stored[b.table], b.at - 1)
MadeAnew(r, b) ==
  /\ r.fk = FALSE /\ ToCopy(r.script, b)
  /\ DOMAIN db = Tables \cup {b.old} /\ db[b.table] = b.ddl
  /\ Fine(b.table, db[b.old], stored[b.table], b.at - 1)
CopiedBack(r, b) ==
  /\ r.fk = FALSE /\ ToDrop(r.script, b)
  /\ DOMAIN db = Tables \cup {b.old} /\ Fine(b.table, db[b.table], stored[b.table], b.at)
OthersFine(b) == \A t \in Tables \ {b.table} : Fine(t, db[t], stored[t], b.at)

\* The tables there are; the others had no rows, and sc will make them.
Resting ==
  /\ DOMAIN db \subseteq Tables /\ \A t \in DOMAIN db : Whole(t, db[t], stored[t])
  /\ \A t \in Tables \ DOMAIN db : stored[t] = {}
Ensuring(sc) ==
  /\ sc \in Seq({CreateIfMissing(t) : t \in Tables}) /\ Resting
  /\ \A t \in Tables \ DOMAIN db : \E i \in 1 .. Len(sc) : sc[i] = CreateIfMissing(t)
Adding(sc, t, k) == sc = <<AddLifecycle(t)>> /\ db[t].lifecycle = FALSE /\ AllFine(k - 1)

Working(r) ==
  \/ r.stage = 1 /\ Ensuring(r.script)
  \/ r.stage \in 1 .. 10 /\ ToEnd(r.script) /\ AllFine(r.stage)
  \/ r.stage = 2 /\ Adding(r.script, "nodes", 2)
  \/ r.stage = 3 /\ Adding(r.script, "edges", 3)
  \/ \E b \in Rebuilds : /\ r.stage = b.at /\ OthersFine(b)
                         /\ BeforeMove(r, b) \/ MovedAway(r, b) \/ MadeAnew(r, b) \/ CopiedBack(r, b)

\* While nothing is killed and no calls overlap: one call at most is at work,
\* as far as its stage and script say, and between calls every table is whole.
Undisturbed ==
  ~disturbed =>
    /\ \A c, d \in Callers : caller[c].stage # 0 /\ caller[d].stage # 0 => c = d
    /\ Quiet => Resting /\ (completed => AllFine(10))
    /\ \A c \in Callers : IF caller[c].stage = 0 THEN caller[c].script = <<>> ELSE Working(caller[c])

\* The caller record after a statement.
Followed(q, r) ==
  LET s == Head(q.script) IN
  /\ r.stage = q.stage /\ r.script = Tail(q.script)
  /\ r.fk = IF s.do = "pragma" /\ s.pragma = "fk" THEN s.on ELSE q.fk
  /\ r.legacy = IF s.do = "pragma" /\ s.pragma = "legacy" THEN s.on ELSE q.legacy

\* A statement that does not raise has its effect.
Ran(q) == ~Raises(Head(q.script)) => db' = After(Head(q.script), q)

LEMMA FieldsOf ==
  ASSUME NEW t, NEW x, NEW rs, Whole(t, x, rs)
  PROVE  x.parent = Parent(t) /\ x.rows = rs
  BY DEF Whole

LEMMA WithRows ==
  ASSUME NEW t, NEW l, NEW c, NEW k, NEW e, NEW rs
  PROVE  [Ddl(t, l, c, k, e) EXCEPT !.rows = rs] =
           [lifecycle |-> l, contract |-> c, kindCheck |-> k, external |-> e,
            parent |-> Parent(t), rows |-> rs]
  BY DEF Ddl

LEMMA MadeWhole ==
  ASSUME NEW t, NEW l \in BOOLEAN, NEW c \in BOOLEAN, NEW k \in BOOLEAN, NEW e \in BOOLEAN, NEW rs,
         t \in {"nodes", "edges"} => c \/ k,
         t \in {"foreign_edges", "docs"} => l /\ c /\ ~k,
         t = "docs" => e
  PROVE  Whole(t, [Ddl(t, l, c, k, e) EXCEPT !.rows = rs], rs)
<1> DEFINE x == [lifecycle |-> l, contract |-> c, kindCheck |-> k, external |-> e,
                 parent |-> Parent(t), rows |-> rs]
<1>1. [Ddl(t, l, c, k, e) EXCEPT !.rows = rs] = x
  BY WithRows
<1>2. Whole(t, x, rs)
  BY DEF Whole
<1> QED
  BY <1>1, <1>2

\* The tables of a release with the first v changes.
LEMMA EarlierWhole ==
  ASSUME NEW v \in 0 .. 5, NEW rs
  PROVE  /\ \A t \in {"nodes", "edges"} :
              Whole(t, [Ddl(t, v >= 1, v >= 2, v < 4, v >= 5) EXCEPT !.rows = rs], rs)
         /\ Whole("foreign_edges",
                  [Ddl("foreign_edges", TRUE, TRUE, FALSE, v >= 5) EXCEPT !.rows = rs], rs)
<1> DEFINE l == v >= 1
           c == v >= 2
           k == v < 4
           e == v >= 5
<1>1. l \in BOOLEAN /\ c \in BOOLEAN /\ k \in BOOLEAN /\ e \in BOOLEAN /\ (c \/ k)
  OBVIOUS
<1> HIDE DEF l, c, k, e
<1>2. ASSUME NEW t \in {"nodes", "edges"} PROVE Whole(t, [Ddl(t, l, c, k, e) EXCEPT !.rows = rs], rs)
  BY <1>1, MadeWhole
<1>3. Whole("foreign_edges", [Ddl("foreign_edges", TRUE, TRUE, FALSE, e) EXCEPT !.rows = rs], rs)
  BY <1>1, MadeWhole
<1> QED
  BY <1>2, <1>3 DEF l, c, k, e

\* What is known of each rebuild.
LEMMA RebuildsAre ==
  ASSUME NEW b \in Rebuilds
  PROVE  /\ b.table \in {"nodes", "edges", "foreign_edges"} /\ b.old \notin Tables
         /\ b.at \in 4 .. 10 /\ b.at - 1 \in 3 .. 9
         /\ b.ddl.rows = {}
         /\ \A rs : Fine(b.table, [b.ddl EXCEPT !.rows = rs], rs, b.at)
         /\ \A x, rs : Fine(b.table, x, rs, b.at - 1) => x.lifecycle = TRUE
         /\ \A t \in Tables \ {b.table} : \A x : PastOf(t, x, b.at - 1) <=> PastOf(t, x, b.at)
<1>1. /\ b.table \in {"nodes", "edges", "foreign_edges"} /\ b.old \notin Tables
      /\ b.at \in 4 .. 10 /\ b.at - 1 \in 3 .. 9
  BY DEF Rebuilds, Tables, KindOld, LifeOld, Rebuild
<1>2. b.ddl = Canonical(b.table) \/ (b.at = 4 /\ b.table = "edges" /\ b.ddl = ContractEdges)
  BY DEF Rebuilds, Rebuild
<1>3. b.ddl.rows = {}
  BY <1>2 DEF Canonical, ContractEdges, Ddl
<1>4. ASSUME NEW rs
      PROVE  Fine(b.table, [b.ddl EXCEPT !.rows = rs], rs, b.at)
  <2>1. CASE b.ddl = Canonical(b.table)
    <3>1. Whole(b.table, [b.ddl EXCEPT !.rows = rs], rs)
      BY <2>1, MadeWhole DEF Canonical
    <3>2. [b.ddl EXCEPT !.rows = rs].lifecycle /\ [b.ddl EXCEPT !.rows = rs].contract
          /\ ~[b.ddl EXCEPT !.rows = rs].kindCheck /\ [b.ddl EXCEPT !.rows = rs].external
      BY <2>1 DEF Canonical, Ddl
    <3> QED
      BY <3>1, <3>2 DEF Fine, PastOf
  <2>2. CASE b.at = 4 /\ b.table = "edges" /\ b.ddl = ContractEdges
    <3>1. Whole("edges", [ContractEdges EXCEPT !.rows = rs], rs)
      BY MadeWhole DEF ContractEdges
    <3>2. [ContractEdges EXCEPT !.rows = rs].lifecycle /\ [ContractEdges EXCEPT !.rows = rs].contract
      BY DEF ContractEdges, Ddl
    <3>3. PastOf("edges", [ContractEdges EXCEPT !.rows = rs], 4)
      BY <3>2 DEF PastOf
    <3> QED
      BY <2>2, <3>1, <3>3 DEF Fine
  <2> QED
    BY <1>2, <2>1, <2>2
<1>5. ASSUME NEW x, NEW rs, Fine(b.table, x, rs, b.at - 1)
      PROVE  x.lifecycle = TRUE
  BY <1>1, <1>5 DEF Fine, Whole, PastOf
<1>6. ASSUME NEW t \in Tables \ {b.table}, NEW x
      PROVE  PastOf(t, x, b.at - 1) <=> PastOf(t, x, b.at)
  <2>1. b.at \in {4, 6, 7, 8, 9, 10}
    BY DEF Rebuilds, Rebuild
  <2> QED
    BY <2>1 DEF Rebuilds, Rebuild, PastOf
<1> QED
  BY <1>1, <1>3, <1>4, <1>5, <1>6

\* A pragma of a rebuild changes the connection only.
LEMMA PragmaWorks ==
  ASSUME NEW b \in Rebuilds, NEW q, NEW r, BeforeMove(q, b), OthersFine(b), Followed(q, r),
         ~ToRename(q.script, b), Ran(q), stored' = stored
  PROVE  ~Raises(Head(q.script)) /\ BeforeMove(r, b)' /\ OthersFine(b)'
<1> DEFINE s == Head(q.script)
<1>1. s = Pragma("fk", FALSE) \/ s = Pragma("legacy", TRUE)
  BY DEF BeforeMove, ToKeys, ToLegacy
<1>2. ~Raises(s) /\ db' = db
  BY <1>1 DEF Raises, After, Pragma, Ran
<1>3. r.script = Tail(q.script)
  BY DEF Followed
<1>4. CASE ToKeys(q.script, b)
  <2>1. r.fk = FALSE
    BY <1>4 DEF ToKeys, Followed, Pragma
  <2>2. ToLegacy(r.script, b) \/ (b.table # "nodes" /\ ToRename(r.script, b))
    BY <1>3, <1>4 DEF ToKeys
  <2> QED
    BY <1>2, <2>1, <2>2 DEF BeforeMove, OthersFine
<1>5. CASE q.fk = FALSE /\ ToLegacy(q.script, b)
  <2>1. r.fk = FALSE /\ r.legacy = TRUE
    BY <1>5 DEF ToLegacy, Followed, Pragma
  <2>2. ToRename(r.script, b)
    BY <1>3, <1>5 DEF ToLegacy
  <2> QED
    BY <1>2, <2>1, <2>2 DEF BeforeMove, OthersFine
<1> QED
  BY <1>4, <1>5 DEF BeforeMove

\* With keys off, and the old table's name not followed, a rename moves the table alone.
LEMMA RenameWorks ==
  ASSUME NEW b \in Rebuilds, NEW q, NEW r, BeforeMove(q, b), OthersFine(b), Followed(q, r),
         ToRename(q.script, b), Ran(q), stored' = stored
  PROVE  ~Raises(Head(q.script)) /\ MovedAway(r, b)' /\ OthersFine(b)'
<1> DEFINE s == Head(q.script)
           t == b.table
           moved == TablesWith(TablesWithout(db, t), b.old, db[t])
<1>1. s = Rename(t, b.old) /\ ToCreate(Tail(q.script), b) /\ s.do = "rename" /\ s.table = t /\ s.to = b.old
  BY DEF ToRename, Rename
<1>2. ~ToKeys(q.script, b) /\ ~ToLegacy(q.script, b)
  BY <1>1 DEF ToKeys, ToLegacy, Pragma
<1>3. /\ q.fk = FALSE /\ (q.legacy = TRUE \/ t # "nodes")
      /\ DOMAIN db = Tables /\ Fine(t, db[t], stored[t], b.at - 1)
  BY <1>2 DEF BeforeMove
<1>4. t \in Tables /\ b.old \notin Tables
  BY RebuildsAre DEF Tables
<1>5. ~Raises(s)
  BY <1>1, <1>3, <1>4 DEF Raises, Exists
<1>6. /\ DOMAIN moved = (Tables \ {t}) \cup {b.old} /\ moved[b.old] = db[t]
      /\ \A n \in Tables \ {t} : moved[n] = db[n]
  BY <1>3, <1>4 DEF TablesWith, TablesWithout
<1>7. \A n \in Tables \ {t} : db[n].parent = Parent(n)
  BY FieldsOf DEF OthersFine, Fine
<1>8. db[t].parent = Parent(t)
  BY <1>3, FieldsOf DEF Fine
<1> HIDE DEF moved
<1>9. \A n \in DOMAIN moved : moved[n].parent = t => t = "nodes"
  BY <1>4, <1>6, <1>7, <1>8 DEF Parent, Tables
<1>10. db' = [n \in DOMAIN moved |->
                IF moved[n].parent = t /\ (q.fk \/ ~q.legacy)
                THEN [moved[n] EXCEPT !.parent = b.old] ELSE moved[n]]
  BY <1>1, <1>5 DEF After, Renamed, moved, Ran
<1>11. \A n \in DOMAIN moved : db'[n] = moved[n]
  BY <1>3, <1>9, <1>10
<1>12. DOMAIN db' = DOMAIN moved
  BY <1>10
<1>13. r.script = Tail(q.script) /\ r.fk = FALSE
  BY <1>1, <1>3 DEF Followed
<1>14. MovedAway(r, b)'
  BY <1>1, <1>3, <1>6, <1>11, <1>12, <1>13 DEF MovedAway
<1>15. OthersFine(b)'
  <2>1. \A n \in Tables \ {t} : db'[n] = db[n]
    BY <1>6, <1>11
  <2> QED
    BY <2>1 DEF OthersFine
<1> QED
  BY <1>5, <1>14, <1>15

LEMMA CreateWorks ==
  ASSUME NEW b \in Rebuilds, NEW q, NEW r, MovedAway(q, b), OthersFine(b), Followed(q, r),
         Ran(q), stored' = stored
  PROVE  ~Raises(Head(q.script)) /\ MadeAnew(r, b)' /\ OthersFine(b)'
<1> DEFINE s == Head(q.script)
           t == b.table
<1>1. s = Create(t, b.ddl) /\ ToCopy(Tail(q.script), b) /\ s.do = "create" /\ s.table = t /\ s.ddl = b.ddl
  BY DEF MovedAway, ToCreate, Create
<1>2. /\ q.fk = FALSE /\ DOMAIN db = (Tables \ {t}) \cup {b.old}
      /\ Fine(t, db[b.old], stored[t], b.at - 1)
  BY DEF MovedAway
<1>3. t \in Tables /\ b.old \notin Tables
  BY RebuildsAre DEF Tables
<1>4. ~Raises(s)
  BY <1>1, <1>2, <1>3 DEF Raises, Exists
<1>5. db' = TablesWith(db, t, b.ddl)
  BY <1>1, <1>4 DEF After, Ran
<1>6. /\ DOMAIN db' = Tables \cup {b.old} /\ db'[t] = b.ddl
      /\ \A n \in (Tables \ {t}) \cup {b.old} : db'[n] = db[n]
  BY <1>2, <1>3, <1>5 DEF TablesWith
<1>7. r.script = Tail(q.script) /\ r.fk = FALSE
  BY <1>1, <1>2 DEF Followed
<1>8. MadeAnew(r, b)'
  BY <1>1, <1>2, <1>6, <1>7 DEF MadeAnew
<1> QED
  BY <1>4, <1>6, <1>8 DEF OthersFine

LEMMA CopyWorks ==
  ASSUME NEW b \in Rebuilds, NEW q, NEW r, MadeAnew(q, b), OthersFine(b), Followed(q, r),
         Ran(q), stored' = stored
  PROVE  ~Raises(Head(q.script)) /\ CopiedBack(r, b)' /\ OthersFine(b)'
<1> DEFINE s == Head(q.script)
           t == b.table
<1>1. s = Copy(b.old, t) /\ ToDrop(Tail(q.script), b) /\ s.do = "copy" /\ s.table = t /\ s.from = b.old
  BY DEF MadeAnew, ToCopy, Copy
<1>2. /\ q.fk = FALSE /\ DOMAIN db = Tables \cup {b.old} /\ db[t] = b.ddl
      /\ Fine(t, db[b.old], stored[t], b.at - 1)
  BY DEF MadeAnew
<1>3. t \in Tables /\ b.old \notin Tables /\ b.ddl.rows = {} /\ db[b.old].lifecycle = TRUE
  BY <1>2, RebuildsAre DEF Tables
<1>4. ~Raises(s)
  BY <1>1, <1>2, <1>3 DEF Raises, Exists
<1>5. db[b.old].rows = stored[t]
  BY <1>2, FieldsOf DEF Fine
<1>6. db' = [db EXCEPT ![t].rows = @ \cup db[b.old].rows]
  BY <1>1, <1>4 DEF After, Ran
<1>7. db'[t] = [b.ddl EXCEPT !.rows = b.ddl.rows \cup db[b.old].rows]
  BY <1>2, <1>3, <1>6
<1>8. b.ddl.rows \cup db[b.old].rows = stored[t]
  BY <1>3, <1>5
<1>9. DOMAIN db' = Tables \cup {b.old} /\ \A n \in Tables \ {t} : db'[n] = db[n]
  BY <1>2, <1>6
<1>10. Fine(t, db'[t], stored[t], b.at)
  <2>1. \A rs : Fine(t, [b.ddl EXCEPT !.rows = rs], rs, b.at)
    BY RebuildsAre
  <2>2. Fine(t, [b.ddl EXCEPT !.rows = stored[t]], stored[t], b.at)
    BY <2>1
  <2>3. db'[t] = [b.ddl EXCEPT !.rows = stored[t]]
    BY <1>7, <1>8
  <2> QED
    BY <2>2, <2>3, Zenon
<1>11. r.script = Tail(q.script) /\ r.fk = FALSE
  BY <1>1, <1>2 DEF Followed
<1>12. CopiedBack(r, b)'
  BY <1>1, <1>9, <1>10, <1>11 DEF CopiedBack
<1> QED
  BY <1>4, <1>9, <1>12 DEF OthersFine

\* With keys off, dropping the copy takes no other table's rows with it.
LEMMA DropWorks ==
  ASSUME NEW b \in Rebuilds, NEW q, NEW r, CopiedBack(q, b), OthersFine(b), Followed(q, r),
         Ran(q), stored' = stored
  PROVE  ~Raises(Head(q.script)) /\ ToEnd(r.script) /\ AllFine(b.at)'
<1> DEFINE s == Head(q.script)
           t == b.table
<1>1. s = Drop(b.old) /\ ToEnd(Tail(q.script)) /\ s.do = "drop" /\ s.table = b.old
  BY DEF CopiedBack, ToDrop, Drop
<1>2. /\ q.fk = FALSE /\ DOMAIN db = Tables \cup {b.old} /\ Fine(t, db[t], stored[t], b.at)
  BY DEF CopiedBack
<1>3. t \in Tables /\ b.old \notin Tables
  BY RebuildsAre DEF Tables
<1>4. ~Raises(s)
  BY <1>1, <1>2 DEF Raises, Exists
<1>5. db' = Dropped(s, q)
  BY <1>1, <1>4 DEF After, Ran
<1>6. DOMAIN db' = Tables /\ \A n \in Tables : db'[n] = db[n]
  BY <1>1, <1>2, <1>3, <1>5 DEF Dropped, TablesWithout
<1>7. \A n \in Tables : Fine(n, db[n], stored[n], b.at)
  BY <1>2 DEF OthersFine
<1>8. AllFine(b.at)'
  BY <1>6, <1>7 DEF AllFine
<1> QED
  BY <1>1, <1>4, <1>8 DEF Followed

\* A statement of the schema script makes a table that is missing, without rows.
LEMMA EnsureWorks ==
  ASSUME NEW q, NEW r, Ensuring(q.script), q.script # <<>>, Followed(q, r),
         Ran(q), stored' = stored
  PROVE  ~Raises(Head(q.script)) /\ Ensuring(r.script)'
<1> DEFINE s == Head(q.script)
           sc == q.script
<1>1. PICK t \in Tables : s = CreateIfMissing(t)
  BY DEF Ensuring
<1>2. s.do = "ensure" /\ s.table = t
  BY <1>1 DEF CreateIfMissing
<1>3. ~Raises(s)
  BY <1>2 DEF Raises
<1>4. db' = IF t \in DOMAIN db THEN db ELSE TablesWith(db, t, Canonical(t))
  BY <1>2, <1>3 DEF After, Exists, Ran
<1>5. /\ DOMAIN db' = DOMAIN db \cup {t} /\ (t \notin DOMAIN db => db'[t] = Canonical(t))
      /\ \A n \in DOMAIN db : db'[n] = db[n]
  BY <1>4 DEF TablesWith
<1>6. Resting
  BY DEF Ensuring
<1>7. Whole(t, Canonical(t), {})
  BY DEF Whole, Canonical, Ddl
<1>8. Resting'
  <2>1. \A n \in DOMAIN db' : Whole(n, db'[n], stored[n])
    BY <1>5, <1>6, <1>7 DEF Resting
  <2> QED
    BY <1>5, <1>6, <2>1 DEF Resting
<1>9. r.script = Tail(sc)
  BY DEF Followed
<1>10. sc \in Seq({CreateIfMissing(n) : n \in Tables})
  BY DEF Ensuring
<1>11. Tail(sc) \in Seq({CreateIfMissing(n) : n \in Tables}) /\ Len(Tail(sc)) = Len(sc) - 1
       /\ \A i \in 1 .. Len(Tail(sc)) : Tail(sc)[i] = sc[i + 1]
  <2>1. \A S : \A e \in Seq(S) : e # <<>> =>
          /\ Tail(e) \in Seq(S) /\ Len(Tail(e)) = Len(e) - 1
          /\ \A i \in 1 .. Len(Tail(e)) : Tail(e)[i] = e[i + 1]
    OBVIOUS
  <2> QED
    BY <1>10, <2>1
<1>12. ASSUME NEW n \in Tables \ DOMAIN db'
       PROVE  \E i \in 1 .. Len(Tail(sc)) : Tail(sc)[i] = CreateIfMissing(n)
  <2>1. PICK i \in 1 .. Len(sc) : sc[i] = CreateIfMissing(n)
    BY <1>5 DEF Ensuring
  <2>2. i # 1
    BY <1>1, <1>5, <1>10, <2>1 DEF CreateIfMissing
  <2>3. Len(sc) \in Nat
    BY <1>10
  <2> HIDE DEF sc
  <2>4. i - 1 \in 1 .. Len(Tail(sc)) /\ (i - 1) + 1 = i
    BY <1>11, <2>2, <2>3
  <2> QED
    BY <1>11, <2>1, <2>4
<1> QED
  BY <1>3, <1>8, <1>9, <1>11, <1>12 DEF Ensuring

LEMMA AddedFields ==
  ASSUME NEW x, NEW p, NEW rs,
         x = [lifecycle |-> x.lifecycle, contract |-> x.contract, kindCheck |-> x.kindCheck,
              external |-> x.external, parent |-> p, rows |-> rs]
  PROVE  [x EXCEPT !.lifecycle = TRUE, !.external = TRUE] =
           [lifecycle |-> TRUE, contract |-> x.contract, kindCheck |-> x.kindCheck,
            external |-> TRUE, parent |-> p, rows |-> rs]
<1> DEFINE y == [x EXCEPT !.lifecycle = TRUE, !.external = TRUE]
<1>1. x \in [lifecycle : {x.lifecycle}, contract : {x.contract}, kindCheck : {x.kindCheck},
            external : {x.external}, parent : {p}, rows : {rs}]
  OBVIOUS
<1>2. y \in [lifecycle : {TRUE}, contract : {x.contract}, kindCheck : {x.kindCheck},
            external : {TRUE}, parent : {p}, rows : {rs}]
  BY <1>1
<1> HIDE DEF y
<1>3. y = [lifecycle |-> TRUE, contract |-> x.contract, kindCheck |-> x.kindCheck,
           external |-> TRUE, parent |-> p, rows |-> rs]
  BY <1>2
<1> QED
  BY <1>3 DEF y

LEMMA AddWorks ==
  ASSUME NEW q, NEW r, NEW t, NEW k, (t = "nodes" /\ k = 2) \/ (t = "edges" /\ k = 3),
         Adding(q.script, t, k), Followed(q, r), Ran(q), stored' = stored
  PROVE  ~Raises(Head(q.script)) /\ r.script = <<>> /\ AllFine(k)'
<1> DEFINE s == Head(q.script)
           y == [db[t] EXCEPT !.lifecycle = TRUE, !.external = TRUE]
<1>1. s = AddLifecycle(t) /\ Tail(q.script) = <<>> /\ s.do = "add" /\ s.table = t
  BY Tails DEF Adding, AddLifecycle
<1>2. t \in Tables /\ DOMAIN db = Tables /\ db[t].lifecycle = FALSE
  BY DEF Adding, AllFine, Tables
<1>3. ~Raises(s)
  BY <1>1, <1>2 DEF Raises, Exists
<1>4. Fine(t, db[t], stored[t], k - 1)
  BY <1>2 DEF Adding, AllFine
<1>5. db' = [db EXCEPT ![t] = y]
  BY <1>1, <1>2, <1>3 DEF After, Ran
<1>6. DOMAIN db' = Tables /\ db'[t] = y /\ \A n \in Tables \ {t} : db'[n] = db[n]
  BY <1>2, <1>5
<1>7. y = [lifecycle |-> TRUE, contract |-> db[t].contract, kindCheck |-> db[t].kindCheck,
           external |-> TRUE, parent |-> Parent(t), rows |-> stored[t]]
  <2>1. db[t] = [lifecycle |-> db[t].lifecycle, contract |-> db[t].contract,
                 kindCheck |-> db[t].kindCheck, external |-> db[t].external,
                 parent |-> Parent(t), rows |-> stored[t]]
    BY <1>4 DEF Fine, Whole
  <2> QED
    BY <2>1, AddedFields
<1> HIDE DEF y
<1>8. y.lifecycle /\ y.contract = db[t].contract /\ y.kindCheck = db[t].kindCheck /\ y.external
  BY <1>7
<1>9. Whole(t, y, stored[t])
  BY <1>4, <1>7, <1>8 DEF Fine, Whole
<1>10. PastOf(t, y, k)
  BY <1>8 DEF PastOf
<1>11. \A n \in Tables \ {t} : Fine(n, db[n], stored[n], k)
  BY DEF Adding, AllFine, Fine, PastOf
<1>12. \A n \in Tables : Fine(n, db'[n], stored[n], k)
  BY <1>6, <1>9, <1>10, <1>11 DEF Fine
<1>13. AllFine(k)'
  BY <1>6, <1>12 DEF AllFine
<1> QED
  BY <1>1, <1>3, <1>13 DEF Followed

LEMMA EndWorks ==
  ASSUME NEW q, NEW r, NEW k, ToEnd(q.script), q.script # <<>>, AllFine(k), Followed(q, r),
         Ran(q), stored' = stored
  PROVE  ~Raises(Head(q.script)) /\ ToEnd(r.script) /\ AllFine(k)'
<1>1. Head(q.script) \in {Pragma("fk", TRUE), Pragma("legacy", FALSE)} /\ ToEnd(Tail(q.script))
  <2>1. \A S : \A e \in Seq(S) : e # <<>> => Head(e) \in S /\ Tail(e) \in Seq(S)
    OBVIOUS
  <2> QED
    BY <2>1 DEF ToEnd
<1>2. Head(q.script).do = "pragma"
  BY <1>1 DEF Pragma
<1>3. ~Raises(Head(q.script)) /\ db' = db
  BY <1>2 DEF Raises, After, Ran
<1> QED
  BY <1>1, <1>3 DEF AllFine, Followed

\* No statement of an undisturbed call raises, and each one takes it where it should be.
LEMMA StatementWorks ==
  ASSUME NEW q, NEW r, Working(q), q.script # <<>>, Followed(q, r),
         Ran(q), stored' = stored
  PROVE  ~Raises(Head(q.script)) /\ Working(r)'
<1>1. r.stage = q.stage
  BY DEF Followed
<1>2. CASE q.stage = 1 /\ Ensuring(q.script)
  BY <1>1, <1>2, EnsureWorks DEF Working
<1>3. CASE q.stage \in 1 .. 10 /\ ToEnd(q.script) /\ AllFine(q.stage)
  <2>1. ~Raises(Head(q.script)) /\ ToEnd(r.script) /\ AllFine(q.stage)'
    BY <1>3, EndWorks
  <2> QED
    BY <1>1, <1>3, <2>1 DEF Working
<1>4. ASSUME r.script = <<>>, r.stage \in 1 .. 10, AllFine(r.stage)'
      PROVE  Working(r)'
  BY <1>4 DEF ToEnd, Working
<1>5. CASE q.stage = 2 /\ Adding(q.script, "nodes", 2)
  <2>1. ~Raises(Head(q.script)) /\ r.script = <<>> /\ AllFine(2)'
    BY <1>5, AddWorks
  <2> QED
    BY <1>1, <1>4, <1>5, <2>1
<1>6. CASE q.stage = 3 /\ Adding(q.script, "edges", 3)
  <2>1. ~Raises(Head(q.script)) /\ r.script = <<>> /\ AllFine(3)'
    BY <1>6, AddWorks
  <2> QED
    BY <1>1, <1>4, <1>6, <2>1
<1>7. ASSUME NEW b \in Rebuilds, q.stage = b.at, OthersFine(b),
             BeforeMove(q, b) \/ MovedAway(q, b) \/ MadeAnew(q, b) \/ CopiedBack(q, b)
      PROVE  ~Raises(Head(q.script)) /\ Working(r)'
  <2>1. CASE BeforeMove(q, b) /\ ~ToRename(q.script, b)
    BY <1>1, <1>7, <2>1, PragmaWorks DEF Working
  <2>2. CASE BeforeMove(q, b) /\ ToRename(q.script, b)
    BY <1>1, <1>7, <2>2, RenameWorks DEF Working
  <2>3. CASE MovedAway(q, b)
    BY <1>1, <1>7, <2>3, CreateWorks DEF Working
  <2>4. CASE MadeAnew(q, b)
    BY <1>1, <1>7, <2>4, CopyWorks DEF Working
  <2>5. CASE CopiedBack(q, b)
    <3>1. ~Raises(Head(q.script)) /\ ToEnd(r.script) /\ AllFine(b.at)'
      BY <1>7, <2>5, DropWorks
    <3>2. b.at \in 4 .. 10
      BY RebuildsAre
    <3> QED
      BY <1>1, <1>7, <3>1, <3>2 DEF Working
  <2> QED
    BY <1>7, <2>1, <2>2, <2>3, <2>4, <2>5
<1> QED
  BY <1>2, <1>3, <1>5, <1>6, <1>7 DEF Working

-----------------------------------------------------------------------------
(* Stages.                                                                 *)

LEMMA RebuildStarts ==
  ASSUME NEW b \in Rebuilds, b.ddl = Canonical(b.table)
  PROVE  ToKeys(_rebuild_table(b.table, b.old), b)
<1> DEFINE p1 == Pragma("fk", FALSE)
           p2 == Pragma("legacy", TRUE)
           s1 == Rename(b.table, b.old)
           s2 == Create(b.table, b.ddl)
           s3 == Copy(b.old, b.table)
           s4 == Drop(b.old)
           p3 == Pragma("legacy", FALSE)
           p4 == Pragma("fk", TRUE)
<1>1. _rebuild_table(b.table, b.old) = <<p1, p2, s1, s2, s3, s4, p3, p4>>
  BY DEF _rebuild_table
<1>2. ToEnd(<<p3, p4>>)
  BY DEF ToEnd
<1> HIDE DEF p1, p2, s1, s2, s3, s4, p3, p4
<1>3. ToDrop(<<s4, p3, p4>>, b)
  BY <1>2, Tails DEF ToDrop, s4
<1>4. ToCopy(<<s3, s4, p3, p4>>, b)
  BY <1>3, Tails DEF ToCopy, s3
<1>5. ToCreate(<<s2, s3, s4, p3, p4>>, b)
  BY <1>4, Tails DEF ToCreate, s2
<1>6. ToRename(<<s1, s2, s3, s4, p3, p4>>, b)
  BY <1>5, Tails DEF ToRename, s1
<1>7. ToLegacy(<<p2, s1, s2, s3, s4, p3, p4>>, b)
  BY <1>6, Tails DEF ToLegacy, p2
<1>8. ToKeys(<<p1, p2, s1, s2, s3, s4, p3, p4>>, b)
  BY <1>7, Tails DEF ToKeys, p1
<1> QED
  BY <1>1, <1>8

LEMMA ContractStarts ==
  ASSUME NEW b, b = Rebuild(4, "edges", "edges_old", ContractEdges)
  PROVE  ToKeys(ContractScript, b)
<1> DEFINE p1 == Pragma("fk", FALSE)
           s1 == Rename("edges", "edges_old")
           s2 == Create("edges", ContractEdges)
           s3 == Copy("edges_old", "edges")
           s4 == Drop("edges_old")
           p4 == Pragma("fk", TRUE)
<1>1. ContractScript = <<p1, s1, s2, s3, s4, p4>>
  BY DEF ContractScript
<1>2. ToEnd(<<p4>>)
  BY DEF ToEnd
<1>3. b.table = "edges" /\ b.old = "edges_old" /\ b.ddl = ContractEdges
  BY DEF Rebuild
<1> HIDE DEF p1, s1, s2, s3, s4, p4
<1>4. ToDrop(<<s4, p4>>, b)
  BY <1>2, <1>3, Tails DEF ToDrop, s4
<1>5. ToCopy(<<s3, s4, p4>>, b)
  BY <1>3, <1>4, Tails DEF ToCopy, s3
<1>6. ToCreate(<<s2, s3, s4, p4>>, b)
  BY <1>3, <1>5, Tails DEF ToCreate, s2
<1>7. ToRename(<<s1, s2, s3, s4, p4>>, b)
  BY <1>3, <1>6, Tails DEF ToRename, s1
<1>8. ToKeys(<<p1, s1, s2, s3, s4, p4>>, b)
  BY <1>3, <1>7, Tails DEF ToKeys, p1
<1> QED
  BY <1>1, <1>8

\* A call with nothing left of a script has done what its stage and those before it do.
LEMMA DoneIsFine ==
  ASSUME NEW q, Working(q), q.script = <<>>
  PROVE  q.stage \in 1 .. 10 /\ AllFine(q.stage)
<1>1. CASE q.stage = 1 /\ Ensuring(q.script)
  <2>1. DOMAIN db = Tables
    <3>1. 1 .. Len(q.script) = {}
      OBVIOUS
    <3>2. Tables \ DOMAIN db = {}
      BY <1>1, <3>1 DEF Ensuring
    <3> QED
      BY <1>1, <3>2 DEF Ensuring, Resting
  <2>2. \A t \in Tables : \A x : PastOf(t, x, 1)
    BY DEF PastOf
  <2> QED
    BY <1>1, <2>1, <2>2 DEF Ensuring, Resting, AllFine, Fine
<1>2. CASE q.stage \in 1 .. 10 /\ ToEnd(q.script) /\ AllFine(q.stage)
  BY <1>2
<1>3. \A t, k : ~Adding(q.script, t, k)
  BY Tails DEF Adding
<1>4. \A b : /\ ~BeforeMove(q, b) /\ ~MovedAway(q, b) /\ ~MadeAnew(q, b) /\ ~CopiedBack(q, b)
  BY DEF BeforeMove, MovedAway, MadeAnew, CopiedBack, ToKeys, ToLegacy, ToRename, ToCreate, ToCopy, ToDrop
<1> QED
  BY <1>1, <1>2, <1>3, <1>4 DEF Working

\* A stage with nothing to do leaves the tables as the next one needs them.
LEMMA NothingToDo ==
  ASSUME NEW r, r.stage \in 2 .. 10, r.script = <<>>, AllFine(r.stage - 1),
         \A t \in Tables : PastOf(t, db[t], r.stage - 1) => PastOf(t, db[t], r.stage)
  PROVE  Working(r)
<1>1. AllFine(r.stage)
  BY DEF AllFine, Fine
<1>2. ToEnd(r.script)
  BY DEF ToEnd
<1> QED
  BY <1>1, <1>2 DEF Working

LEMMA RebuildBegins ==
  ASSUME NEW b \in Rebuilds, NEW r, r.stage = b.at, ToKeys(r.script, b), AllFine(b.at - 1)
  PROVE  Working(r)
<1>1. b.table \in Tables
  BY RebuildsAre DEF Tables
<1>2. \A t \in Tables \ {b.table} : \A x : PastOf(t, x, b.at - 1) <=> PastOf(t, x, b.at)
  BY RebuildsAre
<1>3. BeforeMove(r, b)
  BY <1>1 DEF BeforeMove, AllFine
<1>4. OthersFine(b)
  BY <1>2 DEF OthersFine, AllFine, Fine
<1> QED
  BY <1>3, <1>4 DEF Working

\* What a stage may add to the script: one column, or a rebuild.
LEMMA AddBegins ==
  ASSUME NEW r, NEW t, NEW k, (t = "nodes" /\ k = 2) \/ (t = "edges" /\ k = 3),
         r.stage = k, r.script = _add_lifecycle(t), AllFine(k - 1)
  PROVE  Working(r)
<1>1. t \in DOMAIN db /\ t \in Tables /\ {db[t].lifecycle} \subseteq BOOLEAN
  BY DEF AllFine, Fine, Whole, Tables
<1>2. CASE db[t].lifecycle = FALSE
  <2>1. r.script = <<AddLifecycle(t)>>
    BY <1>1, <1>2 DEF _add_lifecycle, When, Exists
  <2>2. Adding(r.script, t, k)
    BY <1>2, <2>1 DEF Adding
  <2> QED
    BY <2>2 DEF Working
<1>3. CASE db[t].lifecycle = TRUE
  <2>1. r.script = <<>>
    BY <1>1, <1>3 DEF _add_lifecycle, When, Exists
  <2>2. \A n \in Tables : PastOf(n, db[n], k - 1) => PastOf(n, db[n], k)
    BY <1>3 DEF PastOf
  <2>3. r.stage \in 2 .. 10 /\ r.stage - 1 = k - 1
    OBVIOUS
  <2> QED
    BY <2>1, <2>2, <2>3, NothingToDo
<1> QED
  BY <1>1, <1>2, <1>3

LEMMA StageWorks ==
  ASSUME NEW q, NEW r, Working(q), q.script = <<>>, q.stage \in 1 .. Stages,
         r.stage = q.stage + 1, r.script = ensure_schema_migrations(q.stage)
  PROVE  Working(r)
<1> DEFINE k == q.stage
<1>1. AllFine(k)
  BY DoneIsFine
<1>2. \A t \in Tables : /\ t \in DOMAIN db /\ Fine(t, db[t], stored[t], k)
                        /\ db[t].contract \in BOOLEAN /\ db[t].kindCheck \in BOOLEAN
                        /\ db[t].external \in BOOLEAN
  BY <1>1 DEF AllFine, Fine, Whole
<1>3. "nodes" \in Tables /\ "edges" \in Tables /\ "foreign_edges" \in Tables
  BY DEF Tables
<1>4. ASSUME r.script = <<>>,
             \A t \in Tables : PastOf(t, db[t], k) => PastOf(t, db[t], k + 1)
      PROVE  Working(r)
  <2>1. r.stage \in 2 .. 10 /\ r.stage - 1 = k
    BY DEF Stages
  <2> QED
    BY <1>1, <1>4, <2>1, NothingToDo
<1>5. ASSUME NEW b \in Rebuilds, b.at = k + 1, ToKeys(r.script, b)
      PROVE  Working(r)
  <2>1. b.at - 1 = k /\ r.stage = b.at
    BY <1>5
  <2> QED
    BY <1>1, <1>5, <2>1, RebuildBegins
<1>6. ASSUME NEW t, NEW o, NEW c \in BOOLEAN, r.script = When(c, _rebuild_table(t, o)),
             Rebuild(k + 1, t, o, Canonical(t)) \in Rebuilds,
             ~c => \A n \in Tables : PastOf(n, db[n], k) => PastOf(n, db[n], k + 1)
      PROVE  Working(r)
  <2> DEFINE b == Rebuild(k + 1, t, o, Canonical(t))
  <2>1. b.at = k + 1 /\ b.table = t /\ b.old = o /\ b.ddl = Canonical(t)
    BY DEF Rebuild
  <2>2. b \in Rebuilds
    BY <1>6
  <2> HIDE DEF b
  <2>3. ToKeys(_rebuild_table(t, o), b)
    BY <2>1, <2>2, RebuildStarts
  <2>4. CASE c
    BY <1>5, <1>6, <2>1, <2>2, <2>3, <2>4 DEF When
  <2>5. CASE ~c
    BY <1>4, <1>6, <2>5 DEF When
  <2> QED
    BY <2>4, <2>5
<1>7. CASE k = 1
  <2>1. r.stage = 2 /\ r.script = _add_lifecycle("nodes")
    BY <1>7 DEF ensure_schema_migrations
  <2> QED
    BY <1>1, <1>7, <2>1, AddBegins
<1>8. CASE k = 2
  <2>1. r.stage = 3 /\ r.script = _add_lifecycle("edges")
    BY <1>8 DEF ensure_schema_migrations
  <2> QED
    BY <1>1, <1>8, <2>1, AddBegins
<1>9. CASE k = 3
  <2>1. r.script = When(~db["edges"].contract, ContractScript)
    BY <1>2, <1>3, <1>9 DEF ensure_schema_migrations, _migrate_edges_contract_kinds, Exists
  <2>2. CASE ~db["edges"].contract
    <3>1. PICK b \in Rebuilds : b = Rebuild(4, "edges", "edges_old", ContractEdges)
      BY DEF Rebuilds
    <3>2. ToKeys(ContractScript, b) /\ b.at = 4
      BY <3>1, ContractStarts DEF Rebuild
    <3> QED
      BY <1>5, <1>9, <2>1, <2>2, <3>2 DEF When
  <2>3. CASE db["edges"].contract
    <3>1. \A t \in Tables : PastOf(t, db[t], 3) => PastOf(t, db[t], 4)
      BY <2>3 DEF PastOf
    <3> QED
      BY <1>4, <1>9, <2>1, <2>3, <3>1 DEF When
  <2> QED
    BY <2>2, <2>3
<1>10. CASE k = 4
  <2>1. r.script = <<>>
    BY <1>2, <1>3, <1>10 DEF ensure_schema_migrations, _ensure_foreign_edges_table, Exists, When
  <2>2. \A t \in Tables : PastOf(t, db[t], 4) => PastOf(t, db[t], 5)
    BY DEF PastOf
  <2> QED
    BY <1>4, <1>10, <2>1, <2>2
<1>11. CASE k = 5
  <2>1. r.script = When(db["nodes"].kindCheck, _rebuild_table("nodes", KindOld("nodes")))
    BY <1>2, <1>3, <1>11 DEF ensure_schema_migrations, _migrate_drop_kind_checks, Exists
  <2>2. Rebuild(6, "nodes", KindOld("nodes"), Canonical("nodes")) \in Rebuilds
    BY DEF Rebuilds
  <2>3. ~db["nodes"].kindCheck => \A t \in Tables : PastOf(t, db[t], 5) => PastOf(t, db[t], 6)
    BY DEF PastOf
  <2> QED
    BY <1>2, <1>3, <1>6, <1>11, <2>1, <2>2, <2>3
<1>12. CASE k = 6
  <2>1. r.script = When(db["edges"].kindCheck, _rebuild_table("edges", KindOld("edges")))
    BY <1>2, <1>3, <1>12 DEF ensure_schema_migrations, _migrate_drop_kind_checks, Exists
  <2>2. Rebuild(7, "edges", KindOld("edges"), Canonical("edges")) \in Rebuilds
    BY DEF Rebuilds
  <2>3. ~db["edges"].kindCheck => \A t \in Tables : PastOf(t, db[t], 6) => PastOf(t, db[t], 7)
    BY DEF PastOf
  <2> QED
    BY <1>2, <1>3, <1>6, <1>12, <2>1, <2>2, <2>3
<1>13. CASE k = 7
  <2> DEFINE c == ~db["nodes"].external
  <2>1. r.script = When(c, _rebuild_table("nodes", LifeOld("nodes")))
    BY <1>2, <1>3, <1>13 DEF ensure_schema_migrations, _migrate_lifecycle_external, Exists
  <2>2. Rebuild(8, "nodes", LifeOld("nodes"), Canonical("nodes")) \in Rebuilds
    BY DEF Rebuilds
  <2>3. ~c => \A t \in Tables : PastOf(t, db[t], 7) => PastOf(t, db[t], 8)
    BY DEF PastOf
  <2>4. c \in BOOLEAN
    BY <1>2, <1>3
  <2> HIDE DEF c
  <2> QED
    BY <1>6, <1>13, <2>1, <2>2, <2>3, <2>4
<1>14. CASE k = 8
  <2> DEFINE c == ~db["edges"].external
  <2>1. r.script = When(c, _rebuild_table("edges", LifeOld("edges")))
    BY <1>2, <1>3, <1>14 DEF ensure_schema_migrations, _migrate_lifecycle_external, Exists
  <2>2. Rebuild(9, "edges", LifeOld("edges"), Canonical("edges")) \in Rebuilds
    BY DEF Rebuilds
  <2>3. ~c => \A t \in Tables : PastOf(t, db[t], 8) => PastOf(t, db[t], 9)
    BY DEF PastOf
  <2>4. c \in BOOLEAN
    BY <1>2, <1>3
  <2> HIDE DEF c
  <2> QED
    BY <1>6, <1>14, <2>1, <2>2, <2>3, <2>4
<1>15. CASE k = 9
  <2> DEFINE c == ~db["foreign_edges"].external
  <2>1. r.script = When(c, _rebuild_table("foreign_edges", LifeOld("foreign_edges")))
    BY <1>2, <1>3, <1>15 DEF ensure_schema_migrations, _migrate_lifecycle_external, Exists
  <2>2. Rebuild(10, "foreign_edges", LifeOld("foreign_edges"), Canonical("foreign_edges")) \in Rebuilds
    BY DEF Rebuilds
  <2>3. ~c => \A t \in Tables : PastOf(t, db[t], 9) => PastOf(t, db[t], 10)
    BY DEF PastOf
  <2>4. c \in BOOLEAN
    BY <1>2, <1>3
  <2> HIDE DEF c
  <2> QED
    BY <1>6, <1>15, <2>1, <2>2, <2>3, <2>4
<1> QED
  BY <1>7, <1>8, <1>9, <1>10, <1>11, <1>12, <1>13, <1>14, <1>15 DEF Stages

-----------------------------------------------------------------------------
(* Every step.                                                             *)

LEMMA WorkingSame ==
  ASSUME NEW r, Working(r), db' = db, stored' = stored
  PROVE  Working(r)'
<1>1. AllFine(r.stage)' = AllFine(r.stage) /\ Ensuring(r.script)' = Ensuring(r.script)
  BY DEF AllFine, Ensuring, Resting
<1>2. \A t, k : Adding(r.script, t, k) => Adding(r.script, t, k)'
  BY DEF Adding, AllFine
<1>3. \A b : OthersFine(b) => OthersFine(b)'
  BY DEF OthersFine
<1>4. \A b : /\ BeforeMove(r, b) => BeforeMove(r, b)'
             /\ MovedAway(r, b) => MovedAway(r, b)'
             /\ MadeAnew(r, b) => MadeAnew(r, b)'
             /\ CopiedBack(r, b) => CopiedBack(r, b)'
  BY DEF BeforeMove, MovedAway, MadeAnew, CopiedBack
<1> QED
  BY <1>1, <1>2, <1>3, <1>4 DEF Working

\* One caller goes on working, all the others are away.
LEMMA OneWorks ==
  ASSUME NEW c \in Callers, NEW r, r.stage # 0, Working(r)',
         \A d \in Callers : caller'[d] = IF d = c THEN r ELSE caller[d],
         \A d \in Callers \ {c} : caller[d].stage = 0 /\ caller[d].script = <<>>
  PROVE  Undisturbed'
<1>1. caller'[c] = r /\ \A d \in Callers \ {c} : caller'[d].stage = 0 /\ caller'[d].script = <<>>
  OBVIOUS
<1>2. Working(caller[c])'
  BY <1>1
<1>3. ~Quiet'
  BY <1>1 DEF Quiet
<1>4. \A d \in Callers :
        IF caller'[d].stage = 0 THEN caller'[d].script = <<>> ELSE Working(caller[d])'
  BY <1>1, <1>2
<1> QED
  BY <1>1, <1>3, <1>4 DEF Undisturbed

LEMMA UpgradeStarts == MigrationInit => Undisturbed
<1> SUFFICES ASSUME MigrationInit PROVE Undisturbed
  OBVIOUS
<1>1. \A c \in Callers : caller[c].stage = 0 /\ caller[c].script = <<>>
  BY DEF MigrationInit, Away
<1>2. ~completed
  BY DEF MigrationInit
<1>3. stored = [t \in Tables |-> IF t \in DOMAIN db THEN db[t].rows ELSE {}]
  BY DEF MigrationInit
<1>4. \A t \in Tables \ DOMAIN db : stored[t] = {}
  BY <1>3
<1>5. DOMAIN db \subseteq Tables /\ \A t \in DOMAIN db : Whole(t, db[t], db[t].rows)
  <2>1. CASE db = <<>>
    BY <2>1
  <2>2. ASSUME NEW v \in 0 .. 5, db = Earlier(v)
        PROVE  DOMAIN db \subseteq Tables /\ \A t \in DOMAIN db : Whole(t, db[t], db[t].rows)
    <3>1. DOMAIN db \subseteq Tables
      BY <2>2 DEF Earlier, Tables
    <3>2. ASSUME NEW t \in DOMAIN db PROVE \E rs : Whole(t, db[t], rs)
      <4>1. CASE t = "nodes"
        <5>1. db[t] = [Ddl(t, v >= 1, v >= 2, v < 4, v >= 5) EXCEPT !.rows = NodeRows]
          BY <2>2, <4>1 DEF Earlier
        <5>2. Whole(t, [Ddl(t, v >= 1, v >= 2, v < 4, v >= 5) EXCEPT !.rows = NodeRows], NodeRows)
          BY <4>1, EarlierWhole
        <5> QED
          BY <5>1, <5>2
      <4>2. CASE t = "edges"
        <5>1. db[t] = [Ddl(t, v >= 1, v >= 2, v < 4, v >= 5) EXCEPT !.rows = EdgeRows]
          BY <2>2, <4>2 DEF Earlier
        <5>2. Whole(t, [Ddl(t, v >= 1, v >= 2, v < 4, v >= 5) EXCEPT !.rows = EdgeRows], EdgeRows)
          BY <4>2, EarlierWhole
        <5> QED
          BY <5>1, <5>2
      <4>3. CASE t = "docs"
        <5>1. db[t] = [Ddl(t, TRUE, TRUE, FALSE, TRUE) EXCEPT !.rows = DocRows]
          BY <2>2, <4>3 DEF Earlier, Canonical
        <5>2. Whole(t, [Ddl(t, TRUE, TRUE, FALSE, TRUE) EXCEPT !.rows = DocRows], DocRows)
          BY <4>3, MadeWhole
        <5> QED
          BY <5>1, <5>2
      <4>4. CASE t = "foreign_edges"
        <5>1. db[t] = [Ddl(t, TRUE, TRUE, FALSE, v >= 5) EXCEPT !.rows = ForeignRows]
          BY <2>2, <4>4 DEF Earlier
        <5>2. Whole(t, [Ddl(t, TRUE, TRUE, FALSE, v >= 5) EXCEPT !.rows = ForeignRows], ForeignRows)
          BY <4>4, EarlierWhole
        <5> QED
          BY <5>1, <5>2
      <4> QED
        BY <3>1, <4>1, <4>2, <4>3, <4>4 DEF Tables
    <3> QED
      BY <3>1, <3>2, FieldsOf
  <2> QED
    BY <2>1, <2>2 DEF MigrationInit
<1>6. Resting
  BY <1>3, <1>4, <1>5 DEF Resting
<1> QED
  BY <1>1, <1>2, <1>6 DEF Undisturbed

LEMMA UpgradeKeeps == Shapes /\ Undisturbed /\ [MigrationNext]_mvars => Undisturbed'
<1> SUFFICES ASSUME Shapes, Undisturbed, [MigrationNext]_mvars, ~disturbed' PROVE Undisturbed'
  BY DEF Undisturbed
<1>1. DOMAIN caller = Callers /\ \A c \in Callers : DOMAIN caller[c] = CallerFields
  BY DEF Shapes, CallerOK
<1>2. ASSUME NEW c \in Callers, create_schema(c) PROVE Undisturbed'
  <2>1. Quiet /\ ~disturbed /\ caller' = [caller EXCEPT ![c] = open_db] /\ db' = db /\ stored' = stored
    BY <1>2 DEF create_schema
  <2>2. Resting /\ \A d \in Callers : caller[d].stage = 0 /\ caller[d].script = <<>>
    BY <2>1 DEF Undisturbed, Quiet
  <2>3. Ensuring(_SCHEMA_SQL)
    <3>1. \A S : \A a, b, d, e \in S : <<a, b, d, e>> \in Seq(S)
      OBVIOUS
    <3>2. _SCHEMA_SQL \in Seq({CreateIfMissing(t) : t \in Tables})
      BY <3>1 DEF _SCHEMA_SQL, Tables
    <3>3. \A a, b, d, e : LET z == <<a, b, d, e>> IN
            1 .. Len(z) = 1 .. 4 /\ z[1] = a /\ z[2] = b /\ z[3] = d /\ z[4] = e
      OBVIOUS
    <3>4. \A t \in Tables : \E i \in 1 .. Len(_SCHEMA_SQL) : _SCHEMA_SQL[i] = CreateIfMissing(t)
      BY <3>3 DEF _SCHEMA_SQL, Tables
    <3> QED
      BY <2>2, <3>2, <3>4 DEF Ensuring
  <2>4. open_db.stage = 1 /\ open_db.script = _SCHEMA_SQL
    BY DEF open_db
  <2>5. Working(open_db)
    BY <2>3, <2>4 DEF Working
  <2> HIDE DEF open_db
  <2>6. Working(open_db)'
    BY <2>1, <2>5, WorkingSame
  <2>7. \A d \in Callers : caller'[d] = IF d = c THEN open_db ELSE caller[d]
    BY <1>1, <2>1
  <2> QED
    BY <2>2, <2>4, <2>6, <2>7, OneWorks
<1>3. ASSUME NEW c \in Callers, caller[c].stage # 0, ~disturbed
      PROVE  \A d \in Callers \ {c} : caller[d].stage = 0 /\ caller[d].script = <<>>
  BY <1>3 DEF Undisturbed
<1>4. ASSUME NEW c \in Callers, Statement(c) PROVE Undisturbed'
  <2>1. PICK q : q = caller[c]
    OBVIOUS
  <2> DEFINE s == Head(q.script)
             r == [q EXCEPT !.script = Tail(@),
                     !.fk = IF s.do = "pragma" /\ s.pragma = "fk" THEN s.on ELSE @,
                     !.legacy = IF s.do = "pragma" /\ s.pragma = "legacy" THEN s.on ELSE @]
  <2>2. ~disturbed /\ q.script # <<>> /\ stored' = stored
    BY <1>4, <2>1 DEF Statement
  <2>3. q.stage # 0 /\ Working(q)
    BY <2>1, <2>2 DEF Undisturbed
  <2>4. DOMAIN q = CallerFields
    BY <1>1, <2>1
  <2>5. Followed(q, r)
    BY <2>4 DEF Followed, CallerFields
  <2>6. Ran(q)
    BY <1>4, <2>1 DEF Statement, Ran
  <2>7. ~Raises(s) => caller' = [caller EXCEPT ![c] = r]
    BY <1>4, <2>1 DEF Statement
  <2> HIDE DEF r
  <2>8. ~Raises(s) /\ Working(r)'
    BY <2>2, <2>3, <2>5, <2>6, StatementWorks
  <2>9. r.stage # 0
    BY <2>3, <2>5 DEF Followed
  <2>10. \A d \in Callers : caller'[d] = IF d = c THEN r ELSE caller[d]
    BY <1>1, <2>7, <2>8
  <2> QED
    BY <1>3, <2>1, <2>2, <2>3, <2>8, <2>9, <2>10, OneWorks
<1>5. ASSUME NEW c \in Callers, Stage(c) PROVE Undisturbed'
  <2>1. PICK q : q = caller[c]
    OBVIOUS
  <2>2. PICK r : r = [q EXCEPT !.stage = @ + 1, !.script = ensure_schema_migrations(q.stage)]
    OBVIOUS
  <2>3. /\ ~disturbed /\ q.script = <<>> /\ q.stage \in 1 .. Stages /\ db' = db /\ stored' = stored
        /\ caller' = [caller EXCEPT ![c] = r]
    BY <1>5, <2>1, <2>2 DEF Stage
  <2>4. q.stage # 0 /\ Working(q)
    BY <2>1, <2>3 DEF Undisturbed
  <2>5. DOMAIN q = CallerFields
    BY <1>1, <2>1
  <2>6. r.stage = q.stage + 1 /\ r.script = ensure_schema_migrations(q.stage)
    BY <2>5, <2>2 DEF CallerFields
  <2>7. Working(r)
    BY <2>3, <2>4, <2>6, StageWorks
  <2>8. Working(r)' /\ r.stage # 0
    BY <2>3, <2>6, <2>7, WorkingSame
  <2>9. \A d \in Callers : caller'[d] = IF d = c THEN r ELSE caller[d]
    BY <1>1, <2>3
  <2> QED
    BY <1>3, <2>1, <2>3, <2>4, <2>8, <2>9, OneWorks
<1>6. ASSUME NEW c \in Callers, Return(c) PROVE Undisturbed'
  <2>1. PICK q : q = caller[c]
    OBVIOUS
  <2>2. /\ ~disturbed /\ q.script = <<>> /\ q.stage > Stages /\ db' = db /\ stored' = stored
        /\ caller' = [caller EXCEPT ![c] = Away]
    BY <1>6, <2>1 DEF Return
  <2>3. q.stage # 0 /\ Working(q)
    BY <2>1, <2>2 DEF Undisturbed, Stages
  <2>4. q.stage = 10 /\ AllFine(10)
    BY <2>2, <2>3, DoneIsFine DEF Stages
  <2>5. \A d \in Callers : caller'[d].stage = 0 /\ caller'[d].script = <<>>
    BY <1>1, <1>3, <2>1, <2>2, <2>3 DEF Away
  <2>6. AllFine(10)'
    BY <2>2, <2>4 DEF AllFine
  <2>7. Resting'
    BY <2>6 DEF AllFine, Fine, Resting
  <2> QED
    BY <2>5, <2>6, <2>7 DEF Undisturbed
<1>7. ASSUME NEW c \in Callers, Killed(c) PROVE Undisturbed'
  BY <1>7 DEF Killed
<1>8. CASE UNCHANGED mvars
  <2>1. /\ db' = db /\ stored' = stored /\ caller' = caller /\ completed' = completed
        /\ disturbed' = disturbed
    BY <1>8 DEF mvars
  <2>2. Quiet' = Quiet /\ (Resting => Resting') /\ (AllFine(10) => AllFine(10)')
    BY <2>1 DEF Quiet, Resting, AllFine
  <2>3. ASSUME NEW c \in Callers, Working(caller[c]) PROVE Working(caller[c])'
    <3>1. PICK q : q = caller[c]
      OBVIOUS
    <3>2. Working(q)'
      BY <2>1, <2>3, <3>1, WorkingSame
    <3>3. caller'[c] = q
      BY <2>1, <3>1
    <3> QED
      BY <3>2, <3>3
  <2> QED
    BY <2>1, <2>2, <2>3 DEF Undisturbed
<1> QED
  BY <1>2, <1>4, <1>5, <1>6, <1>7, <1>8 DEF MigrationNext

\* From any earlier release's schema, and from none, a call that is not killed and meets no
\* other, after calls as undisturbed, leaves the schema of today with every row in its table
\* and no copy behind: each stage finds what the stages before it left, no statement raises,
\* and the pragmas keep the other tables' references and rows out of it.
THEOREM UpgradesKeepRows == MigrationSpec => []UpgradeKeepsRows
<1>1. Undisturbed => UpgradeKeepsRows
  <2> SUFFICES ASSUME AllFine(10)
               PROVE  /\ DOMAIN db = Tables
                      /\ \A t \in Tables : db[t] = [Canonical(t) EXCEPT !.rows = stored[t]]
    BY DEF Undisturbed, UpgradeKeepsRows
  <2>1. ASSUME NEW t \in Tables PROVE db[t] = [Canonical(t) EXCEPT !.rows = stored[t]]
    <3>1. Fine(t, db[t], stored[t], 10)
      BY DEF AllFine
    <3>2. {db[t].lifecycle, db[t].contract, db[t].kindCheck, db[t].external} \subseteq BOOLEAN
      BY <3>1 DEF Fine, Whole
    <3>3. db[t].lifecycle = TRUE /\ db[t].contract = TRUE /\ db[t].kindCheck = FALSE
          /\ db[t].external = TRUE
      BY <3>1, <3>2 DEF Fine, Whole, PastOf, Tables
    <3>4. db[t] = [lifecycle |-> TRUE, contract |-> TRUE, kindCheck |-> FALSE, external |-> TRUE,
                   parent |-> Parent(t), rows |-> stored[t]]
      BY <3>1, <3>3 DEF Fine, Whole
    <3> DEFINE y == [Canonical(t) EXCEPT !.rows = stored[t]]
    <3>5. Whole(t, y, stored[t])
      BY MadeWhole DEF Canonical
    <3>6. y.lifecycle = TRUE /\ y.contract = TRUE /\ y.kindCheck = FALSE /\ y.external = TRUE
      BY DEF Canonical, Ddl
    <3> HIDE DEF y
    <3>7. y = [lifecycle |-> TRUE, contract |-> TRUE, kindCheck |-> FALSE, external |-> TRUE,
               parent |-> Parent(t), rows |-> stored[t]]
      BY <3>5, <3>6 DEF Whole
    <3> QED
      BY <3>4, <3>7 DEF y
  <2> QED
    BY <2>1 DEF AllFine
<1>2. MigrationInv => Shapes
  BY DEF MigrationInv
<1> QED
  BY <1>1, <1>2, UpgradeStarts, UpgradeKeeps, MigrationStarts, MigrationKeeps, PTL DEF MigrationSpec
=============================================================================
