------------------------------ MODULE SyncState ------------------------------
(***************************************************************************)
(* The doc-code freshness ledger of Beadloom: the sync_state table that    *)
(* `reindex` rebuilds, `sync-check` reads and re-baselines, and            *)
(* `sync-update` overwrites, next to the files on disk it talks about and  *)
(* the docs / code_symbols tables it is derived from.                      *)
(*                                                                         *)
(* A version of a file stands for its content and, being compared only for *)
(* equality, for its SHA-256 as well.  A reindex is one step here; what     *)
(* happens inside one is the subject of module Reindex.                    *)
(***************************************************************************)
EXTENDS FiniteSets

CONSTANTS
  Refs,          \* graph nodes that list at least one doc
  Docs,          \* doc paths listed by a node
  Codes,         \* code files under the scan paths
  DocVersions,   \* contents a doc can have
  CodeVersions,  \* contents a code file can have
  Symbols,       \* symbol names
  DocRef,        \* the node each doc documents (_build_doc_ref_map)
  Annotated,     \* content |-> the <<node, symbol>> annotations found in it
  Absent,        \* no such file / no such row
  NoHash         \* the empty string in doc_hash_at_last_edit

ASSUME SyncConstants ==
  /\ DocRef \in [Docs -> Refs]
  /\ Annotated \in [CodeVersions -> SUBSET (Refs \X Symbols)]
  /\ Absent \notin DocVersions \cup CodeVersions
  /\ NoHash \notin DocVersions

VARIABLES
  diskDoc, diskCode,   \* the working tree
  idxDoc, idxCode,     \* the version each row of docs / code_symbols was read from
  rows,                \* sync_state: a function whose domain is a set of pairs
  session,             \* pairs an interactive sync-update has still to mark
  marked               \* history: rows marked synced, files of the node untouched since

vars == <<diskDoc, diskCode, idxDoc, idxCode, rows, session, marked>>

Pairs == Docs \X Codes
DocOf(p) == p[1]
CodeOf(p) == p[2]
RefOf(p) == DocRef[p[1]]

Row == [codeAt : CodeVersions, docAt : DocVersions, editAt : DocVersions \cup {NoHash},
        symbols : SUBSET (Codes \X Symbols), status : {"ok", "stale"}]

TypeOK ==
  /\ diskDoc \in [Docs -> DocVersions \cup {Absent}]
  /\ diskCode \in [Codes -> CodeVersions \cup {Absent}]
  /\ idxDoc \in [Docs -> DocVersions \cup {Absent}]
  /\ idxCode \in [Codes -> CodeVersions \cup {Absent}]
  /\ DOMAIN rows \subseteq Pairs
  /\ \A p \in DOMAIN rows : rows[p] \in Row
  /\ session \subseteq Pairs
  /\ marked \subseteq DOMAIN rows

(***************************************************************************)
(* What the index says.                                                    *)
(***************************************************************************)
AnnotationsIn(v) == IF v = Absent THEN {} ELSE Annotated[v]

\* _compute_symbols_hash: the symbols annotated with r, with their file.
SymbolsOf(code, r) ==
  {cs \in Codes \X Symbols : <<r, cs[2]>> \in AnnotationsIn(code[cs[1]])}

\* build_sync_state: an indexed doc pairs with every file annotated with its node.
IndexedPairs(doc, code) ==
  {p \in Pairs : /\ doc[DocOf(p)] # Absent
                 /\ \E s \in Symbols : <<RefOf(p), s>> \in AnnotationsIn(code[CodeOf(p)])}

(***************************************************************************)
(* sync-check, one row at a time.                                          *)
(***************************************************************************)
DocEdited(p) ==
  /\ diskDoc[DocOf(p)] # Absent
  /\ rows[p].editAt # NoHash
  /\ diskDoc[DocOf(p)] # rows[p].editAt

CodeDrift(p) == diskCode[CodeOf(p)] \notin {Absent, rows[p].codeAt}
DocDrift(p) == diskDoc[DocOf(p)] \notin {Absent, rows[p].docAt}

SymbolDrift(p) ==
  /\ rows[p].symbols # {}
  /\ SymbolsOf(idxCode, RefOf(p)) # rows[p].symbols

Stale(p) == CodeDrift(p) \/ DocDrift(p) \/ SymbolDrift(p)

\* The row check_sync leaves behind; gaps are the nodes its coverage phases
\* report (untracked files, missing modules).
CheckedRow(p, gaps) ==
  [rows[p] EXCEPT
     !.codeAt = IF DocEdited(p) /\ diskCode[CodeOf(p)] # Absent
                  THEN diskCode[CodeOf(p)] ELSE @,
     !.editAt = IF diskDoc[DocOf(p)] # Absent /\ (DocEdited(p) \/ @ = NoHash)
                  THEN diskDoc[DocOf(p)] ELSE @,
     !.status = IF Stale(p) \/ RefOf(p) \in gaps THEN "stale" ELSE "ok"]

CheckAll(gaps) == [p \in DOMAIN rows |-> CheckedRow(p, gaps)]

(***************************************************************************)
(* The rebuild of sync_state at the end of a reindex.  preserved_symbols   *)
(* keeps one hash per node, that of the last row read, and the row order   *)
(* depends on earlier reindexes: lastRow names the row that wins.          *)
(***************************************************************************)
SymbolRows(r) == {p \in DOMAIN rows : RefOf(p) = r /\ rows[p].symbols # {}}

KeptSymbolsBlank(r, lastRow, code) ==      \* mutant: nothing kept, nothing computed
  IF SymbolRows(r) = {} THEN {} ELSE rows[lastRow[r]].symbols
KeptSymbolsFresh(r, lastRow, code) == SymbolsOf(code, r)  \* mutant: baseline recomputed

KeptSymbols(r, lastRow, code) ==
  IF SymbolRows(r) = {} THEN SymbolsOf(code, r) ELSE rows[lastRow[r]].symbols

KeptEditDropped(p) == NoHash                \* mutant: one-phase sync state
KeptEdit(p) == IF p \in DOMAIN rows THEN rows[p].editAt ELSE NoHash

RebuiltRow(p, doc, code, lastRow) ==
  [codeAt |-> IF KeptEdit(p) # NoHash /\ KeptEdit(p) = doc[DocOf(p)]
                THEN rows[p].codeAt ELSE code[CodeOf(p)],
   docAt |-> doc[DocOf(p)],
   editAt |-> KeptEdit(p),
   symbols |-> KeptSymbols(RefOf(p), lastRow, code),
   status |-> "ok"]

RowChoices ==
  {f \in [Refs -> Pairs] : \A r \in Refs : SymbolRows(r) # {} => f[r] \in SymbolRows(r)}

(***************************************************************************)
(* The actions.                                                            *)
(***************************************************************************)
Init ==
  /\ diskDoc \in [Docs -> DocVersions \cup {Absent}]
  /\ diskCode \in [Codes -> CodeVersions \cup {Absent}]
  /\ idxDoc = [d \in Docs |-> Absent]
  /\ idxCode = [c \in Codes |-> Absent]
  /\ rows = [p \in {} |-> Absent]
  /\ session = {}
  /\ marked = {}

EditDoc(d, v) ==
  /\ v # diskDoc[d]
  /\ diskDoc' = [diskDoc EXCEPT ![d] = v]
  /\ marked' = {p \in marked : DocOf(p) # d}
  /\ UNCHANGED <<diskCode, idxDoc, idxCode, rows, session>>

\* An edit of c touches every node annotated in c before or after it.
EditCode(c, v) ==
  /\ v # diskCode[c]
  /\ diskCode' = [diskCode EXCEPT ![c] = v]
  /\ marked' = {p \in marked : /\ CodeOf(p) # c
                               /\ \A s \in Symbols :
                                    <<RefOf(p), s>> \notin AnnotationsIn(v)
                                                    \cup AnnotationsIn(diskCode[c])}
  /\ UNCHANGED <<diskDoc, idxDoc, idxCode, rows, session>>

Rebuild(lastRow) ==
  /\ idxDoc' = diskDoc
  /\ idxCode' = diskCode
  /\ rows' = [p \in IndexedPairs(diskDoc, diskCode) |->
                RebuiltRow(p, diskDoc, diskCode, lastRow)]
  /\ marked' = marked \cap IndexedPairs(diskDoc, diskCode)
  /\ UNCHANGED <<diskDoc, diskCode, session>>

FullReindex == \E lastRow \in RowChoices : Rebuild(lastRow)

\* Nothing but a timestamp is written when no file changed.
IncrementalReindex ==
  /\ <<diskDoc, diskCode>> # <<idxDoc, idxCode>>
  /\ \E lastRow \in RowChoices : Rebuild(lastRow)

CheckSync ==
  /\ \E gaps \in SUBSET Refs : rows' = CheckAll(gaps)
  /\ UNCHANGED <<diskDoc, diskCode, idxDoc, idxCode, session, marked>>

\* Hashing a missing file gives None, which the NOT NULL columns refuse.
Hashable(p) == diskDoc[DocOf(p)] # Absent /\ diskCode[CodeOf(p)] # Absent

MarkedRowFromIndex(p) ==                    \* mutant: a mark trusts the index
  [codeAt |-> idxCode[CodeOf(p)], docAt |-> idxDoc[DocOf(p)],
   editAt |-> idxDoc[DocOf(p)], symbols |-> SymbolsOf(idxCode, RefOf(p)),
   status |-> "ok"]

\* File hashes are taken from disk, the symbols hash from the index.
MarkedRow(p) ==
  [codeAt |-> diskCode[CodeOf(p)], docAt |-> diskDoc[DocOf(p)],
   editAt |-> diskDoc[DocOf(p)], symbols |-> SymbolsOf(idxCode, RefOf(p)),
   status |-> "ok"]

Mark(ps) ==
  /\ rows' = [p \in DOMAIN rows |-> IF p \in ps THEN MarkedRow(p) ELSE rows[p]]
  /\ marked' = marked \cup (ps \cap DOMAIN rows)
  /\ UNCHANGED <<diskDoc, diskCode, idxDoc, idxCode>>

RowsOf(r) == {p \in DOMAIN rows : RefOf(p) = r}

\* sync-update --yes and the MCP mark_synced tool: one transaction per node,
\* rolled back whole when a file of it is missing.
MarkSyncedByRef(r) ==
  /\ RowsOf(r) # {}
  /\ \A p \in RowsOf(r) : Hashable(p)
  /\ Mark(RowsOf(r))
  /\ UNCHANGED session

\* Interactive sync-update: a check, then one editor per stale doc of r.
StartUpdate(r) ==
  /\ session = {}
  /\ \E gaps \in SUBSET Refs :
       /\ rows' = CheckAll(gaps)
       /\ session' = {p \in RowsOf(r) : CheckedRow(p, gaps).status = "stale"}
  /\ UNCHANGED <<diskDoc, diskCode, idxDoc, idxCode, marked>>

\* mark_synced for one captured pair; its row may have gone meanwhile.
MarkCaptured(p) ==
  /\ p \in session
  /\ p \in DOMAIN rows => Hashable(p)
  /\ Mark({p})
  /\ session' = session \ {p}

\* The user declines a doc, or it is missing.
SkipDoc(d) ==
  /\ \E p \in session : DocOf(p) = d
  /\ session' = {p \in session : DocOf(p) # d}
  /\ UNCHANGED <<diskDoc, diskCode, idxDoc, idxCode, rows, marked>>

\* A captured code file is gone: the command dies, the rest stays unmarked.
AbortUpdate ==
  /\ \E p \in session \cap DOMAIN rows : ~Hashable(p)
  /\ session' = {}
  /\ UNCHANGED <<diskDoc, diskCode, idxDoc, idxCode, rows, marked>>

Next ==
  \/ \E d \in Docs, v \in DocVersions \cup {Absent} : EditDoc(d, v)
  \/ \E c \in Codes, v \in CodeVersions \cup {Absent} : EditCode(c, v)
  \/ FullReindex
  \/ IncrementalReindex
  \/ CheckSync
  \/ \E r \in Refs : MarkSyncedByRef(r)
  \/ \E r \in Refs : StartUpdate(r)
  \/ \E p \in Pairs : MarkCaptured(p)
  \/ \E d \in Docs : SkipDoc(d)
  \/ AbortUpdate

Spec == Init /\ [][Next]_vars

(***************************************************************************)
(* Properties.                                                             *)
(***************************************************************************)

\* Between any two commands the ledger has exactly one row per pair of the
\* index, and every row has a symbols baseline: no sequence of deletions,
\* re-annotations, marks and rebuilds leaves a pair whose symbol drift
\* check_sync would skip (its `if stored_symbols_hash`).
LedgerMirrorsIndex ==
  /\ DOMAIN rows = IndexedPairs(idxDoc, idxCode)
  /\ \A p \in DOMAIN rows : rows[p].symbols # {}

\* mark_synced is not undone: while the files of a marked pair stay as they
\* were, no check, reindex or mark of another pair makes its file hashes drift.
MarkedStaysFresh == \A p \in marked : ~CodeDrift(p) /\ ~DocDrift(p)

\* Two-phase detection: once a check or a mark has seen the doc as it is now,
\* code drift outlives every later check and reindex, until the doc or the
\* code is edited, the pair is marked, or its row goes.
CodeDriftOutlives(p) ==
  (/\ rows[p].editAt = diskDoc[DocOf(p)]
   /\ CodeDrift(p)
   /\ diskDoc'[DocOf(p)] = diskDoc[DocOf(p)]
   /\ diskCode'[CodeOf(p)] = diskCode[CodeOf(p)]
   /\ p \notin marked') => CodeDrift(p)'

DriftSurvives == [][\A p \in DOMAIN rows \cap DOMAIN rows' : CodeDriftOutlives(p)]_vars

\* A node whose rows agree on their symbols baseline keeps it through checks
\* and reindexes, whichever row the rebuild reads last; only a mark moves it.
SymbolBaselineStays(p) ==
  (/\ p \notin marked'
   /\ \A q \in SymbolRows(RefOf(p)) : rows[q].symbols = rows[p].symbols)
    => rows'[p].symbols = rows[p].symbols

SymbolBaselineKept ==
  [][\A p \in DOMAIN rows \cap DOMAIN rows' : SymbolBaselineStays(p)]_vars

(***************************************************************************)
(* What the documentation says and the code does not do.                   *)
(***************************************************************************)

\* sync-check SPEC: "the engine never silently marks a stale doc fresh".  A
\* check that finds a pair stale leaves it stale for the check after it.
CheckNeverClears ==
  [][CheckSync => \A p \in DOMAIN rows : Stale(p) => Stale(p)']_vars

=============================================================================
