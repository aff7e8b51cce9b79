-------------------------- MODULE SyncStateProofs --------------------------
(***************************************************************************)
(* Proofs about SyncState, for every set of nodes, docs, code files and    *)
(* versions.                                                               *)
(***************************************************************************)
EXTENDS SyncState, TLAPS

(***************************************************************************)
(* The three kinds of row a step can write are rows.                       *)
(***************************************************************************)

\* check_sync only copies versions it found on disk into a row.
LEMMA CheckedRowType ==
  ASSUME TypeOK, NEW gaps, NEW p \in DOMAIN rows
  PROVE  CheckedRow(p, gaps) \in Row
<1>1. rows[p] \in Row /\ p \in Pairs
  BY DEF TypeOK
<1>2. DocOf(p) \in Docs /\ CodeOf(p) \in Codes
  BY <1>1 DEF Pairs, DocOf, CodeOf
<1>3. /\ diskDoc[DocOf(p)] \in DocVersions \cup {Absent}
      /\ diskCode[CodeOf(p)] \in CodeVersions \cup {Absent}
  BY <1>2 DEF TypeOK
<1> QED
  BY <1>1, <1>3 DEF CheckedRow, Row

\* mark_synced writes a row only from files that exist.
LEMMA MarkedRowType ==
  ASSUME TypeOK, NEW p \in DOMAIN rows, Hashable(p)
  PROVE  MarkedRow(p) \in Row
<1>1. DocOf(p) \in Docs /\ CodeOf(p) \in Codes
  BY DEF TypeOK, Pairs, DocOf, CodeOf
<1>2. diskDoc[DocOf(p)] \in DocVersions /\ diskCode[CodeOf(p)] \in CodeVersions
  BY <1>1 DEF TypeOK, Hashable
<1>3. SymbolsOf(idxCode, RefOf(p)) \in SUBSET (Codes \X Symbols)
  BY DEF SymbolsOf
<1> QED
  BY <1>2, <1>3 DEF MarkedRow, Row

\* A pair of the index comes from a doc and a code file that were there.
LEMMA IndexedPairPresent ==
  ASSUME NEW doc \in [Docs -> DocVersions \cup {Absent}],
         NEW code \in [Codes -> CodeVersions \cup {Absent}],
         NEW p \in IndexedPairs(doc, code)
  PROVE  /\ p \in Pairs
         /\ DocOf(p) \in Docs /\ CodeOf(p) \in Codes /\ RefOf(p) \in Refs
         /\ doc[DocOf(p)] \in DocVersions
         /\ code[CodeOf(p)] \in CodeVersions
<1>1. p \in Pairs /\ doc[DocOf(p)] # Absent
  BY DEF IndexedPairs
<1>2. DocOf(p) \in Docs /\ CodeOf(p) \in Codes /\ RefOf(p) \in Refs
  BY <1>1, SyncConstants DEF Pairs, DocOf, CodeOf, RefOf
<1>3. code[CodeOf(p)] # Absent
  BY DEF IndexedPairs, AnnotationsIn
<1> QED
  BY <1>1, <1>2, <1>3

\* The symbols baseline a rebuild writes is a set of symbols, and not empty.
LEMMA KeptSymbolsType ==
  ASSUME TypeOK, NEW lastRow \in RowChoices, NEW p \in IndexedPairs(diskDoc, diskCode)
  PROVE  /\ KeptSymbols(RefOf(p), lastRow, diskCode) \in SUBSET (Codes \X Symbols)
         /\ KeptSymbols(RefOf(p), lastRow, diskCode) # {}
<1>1. CodeOf(p) \in Codes /\ RefOf(p) \in Refs
  BY IndexedPairPresent DEF TypeOK
<1>2. CASE SymbolRows(RefOf(p)) = {}
  <2>1. PICK s \in Symbols : <<RefOf(p), s>> \in AnnotationsIn(diskCode[CodeOf(p)])
    BY DEF IndexedPairs
  <2>2. <<CodeOf(p), s>> \in SymbolsOf(diskCode, RefOf(p))
    BY <1>1, <2>1 DEF SymbolsOf
  <2> QED
    BY <1>2, <2>2 DEF KeptSymbols, SymbolsOf
<1>3. CASE SymbolRows(RefOf(p)) # {}
  <2>1. lastRow[RefOf(p)] \in SymbolRows(RefOf(p))
    BY <1>1, <1>3 DEF RowChoices
  <2>2. rows[lastRow[RefOf(p)]] \in Row /\ rows[lastRow[RefOf(p)]].symbols # {}
    BY <2>1 DEF SymbolRows, TypeOK
  <2> QED
    BY <1>3, <2>2 DEF KeptSymbols, Row
<1> QED
  BY <1>2, <1>3

\* Rebuilding a row keeps or replaces its baselines with versions of files.
LEMMA RebuiltRowType ==
  ASSUME TypeOK, NEW lastRow \in RowChoices, NEW p \in IndexedPairs(diskDoc, diskCode)
  PROVE  /\ RebuiltRow(p, diskDoc, diskCode, lastRow) \in Row
         /\ RebuiltRow(p, diskDoc, diskCode, lastRow).symbols # {}
<1>1. diskDoc[DocOf(p)] \in DocVersions /\ diskCode[CodeOf(p)] \in CodeVersions
  BY IndexedPairPresent DEF TypeOK
<1>2. KeptEdit(p) \in DocVersions \cup {NoHash}
  BY DEF KeptEdit, TypeOK, Row
<1>3. KeptEdit(p) # NoHash => rows[p].codeAt \in CodeVersions
  BY DEF KeptEdit, TypeOK, Row
<1> QED
  BY <1>1, <1>2, <1>3, KeptSymbolsType DEF RebuiltRow, Row

(***************************************************************************)
(* Type correctness.                                                       *)
(***************************************************************************)

\* Rebuilding the table keeps TypeOK.
LEMMA RebuildType ==
  ASSUME TypeOK, NEW lastRow \in RowChoices, Rebuild(lastRow)
  PROVE  TypeOK'
<1>1. DOMAIN rows' = IndexedPairs(diskDoc, diskCode)
  BY DEF Rebuild
<1>2. \A p \in DOMAIN rows' : rows'[p] \in Row
  BY <1>1, RebuiltRowType DEF Rebuild
<1>3. DOMAIN rows' \subseteq Pairs
  BY <1>1 DEF IndexedPairs
<1>4. marked' \subseteq DOMAIN rows'
  BY <1>1 DEF Rebuild
<1> QED
  BY <1>2, <1>3, <1>4 DEF TypeOK, Rebuild

\* A check of every row keeps TypeOK, apart from the interactive session.
LEMMA CheckAllType ==
  ASSUME TypeOK, NEW gaps, rows' = CheckAll(gaps)
  PROVE  /\ DOMAIN rows' = DOMAIN rows
         /\ \A p \in DOMAIN rows' : rows'[p] \in Row
  BY CheckedRowType DEF CheckAll

\* Marking pairs whose files are there keeps TypeOK, apart from the session.
LEMMA MarkType ==
  ASSUME TypeOK, NEW ps, Mark(ps), \A p \in ps \cap DOMAIN rows : Hashable(p)
  PROVE  /\ DOMAIN rows' = DOMAIN rows
         /\ \A p \in DOMAIN rows' : rows'[p] \in Row
         /\ marked' \subseteq DOMAIN rows'
<1>1. DOMAIN rows' = DOMAIN rows
  BY DEF Mark
<1>2. ASSUME NEW p \in DOMAIN rows PROVE rows'[p] \in Row
  BY MarkedRowType DEF Mark, TypeOK
<1> QED
  BY <1>1, <1>2 DEF Mark, TypeOK

\* Every step keeps TypeOK: in particular no command, in any order, writes a
\* missing hash into the ledger.
LEMMA TypeStep == TypeOK /\ [Next]_vars => TypeOK'
<1> SUFFICES ASSUME TypeOK, [Next]_vars PROVE TypeOK'
  OBVIOUS
<1>1. ASSUME NEW d \in Docs, NEW v \in DocVersions \cup {Absent}, EditDoc(d, v)
      PROVE  TypeOK'
  BY <1>1 DEF EditDoc, TypeOK
<1>2. ASSUME NEW c \in Codes, NEW v \in CodeVersions \cup {Absent}, EditCode(c, v)
      PROVE  TypeOK'
  BY <1>2 DEF EditCode, TypeOK
<1>3. CASE FullReindex
  BY <1>3, RebuildType DEF FullReindex
<1>4. CASE IncrementalReindex
  BY <1>4, RebuildType DEF IncrementalReindex
<1>5. CASE CheckSync
  <2>1. PICK gaps \in SUBSET Refs : rows' = CheckAll(gaps)
    BY <1>5 DEF CheckSync
  <2> QED
    BY <1>5, <2>1, CheckAllType DEF CheckSync, TypeOK
<1>6. ASSUME NEW r \in Refs, MarkSyncedByRef(r) PROVE TypeOK'
  <2>1. Mark(RowsOf(r)) /\ \A p \in RowsOf(r) : Hashable(p)
    BY <1>6 DEF MarkSyncedByRef
  <2> QED
    BY <1>6, <2>1, MarkType DEF MarkSyncedByRef, Mark, TypeOK
<1>7. ASSUME NEW r \in Refs, StartUpdate(r) PROVE TypeOK'
  <2>1. PICK gaps \in SUBSET Refs : /\ rows' = CheckAll(gaps)
                                    /\ session' \subseteq DOMAIN rows
    BY <1>7 DEF StartUpdate, RowsOf
  <2> QED
    BY <1>7, <2>1, CheckAllType DEF StartUpdate, TypeOK
<1>8. ASSUME NEW p \in Pairs, MarkCaptured(p) PROVE TypeOK'
  <2>1. Mark({p}) /\ \A q \in {p} \cap DOMAIN rows : Hashable(q)
    BY <1>8 DEF MarkCaptured
  <2> QED
    BY <1>8, <2>1, MarkType DEF MarkCaptured, Mark, TypeOK
<1>9. ASSUME NEW d \in Docs, SkipDoc(d) PROVE TypeOK'
  BY <1>9 DEF SkipDoc, TypeOK
<1>10. CASE AbortUpdate
  BY <1>10 DEF AbortUpdate, TypeOK
<1>11. CASE UNCHANGED vars
  BY <1>11 DEF vars, TypeOK
<1> QED
  BY <1>1, <1>2, <1>3, <1>4, <1>5, <1>6, <1>7, <1>8, <1>9, <1>10, <1>11 DEF Next

\* The ledger's rows are always whole: types hold in every reachable state.
THEOREM TypeCorrect == Spec => []TypeOK
<1>1. Init => TypeOK
  BY DEF Init, TypeOK
<1> QED
  BY <1>1, TypeStep, PTL DEF Spec

(***************************************************************************)
(* The ledger mirrors the index.                                           *)
(***************************************************************************)

\* Checks and marks keep the rows and leave every symbols baseline non-empty.
LEMMA LedgerStep == TypeOK /\ LedgerMirrorsIndex /\ [Next]_vars => LedgerMirrorsIndex'
<1> SUFFICES ASSUME TypeOK, LedgerMirrorsIndex, [Next]_vars PROVE LedgerMirrorsIndex'
  OBVIOUS
<1>1. ASSUME NEW lastRow \in RowChoices, Rebuild(lastRow) PROVE LedgerMirrorsIndex'
  <2>1. DOMAIN rows' = IndexedPairs(diskDoc, diskCode)
    BY <1>1 DEF Rebuild
  <2>2. IndexedPairs(diskDoc, diskCode) = IndexedPairs(idxDoc, idxCode)'
    BY <1>1 DEF Rebuild, IndexedPairs, RefOf, DocOf, CodeOf
  <2>3. \A p \in DOMAIN rows' : rows'[p].symbols # {}
    BY <1>1, <2>1, RebuiltRowType DEF Rebuild
  <2> QED
    BY <2>1, <2>2, <2>3 DEF LedgerMirrorsIndex
<1>2. ASSUME NEW gaps, rows' = CheckAll(gaps), UNCHANGED <<idxDoc, idxCode>>
      PROVE  LedgerMirrorsIndex'
  <2>1. \A p \in DOMAIN rows : CheckedRow(p, gaps).symbols = rows[p].symbols
    BY DEF TypeOK, Row, CheckedRow
  <2> QED
    BY <1>2, <2>1 DEF CheckAll, LedgerMirrorsIndex, IndexedPairs, RefOf, DocOf, CodeOf
<1>3. ASSUME NEW ps, Mark(ps) PROVE LedgerMirrorsIndex'
  <2>1. ASSUME NEW p \in DOMAIN rows PROVE MarkedRow(p).symbols # {}
    <3>1. p \in IndexedPairs(idxDoc, idxCode)
      BY DEF LedgerMirrorsIndex
    <3>2. PICK s \in Symbols : <<RefOf(p), s>> \in AnnotationsIn(idxCode[CodeOf(p)])
      BY <3>1 DEF IndexedPairs
    <3>3. <<CodeOf(p), s>> \in SymbolsOf(idxCode, RefOf(p))
      BY <3>2 DEF SymbolsOf, TypeOK, Pairs, CodeOf
    <3> QED
      BY <3>3 DEF MarkedRow
  <2> QED
    BY <1>3, <2>1 DEF Mark, LedgerMirrorsIndex, IndexedPairs, RefOf, DocOf, CodeOf
<1>4. ASSUME UNCHANGED <<rows, idxDoc, idxCode>> PROVE LedgerMirrorsIndex'
  BY <1>4 DEF LedgerMirrorsIndex, IndexedPairs, RefOf, DocOf, CodeOf
<1>5. CASE Next
  BY <1>1, <1>2, <1>3, <1>4, <1>5
     DEF Next, EditDoc, EditCode, FullReindex, IncrementalReindex, CheckSync,
         MarkSyncedByRef, StartUpdate, MarkCaptured, SkipDoc, AbortUpdate
<1> QED
  BY <1>4, <1>5 DEF vars

\* Between commands, the ledger has one row per pair of the index, each with a
\* symbols baseline.
THEOREM LedgerCorrect == Spec => []LedgerMirrorsIndex
<1>1. Init => LedgerMirrorsIndex
  BY DEF Init, LedgerMirrorsIndex, IndexedPairs, Pairs, DocOf
<1>2. Spec => []TypeOK
  BY TypeCorrect
<1> QED
  BY <1>1, <1>2, LedgerStep, PTL DEF Spec

(***************************************************************************)
(* A mark is not undone.  The last-edit hash has to be part of the         *)
(* invariant: it is what makes a rebuild keep the code baseline.           *)
(***************************************************************************)
MarkedBaselines ==
  \A p \in marked : /\ diskDoc[DocOf(p)] # Absent
                    /\ rows[p].codeAt = diskCode[CodeOf(p)]
                    /\ rows[p].docAt = diskDoc[DocOf(p)]
                    /\ rows[p].editAt = diskDoc[DocOf(p)]

\* Every step keeps the three hashes of a marked row equal to the disk.
LEMMA MarkedStep == TypeOK /\ MarkedBaselines /\ [Next]_vars => MarkedBaselines'
<1> SUFFICES ASSUME TypeOK, MarkedBaselines, [Next]_vars PROVE MarkedBaselines'
  OBVIOUS
<1> USE DEF MarkedBaselines
<1>1. ASSUME NEW d \in Docs, NEW v \in DocVersions \cup {Absent}, EditDoc(d, v)
      PROVE  MarkedBaselines'
  BY <1>1 DEF EditDoc, TypeOK, Pairs, DocOf, CodeOf
<1>2. ASSUME NEW c \in Codes, NEW v \in CodeVersions \cup {Absent}, EditCode(c, v)
      PROVE  MarkedBaselines'
  BY <1>2 DEF EditCode, TypeOK, Pairs, DocOf, CodeOf
<1>3. ASSUME NEW lastRow \in RowChoices, Rebuild(lastRow) PROVE MarkedBaselines'
  <2> SUFFICES ASSUME NEW p \in marked'
               PROVE  /\ rows'[p].codeAt = diskCode[CodeOf(p)]
                      /\ rows'[p].docAt = diskDoc[DocOf(p)]
                      /\ rows'[p].editAt = diskDoc[DocOf(p)]
                      /\ diskDoc[DocOf(p)] # Absent
    BY <1>3 DEF Rebuild, DocOf, CodeOf
  <2>1. p \in marked /\ p \in IndexedPairs(diskDoc, diskCode)
    BY <1>3 DEF Rebuild
  <2>2. p \in DOMAIN rows /\ KeptEdit(p) = diskDoc[DocOf(p)]
    BY <2>1 DEF TypeOK, KeptEdit
  <2>3. rows'[p] = RebuiltRow(p, diskDoc, diskCode, lastRow)
    BY <1>3, <2>1 DEF Rebuild
  <2> QED
    BY <2>1, <2>2, <2>3 DEF RebuiltRow
<1>4. ASSUME NEW gaps, rows' = CheckAll(gaps), UNCHANGED <<diskDoc, diskCode, marked>>
      PROVE  MarkedBaselines'
  <2>1. ASSUME NEW p \in marked
        PROVE  /\ CheckedRow(p, gaps).codeAt = rows[p].codeAt
               /\ CheckedRow(p, gaps).docAt = rows[p].docAt
               /\ CheckedRow(p, gaps).editAt = rows[p].editAt
    BY <2>1 DEF CheckedRow, DocEdited, TypeOK, Row
  <2>2. marked \subseteq DOMAIN rows
    BY DEF TypeOK
  <2> QED
    BY <1>4, <2>1, <2>2 DEF CheckAll, DocOf, CodeOf
<1>5. ASSUME NEW ps, Mark(ps), \A p \in ps \cap DOMAIN rows : Hashable(p)
      PROVE  MarkedBaselines'
  BY <1>5 DEF Mark, MarkedRow, Hashable, TypeOK, DocOf, CodeOf
<1>6. ASSUME UNCHANGED <<rows, diskDoc, diskCode, marked>> PROVE MarkedBaselines'
  BY <1>6 DEF DocOf, CodeOf
<1>7. CASE Next
  <2>1. ASSUME NEW r \in Refs, MarkSyncedByRef(r) PROVE MarkedBaselines'
    BY <1>5, <2>1 DEF MarkSyncedByRef
  <2>2. ASSUME NEW p \in Pairs, MarkCaptured(p) PROVE MarkedBaselines'
    <3>1. Mark({p}) /\ \A q \in {p} \cap DOMAIN rows : Hashable(q)
      BY <2>2 DEF MarkCaptured
    <3> QED
      BY <1>5, <3>1
  <2> QED
    BY <1>1, <1>2, <1>3, <1>4, <1>6, <1>7, <2>1, <2>2
       DEF Next, FullReindex, IncrementalReindex, CheckSync, StartUpdate,
           SkipDoc, AbortUpdate
<1> QED
  BY <1>6, <1>7 DEF vars

\* While the files of a marked pair stay as they were, no command makes its
\* file hashes drift.
THEOREM MarkedFresh == Spec => []MarkedStaysFresh
<1>1. Init => MarkedBaselines
  BY DEF Init, MarkedBaselines
<1>2. MarkedBaselines => MarkedStaysFresh
  BY DEF MarkedBaselines, MarkedStaysFresh, CodeDrift, DocDrift
<1>3. Spec => []TypeOK
  BY TypeCorrect
<1> QED
  BY <1>1, <1>2, <1>3, MarkedStep, PTL DEF Spec

(***************************************************************************)
(* Two-phase detection.                                                    *)
(***************************************************************************)

\* No step clears the code drift of a pair whose doc is the one last seen.
LEMMA DriftStep ==
  ASSUME TypeOK, [Next]_vars, NEW p \in DOMAIN rows \cap DOMAIN rows'
  PROVE  CodeDriftOutlives(p)
<1> SUFFICES ASSUME rows[p].editAt = diskDoc[DocOf(p)],
                    CodeDrift(p),
                    diskDoc'[DocOf(p)] = diskDoc[DocOf(p)],
                    diskCode'[CodeOf(p)] = diskCode[CodeOf(p)],
                    p \notin marked'
             PROVE  rows'[p].codeAt = rows[p].codeAt
  BY DEF CodeDriftOutlives, CodeDrift, DocOf, CodeOf
<1>1. ASSUME NEW lastRow \in RowChoices, Rebuild(lastRow)
      PROVE  rows'[p].codeAt = rows[p].codeAt
  <2>1. rows'[p] = RebuiltRow(p, diskDoc, diskCode, lastRow)
    BY <1>1 DEF Rebuild
  <2>2. diskDoc[DocOf(p)] \in DocVersions
    <3>1. p \in IndexedPairs(diskDoc, diskCode)
      BY <1>1 DEF Rebuild
    <3> QED
      BY <3>1, IndexedPairPresent DEF TypeOK
  <2>3. KeptEdit(p) # NoHash /\ KeptEdit(p) = diskDoc[DocOf(p)]
    BY <2>2, SyncConstants DEF KeptEdit
  <2> QED
    BY <2>1, <2>3 DEF RebuiltRow
<1>2. ASSUME NEW gaps, rows' = CheckAll(gaps) PROVE rows'[p].codeAt = rows[p].codeAt
  <2>1. rows'[p] = CheckedRow(p, gaps) /\ ~DocEdited(p)
    BY <1>2 DEF CheckAll, DocEdited
  <2> QED
    BY <2>1 DEF CheckedRow, TypeOK, Row
<1>3. ASSUME NEW ps, Mark(ps) PROVE rows'[p].codeAt = rows[p].codeAt
  BY <1>3 DEF Mark
<1>4. ASSUME UNCHANGED rows PROVE rows'[p].codeAt = rows[p].codeAt
  BY <1>4
<1>5. CASE Next
  BY <1>1, <1>2, <1>3, <1>4, <1>5
     DEF Next, EditDoc, EditCode, FullReindex, IncrementalReindex, CheckSync,
         MarkSyncedByRef, StartUpdate, MarkCaptured, SkipDoc, AbortUpdate
<1> QED
  BY <1>4, <1>5 DEF vars

\* Code drift, once the doc as it stands has been seen, outlives every later
\* check and reindex.
THEOREM DriftAlwaysSurvives == Spec => DriftSurvives
<1>1. TypeOK /\ [Next]_vars =>
        [\A p \in DOMAIN rows \cap DOMAIN rows' : CodeDriftOutlives(p)]_vars
  BY DriftStep
<1>2. Spec => []TypeOK
  BY TypeCorrect
<1> QED
  BY <1>1, <1>2, PTL DEF Spec, DriftSurvives

\* No step but a mark moves a symbols baseline the rows of the node share.
LEMMA SymbolStep ==
  ASSUME TypeOK, LedgerMirrorsIndex, [Next]_vars, NEW p \in DOMAIN rows \cap DOMAIN rows'
  PROVE  SymbolBaselineStays(p)
<1> SUFFICES ASSUME p \notin marked',
                    \A q \in SymbolRows(RefOf(p)) : rows[q].symbols = rows[p].symbols
             PROVE  rows'[p].symbols = rows[p].symbols
  BY DEF SymbolBaselineStays
<1>1. ASSUME NEW lastRow \in RowChoices, Rebuild(lastRow)
      PROVE  rows'[p].symbols = rows[p].symbols
  <2>1. rows'[p] = RebuiltRow(p, diskDoc, diskCode, lastRow)
    BY <1>1 DEF Rebuild
  <2>2. p \in SymbolRows(RefOf(p)) /\ RefOf(p) \in Refs
    BY SyncConstants DEF SymbolRows, LedgerMirrorsIndex, TypeOK, Pairs, RefOf
  <2>3. lastRow[RefOf(p)] \in SymbolRows(RefOf(p))
    BY <2>2 DEF RowChoices
  <2> QED
    BY <2>1, <2>2, <2>3 DEF RebuiltRow, KeptSymbols
<1>2. ASSUME NEW gaps, rows' = CheckAll(gaps) PROVE rows'[p].symbols = rows[p].symbols
  BY <1>2 DEF CheckAll, CheckedRow, TypeOK, Row
<1>3. ASSUME NEW ps, Mark(ps) PROVE rows'[p].symbols = rows[p].symbols
  BY <1>3 DEF Mark
<1>4. ASSUME UNCHANGED rows PROVE rows'[p].symbols = rows[p].symbols
  BY <1>4
<1>5. CASE Next
  BY <1>1, <1>2, <1>3, <1>4, <1>5
     DEF Next, EditDoc, EditCode, FullReindex, IncrementalReindex, CheckSync,
         MarkSyncedByRef, StartUpdate, MarkCaptured, SkipDoc, AbortUpdate
<1> QED
  BY <1>4, <1>5 DEF vars

\* A symbols baseline the rows of a node agree on moves by a mark only.
THEOREM SymbolBaselineAlwaysKept == Spec => SymbolBaselineKept
<1>1. TypeOK /\ LedgerMirrorsIndex /\ [Next]_vars =>
        [\A p \in DOMAIN rows \cap DOMAIN rows' : SymbolBaselineStays(p)]_vars
  BY SymbolStep
<1>2. Spec => []TypeOK /\ []LedgerMirrorsIndex
  BY TypeCorrect, LedgerCorrect
<1> QED
  BY <1>1, <1>2, PTL DEF Spec, SymbolBaselineKept
=============================================================================
