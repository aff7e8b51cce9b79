----------------------------- MODULE WatchProofs -----------------------------
(***************************************************************************)
(* The badge of the terminal UI, for every set of files and any number of  *)
(* edits and runs, when runs take turns.  The argument: the hashes a run   *)
(* records are those of what it built the rows from, but for the files     *)
(* that slipped, so a provider that reads the tables reads what the scan   *)
(* saw; and an edit the scan did not see is still on its way to the badge. *)
(***************************************************************************)
EXTENDS Watch, TLAPS

Row(v) == IF v = Absent THEN << >> ELSE <<v>>

Stages == {"idle", "dead", "clear", "load", "stamp", "files", "index"}

TypeOK ==
  /\ disk \in [Files -> Versions \cup {Absent}]
  /\ fileIdx \in [Files -> Versions \cup {Absent}]
  /\ pc \in [Procs -> Stages]
  /\ scan \in [Procs -> [Files -> Versions \cup {Absent}]]
  /\ todo \in [Procs -> SUBSET Files]
  /\ events \in [Watchers -> SUBSET Files]
  /\ touched \subseteq Files

OneRuns == \A p, q \in Procs : p = q \/ Idle(p) \/ Idle(q)

\* What an incremental run has done of its plan when it is among the files.
AmongTheFiles(p) ==
  /\ todo[p] \subseteq Changed(p) \cup Added(p)
  /\ \A f \in Files \ slipped :
       /\ f \in (Changed(p) \cup Added(p)) \ todo[p] => rows[f] = Row(scan[p][f])
       /\ f \in todo[p] => rows[f] = Row(fileIdx[f])
       /\ scan[p][f] = fileIdx[f] => rows[f] = Row(fileIdx[f])
       /\ f \in Deleted(p) => rows[f] \in {<< >>, Row(fileIdx[f])}
       /\ (f \in Deleted(p) /\ todo[p] = Changed(p) \cup Added(p))
             => rows[f] = Row(fileIdx[f])

\* Between runs the recorded hashes tell what the rows were built from ...
Between ==
  (\A p \in Procs : Idle(p)) => \A f \in Files \ slipped : rows[f] = Row(fileIdx[f])

\* ... and within a run, each stage has made its part of that true.
RowsOf(p) ==
  /\ pc[p] = "load" => \A f \in Files : rows[f] = << >>
  /\ pc[p] = "stamp" => \A f \in Files \ slipped : rows[f] = Row(disk[f])
  /\ pc[p] = "files" => AmongTheFiles(p)
  /\ pc[p] = "index" => \A f \in Files \ slipped : rows[f] = Row(scan[p][f])

RowsAsRecorded == Between /\ \A p \in Procs : RowsOf(p)

Covered == {f \in Files : Dir[f] \in _collect_watch_dirs /\ f \in _filter_relevant({f})}

\* An edit of a covered file is on its way to the badge, or shown by it, or the
\* run that is going has seen it, or the providers have.
EditSeen(f) ==
  \/ f \in events["tui"] \/ posted
  \/ pc["tui"] = "idle" /\ (badge = "changes" \/ cache[f] = Row(disk[f]))
  \/ pc["tui"] \in {"clear", "load", "stamp"}
  \/ pc["tui"] \in {"files", "index"} /\ disk[f] = scan["tui"][f]

EditsSeen ==
  WatcherOn /\ pc["tui"] # "dead" => \A f \in (touched \cap Covered) \ slipped : EditSeen(f)

Inv == TypeOK /\ OneRuns /\ RowsAsRecorded /\ EditsSeen

-----------------------------------------------------------------------------
LEMMA Initially == Init => Inv
<1> SUFFICES ASSUME Init PROVE Inv
  OBVIOUS
<1>1. (CHOOSE v \in Versions : TRUE) \in Versions
  BY WatchConstants
<1>2. TypeOK
  BY <1>1, WatchConstants DEF Init, TypeOK, Stages, NoFile
<1>3. OneRuns
  BY DEF Init, OneRuns, Idle
<1>4. \A f \in Files : rows[f] = Row(fileIdx[f])
  BY <1>1, WatchConstants DEF Init, Row, NoFile, NoRows
<1>5. RowsAsRecorded
  BY <1>4 DEF Init, RowsAsRecorded, Between, RowsOf, Procs
<1>6. EditsSeen
  BY DEF Init, EditsSeen
<1> QED
  BY <1>2, <1>3, <1>5, <1>6 DEF Inv

(***************************************************************************)
(* However a run is started, it begins in one of two ways.                 *)
(***************************************************************************)
RunBegins(p) ==
  /\ Turn(p) /\ (BeginFull(p) \/ BeginIncremental(p))
  /\ UNCHANGED <<base, fileIdx>>
  /\ events["tui"]' = events["tui"]

Starters == WatchBatch \/ PressR \/ RunIncremental \/ RunFull

\* A starter begins a run, or changes nothing but the watcher's batch.
LEMMA Beginnings ==
  ASSUME TypeOK, Starters
  PROVE  \/ \E p \in Procs : RunBegins(p)
         \/ /\ UNCHANGED <<base, rows, fileIdx, pc, scan, todo, tui>>
            /\ events["tui"]' = events["tui"]
<1>1. CASE WatchBatch
  <2>1. events["tui"]' = events["tui"]
    BY <1>1 DEF WatchBatch, TypeOK, Watchers
  <2>2. UNCHANGED <<base, fileIdx>>
    BY <1>1 DEF WatchBatch
  <2> QED
    BY <1>1, <2>1, <2>2 DEF WatchBatch, RunBegins, Procs
<1>2. CASE PressR
  BY <1>2 DEF PressR, Started, RunBegins, Procs
<1>3. CASE RunIncremental
  BY <1>3 DEF RunIncremental, Started, RunBegins, Procs
<1>4. CASE RunFull
  BY <1>4 DEF RunFull, Started, RunBegins, Procs
<1> QED
  BY <1>1, <1>2, <1>3, <1>4 DEF Starters

(***************************************************************************)
(* Types.                                                                  *)
(***************************************************************************)
LEMMA TypePreserved ==
  ASSUME TypeOK, [Next]_vars
  PROVE  TypeOK'
<1> USE DEF TypeOK
<1>1. ASSUME NEW f \in Files, NEW v \in Versions \cup {Absent}, Edit(f, v)
      PROVE  TypeOK'
  BY <1>1 DEF Edit, Watchers
<1>2. ASSUME NEW p \in Procs, Clear(p)
      PROVE  TypeOK'
  BY <1>2 DEF Clear, Stages, base
<1>3. ASSUME NEW p \in Procs, Load(p)
      PROVE  TypeOK'
  BY <1>3 DEF Load, Stages, base
<1>4. ASSUME NEW p \in Procs, Stamp(p)
      PROVE  TypeOK'
  BY <1>4 DEF Stamp, Done, Stages, base, NoFile
<1>5. ASSUME NEW p \in Procs, NEW f \in Files, IndexFile(p, f)
      PROVE  TypeOK'
  BY <1>5 DEF IndexFile
<1>6. ASSUME NEW p \in Procs, Finish(p)
      PROVE  TypeOK'
  BY <1>6 DEF Finish, Stages, base
<1>7. ASSUME NEW p \in Procs, UpdateFileIndex(p)
      PROVE  TypeOK'
  BY <1>7 DEF UpdateFileIndex, Done, Stages, base, NoFile
<1>8. ASSUME NEW p \in Procs, Raise(p)
      PROVE  TypeOK'
  BY <1>8 DEF Raise, Stages, base, NoFile, Watchers, Procs
<1>9. ASSUME NEW p \in Procs, Turn(p), BeginFull(p) \/ BeginIncremental(p),
             UNCHANGED <<base, fileIdx>>, events' \in [Watchers -> SUBSET Files]
      PROVE  TypeOK'
  <2>1. pc' \in [Procs -> Stages]
    BY <1>9 DEF BeginFull, BeginIncremental, Done, Stages
  <2>2. scan' \in [Procs -> [Files -> Versions \cup {Absent}]]
    BY <1>9 DEF BeginFull, BeginIncremental, Done, NoFile
  <2>3. todo' \in [Procs -> SUBSET Files]
    BY <1>9 DEF BeginFull, BeginIncremental, Done
  <2> QED
    BY <1>9, <2>1, <2>2, <2>3 DEF base
<1>10. CASE WatchBatch
  <2>1. events' \in [Watchers -> SUBSET Files] /\ UNCHANGED <<base, fileIdx>>
    BY <1>10 DEF WatchBatch, Watchers
  <2> QED
    BY <1>9, <1>10, <2>1 DEF WatchBatch, Procs, base
<1>11. CASE PressR \/ RunIncremental \/ RunFull
  BY <1>9, <1>11 DEF PressR, RunIncremental, RunFull, Started, Procs
<1>12. CASE _watch_loop
  BY <1>12 DEF _watch_loop, base, Watchers
<1>13. CASE on_reindex_needed
  BY <1>13 DEF on_reindex_needed, base
<1>14. CASE UNCHANGED vars
  BY <1>14 DEF vars, base
<1> HIDE DEF TypeOK
<1> QED
  BY <1>1, <1>2, <1>3, <1>4, <1>5, <1>6, <1>7, <1>8, <1>10, <1>11, <1>12, <1>13, <1>14
     DEF Next, Step

(***************************************************************************)
(* One run at a time.                                                      *)
(***************************************************************************)
LEMMA RunsAlone ==
  ASSUME TakeTurns, TypeOK, OneRuns, [Next]_vars
  PROVE  OneRuns'
<1>1. ASSUME NEW p \in Procs, ~Idle(p), \A q \in Procs : q # p => pc'[q] = pc[q]
      PROVE  OneRuns'
  BY <1>1 DEF OneRuns, Idle
<1>2. ASSUME NEW p \in Procs, RunBegins(p)
      PROVE  OneRuns'
  <2>1. \A q \in Procs : q # p => pc'[q] = pc[q] /\ Idle(q)
    BY <1>2 DEF RunBegins, Turn, Idle, BeginFull, BeginIncremental, Done, TypeOK
  <2> QED
    BY <2>1 DEF OneRuns, Idle
<1>3. ASSUME NEW p \in Procs, Step(p)
      PROVE  OneRuns'
  <2>1. ~Idle(p)
    BY <1>3 DEF Step, Clear, Load, Stamp, IndexFile, Finish, UpdateFileIndex, Raise, Idle
  <2>2. \A q \in Procs : q # p => pc'[q] = pc[q]
    BY <1>3 DEF Step, Clear, Load, Stamp, IndexFile, Finish, UpdateFileIndex, Raise, Done,
                TypeOK
  <2> QED
    BY <1>1, <2>1, <2>2
<1>4. CASE Starters
  BY <1>2, <1>4, Beginnings DEF OneRuns, Idle
<1>5. ASSUME UNCHANGED pc
      PROVE  OneRuns'
  BY <1>5 DEF OneRuns, Idle
<1> QED
  BY <1>3, <1>4, <1>5 DEF Next, Starters, Edit, _watch_loop, on_reindex_needed, vars

\* The run of p is the one that is going.
LEMMA OthersIdle ==
  ASSUME OneRuns, NEW p \in Procs, ~Idle(p)
  PROVE  \A q \in Procs : q # p => Idle(q)
BY DEF OneRuns

(***************************************************************************)
(* The tables and the recorded hashes.                                     *)
(***************************************************************************)

\* A step of p's run, while every other process is idle.
Alone(p) ==
  /\ TypeOK /\ RowsAsRecorded
  /\ \A q \in Procs : q # p => Idle(q) /\ pc'[q] = pc[q]

\* In a step of p only p's own stage, and a run that ends, say anything new.
LEMMA AloneSuffices ==
  ASSUME NEW p \in Procs, Alone(p), RowsOf(p)',
         Idle(p)' => \A f \in Files \ slipped' : rows'[f] = Row(fileIdx'[f])
  PROVE  RowsAsRecorded'
<1>1. \A q \in Procs : q # p => RowsOf(q)'
  BY DEF Alone, RowsOf, Idle
<1>2. Between'
  BY DEF Between
<1> QED
  BY <1>1, <1>2 DEF RowsAsRecorded

LEMMA StepIsAlone ==
  ASSUME TypeOK, OneRuns, RowsAsRecorded, NEW p \in Procs, Step(p)
  PROVE  Alone(p) /\ ~Idle(p) /\ RowsOf(p)
<1>1. ~Idle(p)
  BY DEF Step, Clear, Load, Stamp, IndexFile, Finish, UpdateFileIndex, Raise, Idle
<1>2. \A q \in Procs : q # p => pc'[q] = pc[q]
  BY DEF Step, Clear, Load, Stamp, IndexFile, Finish, UpdateFileIndex, Raise, Done, TypeOK
<1> QED
  BY <1>1, <1>2, OthersIdle DEF Alone, RowsAsRecorded

LEMMA FullRunRows ==
  ASSUME NEW p \in Procs, Alone(p), RowsOf(p), Clear(p) \/ Load(p) \/ Stamp(p)
  PROVE  RowsAsRecorded'
<1>1. CASE Clear(p)
  <2>1. pc'[p] = "load" /\ \A f \in Files : rows'[f] = << >>
    BY <1>1 DEF Clear, NoRows, Alone, TypeOK
  <2> QED
    BY <2>1, AloneSuffices DEF RowsOf, Idle
<1>2. CASE Load(p)
  <2>1. pc'[p] = "stamp" /\ UNCHANGED <<disk, slipped>>
    BY <1>2 DEF Load, base, Alone, TypeOK
  <2>2. ASSUME NEW f \in Files
        PROVE  rows'[f] = Row(disk[f])
    <3>1. rows[f] = << >>
      BY <1>2 DEF Load, RowsOf
    <3>2. CASE disk[f] = Absent
      BY <1>2, <3>1, <3>2 DEF Load, Row
    <3>3. CASE disk[f] # Absent
      <4>1. Append(<< >>, disk[f]) = <<disk[f]>>
        OBVIOUS
      <4> QED
        BY <1>2, <3>1, <3>3, <4>1 DEF Load, Row
    <3> QED
      BY <3>2, <3>3
  <2> QED
    BY <2>1, <2>2, AloneSuffices DEF RowsOf, Idle
<1>3. CASE Stamp(p)
  <2>1. pc'[p] = "idle" /\ fileIdx' = disk /\ UNCHANGED <<rows, slipped>>
    BY <1>3 DEF Stamp, Done, base, Alone, TypeOK
  <2> QED
    BY <1>3, <2>1, AloneSuffices DEF RowsOf, Idle, Stamp
<1> QED
  BY <1>1, <1>2, <1>3

\* What the scan says of a file is one of four things.
LEMMA FourWays ==
  ASSUME TypeOK, NEW p \in Procs, NEW f \in Files
  PROVE  \/ scan[p][f] = fileIdx[f]
         \/ f \in Changed(p) \/ f \in Added(p) \/ f \in Deleted(p)
BY DEF Changed, Added, Deleted

LEMMA IndexFileRows ==
  ASSUME NEW p \in Procs, Alone(p), RowsOf(p), NEW g \in Files, IndexFile(p, g)
  PROVE  RowsAsRecorded'
<1> DEFINE plan == Changed(p) \cup Added(p)
<1>1. pc[p] = "files" /\ AmongTheFiles(p) /\ g \in todo[p] /\ g \in plan
  BY DEF IndexFile, Due, RowsOf, AmongTheFiles
<1>2. UNCHANGED <<pc, scan, fileIdx, disk>> /\ todo'[p] = todo[p] \ {g}
  BY DEF IndexFile, Alone, TypeOK
<1>3. Changed(p)' = Changed(p) /\ Added(p)' = Added(p) /\ Deleted(p)' = Deleted(p)
  BY <1>2 DEF Changed, Added, Deleted
<1>4. slipped \subseteq slipped' /\ (g \notin slipped' => disk[g] = scan[p][g])
  BY DEF IndexFile
<1>5. todo'[p] \subseteq plan /\ todo'[p] # plan
  BY <1>1, <1>2 DEF AmongTheFiles
<1>6. ASSUME g \notin slipped'
      PROVE  rows'[g] = Row(scan[p][g])
  <2>1. disk[g] = scan[p][g] /\ scan[p][g] # Absent
    BY <1>1, <1>4, <1>6 DEF Changed, Added
  <2>2. CASE g \in Added(p)
    <3>1. rows[g] = << >>
      BY <1>1, <1>4, <1>6, <2>2 DEF AmongTheFiles, Row, Added
    <3>2. Append(<< >>, disk[g]) = <<disk[g]>>
      OBVIOUS
    <3> QED
      BY <2>1, <2>2, <3>1, <3>2 DEF IndexFile, Row
  <2>3. CASE g \notin Added(p)
    <3>1. Append(<< >>, disk[g]) = <<disk[g]>>
      OBVIOUS
    <3> QED
      BY <2>1, <2>3, <3>1 DEF IndexFile, Row
  <2> QED
    BY <2>2, <2>3
<1>7. ASSUME NEW f \in Files, f # g
      PROVE  rows'[f] = IF f \in Deleted(p) THEN << >> ELSE rows[f]
  BY <1>7 DEF IndexFile
<1>8. \A f \in Files : /\ f \in plan => f \notin Deleted(p) /\ scan[p][f] # fileIdx[f]
                       /\ f \in Deleted(p) => scan[p][f] # fileIdx[f]
  BY DEF Changed, Added, Deleted
<1>9. AmongTheFiles(p)'
  <2> SUFFICES ASSUME NEW f \in Files, f \notin slipped'
               PROVE  /\ f \in plan \ todo'[p] => rows'[f] = Row(scan[p][f])
                      /\ f \in todo'[p] => rows'[f] = Row(fileIdx[f])
                      /\ scan[p][f] = fileIdx[f] => rows'[f] = Row(fileIdx[f])
                      /\ f \in Deleted(p) => rows'[f] \in {<< >>, Row(fileIdx[f])}
    BY <1>2, <1>3, <1>5 DEF AmongTheFiles
  <2>1. CASE f = g
    BY <1>1, <1>2, <1>6, <1>8, <2>1
  <2>2. CASE f # g
    <3>1. f \notin slipped
      BY <1>4
    <3> QED
      BY <1>1, <1>2, <1>5, <1>7, <1>8, <2>2, <3>1 DEF AmongTheFiles
  <2> QED
    BY <2>1, <2>2
<1> QED
  BY <1>1, <1>2, <1>9, AloneSuffices DEF RowsOf, Idle

LEMMA FinishRows ==
  ASSUME NEW p \in Procs, Alone(p), RowsOf(p), Finish(p)
  PROVE  RowsAsRecorded'
<1>1. pc[p] = "files" /\ AmongTheFiles(p) /\ todo[p] = {}
  BY DEF Finish, RowsOf
<1>2. pc'[p] = "index" /\ UNCHANGED <<scan, fileIdx, slipped>>
  BY DEF Finish, Alone, TypeOK, base
<1>3. ASSUME NEW f \in Files \ slipped
      PROVE  rows'[f] = Row(scan[p][f])
  <2>1. CASE f \in Deleted(p)
    BY <2>1 DEF Finish, Deleted, Row
  <2>2. CASE f \notin Deleted(p)
    BY <1>1, <2>2, FourWays DEF Finish, AmongTheFiles, Alone
  <2> QED
    BY <2>1, <2>2
<1> QED
  BY <1>2, <1>3, AloneSuffices DEF RowsOf, Idle

LEMMA UpdateFileIndexRows ==
  ASSUME NEW p \in Procs, Alone(p), RowsOf(p), UpdateFileIndex(p)
  PROVE  RowsAsRecorded'
<1>1. pc'[p] = "idle" /\ UNCHANGED <<rows, slipped>>
  BY DEF UpdateFileIndex, Done, Alone, TypeOK, base
<1>2. \A f \in Files : fileIdx'[f] = scan[p][f]
  BY FourWays DEF UpdateFileIndex, Alone
<1> QED
  BY <1>1, <1>2, AloneSuffices DEF RowsOf, Idle, UpdateFileIndex

LEMMA RaiseRows ==
  ASSUME NEW p \in Procs, Alone(p), RowsOf(p), Raise(p)
  PROVE  RowsAsRecorded'
<1>1. pc[p] = "files"
  <2>1. pc[p] = "load" => \A f \in Files : rows[f] = << >>
    BY DEF RowsOf
  <2> QED
    BY <2>1 DEF Raise, Duplicate
<1>2. pc'[p] \in {"idle", "dead"} /\ UNCHANGED <<rows, fileIdx>>
  BY DEF Raise, Alone, TypeOK
<1>3. slipped' = slipped \cup Committed(p)
  BY DEF Raise
<1>4. AmongTheFiles(p)
  BY <1>1 DEF RowsOf
<1>5. ASSUME NEW f \in Files \ slipped'
      PROVE  rows[f] = Row(fileIdx[f])
  <2>1. f \notin slipped
    BY <1>3
  <2>2. CASE f \in (Changed(p) \cup Added(p)) \ todo[p]
    BY <1>3, <2>2 DEF Committed
  <2>3. CASE f \in Deleted(p)
    <3>1. todo[p] = Changed(p) \cup Added(p)
      BY <1>3, <1>4, <2>3 DEF Committed, AmongTheFiles
    <3> QED
      BY <1>4, <2>1, <2>3, <3>1 DEF AmongTheFiles
  <2>4. CASE f \in todo[p] \/ scan[p][f] = fileIdx[f]
    BY <1>4, <2>1, <2>4 DEF AmongTheFiles
  <2> QED
    BY <2>2, <2>3, <2>4, FourWays DEF Alone
<1> QED
  BY <1>2, <1>5, AloneSuffices DEF RowsOf, Idle

LEMMA BeginRows ==
  ASSUME TakeTurns, TypeOK, RowsAsRecorded, NEW p \in Procs, RunBegins(p)
  PROVE  RowsAsRecorded'
<1>1. Idle(p) /\ \A q \in Procs : Idle(q)
  BY DEF RunBegins, Turn, Idle
<1>2. UNCHANGED <<rows, disk, fileIdx, slipped>>
  BY DEF RunBegins, BeginFull, BeginIncremental, base
<1>3. \A q \in Procs : q # p => pc'[q] = pc[q]
  BY DEF RunBegins, BeginFull, BeginIncremental, Done, TypeOK
<1>4. Alone(p)
  BY <1>1, <1>3 DEF Alone
<1>5. \A f \in Files \ slipped : rows[f] = Row(fileIdx[f])
  BY <1>1 DEF RowsAsRecorded, Between
<1>6. CASE pc'[p] \in {"idle", "clear"}
  BY <1>2, <1>4, <1>5, <1>6, AloneSuffices DEF RowsOf
<1>7. CASE pc'[p] \notin {"idle", "clear"}
  <2>1. /\ pc'[p] = "files" /\ scan'[p] = disk
        /\ todo'[p] = {f \in Files : disk[f] \notin {Absent, fileIdx[f]}}
    BY <1>7 DEF RunBegins, BeginFull, BeginIncremental, Done, TypeOK
  <2>2. todo'[p] = Changed(p)' \cup Added(p)'
    BY <1>2, <2>1 DEF Changed, Added
  <2>3. AmongTheFiles(p)'
    BY <1>2, <1>5, <2>2 DEF AmongTheFiles
  <2> QED
    BY <2>1, <2>3, <1>4, AloneSuffices DEF RowsOf, Idle
<1> QED
  BY <1>6, <1>7

LEMMA RowsPreserved ==
  ASSUME TakeTurns, TypeOK, OneRuns, RowsAsRecorded, [Next]_vars
  PROVE  RowsAsRecorded'
<1>1. ASSUME NEW p \in Procs, Step(p)
      PROVE  RowsAsRecorded'
  BY <1>1, StepIsAlone, FullRunRows, IndexFileRows, FinishRows, UpdateFileIndexRows, RaiseRows
     DEF Step
<1>2. ASSUME NEW f \in Files, NEW v \in Versions \cup {Absent}, Edit(f, v)
      PROVE  RowsAsRecorded'
  <2>1. UNCHANGED <<rows, fileIdx, pc, scan, todo>> /\ slipped \subseteq slipped'
    BY <1>2 DEF Edit
  <2>2. Between'
    BY <2>1 DEF RowsAsRecorded, Between, Idle
  <2>3. ASSUME NEW p \in Procs
        PROVE  RowsOf(p)'
    <3>1. AmongTheFiles(p) => AmongTheFiles(p)'
      BY <2>1 DEF AmongTheFiles, Changed, Added, Deleted
    <3>2. pc[p] = "stamp" => \A g \in Files \ slipped' : disk'[g] = disk[g]
      BY <1>2 DEF Edit, TypeOK
    <3> QED
      BY <2>1, <3>1, <3>2 DEF RowsAsRecorded, RowsOf
  <2> QED
    BY <2>2, <2>3 DEF RowsAsRecorded
<1>3. ASSUME UNCHANGED <<disk, rows, fileIdx, pc, scan, todo, slipped>>
      PROVE  RowsAsRecorded'
  <2>1. \A p \in Procs : AmongTheFiles(p)' = AmongTheFiles(p)
    BY <1>3 DEF AmongTheFiles, Changed, Added, Deleted
  <2> QED
    BY <1>3, <2>1 DEF RowsAsRecorded, Between, RowsOf, Idle
<1>4. CASE Starters
  BY <1>3, <1>4, Beginnings, BeginRows DEF base
<1>5. CASE _watch_loop \/ on_reindex_needed \/ UNCHANGED vars
  BY <1>3, <1>5 DEF _watch_loop, on_reindex_needed, vars, base
<1> QED
  BY <1>1, <1>2, <1>4, <1>5 DEF Next, Starters

(***************************************************************************)
(* The edits and the badge.                                                *)
(***************************************************************************)

\* Nobody but the terminal UI's own run and its message loop takes anything back
\* of what was seen.
LEMMA SeenStays ==
  ASSUME EditsSeen, UNCHANGED <<disk, touched>>, UNCHANGED tui,
         pc'["tui"] = pc["tui"], scan'["tui"] = scan["tui"],
         events'["tui"] = events["tui"], slipped \subseteq slipped'
  PROVE  EditsSeen'
BY DEF EditsSeen, EditSeen, tui

\* A provider that reads the tables while no edit is unseen shows what is there.
LEMMA RefreshSees ==
  ASSUME NEW f \in Files, rows[f] = Row(disk[f]), cache' = rows, disk' = disk,
         pc'["tui"] = "idle"
  PROVE  EditSeen(f)'
BY DEF EditSeen

LEMMA SeenByStep ==
  ASSUME TypeOK, OneRuns, RowsAsRecorded, EditsSeen, Step("tui")
  PROVE  EditsSeen'
<1>0. "tui" \in Procs /\ "tui" \in Watchers
  BY DEF Procs, Watchers
<1>1. ~Idle("tui") /\ RowsOf("tui") /\ Alone("tui")
  BY <1>0, StepIsAlone
<1>2. UNCHANGED <<disk, touched>> /\ slipped \subseteq slipped'
  BY DEF Step, Clear, Load, Stamp, IndexFile, Finish, UpdateFileIndex, Raise, base
<1>3. CASE Clear("tui") \/ Load("tui")
  BY <1>0, <1>2, <1>3 DEF Clear, Load, EditsSeen, EditSeen, TypeOK
<1>4. CASE Stamp("tui")
  <2>1. /\ pc'["tui"] = "idle" /\ cache' = rows
        /\ events' = events /\ posted' = posted /\ slipped' = slipped
    BY <1>0, <1>4 DEF Stamp, Done, action_reindex, TypeOK, base
  <2>2. \A f \in Files \ slipped : rows[f] = Row(disk[f])
    BY <1>1, <1>4 DEF Stamp, RowsOf
  <2> QED
    BY <1>2, <2>1, <2>2, RefreshSees DEF EditsSeen, TypeOK
<1>5. CASE UpdateFileIndex("tui")
  <2>1. /\ pc["tui"] = "index" /\ pc'["tui"] = "idle" /\ cache' = rows
        /\ events' = events /\ posted' = posted /\ slipped' = slipped
    BY <1>0, <1>5 DEF UpdateFileIndex, Done, action_reindex, TypeOK, base
  <2>2. \A f \in Files \ slipped : rows[f] = Row(scan["tui"][f])
    BY <1>1, <2>1 DEF RowsOf
  <2>3. ASSUME WatcherOn, NEW f \in (touched \cap Covered) \ slipped
        PROVE  EditSeen(f)'
    <3>1. f \in Files /\ EditSeen(f)
      BY <2>1, <2>3 DEF EditsSeen, Covered
    <3>2. CASE f \in events["tui"] \/ posted
      BY <2>1, <3>2 DEF EditSeen
    <3>3. CASE disk[f] = scan["tui"][f]
      BY <1>2, <2>1, <2>2, <2>3, <3>1, <3>3, RefreshSees
    <3> QED
      BY <2>1, <3>1, <3>2, <3>3 DEF EditSeen
  <2> QED
    BY <1>2, <2>1, <2>3 DEF EditsSeen, TypeOK
<1>6. CASE (\E f \in Files : IndexFile("tui", f)) \/ Finish("tui")
  BY <1>0, <1>2, <1>6 DEF IndexFile, Finish, EditsSeen, EditSeen, TypeOK, tui
<1>7. CASE Raise("tui")
  BY <1>0, <1>7 DEF Raise, EditsSeen, TypeOK
<1> QED
  BY <1>3, <1>4, <1>5, <1>6, <1>7 DEF Step

LEMMA SeenByOthers ==
  ASSUME TypeOK, EditsSeen, NEW p \in Procs \ {"tui"}, Step(p) \/ RunBegins(p)
  PROVE  EditsSeen'
<1>0. "tui" \in Procs /\ "tui" \in Watchers
  BY DEF Procs, Watchers
<1>1. CASE Step(p)
  <2>1. /\ UNCHANGED <<disk, touched>> /\ UNCHANGED tui /\ slipped \subseteq slipped'
        /\ events'["tui"] = events["tui"]
    BY <1>0, <1>1 DEF Step, Clear, Load, Stamp, IndexFile, Finish, UpdateFileIndex, Raise,
                      Done, action_reindex, base, TypeOK
  <2>2. pc'["tui"] = pc["tui"] /\ scan'["tui"] = scan["tui"]
    BY <1>0, <1>1 DEF Step, Clear, Load, Stamp, IndexFile, Finish, UpdateFileIndex, Raise,
                      Done, TypeOK
  <2> QED
    BY <2>1, <2>2, SeenStays
<1>2. CASE RunBegins(p)
  <2>1. /\ UNCHANGED <<disk, touched>> /\ UNCHANGED tui /\ slipped' = slipped
        /\ events'["tui"] = events["tui"]
    BY <1>2 DEF RunBegins, BeginFull, BeginIncremental, Done, action_reindex, base
  <2>2. pc'["tui"] = pc["tui"] /\ scan'["tui"] = scan["tui"]
    BY <1>0, <1>2 DEF RunBegins, BeginFull, BeginIncremental, Done, TypeOK
  <2> QED
    BY <2>1, <2>2, SeenStays
<1> QED
  BY <1>1, <1>2

LEMMA SeenByPress ==
  ASSUME TakeTurns, TypeOK, RowsAsRecorded, EditsSeen, RunBegins("tui")
  PROVE  EditsSeen'
<1>0. "tui" \in Procs
  BY DEF Procs
<1>1. UNCHANGED <<disk, touched, slipped, rows>> /\ events'["tui"] = events["tui"]
  BY DEF RunBegins, BeginFull, BeginIncremental, base
<1>2. CASE BeginFull("tui")
  BY <1>0, <1>1, <1>2 DEF BeginFull, EditsSeen, EditSeen, TypeOK
<1>3. CASE pc'["tui"] = "files"
  <2>1. scan'["tui"] = disk
    BY <1>0, <1>3 DEF RunBegins, BeginFull, BeginIncremental, Done, TypeOK
  <2> QED
    BY <1>1, <1>3, <2>1 DEF EditsSeen, EditSeen
<1>4. CASE disk = fileIdx /\ Done("tui")
  <2>1. \A f \in Files \ slipped : rows[f] = Row(disk[f])
    BY <1>4 DEF RunBegins, Turn, RowsAsRecorded, Between, Idle
  <2>2. pc'["tui"] = "idle" /\ cache' = rows
    BY <1>0, <1>1, <1>4 DEF Done, action_reindex, TypeOK
  <2> QED
    BY <1>1, <2>1, <2>2, RefreshSees DEF EditsSeen, TypeOK
<1>5. BeginFull("tui") \/ pc'["tui"] = "files" \/ (disk = fileIdx /\ Done("tui"))
  BY <1>0 DEF RunBegins, BeginIncremental, TypeOK
<1> QED
  BY <1>2, <1>3, <1>4, <1>5

LEMMA EditsSeenPreserved ==
  ASSUME TakeTurns, TypeOK, OneRuns, RowsAsRecorded, EditsSeen, [Next]_vars
  PROVE  EditsSeen'
<1>0. "tui" \in Procs /\ "tui" \in Watchers
  BY DEF Procs, Watchers
<1>1. ASSUME NEW p \in Procs, Step(p)
      PROVE  EditsSeen'
  BY <1>1, SeenByStep, SeenByOthers
<1>2. ASSUME NEW f \in Files, NEW v \in Versions \cup {Absent}, Edit(f, v)
      PROVE  EditsSeen'
  <2>1. UNCHANGED <<pc, scan, posted, badge, cache>> /\ slipped \subseteq slipped'
    BY <1>2 DEF Edit, tui
  <2>2. ASSUME WatcherOn, pc["tui"] # "dead", NEW g \in (touched' \cap Covered) \ slipped'
        PROVE  EditSeen(g)'
    <3>1. CASE g = f
      <4>1. Delivers("tui", f)
        BY <2>2, <3>1 DEF Delivers, Active, Covered
      <4>2. f \in events'["tui"]
        BY <1>0, <1>2, <4>1 DEF Edit
      <4> QED
        BY <3>1, <4>2 DEF EditSeen
    <3>2. CASE g # f
      <4>1. g \in (touched \cap Covered) \ slipped /\ g \in Files
        BY <1>2, <2>1, <2>2, <3>2 DEF Edit, Covered
      <4>2. EditSeen(g)
        BY <2>2, <4>1 DEF EditsSeen
      <4>3. disk'[g] = disk[g] /\ (g \in events["tui"] => g \in events'["tui"])
        BY <1>0, <1>2, <3>2, <4>1 DEF Edit, TypeOK
      <4> QED
        BY <2>1, <4>2, <4>3 DEF EditSeen
    <3> QED
      BY <3>1, <3>2
  <2> QED
    BY <2>1, <2>2 DEF EditsSeen
<1>3. CASE Starters
  <2>1. ASSUME NEW p \in Procs, RunBegins(p)
        PROVE  EditsSeen'
    BY <2>1, SeenByOthers, SeenByPress
  <2>2. ASSUME UNCHANGED <<base, rows, fileIdx, pc, scan, todo, tui>>,
               events'["tui"] = events["tui"]
        PROVE  EditsSeen'
    BY <2>2, SeenStays DEF base, tui
  <2> QED
    BY <1>3, <2>1, <2>2, Beginnings
<1>4. CASE _watch_loop
  <2>1. ASSUME NEW f \in Covered, f \in events["tui"]
        PROVE  posted'
    BY <1>4, <2>1 DEF _watch_loop, Covered, _filter_relevant
  <2>2. /\ posted => posted'
        /\ UNCHANGED <<disk, touched, slipped, pc, scan, badge, cache>>
    BY <1>4 DEF _watch_loop, base
  <2> QED
    BY <2>1, <2>2 DEF EditsSeen, EditSeen
<1>5. CASE on_reindex_needed
  BY <1>5 DEF on_reindex_needed, base, EditsSeen, EditSeen
<1>6. CASE UNCHANGED vars
  BY <1>6, SeenStays DEF vars, base, tui
<1> QED
  BY <1>1, <1>2, <1>3, <1>4, <1>5, <1>6 DEF Next, Starters

-----------------------------------------------------------------------------
\* A clear badge follows from the invariant: whatever is not on its way, not
\* shown and not in a run has been read by the providers.
LEMMA InvImpliesCovers ==
  ASSUME Inv
  PROVE  BadgeCoversDrift
<1> SUFFICES ASSUME badge # "changes", ~posted, _filter_relevant(events["tui"]) = {},
                    pc["tui"] # "dead", \A p \in Procs : Idle(p),
                    NEW f \in touched \ slipped, TuiCovers(f)
             PROVE  Built(cache, f)
  BY DEF BadgeCoversDrift
<1>1. WatcherOn /\ f \in Covered
  BY DEF TuiCovers, Delivers, Active, Covered, _filter_relevant, Inv, TypeOK
<1>2. EditSeen(f)
  BY <1>1 DEF Inv, EditsSeen
<1>3. f \notin events["tui"]
  BY <1>1 DEF Covered, _filter_relevant
<1>4. pc["tui"] = "idle"
  BY DEF Idle, Procs
<1>5. cache[f] = Row(disk[f])
  BY <1>2, <1>3, <1>4 DEF EditSeen
<1> QED
  BY <1>5 DEF Built, Row

\* When runs take turns, whatever edits, batches, messages and key presses there
\* are, the rows of a file that did not slip are those of the hash recorded for it
\* whenever nothing runs, and no edit is lost between the watcher and the badge.
THEOREM RowsAlwaysAsRecorded == TakeTurns => (Spec => []Inv)
<1> SUFFICES ASSUME TakeTurns PROVE Spec => []Inv
  OBVIOUS
<1>1. Init => Inv
  BY Initially
<1>2. Inv /\ [Next]_vars => Inv'
  BY TypePreserved, RunsAlone, RowsPreserved, EditsSeenPreserved DEF Inv
<1> QED
  BY <1>1, <1>2, PTL DEF Spec

\* A clear badge of the terminal UI tells the truth: no edit of a file its watch
\* covers is missing from what the providers show, for any number of files, edits
\* and runs, unless the file slipped.
THEOREM BadgeAlwaysCoversDrift == TakeTurns => (Spec => []BadgeCoversDrift)
<1> SUFFICES ASSUME TakeTurns PROVE Spec => []BadgeCoversDrift
  OBVIOUS
<1>1. Spec => []Inv
  BY RowsAlwaysAsRecorded
<1>2. Inv => BadgeCoversDrift
  BY InvImpliesCovers
<1> QED
  BY <1>1, <1>2, PTL
=============================================================================
