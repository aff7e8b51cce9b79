-------------------------------- MODULE Watch --------------------------------
(***************************************************************************)
(* Who reindexes, and when: `beadloom watch`, the terminal UI with its     *)
(* watcher thread, badge and providers, and a reindex started from         *)
(* elsewhere (the command line, the MCP server), all on one database and   *)
(* one working tree.                                                       *)
(*                                                                         *)
(* A run is taken at the commits other parties can see between: module     *)
(* Reindex has its pipeline step by step.  What the tables hold of a file  *)
(* is the versions its rows were built from; a graph file's rows are its   *)
(* nodes and edges.                                                        *)
(***************************************************************************)
EXTENDS Naturals, Sequences, FiniteSets

CONSTANTS
  Files,
  GraphFiles, Docs,   \* files under .beadloom/_graph, and those of kind "doc"
  Versions, Absent,
  Dir, Ext,           \* of each file: the tree it is in, its extension
  SourceDirs,         \* the trees nodes name as their source
  Hidden,             \* trees under a hidden directory other than .beadloom
  WatcherOn,          \* TUI: watchfiles is installed and --no-watch not given
  TakeTurns,          \* does a run start only when no other one is going?
  MaxEdits, MaxRuns   \* bounds: edits, and runs not started by a watcher

Procs == {"watch", "tui", "other"}
Watchers == {"watch", "tui"}

ASSUME WatchConstants ==
  /\ GraphFiles \subseteq Files /\ Docs \subseteq Files \ GraphFiles
  /\ Versions # {} /\ Absent \notin Versions
  /\ TakeTurns \in BOOLEAN /\ WatcherOn \in BOOLEAN
  /\ MaxEdits \in Nat /\ MaxRuns \in Nat

VARIABLES
  disk, rows, fileIdx,  \* working tree, tables, file_index
  pc, scan, todo,       \* each process: its step, the scan, the files left
  events,               \* changes the operating system has yet to deliver
  posted,               \* TUI: the queue holds a ReindexNeeded message
  badge,                \* TUI: _watcher_state of the status bar
  cache,                \* TUI: what its providers last read
  touched,              \* history: files edited since the start
  slipped,              \* history: files whose rows and recorded hash came apart
  edits, runs

tui == <<posted, badge, cache>>
base == <<disk, touched, slipped, edits>>
vars == <<base, rows, fileIdx, pc, scan, todo, events, tui, runs>>

NoFile == [f \in Files |-> Absent]
NoRows == [f \in Files |-> << >>]

\* What is on disk has been indexed, or nothing has.  Which version of a file is
\* there first makes no difference.
Init ==
  /\ disk = [f \in Files |-> CHOOSE v \in Versions : TRUE]
  /\ \/ /\ fileIdx = disk /\ rows = [f \in Files |-> <<disk[f]>>]
     \/ fileIdx = NoFile /\ rows = NoRows
  /\ pc = [p \in Procs |-> "idle"]
  /\ scan = [p \in Procs |-> NoFile] /\ todo = [p \in Procs |-> {}]
  /\ events = [w \in Watchers |-> {}]
  /\ posted = FALSE
  /\ badge \in {"off"} \cup (IF WatcherOn THEN {"watching"} ELSE {})
  /\ cache = rows
  /\ touched = {} /\ slipped = {} /\ edits = 0 /\ runs = 0

(***************************************************************************)
(* The watchers: which directories, and which of the changes in them.      *)
(***************************************************************************)
_WATCH_EXTENSIONS ==
  {".yml", ".yaml", ".md", ".py", ".ts", ".tsx", ".js", ".jsx", ".go", ".rs"}

_get_watch_paths == {"graph", "docs", "src", "lib", "app"}
_collect_watch_dirs == {"graph"} \cup SourceDirs

Active(w) == pc[w] # "dead" /\ (w = "tui" => WatcherOn)

Delivers(w, f) ==
  /\ Active(w)
  /\ Dir[f] \in (IF w = "watch" THEN _get_watch_paths ELSE _collect_watch_dirs)

_filter_relevant(batch) ==
  {f \in batch : Ext[f] \in _WATCH_EXTENSIONS /\ Dir[f] \notin Hidden}

Edit(f, v) ==
  /\ edits < MaxEdits /\ v # disk[f]
  /\ disk' = [disk EXCEPT ![f] = v]
  /\ edits' = edits + 1 /\ touched' = touched \cup {f}
  /\ events' = [w \in Watchers |-> IF Delivers(w, f) THEN events[w] \cup {f} ELSE events[w]]
  /\ slipped' = IF \E p \in Procs : pc[p] = "stamp" THEN slipped \cup {f} ELSE slipped
  /\ UNCHANGED <<rows, fileIdx, pc, scan, todo, tui, runs>>

(***************************************************************************)
(* A run: reindex and incremental_reindex.                                 *)
(***************************************************************************)
Turn(p) ==
  pc[p] = "idle" /\ (TakeTurns => \A q \in Procs : pc[q] \in {"idle", "dead"})

GraphChanged == \E g \in GraphFiles : disk[g] # fileIdx[g]

Changed(p) == {f \in Files : fileIdx[f] # Absent /\ scan[p][f] \notin {Absent, fileIdx[f]}}
Added(p) == {f \in Files : fileIdx[f] = Absent /\ scan[p][f] # Absent}
Deleted(p) == {f \in Files : fileIdx[f] # Absent /\ scan[p][f] = Absent}

\* A pressed `r` goes on to refresh the providers, clear the badge - whether or
\* not there is a watcher.
ReindexDropsMessages(p) ==         \* mutant: and forgets what arrived meanwhile
  IF p = "tui"
    THEN cache' = rows' /\ badge' = "watching" /\ posted' = FALSE
    ELSE UNCHANGED tui

action_reindex(p) ==
  IF p = "tui"
    THEN cache' = rows' /\ badge' = "watching" /\ UNCHANGED posted
    ELSE UNCHANGED tui

Done(p) ==
  /\ pc' = [pc EXCEPT ![p] = "idle"]
  /\ scan' = [scan EXCEPT ![p] = NoFile] /\ todo' = [todo EXCEPT ![p] = {}]
  /\ action_reindex(p)

BeginFull(p) ==
  /\ pc' = [pc EXCEPT ![p] = "clear"]
  /\ UNCHANGED <<rows, scan, todo, tui>>

BeginIncremental(p) ==
  \/ (fileIdx = NoFile \/ GraphChanged) /\ BeginFull(p)
  \/ fileIdx # NoFile /\ disk = fileIdx /\ UNCHANGED rows /\ Done(p)
  \/ /\ fileIdx # NoFile /\ ~GraphChanged /\ disk # fileIdx
     /\ pc' = [pc EXCEPT ![p] = "files"]
     /\ scan' = [scan EXCEPT ![p] = disk]
     /\ todo' = [todo EXCEPT ![p] = {f \in Files : disk[f] \notin {Absent, fileIdx[f]}}]
     /\ UNCHANGED <<rows, tui>>

Clear(p) ==
  /\ pc[p] = "clear" /\ pc' = [pc EXCEPT ![p] = "load"]
  /\ rows' = NoRows
  /\ UNCHANGED <<base, fileIdx, scan, todo, events, tui, runs>>

\* docs.path is UNIQUE: a doc another run has inserted meanwhile is refused; and
\* docs.ref_id references a node another run may have dropped.
Duplicate(f) == f \in Docs /\ rows[f] # << >>
Orphan(f) == f \in Docs /\ \E g \in GraphFiles : disk[g] # Absent /\ rows[g] = << >>

Load(p) ==
  /\ pc[p] = "load" /\ pc' = [pc EXCEPT ![p] = "stamp"]
  /\ \A f \in Files : disk[f] # Absent => ~Duplicate(f)
  /\ rows' = [f \in Files |-> IF disk[f] = Absent THEN rows[f]
                              ELSE IF f \in GraphFiles THEN <<disk[f]>>
                              ELSE Append(rows[f], disk[f])]
  /\ UNCHANGED <<base, fileIdx, scan, todo, events, tui, runs>>

\* _populate_file_index hashes a new scan.
Stamp(p) ==
  /\ pc[p] = "stamp"
  /\ fileIdx' = disk
  /\ UNCHANGED rows /\ Done(p)
  /\ UNCHANGED <<base, events, runs>>

Due(p, f) == f \in todo[p] /\ (f \in Added(p) => todo[p] \cap Changed(p) = {})
Indexable(p, f) ==
  disk[f] # Absent /\ ~Orphan(f) /\ (f \in Added(p) => ~Duplicate(f))

IndexFile(p, f) ==
  /\ pc[p] = "files" /\ Due(p, f) /\ Indexable(p, f)
  /\ rows' = [h \in Files |->
                IF h = f THEN Append(IF f \in Added(p) THEN rows[f] ELSE << >>, disk[f])
                ELSE IF h \in Deleted(p) THEN << >> ELSE rows[h]]
  /\ todo' = [todo EXCEPT ![p] = @ \ {f}]
  /\ slipped' = IF disk[f] = scan[p][f] THEN slipped ELSE slipped \cup {f}
  /\ UNCHANGED <<disk, touched, edits, fileIdx, pc, scan, events, tui, runs>>

Finish(p) ==
  /\ pc[p] = "files" /\ todo[p] = {} /\ pc' = [pc EXCEPT ![p] = "index"]
  /\ rows' = [f \in Files |-> IF f \in Deleted(p) THEN << >> ELSE rows[f]]
  /\ UNCHANGED <<base, fileIdx, scan, todo, events, tui, runs>>

IndexLooksAgain(p) ==              \* mutant: the hashes are read at the end
  /\ pc[p] = "index"
  /\ fileIdx' = [f \in Files |-> IF f \in Changed(p) \cup Added(p) \cup Deleted(p)
                                   THEN disk[f] ELSE fileIdx[f]]
  /\ UNCHANGED rows /\ Done(p)
  /\ UNCHANGED <<base, events, runs>>

\* _update_file_index records the hashes of the scan.
UpdateFileIndex(p) ==
  /\ pc[p] = "index"
  /\ fileIdx' = [f \in Files |-> IF f \in Changed(p) \cup Added(p) \cup Deleted(p)
                                   THEN scan[p][f] ELSE fileIdx[f]]
  /\ UNCHANGED rows /\ Done(p)
  /\ UNCHANGED <<base, events, runs>>

\* What a run that stops among the files has committed of it.
Committed(p) ==
  LET indexed == (Changed(p) \cup Added(p)) \ todo[p] IN
    IF indexed = {} THEN {} ELSE indexed \cup Deleted(p)

\* A file that is gone, or a row the database refuses, raises; nothing in watch
\* or in action_reindex catches it, and the process is gone with its watcher.
Raise(p) ==
  /\ \/ pc[p] = "files" /\ \E f \in Files : Due(p, f) /\ ~Indexable(p, f)
     \/ pc[p] = "load" /\ \E f \in Files : disk[f] # Absent /\ Duplicate(f)
  /\ pc' = [pc EXCEPT ![p] = IF p = "other" THEN "idle" ELSE "dead"]
  /\ scan' = [scan EXCEPT ![p] = NoFile] /\ todo' = [todo EXCEPT ![p] = {}]
  /\ events' = IF p = "other" THEN events ELSE [events EXCEPT ![p] = {}]
  /\ slipped' = slipped \cup Committed(p)
  /\ UNCHANGED <<disk, touched, edits, rows, fileIdx, tui, runs>>

Step(p) ==
  \/ Clear(p) \/ Load(p) \/ Stamp(p)
  \/ \E f \in Files : IndexFile(p, f)
  \/ Finish(p) \/ UpdateFileIndex(p) \/ Raise(p)

(***************************************************************************)
(* What starts one.                                                        *)
(***************************************************************************)

\* watch: one batch; what happens meanwhile waits for the next.
WatchBatch ==
  /\ events["watch"] # {}
  /\ events' = [events EXCEPT !["watch"] = {}]
  /\ LET relevant == _filter_relevant(events["watch"]) IN
       \/ /\ relevant = {} /\ pc["watch"] = "idle"
          /\ UNCHANGED <<rows, pc, scan, todo, tui>>
       \/ Turn("watch") /\ relevant \cap GraphFiles # {} /\ BeginFull("watch")
       \/ /\ Turn("watch") /\ relevant # {} /\ relevant \cap GraphFiles = {}
          /\ BeginIncremental("watch")
  /\ UNCHANGED <<base, fileIdx, runs>>

Started(p) ==
  /\ Turn(p) /\ runs < MaxRuns /\ runs' = runs + 1
  /\ UNCHANGED <<base, fileIdx, events>>

PressR == Started("tui") /\ BeginIncremental("tui")
RunIncremental == Started("other") /\ BeginIncremental("other")
RunFull == Started("other") /\ BeginFull("other")

(***************************************************************************)
(* The terminal UI: the watcher thread posts, the event loop - which a     *)
(* running reindex blocks - handles.                                       *)
(***************************************************************************)
_watch_loop ==
  /\ events["tui"] # {} /\ Active("tui")
  /\ events' = [events EXCEPT !["tui"] = {}]
  /\ posted' = (posted \/ _filter_relevant(events["tui"]) # {})
  /\ UNCHANGED <<base, rows, fileIdx, pc, scan, todo, badge, cache, runs>>

on_reindex_needed ==
  /\ posted /\ pc["tui"] = "idle"
  /\ posted' = FALSE /\ badge' = "changes"
  /\ UNCHANGED <<base, rows, fileIdx, pc, scan, todo, events, cache, runs>>

Next ==
  \/ \E f \in Files, v \in Versions \cup {Absent} : Edit(f, v)
  \/ \E p \in Procs : Step(p)
  \/ WatchBatch \/ PressR \/ RunIncremental \/ RunFull
  \/ _watch_loop \/ on_reindex_needed

\* A started run goes on; watchfiles delivers, and both watchers take, what it
\* has collected; nothing obliges anybody to edit or to press `r`.
Fairness ==
  /\ \A p \in Procs : WF_vars(Step(p))
  /\ WF_vars(WatchBatch) /\ WF_vars(_watch_loop) /\ WF_vars(on_reindex_needed)

Spec == Init /\ [][Next]_vars /\ Fairness

(***************************************************************************)
(* Properties.  A file has slipped when its recorded hash is not that of   *)
(* the content its rows were built from: edited after a full run read it   *)
(* and before the run hashed it, read by an incremental run after its scan *)
(* saw another version, or committed by a run that then failed.  Once the  *)
(* disk agrees with such a hash no incremental run looks at the file.      *)
(***************************************************************************)
Built(table, f) ==
  table[f] = IF disk[f] = Absent THEN << >> ELSE <<disk[f]>>

Idle(p) == pc[p] \in {"idle", "dead"}

TuiCovers(f) == Delivers("tui", f) /\ _filter_relevant({f}) # {}

\* A clear badge tells the truth: while the watcher runs, nothing is on its way
\* to it and no reindex is going, what the providers show of a file its watch
\* covers and that was edited since the start is what a build from scratch gives
\* - whoever reindexed in between, and however edits, batches, messages and runs
\* interleaved - unless the file slipped.
BadgeCoversDrift ==
  badge # "changes" /\ ~posted /\ _filter_relevant(events["tui"]) = {}
    /\ pc["tui"] # "dead" /\ (\A p \in Procs : Idle(p))
  => \A f \in touched \ slipped : TuiCovers(f) => Built(cache, f)

\* "Watch files and auto-reindex on changes": a change the watch covers is
\* indexed in the end, also one that falls into a running reindex, or the file
\* has slipped, or the watch is seen to have died.
ChangesAreIndexed ==
  \A f \in Files :
    f \in _filter_relevant(events["watch"])
      ~> Built(rows, f) \/ f \in slipped \/ pc["watch"] = "dead"
=============================================================================
