----------------------------- MODULE BundleCache -----------------------------
(***************************************************************************)
(* Context bundles and their two caches: a dictionary in every MCP server  *)
(* process (L1) and the table bundle_cache (L2), used by the servers and   *)
(* by `beadloom ctx`.  An entry is tagged with the newest mtimes under     *)
(* .beadloom/_graph and docs at the lookup that made it, and is stale when *)
(* one has advanced.  A server also reindexes when one is newer than the   *)
(* end of the last reindex.                                                *)
(*                                                                         *)
(* Time advances with every edit; the version of a part is the time it was *)
(* last changed.  A bundle is what it was built from: the version of each  *)
(* part of the index that it shows.                                        *)
(***************************************************************************)
EXTENDS Naturals, FiniteSets

CONSTANTS
  Servers,    \* MCP server processes
  Cli,        \* the command line
  Asked,      \* nodes that are asked for
  Overlap,    \* may two processes be at work at the same time?
  MaxTime,    \* bound on edits
  None

ASSUME CacheConstants ==
  /\ Cli \notin Servers /\ Overlap \in BOOLEAN /\ MaxTime \in Nat

VARIABLES
  now,
  disk,          \* the version of each part on disk
  mtime,         \* newest mtime under _graph and under docs
  index,         \* the version of each part in the tables
  fileIdx,       \* the version recorded in file_index
  lastReindex,   \* meta.last_reindex_at
  l1,            \* the dictionary of each server
  l2,            \* bundle_cache
  work,          \* what each process is doing
  noticed,       \* history: last edit that advanced the part's mtime, but for those
                 \* during a reindex or between a call's two looks at the mtimes,
                 \* and those that a removal has hidden
  peak,          \* history: the newest mtime there ever was
  answer         \* history: what a call that just ended returned, and had to show

cacheVars == <<now, disk, mtime, index, fileIdx, lastReindex, l1, l2, work,
          noticed, peak, answer>>
files == <<now, disk, mtime, noticed, peak>>
tables == <<index, fileIdx, lastReindex>>

Procs == Servers \cup {Cli}
Dated == {"graph", "docs"}                 \* parts whose mtimes are looked at
OnDisk == Dated \cup {"code"}
Parts == OnDisk \cup {"sync"}              \* sync: the status of doc-code pairs

Requests == [tool : {"get_context", "get_graph"}, ref : Asked]
Shown(q) == IF q.tool = "get_graph" THEN {"graph"} ELSE Parts

\* get_graph compares the graph's mtime only and stores 0.0 for the docs.
Tag(q) == [d \in Dated |-> IF d \in Shown(q) THEN mtime[d] ELSE 0]
Fresh(entry, tag) == entry # None /\ \A d \in Dated : entry.tag[d] >= tag[d]
Bundle(q) == [p \in Parts |-> IF p \in Shown(q) THEN index[p] ELSE 0]
NoAnswers == [s \in Servers |-> None]
EmptyCache == [q \in Requests |-> None]

Idle == [pc |-> "idle", job |-> None, req |-> None, full |-> FALSE, seen |-> None, tag |-> None,
         asked |-> None, bundle |-> None]
MayStart(p) ==
  /\ work[p] = Idle
  /\ Overlap \/ \A o \in Procs : work[o] = Idle

Go(p, pc) == work' = [work EXCEPT ![p].pc = pc]
Finish(p) == work' = [work EXCEPT ![p] = Idle]

CacheInit ==
  /\ now = 0
  /\ disk = [p \in OnDisk |-> 0] /\ mtime = [d \in Dated |-> 0]
  /\ index = [p \in Parts |-> 0] /\ fileIdx = disk /\ lastReindex = 0
  /\ l1 = [s \in Servers |-> EmptyCache] /\ l2 = EmptyCache
  /\ work = [p \in Procs |-> Idle]
  /\ noticed = mtime /\ peak = mtime
  /\ answer = NoAnswers

(***************************************************************************)
(* Authors.                                                                *)
(***************************************************************************)
Unsettled == \E p \in Procs : work[p].pc \in {"scan", "index", "stamp", "dispatch"}
Reindexing == \E p \in Procs : work[p].pc \in {"scan", "index", "stamp"}

\* Saving a file gives its part a new mtime.
Save(p) ==
  /\ now < MaxTime /\ now' = now + 1
  /\ disk' = [disk EXCEPT ![p] = now']
  /\ IF p \in Dated
     THEN /\ mtime' = [mtime EXCEPT ![p] = now'] /\ peak' = [peak EXCEPT ![p] = now']
          /\ noticed' = IF Unsettled THEN noticed ELSE [noticed EXCEPT ![p] = now']
     ELSE UNCHANGED <<mtime, peak, noticed>>
  /\ answer' = NoAnswers
  /\ UNCHANGED <<tables, l1, l2, work>>

\* Removing a file, or restoring one with its old mtime, does not; the newest
\* mtime of the part may even be an older one afterwards.
RemoveFile(p) ==
  /\ p \in Dated /\ now < MaxTime /\ now' = now + 1
  /\ disk' = [disk EXCEPT ![p] = now']
  /\ \E newest \in {mtime[p], 0} :
       /\ mtime' = [mtime EXCEPT ![p] = newest]
       /\ noticed' = IF newest < mtime[p] THEN [noticed EXCEPT ![p] = 0] ELSE noticed
  /\ answer' = NoAnswers
  /\ UNCHANGED <<tables, l1, l2, work, peak>>

(***************************************************************************)
(* A reindex, by `beadloom reindex` or by a server that finds the index    *)
(* stale; full when asked for or when the graph has changed.  What a crash *)
(* in the middle does is the subject of Reindex.                           *)
(***************************************************************************)
CliReindex(full) ==
  /\ MayStart(Cli)
  /\ work' = [work EXCEPT ![Cli] = [Idle EXCEPT !.pc = "scan", !.full = full]]
  /\ answer' = NoAnswers
  /\ UNCHANGED <<files, tables, l1, l2>>

\* What a process does after its reindex.
Resume(p) ==
  IF p = Cli THEN Finish(p) /\ UNCHANGED l1
  ELSE Go(p, "dispatch") /\ l1' = [l1 EXCEPT ![p] = EmptyCache]

NothingChanged(p) ==
  /\ work[p].pc = "scan" /\ ~work[p].full /\ disk = fileIdx
  /\ lastReindex' = now
  /\ Resume(p)
  /\ UNCHANGED <<files, index, fileIdx, l2, answer>>

Scan(p) ==
  /\ work[p].pc = "scan" /\ (work[p].full \/ disk # fileIdx)
  /\ work' = [work EXCEPT ![p].pc = "index", ![p].seen = disk,
                          ![p].full = @ \/ disk["graph"] # fileIdx["graph"]]
  /\ UNCHANGED <<files, tables, l1, l2, answer>>

\* Changed parts are read again, and sync_state is rebuilt.
ReadAgain(p) ==
  index' = [item \in Parts |->
    IF item = "sync" THEN now
    ELSE IF work[p].full \/ work[p].seen[item] # fileIdx[item] THEN disk[item]
    ELSE index[item]]

IndexKeepingRows(p) ==                            \* mutant: bundle_cache is not emptied
  /\ work[p].pc = "index" /\ ReadAgain(p) /\ Go(p, "stamp")
  /\ UNCHANGED <<files, fileIdx, lastReindex, l1, l2, answer>>

Index(p) ==
  /\ work[p].pc = "index" /\ ReadAgain(p) /\ Go(p, "stamp")
  /\ l2' = EmptyCache
  /\ UNCHANGED <<files, fileIdx, lastReindex, l1, answer>>

\* A full run scans again for file_index.
Stamp(p) ==
  /\ work[p].pc = "stamp"
  /\ lastReindex' = now
  /\ fileIdx' = IF work[p].full THEN disk ELSE work[p].seen
  /\ Resume(p)
  /\ UNCHANGED <<files, index, l2, answer>>

(***************************************************************************)
(* A tool call.  A server handles one at a time, and first reindexes when *)
(* the index is stale.                                                    *)
(***************************************************************************)
GraphOnlyStale == mtime["graph"] > lastReindex    \* mutant: docs are forgotten

IsIndexStale == \E d \in Dated : mtime[d] > lastReindex

Call(s, job, q) ==
  /\ MayStart(s) /\ (job = "get" \/ q.tool = "get_context")
  /\ work' = [work EXCEPT ![s] = [Idle EXCEPT !.pc = IF IsIndexStale THEN "scan" ELSE "dispatch",
                                             !.job = job, !.req = q]]
  /\ answer' = NoAnswers
  /\ UNCHANGED <<files, tables, l1, l2>>

Lookup(s) == work[s].pc = "dispatch" /\ work[s].job = "get"

Put(cache, q, bundle, tag) == [cache EXCEPT ![q] = [bundle |-> bundle, tag |-> tag]]
Answer(s, bundle, due) ==
  answer' = [answer EXCEPT ![s] = [req |-> work[s].req, bundle |-> bundle, asked |-> due]]

\* "Context unchanged since last request": the bundle itself is not sent.
HitL1(s) ==
  /\ Lookup(s)
  /\ LET entry == l1[s][work[s].req] IN
       /\ Fresh(entry, Tag(work[s].req))
       /\ Answer(s, entry.bundle, noticed)
  /\ Finish(s)
  /\ UNCHANGED <<files, tables, l1, l2>>

\* The mtimes read here are the tag of whatever is stored later on.
MissL1(s) ==
  /\ Lookup(s)
  /\ LET q == work[s].req IN
       /\ ~Fresh(l1[s][q], Tag(q))
       /\ l1' = [l1 EXCEPT ![s][q] = None]
       /\ work' = [work EXCEPT ![s].pc = "l2", ![s].tag = Tag(q), ![s].asked = noticed]
  /\ UNCHANGED <<files, tables, l2, answer>>

HitL2(s) ==
  /\ s \in Servers /\ work[s].pc = "l2"
  /\ LET row == l2[work[s].req] IN
       /\ Fresh(row, work[s].tag)
       /\ l1' = [l1 EXCEPT ![s] = Put(@, work[s].req, row.bundle, work[s].tag)]
       /\ Answer(s, row.bundle, work[s].asked)
  /\ Finish(s)
  /\ UNCHANGED <<files, tables, l2>>

\* A stale row is deleted.
MissL2(p) ==
  /\ work[p].pc = "l2"
  /\ LET q == work[p].req IN
       /\ ~Fresh(l2[q], work[p].tag)
       /\ l2' = [l2 EXCEPT ![q] = None]
  /\ Go(p, "build")
  /\ UNCHANGED <<files, tables, l1, answer>>

Build(p) ==
  /\ work[p].pc = "build"
  /\ work' = [work EXCEPT ![p].pc = "store", ![p].bundle = Bundle(work[p].req)]
  /\ UNCHANGED <<files, tables, l1, l2, answer>>

Store(s) ==
  /\ s \in Servers /\ work[s].pc = "store"
  /\ LET w == work[s] IN
       /\ l1' = [l1 EXCEPT ![s] = Put(@, w.req, w.bundle, w.tag)]
       /\ l2' = Put(l2, w.req, w.bundle, w.tag)
       /\ Answer(s, w.bundle, w.asked)
  /\ Finish(s)
  /\ UNCHANGED <<files, tables>>

\* The YAML file is written and the node's row patched, which is as good as a
\* reindex if the tables had all of the graph.  The L1 keys of get_graph start
\* with "graph:", so that only those of get_context match.
UpdateNode(s) ==
  /\ work[s].pc = "dispatch" /\ work[s].job = "update" /\ now < MaxTime /\ now' = now + 1
  /\ disk' = [disk EXCEPT !["graph"] = now'] /\ mtime' = [mtime EXCEPT !["graph"] = now']
  /\ noticed' = [noticed EXCEPT !["graph"] = now'] /\ peak' = [peak EXCEPT !["graph"] = now']
  /\ index' = [index EXCEPT !["graph"] = IF @ = disk["graph"] THEN now' ELSE @]
  /\ LET ref == work[s].req.ref IN
       /\ l1' = [l1 EXCEPT ![s] = [q \in Requests |->
                   IF q.ref = ref /\ q.tool = "get_context" THEN None ELSE l1[s][q]]]
       /\ l2' = [q \in Requests |-> IF q.ref = ref THEN None ELSE l2[q]]
  /\ Finish(s)
  /\ UNCHANGED <<fileIdx, lastReindex, answer>>

\* Neither cache is touched.
MarkSynced(s) ==
  /\ work[s].pc = "dispatch" /\ work[s].job = "mark" /\ now < MaxTime /\ now' = now + 1
  /\ index' = [index EXCEPT !["sync"] = now']
  /\ Finish(s)
  /\ UNCHANGED <<disk, mtime, noticed, peak, fileIdx, lastReindex, l1, l2, answer>>

\* L2 survives a restart.
Restart(s) ==
  /\ work[s].pc \notin {"scan", "index", "stamp"}
  /\ l1' = [l1 EXCEPT ![s] = EmptyCache] /\ Finish(s)
  /\ answer' = NoAnswers
  /\ UNCHANGED <<files, tables, l2>>

(***************************************************************************)
(* `beadloom ctx`: through L2, on the index as it is.                      *)
(***************************************************************************)
Ctx(q) ==
  /\ MayStart(Cli) /\ q.tool = "get_context"
  /\ work' = [work EXCEPT ![Cli] = [Idle EXCEPT !.pc = "l2", !.req = q, !.tag = Tag(q)]]
  /\ answer' = NoAnswers
  /\ UNCHANGED <<files, tables, l1, l2>>

HitCtx ==
  /\ work[Cli].pc = "l2"
  /\ LET row == l2[work[Cli].req] IN Fresh(row, work[Cli].tag)
  /\ Finish(Cli)
  /\ UNCHANGED <<files, tables, l1, l2, answer>>

StoreCtx ==
  /\ work[Cli].pc = "store"
  /\ l2' = Put(l2, work[Cli].req, work[Cli].bundle, work[Cli].tag)
  /\ Finish(Cli)
  /\ UNCHANGED <<files, tables, l1, answer>>

CacheNext ==
  \/ \E p \in OnDisk : Save(p) \/ RemoveFile(p)
  \/ \E full \in BOOLEAN : CliReindex(full)
  \/ \E p \in Procs : NothingChanged(p) \/ Scan(p) \/ Index(p) \/ Stamp(p) \/ MissL2(p) \/ Build(p)
  \/ \E s \in Servers, job \in {"get", "update", "mark"}, q \in Requests : Call(s, job, q)
  \/ \E s \in Servers : \/ HitL1(s) \/ MissL1(s) \/ HitL2(s) \/ Store(s)
                        \/ UpdateNode(s) \/ MarkSynced(s) \/ Restart(s)
  \/ \E q \in Requests : Ctx(q)
  \/ HitCtx \/ StoreCtx

CacheSpec == CacheInit /\ [][CacheNext]_cacheVars

(***************************************************************************)
(* Properties.                                                             *)
(***************************************************************************)
\* A server's answer, cached or not, shows the graph and the docs as they were
\* after the last edit that was made before the call and that any mtime tells
\* of: server._ensure_fresh_index and the tags keep out bundles that were built
\* before it, those that `beadloom ctx` made of an index that was behind too.
ServedIsFresh ==
  \A s \in Servers : answer[s] # None =>
    \A d \in Dated \cap Shown(answer[s].req) : answer[s].bundle[d] >= answer[s].asked[d]

Newest(q, entry) == entry # None /\ \A d \in Dated \cap Shown(q) : entry.tag[d] >= peak[d]
Show(q, bundle) == [p \in Shown(q) \ {"sync"} |-> bundle[p]]
Current(q, entry) == Show(q, entry.bundle) = Show(q, Bundle(q))

\* A row of bundle_cache that no newer mtime has outdated is what would be built
\* now, but for the status of the docs: whoever changes the tables empties it.
RowsAreCurrent ==
  \A q \in Requests : Newest(q, l2[q]) => Current(q, l2[q]) \/ Reindexing

=============================================================================
