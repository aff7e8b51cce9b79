---------------------------- MODULE GraphHistory ----------------------------
(***************************************************************************)
(* "Has the architecture changed since ...?", asked of a git ref           *)
(* (`diff`), of snapshots in the database (`snapshot compare`), and by the *)
(* reference docs that watch coarse surfaces (`sync-check`, `sync-update`  *)
(* on a document). Graph files lie directly in _graph and parse; git is    *)
(* external.                                                               *)
(***************************************************************************)
EXTENDS Naturals, Sequences, FiniteSets, SequencesExt

CONSTANTS
  Graphs,        \* contents the graph directory may have: a sequence of files
  Docs,          \* markdown files that may carry a watches annotation
  Scanned,       \* those of them under docs/, which an index run hashes
  WatchLists,    \* the annotations authors write, as sequences of surfaces
  Absent,        \* the source of a node that gives none; NULL in the tables
  MaxEdits,      \* bound on edits, commits and upgrades
  MaxSnapshots   \* bound on snapshots

VARIABLES
  yaml, head,    \* graph files on disk and in the last commit
  db,            \* nodes and edges tables
  snaps,         \* graph_snapshots, each with the files it was indexed from (history)
  watches,       \* [Docs -> annotation; <<>> when there is none]
  flow, cli,     \* contents of flow.yml; the commands of the installed release
  refs,          \* reference_state: [Docs -> row or NoRow]
  stamp,         \* what file_index says was indexed
  attested,      \* history: the surfaces as they were when the document was attested
  edits

hvars == <<yaml, head, db, snaps, watches, flow, cli, refs, stamp, attested, edits>>

Surfaces == {"cli", "graph", "flow.yml"}
NoRow == [watches |-> <<>>, hash |-> <<>>, status |-> "none"]

\* A file has its nodes and edges in order. extra is what else a node says, contract the
\* key and payload of an edge's contract; lifecycle is "" when the field is absent. An end
\* in another repository is one that is no node here.
GraphNode == [ref : STRING \ {""}, kind : STRING, summary : STRING, source : STRING \cup {Absent},
              tags : SUBSET STRING, extra : STRING, lifecycle : STRING]
GraphEdge == [src : STRING \ {""}, dst : STRING \ {""}, kind : STRING, contract : STRING, lifecycle : STRING]

ASSUME HistoryConstants ==
  /\ Graphs \subseteq Seq([nodes : Seq(GraphNode), edges : Seq(GraphEdge)])
  /\ Scanned \subseteq Docs /\ <<>> \in WatchLists
  /\ \A w \in WatchLists : Range(w) \subseteq Surfaces
  /\ MaxEdits \in Nat /\ MaxSnapshots \in Nat

-----------------------------------------------------------------------------
(* What is loaded, and what the diff reads.                                *)

\* Where nodes and edges stand, and the order in which they are read: file by file.
Places(g) == UNION {{i} \X DOMAIN g[i].nodes : i \in DOMAIN g}
EdgePlaces(g) == UNION {{i} \X DOMAIN g[i].edges : i \in DOMAIN g}
ReadBefore(p, q) == p[1] < q[1] \/ (p[1] = q[1] /\ p[2] < q[2])
Standing(g, p) == g[p[1]].nodes[p[2]]
EdgeAt(g, p) == g[p[1]].edges[p[2]]
Rivals(g, p) == {q \in Places(g) : Standing(g, q).ref = Standing(g, p).ref}
RefsOf(g) == {Standing(g, p).ref : p \in Places(g)}
Unambiguous(g) == \A p \in Places(g) : Rivals(g, p) = {p}

Triple(e) == <<e.src, e.dst, e.kind>>
Triples(es) == {Triple(e) : e \in es}

_normalize_lifecycle(l) ==
  IF l \in {"active", "planned", "deprecated", "dead", "external"} THEN l ELSE "active"
AsStored(x) == [x EXCEPT !.lifecycle = _normalize_lifecycle(@)]

Binds(g, e) == {e.src, e.dst} \subseteq RefsOf(g)

\* The loader keeps the first node of a ref_id, and of the edges between its nodes the
\* first of a (src, dst, kind, contract).
loaded_graph(g) ==
  LET First(p) == \A q \in Rivals(g, p) : ~ReadBefore(q, p)
      FirstEdge(p) ==
        \A q \in EdgePlaces(g) : ReadBefore(q, p) =>
          Triple(EdgeAt(g, q)) # Triple(EdgeAt(g, p)) \/ EdgeAt(g, q).contract # EdgeAt(g, p).contract
  IN [nodes |-> {AsStored(Standing(g, p)) : p \in {x \in Places(g) : First(x)}},
      edges |-> {AsStored(EdgeAt(g, p)) : p \in {x \in EdgePlaces(g) : Binds(g, EdgeAt(g, x)) /\ FirstEdge(x)}}]

\* The diff's dictionaries keep the last, without lifecycle and other keys, and without
\* telling an absent source from an empty one; an edge is (src, dst, kind).
OrEmpty(source) == IF source = Absent THEN "" ELSE source
AsRead(n) == [ref |-> n.ref, kind |-> n.kind, summary |-> n.summary,
              source |-> OrEmpty(n.source), tags |-> n.tags]
_parse_yaml_content(g) ==
  [nodes |-> {AsRead(Standing(g, p)) : p \in {x \in Places(g) : \A q \in Rivals(g, x) : ~ReadBefore(x, q)}},
   edges |-> {Triple(EdgeAt(g, p)) : p \in EdgePlaces(g)}]

-----------------------------------------------------------------------------
(* The diffs. A change is [ref, how] or [edge, how].                       *)

\* What a change of a node is: kind, summary, source or tags. Mutant: not its source.
SameButSource(x, y) == x.kind = y.kind /\ x.summary = y.summary /\ x.tags = y.tags
SameNode(x, y) == SameButSource(x, y) /\ x.source = y.source

NodeAt(s, r) == CHOOSE n \in s : n.ref = r
NodeChanges(then, now, Same(_, _)) ==
  LET old == {n.ref : n \in then} new == {n.ref : n \in now} IN
  {[ref |-> r, how |-> "added"] : r \in new \ old}
    \cup {[ref |-> r, how |-> "removed"] : r \in old \ new}
    \cup {[ref |-> r, how |-> "changed"] :
            r \in {x \in old \cap new : ~Same(NodeAt(then, x), NodeAt(now, x))}}
EdgeChanges(then, now) ==
  {[edge |-> e, how |-> "added"] : e \in now \ then}
    \cup {[edge |-> e, how |-> "removed"] : e \in then \ now}

compute_diff(then, now) ==
  LET t == _parse_yaml_content(then) n == _parse_yaml_content(now)
  IN [nodes |-> NodeChanges(t.nodes, n.nodes, SameNode), edges |-> EdgeChanges(t.edges, n.edges)]

\* Snapshots against each other: kind and summary only. Mutant: the summary only.
SameSummary(x, y) == x.summary = y.summary
SameInSnapshot(x, y) == x.kind = y.kind /\ x.summary = y.summary
compare_snapshots(old, new) ==
  [nodes |-> NodeChanges(old.nodes, new.nodes, SameInSnapshot),
   edges |-> EdgeChanges(Triples(old.edges), Triples(new.edges))]

\* A snapshot against the tables: a source that is NULL in the snapshot reads "None", which
\* is no path, and one that is NULL in the tables "".
SameSource(x, y) == x.source # Absent /\ x.source = OrEmpty(y.source)
SameInTables(x, y) == SameButSource(x, y) /\ SameSource(x, y)
compute_diff_from_snapshot(old, tables) ==
  [nodes |-> NodeChanges(old.nodes, tables.nodes, SameInTables),
   edges |-> EdgeChanges(Triples(old.edges), Triples(tables.edges))]

-----------------------------------------------------------------------------
(* The surfaces reference docs watch.                                      *)

graph_signature(tables) ==
  <<{<<n.ref, n.kind>> : n \in tables.nodes}, {<<Triple(e), e.contract>> : e \in tables.edges}>>
surface_signature(s, tables) == CASE s = "cli" -> <<"cli", cli>>
                                  [] s = "graph" -> <<"graph", graph_signature(tables)>>
                                  [] s = "flow.yml" -> <<"flow", flow>>
aggregate_hash(w, tables) == [i \in DOMAIN w |-> surface_signature(w[i], tables)]

\* Mutant: every index run takes the surfaces as they are for the baseline.
RebaselinesAll(d) == FALSE
KeepsBaseline(d) == refs[d].watches = watches[d]

\* An index run: known docs with the same watches keep their baseline.
build_reference_state(tables) ==
  [d \in Docs |-> IF watches[d] = <<>> THEN NoRow
                  ELSE IF KeepsBaseline(d) THEN refs[d]
                  ELSE [watches |-> watches[d], status |-> "ok",
                        hash |-> aggregate_hash(watches[d], tables)]]

drifted(d) == refs[d] # NoRow /\ aggregate_hash(refs[d].watches, db) # refs[d].hash

-----------------------------------------------------------------------------
(* Steps.                                                                  *)

Edits == edits < MaxEdits /\ edits' = edits + 1
EditGraph == /\ Edits /\ yaml' \in Graphs \ {yaml}
             /\ UNCHANGED <<head, db, snaps, watches, flow, cli, refs, stamp, attested>>
Commit == /\ Edits /\ head' = yaml /\ head # yaml
          /\ UNCHANGED <<yaml, db, snaps, watches, flow, cli, refs, stamp, attested>>
EditWatches == /\ Edits
               /\ \E d \in Docs, w \in WatchLists :
                    w # watches[d] /\ watches' = [watches EXCEPT ![d] = w]
               /\ UNCHANGED <<yaml, head, db, snaps, flow, cli, refs, stamp, attested>>
EditFlow == /\ Edits /\ flow' = 1 - flow
            /\ UNCHANGED <<yaml, head, db, snaps, watches, cli, refs, stamp, attested>>
NewRelease == /\ Edits /\ cli' = 1 - cli
           /\ UNCHANGED <<yaml, head, db, snaps, watches, flow, refs, stamp, attested>>

Indexed == [yaml |-> yaml, watches |-> [d \in Scanned |-> watches[d]]]

\* graph_snapshots and reference_state are not among the tables a full run drops. A
\* document counts as attested when a run finds it for the first time, or finds it with
\* another list.
IndexRun ==
  /\ db' = loaded_graph(yaml) /\ stamp' = Indexed
  /\ refs' = build_reference_state(db')
  /\ attested' = [d \in Docs |-> IF watches[d] = <<>> THEN <<>>
                                 ELSE IF refs[d] # NoRow /\ refs[d].watches = watches[d]
                                 THEN attested[d] ELSE aggregate_hash(watches[d], db')]
  /\ UNCHANGED <<yaml, head, snaps, watches, flow, cli, edits>>
reindex == IndexRun
\* The incremental path looks only at files that index runs hash.
incremental_reindex == stamp # Indexed /\ IndexRun

\* The JSON leaves out lifecycles and contract keys, which no comparison reads.
save_snapshot == /\ Len(snaps) < MaxSnapshots
                 /\ snaps' = Append(snaps, [nodes |-> db.nodes, edges |-> db.edges, of |-> stamp.yaml])
                 /\ UNCHANGED <<yaml, head, db, watches, flow, cli, refs, stamp, attested, edits>>

check_reference_drift ==
  /\ refs' = [d \in Docs |-> IF refs[d] = NoRow THEN NoRow
                ELSE [refs[d] EXCEPT !.status = IF drifted(d) THEN "surface_drift" ELSE "ok"]]
  /\ UNCHANGED <<yaml, head, db, snaps, watches, flow, cli, stamp, attested, edits>>

\* A document whose row is marked: its surfaces as indexed become the baseline.
mark_reference_synced(ds) ==
  LET rows == {d \in ds : refs[d] # NoRow}
      now(d) == aggregate_hash(refs[d].watches, db)
  IN /\ refs' = [d \in Docs |-> IF d \in rows
                   THEN [refs[d] EXCEPT !.hash = now(d), !.status = "ok"] ELSE refs[d]]
     /\ attested' = [d \in Docs |-> IF d \in rows THEN now(d) ELSE attested[d]]
     /\ UNCHANGED <<yaml, head, db, snaps, watches, flow, cli, stamp, edits>>

\* One document is taken for synced when it is named by its path, with --check too,
\* although that is to show the status only.
sync_update == \E d \in Docs : mark_reference_synced({d})
\* `sync-update --yes --all`.
_mark_synced_noninteractive == mark_reference_synced(Docs)

HistoryInit ==
  /\ yaml \in Graphs /\ head = yaml
  /\ db = loaded_graph(yaml) /\ snaps = <<>>
  /\ watches = [d \in Docs |-> <<>>] /\ flow = 0 /\ cli = 0
  /\ refs = [d \in Docs |-> NoRow] /\ stamp = Indexed
  /\ attested = [d \in Docs |-> <<>>] /\ edits = 0

HistoryNext ==
  \/ EditGraph \/ Commit \/ EditWatches \/ EditFlow \/ NewRelease
  \/ reindex \/ incremental_reindex \/ save_snapshot
  \/ check_reference_drift \/ sync_update \/ _mark_synced_noninteractive

-----------------------------------------------------------------------------
(* Properties.                                                             *)

\* A reference document's drift is reported exactly while a surface it watches differs
\* from what it was when the document was last attested: no index run, check or upgrade
\* in between makes the difference the new baseline, and none invents one.
SurfaceDriftKept ==
  \A d \in Docs : refs[d] # NoRow =>
    (drifted(d) <=> aggregate_hash(refs[d].watches, db) # attested[d])

\* What `diff` does not mention the loader makes the same of, in all that `diff` is to
\* compare: a node by kind, summary, source and tags, an edge by its ends and kind; an
\* edge can come or go unmentioned only with a node that is mentioned. What it mentions
\* of a node is so. The rest of a node or edge (lifecycle, other keys, contracts) may
\* differ silently.
DiffTellsWhatLoads ==
  LET git == compute_diff(head, yaml)
      told == {c.ref : c \in git.nodes}
      then == loaded_graph(head) now == loaded_graph(yaml)
      Others(nodes) == {AsRead(n) : n \in {m \in nodes : m.ref \notin told}}
  IN /\ Others(then.nodes) = Others(now.nodes)
     /\ \A m \in then.nodes, n \in now.nodes : m.ref = n.ref /\ m.ref \in told => AsRead(m) # AsRead(n)
     /\ \A e \in Triples(then.edges) \cup Triples(now.edges) :
          \/ e \in Triples(then.edges) /\ e \in Triples(now.edges)
          \/ e \in {c.edge : c \in git.edges} \/ {e[1], e[2]} \cap told # {}

\* Between a snapshot of what is committed and tables that are indexed from the files of
\* today, the three comparisons agree: `snapshot compare` reports nothing that `diff` does
\* not, and leaves out only changes of sources and tags; the diff against the snapshot reports all
\* that `diff` does, and besides it only nodes without a source; edges differ
\* only by those that came or went with their ends. Whatever index runs, edits and
\* snapshots lie in between.
ThreeWaysAgree ==
  \A i \in {k \in DOMAIN snaps : snaps[k].of = head /\ stamp.yaml = yaml} :
    LET git == compute_diff(head, yaml)
        stored == compare_snapshots(snaps[i], db)
        since == compute_diff_from_snapshot(snaps[i], db)
        Missing(c) == LET g == IF c.how = "added" THEN yaml ELSE head
                      IN {c.edge[1], c.edge[2]} \ RefsOf(g)
        Arrived(c) == {[ref |-> r, how |-> c.how] : r \in {c.edge[1], c.edge[2]}}
    IN /\ stored.nodes \subseteq git.nodes
       /\ \A c \in git.nodes \ stored.nodes : \E m \in snaps[i].nodes, n \in db.nodes :
            m.ref = c.ref /\ n.ref = c.ref /\ m.kind = n.kind /\ m.summary = n.summary
       /\ git.nodes \subseteq since.nodes
       /\ \A c \in since.nodes \ git.nodes : \E n \in snaps[i].nodes : n.ref = c.ref /\ n.source = Absent
       /\ stored.edges = since.edges
       /\ \A c \in stored.edges \ git.edges : Arrived(c) \cap git.nodes # {}
       /\ \A c \in git.edges \ stored.edges : Missing(c) # {}

\* The three comparisons of graphs see what the loader makes of them, and one calls quiet
\* what another reports only where it is to. Where a ref_id is given twice, the diff
\* compares the last and the loader takes the first.
ComparisonsAgree == Unambiguous(head) /\ Unambiguous(yaml) => DiffTellsWhatLoads /\ ThreeWaysAgree
=============================================================================
