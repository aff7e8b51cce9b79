----------------------------- MODULE GraphFiles -----------------------------
(***************************************************************************)
(* The YAML graph (.beadloom/_graph/*.yml), its loader and its writers.    *)
(* load_graph reads the files in sorted order into the tables; three       *)
(* commands rewrite them, each by reading a file, changing the nodes it    *)
(* names and replacing the file through write_yaml_atomic: update_node     *)
(* (MCP), link (command line) and the docs: patch of docs generate.        *)
(* Writers are processes of their own: they overlap, are killed, and the   *)
(* machine can lose power.                                                 *)
(***************************************************************************)
EXTENDS Naturals, Sequences, FiniteSets, SequencesExt

CONSTANTS
  FileCount,   \* number of *.yml files; 1 .. FileCount is their sorted order
  Layouts,     \* what the author may leave in a file (see Content)
  Refs,        \* ref_ids
  Foreign,     \* an endpoint of the form @repo:id
  Malformed,   \* an endpoint that starts with @ and does not parse
  AnySummary,  \* values of a summary in the files
  Summaries,   \* those the tool is called with
  Urls,        \* tracker links
  MaxWrites,   \* bound on the commands that find something to write
  MaxAuthor,   \* bound on the author's edits
  MaxFaults    \* bound on kills and power failures


Files == 1 .. FileCount

(* A node lacks the kind ("null") when the YAML has an explicit null, which *)
(* the table refuses; docs says whether the docs: field is present.        *)
Node == [ref: Refs, summary: AnySummary, links: SUBSET Urls,
         docs: BOOLEAN, kind: {"given", "null"}]
Edge == [src: Refs \cup {Foreign, Malformed}, dst: Refs \cup {Foreign, Malformed},
         contract: {"", "c"}]

(* shape "edges": the nodes are a list and the edges are not; "syntax": not *)
(* YAML at all; "torn": the first part of what a writer meant to write.    *)
Content == [shape: {"ok", "edges", "syntax", "torn"}, nodes: Seq(Node), edges: Seq(Edge)]

ASSUME GraphConstants ==
  /\ FileCount \in Nat \ {0} /\ MaxWrites \in Nat /\ MaxAuthor \in Nat /\ MaxFaults \in Nat
  /\ \A c \in Layouts : c \in Content /\ c.shape # "torn"

Writers == {"update_node", "link", "patch_docs"}

VARIABLES
  disk,      \* [Files -> Content]
  table,     \* rows of nodes, edges and foreign_edges
  writer,    \* [Writers -> where it is, the file and what it will write there]
  volatile,  \* files whose present contents were renamed in before a sync
  acked,     \* the last answered update_node nobody has written over, or NoAck
  opened, authored, faults

gvars == <<disk, table, writer, volatile, acked, opened, authored, faults>>

NoAck == [ref |-> "none", summary |-> "none"]
Idle == [pc |-> "idle"]

-----------------------------------------------------------------------------
(* The loader.                                                             *)

\* parse_graph_file: a file that is not a mapping of two lists is an error.
parse_graph_file(c) == IF c.shape = "ok" THEN [nodes |-> c.nodes, edges |-> c.edges]
                                         ELSE [nodes |-> <<>>, edges |-> <<>>]

\* The items of all files, in order: an item's place is its file and its position there.
Parsed(d) == [f \in Files |-> parse_graph_file(d[f])]
all_nodes(d) == [p \in UNION {{f} \X DOMAIN Parsed(d)[f].nodes : f \in Files} |->
                   Parsed(d)[p[1]].nodes[p[2]]]
all_edges(d) == [p \in UNION {{f} \X DOMAIN Parsed(d)[f].edges : f \in Files} |->
                   Parsed(d)[p[1]].edges[p[2]]]
Earlier(p, q) == p[1] < q[1] \/ (p[1] = q[1] /\ p[2] < q[2])

\* Pass 1 keeps the first node of a ref_id, wherever it stands.
Inserted(d) ==
  LET all == all_nodes(d)
      first == {i \in DOMAIN all : \A j \in DOMAIN all : Earlier(j, i) => all[j].ref # all[i].ref}
  IN  {i \in first : all[i].kind = "given"}
seen_ref_ids(d) == {n.ref : n \in Range(all_nodes(d))}

\* _classify_endpoint and the branches of _process_edge that do not insert.
Fate(e, seen) ==
  CASE Malformed \in {e.src, e.dst} -> "error"
    [] Malformed \notin {e.src, e.dst} /\ Foreign \in {e.src, e.dst} -> "foreign"
    [] {e.src, e.dst} \cap {Foreign, Malformed} = {} /\ ~({e.src, e.dst} \subseteq seen) -> "warning"
    [] OTHER -> "local"

\* The edges table binds both endpoints to rows of nodes, and its key is
\* (src, dst, kind, contract_key): the second of two equal keys is refused.
InsertedEdges(d) ==
  LET all == all_edges(d)
      nodes == all_nodes(d)
      rows == {nodes[i].ref : i \in Inserted(d)}
      seen == seen_ref_ids(d)
      ok == {i \in DOMAIN all : Fate(all[i], seen) = "local" /\ {all[i].src, all[i].dst} \subseteq rows}
  IN  {i \in ok : \A j \in ok : Earlier(j, i) => all[j] # all[i]}

_insert_foreign_edge(d) ==
  LET seen == seen_ref_ids(d)
  IN  {e \in Range(all_edges(d)) : Fate(e, seen) = "foreign"}   \* INSERT OR REPLACE

\* errors and warnings of a GraphLoadResult, as the items they are about
NodeErrors(d) ==
  LET all == all_nodes(d)
  IN  {i \in DOMAIN all : \/ all[i].kind = "null"
                          \/ \E j \in DOMAIN all : Earlier(j, i) /\ all[j].ref = all[i].ref}
\* Mutant: INSERT OR IGNORE for edges.
WarnsOfEndpointsOnly(d) ==
  LET all == all_edges(d) seen == seen_ref_ids(d)
  IN  {i \in DOMAIN all : Fate(all[i], seen) \in {"error", "warning"}}
EdgeWarnings(d) ==
  LET all == all_edges(d) seen == seen_ref_ids(d) inserted == InsertedEdges(d)
  IN  {i \in DOMAIN all : \/ Fate(all[i], seen) \in {"error", "warning"}
                          \/ Fate(all[i], seen) = "local" /\ i \notin inserted}

load_graph(d) ==
  LET nodes == all_nodes(d) lines == all_edges(d)
  IN  [nodes   |-> {nodes[i] : i \in Inserted(d)},
       edges   |-> {lines[i] : i \in InsertedEdges(d)},
       foreign |-> _insert_foreign_edge(d)]

-----------------------------------------------------------------------------
(* The writers.                                                            *)

\* The first file, and in it the first node, with the ref_id. A file that is
\* not YAML raises before that; a file whose edges are misshapen does not.
Holds(c, r) == \E i \in DOMAIN c.nodes : c.nodes[i].ref = r
IsTarget(f, r) == /\ Holds(disk[f], r)
                  /\ \A g \in 1 .. f - 1 : ~Holds(disk[g], r)
                  /\ \A g \in 1 .. f : disk[g].shape \in {"ok", "edges"}
\* Mutant: the last node of that ref_id.
LastPosition(c, r) == CHOOSE i \in DOMAIN c.nodes :
                        /\ c.nodes[i].ref = r
                        /\ \A j \in i + 1 .. Len(c.nodes) : c.nodes[j].ref # r
Position(c, r) == CHOOSE i \in DOMAIN c.nodes :
                    /\ c.nodes[i].ref = r
                    /\ \A j \in 1 .. i - 1 : c.nodes[j].ref # r

\* What a writer carries from its read to its rename; crossed: somebody else
\* has changed a file since.
Dumped(f, r, s, c) ==
  [pc |-> "dumped", file |-> f, ref |-> r, summary |-> s, data |-> c, crossed |-> FALSE]
Open(p, w) == /\ writer[p] = Idle /\ opened < MaxWrites
              /\ opened' = opened + 1
              /\ writer' = [writer EXCEPT ![p] = w]
              /\ UNCHANGED <<disk, table, volatile, acked, authored, faults>>
Crossed == [p \in Writers |-> IF writer[p] = Idle THEN Idle
                              ELSE [writer[p] EXCEPT !.crossed = TRUE]]

update_node_in_yaml ==
  \E r \in Refs, s \in Summaries, f \in Files :
    /\ IsTarget(f, r)
    /\ Open("update_node", Dumped(f, r, s,
         [disk[f] EXCEPT !.nodes[Position(disk[f], r)].summary = s]))

\* link adds a url that is not there or removes one that is; in the other two
\* cases, and when it lists, it writes nothing.
link ==
  \E r \in Refs, u \in Urls, f \in Files :
    /\ IsTarget(f, r)
    /\ Open("link", Dumped(f, r, "none",
         [disk[f] EXCEPT !.nodes[Position(disk[f], r)].links =
            IF u \in @ THEN @ \ {u} ELSE @ \cup {u}]))

\* One file of docs generate: the nodes of new docs that have no docs: yet.
_patch_docs_field ==
  \E docs_map \in SUBSET Refs, f \in Files :
    LET due == {i \in DOMAIN disk[f].nodes :
                  disk[f].nodes[i].ref \in docs_map /\ ~disk[f].nodes[i].docs}
    IN  /\ disk[f].shape \in {"ok", "edges"} /\ due # {}
        /\ Open("patch_docs", Dumped(f, "none", "none",
             [disk[f] EXCEPT !.nodes = [i \in DOMAIN @ |->
                IF i \in due THEN [@[i] EXCEPT !.docs = TRUE] ELSE @[i]]]))

\* write_yaml_atomic up to the rename: the text goes to a dot-file beside the
\* target, which *.yml does not match; it is flushed, then synced.
Flush(p) == /\ writer[p].pc = "dumped"
            /\ writer' = [writer EXCEPT ![p].pc = "flushed"]
            /\ UNCHANGED <<disk, table, volatile, acked, authored, faults, opened>>
Fsync(p) == /\ writer[p].pc = "flushed"
            /\ writer' = [writer EXCEPT ![p].pc = "synced"]
            /\ UNCHANGED <<disk, table, volatile, acked, authored, faults, opened>>

\* Mutant: no fsync before the rename.
RenamesUnsynced(p) == writer[p].pc = "flushed"

ReadyToRename(p) == writer[p].pc = "synced"

Replace(p) ==
  /\ ReadyToRename(p)
  /\ disk' = [disk EXCEPT ![writer[p].file] = writer[p].data]
  /\ volatile' = IF writer[p].pc = "synced" THEN volatile \ {writer[p].file}
                                            ELSE volatile \cup {writer[p].file}
  /\ writer' = [Crossed EXCEPT ![p] =
       IF p = "update_node" THEN [writer[p] EXCEPT !.pc = "replaced"] ELSE Idle]
  /\ acked' = NoAck
  /\ UNCHANGED <<table, authored, faults, opened>>

\* The UPDATE statements follow the rename; then the tool answers.
UpdateTable ==
  LET u == writer["update_node"] IN
  /\ u.pc = "replaced"
  /\ table' = [table EXCEPT !.nodes =
       {IF n.ref = u.ref THEN [n EXCEPT !.summary = u.summary] ELSE n : n \in @}]
  /\ acked' = IF u.crossed THEN NoAck ELSE [ref |-> u.ref, summary |-> u.summary]
  /\ writer' = [writer EXCEPT !["update_node"] = Idle]
  /\ UNCHANGED <<disk, volatile, authored, faults, opened>>

\* A reindex: the tables become what the files say now.
Reload == /\ table' = load_graph(disk)
          /\ UNCHANGED <<disk, writer, volatile, acked, authored, faults, opened>>

-----------------------------------------------------------------------------
(* The environment.                                                        *)

AuthorEdits ==
  /\ authored < MaxAuthor
  /\ \E f \in Files, c \in Layouts :
       c # disk[f] /\ disk' = [disk EXCEPT ![f] = c] /\ volatile' = volatile \ {f}
  /\ authored' = authored + 1
  /\ acked' = NoAck
  /\ writer' = Crossed
  /\ UNCHANGED <<table, faults, opened>>

\* An exception removes the dot-file, a kill leaves it: nobody reads it.
Kill(p) ==
  /\ writer[p] # Idle /\ faults < MaxFaults
  /\ writer' = [writer EXCEPT ![p] = Idle]
  /\ faults' = faults + 1
  /\ UNCHANGED <<disk, table, volatile, acked, authored, opened>>

\* The machine stops; what was not synced may be cut short.
PowerFailure ==
  /\ faults < MaxFaults
  /\ volatile # {} \/ \E p \in Writers : writer[p] # Idle
  /\ \E lost \in SUBSET volatile :
       disk' = [f \in Files |-> IF f \in lost
                  THEN [shape |-> "torn", nodes |-> <<>>, edges |-> <<>>] ELSE disk[f]]
  /\ writer' = [p \in Writers |-> Idle]
  /\ volatile' = {}
  /\ faults' = faults + 1
  /\ UNCHANGED <<table, acked, authored, opened>>

GraphInit ==
  /\ disk \in [Files -> Layouts]
  /\ table = load_graph(disk)
  /\ writer = [p \in Writers |-> Idle]
  /\ volatile = {} /\ acked = NoAck
  /\ opened = 0 /\ authored = 0 /\ faults = 0

GraphNext ==
  \/ update_node_in_yaml \/ link \/ _patch_docs_field
  \/ \E p \in Writers : Flush(p) \/ Fsync(p) \/ Replace(p) \/ Kill(p)
  \/ UpdateTable \/ Reload \/ AuthorEdits \/ PowerFailure

-----------------------------------------------------------------------------
(* Properties.                                                             *)

(* A graph file is never left cut short, whoever is killed and whenever    *)
(* the power fails: write_yaml_atomic renames only what it has synced.     *)
GraphNeverTorn == \A f \in Files : disk[f].shape # "torn"

(* The node update_node answered for is the one every later load_graph     *)
(* puts into the table, also with a second node of the same ref_id in the  *)
(* same or another file: until somebody else changes a file, the row keeps *)
(* the summary. (Files whose edges are misshapen are excluded: the loader  *)
(* skips them and update_node does not.)                                   *)
UpdateReachesTheLoadedNode ==
  (acked # NoAck /\ \A f \in Files : disk[f].shape = "ok") =>
     \A n \in table.nodes : n.ref = acked.ref => n.summary = acked.summary

(* What the files say is loaded or complained about, item by item: the     *)
(* first usable node of a ref_id, every edge whose ends are loaded, in     *)
(* whatever file they stand ("never silently dropped", loader.py).         *)
NothingSilentlyDropped ==
  LET loaded == load_graph(disk)
      nodes == all_nodes(disk)
      lines == all_edges(disk)
      errors == NodeErrors(disk)
      warnings == EdgeWarnings(disk)
  IN /\ \A i \in DOMAIN nodes \ errors : nodes[i] \in loaded.nodes
     /\ \A i \in DOMAIN lines \ warnings : lines[i] \in loaded.edges \cup loaded.foreign
=============================================================================
