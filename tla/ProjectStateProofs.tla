-------------------------- MODULE ProjectStateProofs --------------------------
(***************************************************************************)
(* What Beadloom's commands write into a project and read out of its graph,*)
(* proved of the components of MCProjectState for every value of their     *)
(* constants: graph files, reference documents, comparisons of graphs,     *)
(* bootstrap, agent files, bundles and impact trees.                       *)
(***************************************************************************)
EXTENDS GraphFiles, Bootstrap, GraphHistory, AgentConfig, GraphReads, WellFoundedInduction, TLAPS

-----------------------------------------------------------------------------
(* Graph files.  What a writer carries is a whole file from its read to    *)
(* its rename, and a rename finds it synced, so that no power failure has  *)
(* anything to cut short.                                                  *)

Whole(c) ==
  c = [shape |-> c.shape, nodes |-> c.nodes, edges |-> c.edges] /\ c.shape # "torn"

Carrying(w) ==
  /\ w = [pc |-> w.pc, file |-> w.file, ref |-> w.ref, summary |-> w.summary,
          data |-> w.data, crossed |-> w.crossed]
  /\ w.pc # "idle" /\ w.file \in Files /\ Whole(w.data)

FilesWhole == disk = [f \in Files |-> disk[f]] /\ \A f \in Files : Whole(disk[f])

WritersCarry ==
  /\ writer = [p \in Writers |-> writer[p]]
  /\ \A p \in Writers : writer[p] = Idle \/ Carrying(writer[p])

FilesInv == FilesWhole /\ WritersCarry /\ volatile = {}

LEMMA LayoutsWhole == \A c \in Layouts : Whole(c)
BY GraphConstants DEF Content, Whole

LEMMA CarriersStay ==
  ASSUME NEW w, Carrying(w), NEW at \in {"flushed", "synced", "replaced"}
  PROVE  Carrying([w EXCEPT !.pc = at]) /\ Carrying([w EXCEPT !.crossed = TRUE])
<1>1. w = [pc |-> w.pc, file |-> w.file, ref |-> w.ref, summary |-> w.summary,
           data |-> w.data, crossed |-> w.crossed]
  BY DEF Carrying
<1>2. [w EXCEPT !.pc = at] =
        [pc |-> at, file |-> w.file, ref |-> w.ref, summary |-> w.summary,
         data |-> w.data, crossed |-> w.crossed]
  BY <1>1
<1>3. ASSUME NEW x
      PROVE  [w EXCEPT !.crossed = x] =
               [pc |-> w.pc, file |-> w.file, ref |-> w.ref, summary |-> w.summary,
                data |-> w.data, crossed |-> x]
  BY <1>1
<1> QED
  BY <1>2, <1>3 DEF Carrying

LEMMA NodesReplaced ==
  ASSUME NEW c, Whole(c), NEW ns
  PROVE  Whole([c EXCEPT !.nodes = ns])
<1>1. c = [shape |-> c.shape, nodes |-> c.nodes, edges |-> c.edges] /\ c.shape # "torn"
  BY DEF Whole
<1>2. [c EXCEPT !.nodes = ns] = [shape |-> c.shape, nodes |-> ns, edges |-> c.edges]
  BY <1>1
<1> QED
  BY <1>1, <1>2 DEF Whole

LEMMA OpenCarries ==
  ASSUME FilesInv, NEW p \in Writers, NEW f \in Files, NEW r, NEW s,
         NEW c, Whole(c), Open(p, Dumped(f, r, s, c))
  PROVE  FilesInv'
<1>1. Carrying(Dumped(f, r, s, c))
  BY DEF Carrying, Dumped
<1>2. WritersCarry'
  BY <1>1 DEF Open, FilesInv, WritersCarry
<1> QED
  BY <1>2 DEF Open, FilesInv, FilesWhole

LEMMA CrossedCarry ==
  ASSUME WritersCarry, NEW p \in Writers
  PROVE  Crossed[p] = Idle \/ Carrying(Crossed[p])
BY CarriersStay DEF WritersCarry, Crossed

LEMMA FilesInvariant == GraphInit /\ [][GraphNext]_gvars => []FilesInv
<1>1. GraphInit => FilesInv
  BY LayoutsWhole DEF GraphInit, FilesInv, FilesWhole, WritersCarry
<1>2. FilesInv /\ [GraphNext]_gvars => FilesInv'
  <2> SUFFICES ASSUME FilesInv, [GraphNext]_gvars PROVE FilesInv'
    OBVIOUS
  <2>1. CASE update_node_in_yaml
    <3>1. PICK r \in Refs, s \in Summaries, f \in Files :
            Open("update_node", Dumped(f, r, s,
              [disk[f] EXCEPT !.nodes[Position(disk[f], r)].summary = s]))
      BY <2>1 DEF update_node_in_yaml
    <3>2. Whole([disk[f] EXCEPT !.nodes[Position(disk[f], r)].summary = s])
      BY NodesReplaced, Zenon DEF FilesInv, FilesWhole
    <3> QED
      BY <3>1, <3>2, OpenCarries DEF Writers
  <2>2. CASE link
    <3>1. PICK r \in Refs, u \in Urls, f \in Files :
            Open("link", Dumped(f, r, "none",
              [disk[f] EXCEPT !.nodes[Position(disk[f], r)].links =
                 IF u \in @ THEN @ \ {u} ELSE @ \cup {u}]))
      BY <2>2 DEF link
    <3>2. Whole([disk[f] EXCEPT !.nodes[Position(disk[f], r)].links =
                   IF u \in @ THEN @ \ {u} ELSE @ \cup {u}])
      BY NodesReplaced, Zenon DEF FilesInv, FilesWhole
    <3> QED
      BY <3>1, <3>2, OpenCarries DEF Writers
  <2>3. CASE _patch_docs_field
    <3> DEFINE due(m, f) == {i \in DOMAIN disk[f].nodes :
                               disk[f].nodes[i].ref \in m /\ ~disk[f].nodes[i].docs}
    <3>1. PICK m \in SUBSET Refs, f \in Files :
            Open("patch_docs", Dumped(f, "none", "none",
              [disk[f] EXCEPT !.nodes = [i \in DOMAIN @ |->
                 IF i \in due(m, f) THEN [@[i] EXCEPT !.docs = TRUE] ELSE @[i]]]))
      BY <2>3, Zenon DEF _patch_docs_field
    <3>2. Whole([disk[f] EXCEPT !.nodes = [i \in DOMAIN @ |->
                   IF i \in due(m, f) THEN [@[i] EXCEPT !.docs = TRUE] ELSE @[i]]])
      BY NodesReplaced, Zenon DEF FilesInv, FilesWhole
    <3> QED
      BY <3>1, <3>2, OpenCarries DEF Writers
  <2>4. ASSUME NEW p \in Writers, Flush(p) \/ Fsync(p)
        PROVE  FilesInv'
    <3>1. Carrying(writer[p])
      BY <2>4 DEF Flush, Fsync, FilesInv, WritersCarry, Idle
    <3>2. PICK at \in {"flushed", "synced"} : writer' = [writer EXCEPT ![p].pc = at]
      BY <2>4 DEF Flush, Fsync
    <3>3. Carrying([writer[p] EXCEPT !.pc = at])
      BY <3>1, CarriersStay
    <3>4. WritersCarry'
      BY <3>2, <3>3, Zenon DEF FilesInv, WritersCarry
    <3> QED
      BY <2>4, <3>4 DEF Flush, Fsync, FilesInv, FilesWhole
  <2>5. ASSUME NEW p \in Writers, Replace(p)
        PROVE  FilesInv'
    <3>1. Carrying(writer[p]) /\ writer[p].pc = "synced"
      BY <2>5 DEF Replace, ReadyToRename, FilesInv, WritersCarry, Idle
    <3>2. FilesWhole'
      BY <2>5, <3>1 DEF Replace, FilesInv, FilesWhole, Carrying
    <3>3. volatile' = {}
      BY <2>5, <3>1 DEF Replace, FilesInv
    <3>4. WritersCarry'
      <4>1. Carrying([writer[p] EXCEPT !.pc = "replaced"])
        BY <3>1, CarriersStay
      <4>2. \A q \in Writers : Crossed[q] = Idle \/ Carrying(Crossed[q])
        BY CrossedCarry DEF FilesInv
      <4> QED
        BY <2>5, <4>1, <4>2 DEF Replace, WritersCarry, Crossed
    <3> QED
      BY <3>2, <3>3, <3>4 DEF FilesInv
  <2>6. ASSUME NEW p \in Writers, Kill(p)
        PROVE  FilesInv'
    BY <2>6 DEF Kill, FilesInv, FilesWhole, WritersCarry
  <2>7. CASE UpdateTable
    BY <2>7 DEF UpdateTable, FilesInv, FilesWhole, WritersCarry
  <2>8. CASE Reload
    BY <2>8 DEF Reload, FilesInv, FilesWhole, WritersCarry
  <2>9. CASE AuthorEdits
    <3>1. FilesWhole' /\ volatile' = {}
      BY <2>9, LayoutsWhole DEF AuthorEdits, FilesInv, FilesWhole
    <3>2. WritersCarry'
      BY <2>9, CrossedCarry DEF AuthorEdits, FilesInv, WritersCarry, Crossed
    <3> QED
      BY <3>1, <3>2 DEF FilesInv
  <2>10. CASE PowerFailure
    <3>1. disk' = disk
      BY <2>10 DEF PowerFailure, FilesInv, FilesWhole
    <3> QED
      BY <2>10, <3>1 DEF PowerFailure, FilesInv, FilesWhole, WritersCarry
  <2>11. CASE UNCHANGED gvars
    BY <2>11 DEF gvars, FilesInv, FilesWhole, WritersCarry
  <2> QED
    BY <2>1, <2>2, <2>3, <2>4, <2>5, <2>6, <2>7, <2>8, <2>9, <2>10, <2>11 DEF GraphNext
<1> QED
  BY <1>1, <1>2, PTL

\* No graph file is ever left cut short, whichever writers overlap, are killed or
\* lose the power (write_yaml_atomic syncs before it renames).
THEOREM GraphIsNeverTorn == GraphInit /\ [][GraphNext]_gvars => []GraphNeverTorn
<1>1. FilesInv => GraphNeverTorn
  BY DEF FilesInv, FilesWhole, Whole, GraphNeverTorn
<1> QED
  BY <1>1, FilesInvariant, PTL

-----------------------------------------------------------------------------
(* What update_node answers for.  From its read to its answer, unless some-*)
(* body else changes a file, it carries the first node of the ref_id in    *)
(* the first file that has one: the node the loader's first pass keeps.    *)

NodeFields == {"ref", "summary", "links", "docs", "kind"}
Sound(c) ==
  /\ \E n \in Nat : DOMAIN c.nodes = 1 .. n
  /\ \A i \in DOMAIN c.nodes : DOMAIN c.nodes[i] = NodeFields /\ c.nodes[i].kind \in {"given", "null"}

FirstAt(c, r, i) ==
  i \in DOMAIN c.nodes /\ c.nodes[i].ref = r /\ \A j \in 1 .. i - 1 : c.nodes[j].ref # r
WithSummary(c, r, s) == [c EXCEPT !.nodes[Position(c, r)].summary = s]

TargetHas(r, s) ==
  \A f \in Files : IsTarget(f, r) =>
    \A i \in DOMAIN disk[f].nodes : FirstAt(disk[f], r, i) => disk[f].nodes[i].summary = s

Updating(u) ==
  u # Idle /\ ~u.crossed =>
    IF u.pc = "replaced" THEN TargetHas(u.ref, u.summary)
    ELSE IsTarget(u.file, u.ref) /\ u.data = WithSummary(disk[u.file], u.ref, u.summary)

FilesSound == \A f \in Files : Sound(disk[f])
DataSound == \A p \in Writers : writer[p] # Idle => Sound(writer[p].data)
TableSound ==
  DOMAIN table = {"nodes", "edges", "foreign"} /\ \A n \in table.nodes : DOMAIN n = NodeFields
AckHolds == acked # NoAck => TargetHas(acked.ref, acked.summary)

UpdateInv ==
  /\ FilesSound /\ DataSound /\ TableSound
  /\ Updating(writer["update_node"]) /\ AckHolds /\ UpdateReachesTheLoadedNode

LEMMA LayoutsSound == \A c \in Layouts : Sound(c)
<1> SUFFICES ASSUME NEW c \in Layouts PROVE Sound(c)
  OBVIOUS
<1>1. c.nodes \in Seq(Node)
  BY GraphConstants DEF Content
<1>2. \A n \in Node : DOMAIN n = NodeFields /\ n.kind \in {"given", "null"}
  BY DEF Node, NodeFields
<1>3. Len(c.nodes) \in Nat /\ DOMAIN c.nodes = 1 .. Len(c.nodes) /\ \A i \in DOMAIN c.nodes : c.nodes[i] \in Node
  <2> HIDE DEF Node
  <2> QED
    BY <1>1
<1> QED
  BY <1>2, <1>3 DEF Sound

LEMMA FirstIsPosition ==
  ASSUME NEW c, Sound(c), NEW r, NEW i, FirstAt(c, r, i)
  PROVE  i = Position(c, r)
<1>1. FirstAt(c, r, Position(c, r))
  BY DEF FirstAt, Position
<1>2. ASSUME NEW j, FirstAt(c, r, j), NEW k, FirstAt(c, r, k), j < k PROVE FALSE
  BY <1>2 DEF FirstAt, Sound
<1>3. i \in Nat /\ Position(c, r) \in Nat
  BY <1>1 DEF FirstAt, Sound
<1> QED
  BY <1>1, <1>2, <1>3

\* What loading puts into the nodes table.
LEMMA LoadsNodes ==
  ASSUME FilesSound, NEW n \in load_graph(disk).nodes
  PROVE  \E f \in Files : \E i \in DOMAIN disk[f].nodes :
           /\ n = disk[f].nodes[i] /\ disk[f].shape = "ok" /\ n.kind = "given"
           /\ (\A g \in Files : disk[g].shape = "ok") =>
                 IsTarget(f, n.ref) /\ FirstAt(disk[f], n.ref, i)
<1> DEFINE all == all_nodes(disk)
<1>1. PICK p \in DOMAIN all : /\ n = all[p] /\ all[p].kind = "given"
                              /\ \A q \in DOMAIN all : Earlier(q, p) => all[q].ref # all[p].ref
  BY DEF load_graph, Inserted
<1>2. \A f \in Files : Parsed(disk)[f].nodes = IF disk[f].shape = "ok" THEN disk[f].nodes ELSE <<>>
  BY DEF Parsed, parse_graph_file
<1>3. /\ \A f \in Files : \A i \in DOMAIN disk[f].nodes :
           disk[f].shape = "ok" => <<f, i>> \in DOMAIN all /\ all[<<f, i>>] = disk[f].nodes[i]
      /\ \A q \in DOMAIN all : \E f \in Files : \E i \in DOMAIN disk[f].nodes :
           q = <<f, i>> /\ disk[f].shape = "ok"
  <2>1. DOMAIN <<>> = {}
    OBVIOUS
  <2>2. DOMAIN all = UNION {{f} \X DOMAIN Parsed(disk)[f].nodes : f \in Files}
        /\ \A q \in DOMAIN all : all[q] = Parsed(disk)[q[1]].nodes[q[2]]
    BY DEF all_nodes
  <2> HIDE DEF all
  <2> QED
    BY <2>1, <2>2, <1>2
<1> HIDE DEF all
<1>4. PICK f \in Files : \E i \in DOMAIN disk[f].nodes : p = <<f, i>> /\ disk[f].shape = "ok"
  BY <1>3
<1>5. PICK i \in DOMAIN disk[f].nodes : p = <<f, i>> /\ disk[f].shape = "ok"
  BY <1>4
<1>6. n = disk[f].nodes[i] /\ n.kind = "given"
  BY <1>1, <1>3, <1>5
<1>7. ASSUME \A g \in Files : disk[g].shape = "ok"
      PROVE  IsTarget(f, n.ref) /\ FirstAt(disk[f], n.ref, i)
  <2>1. ASSUME NEW g \in Files, NEW j \in DOMAIN disk[g].nodes, Earlier(<<g, j>>, <<f, i>>)
        PROVE  disk[g].nodes[j].ref # n.ref
    BY <1>1, <1>3, <1>5, <1>7, <2>1
  <2>2. f \in Nat /\ (\A g \in 1 .. f - 1 : g \in Files) /\ \A g \in 1 .. f : g \in Files
    BY GraphConstants DEF Files
  <2>3. \A g \in 1 .. f - 1 : ~Holds(disk[g], n.ref)
    BY <2>1, <2>2 DEF Holds, Earlier
  <2>4. \A j \in 1 .. i - 1 : j \in DOMAIN disk[f].nodes /\ j < i
    BY DEF FilesSound, Sound
  <2>5. FirstAt(disk[f], n.ref, i)
    BY <2>1, <2>4, <1>6 DEF FirstAt, Earlier
  <2> QED
    BY <2>2, <2>3, <2>5, <1>6, <1>7 DEF IsTarget, Holds
<1> QED
  BY <1>5, <1>6, <1>7

LEMMA NodesChanged ==
  ASSUME NEW c, Whole(c), Sound(c), NEW ns, DOMAIN ns = DOMAIN c.nodes,
         \A i \in DOMAIN ns : DOMAIN ns[i] = NodeFields /\ ns[i].kind = c.nodes[i].kind
  PROVE  /\ Sound([c EXCEPT !.nodes = ns])
         /\ [c EXCEPT !.nodes = ns].nodes = ns /\ [c EXCEPT !.nodes = ns].shape = c.shape
<1>1. c = [shape |-> c.shape, nodes |-> c.nodes, edges |-> c.edges]
  BY DEF Whole
<1>2. [c EXCEPT !.nodes = ns] = [shape |-> c.shape, nodes |-> ns, edges |-> c.edges]
  BY <1>1
<1>3. [c EXCEPT !.nodes = ns].nodes = ns /\ [c EXCEPT !.nodes = ns].shape = c.shape
  BY <1>2
<1> QED
  BY <1>3 DEF Sound

\* One field of one node, but its ref and its kind.
LEMMA SummaryChanged ==
  ASSUME NEW ns, \A i \in DOMAIN ns : DOMAIN ns[i] = NodeFields, NEW k, NEW x, NEW i \in DOMAIN ns
  PROVE  /\ DOMAIN [ns EXCEPT ![k].summary = x][i] = NodeFields
         /\ [ns EXCEPT ![k].summary = x][i].kind = ns[i].kind /\ [ns EXCEPT ![k].summary = x][i].ref = ns[i].ref
         /\ i = k => [ns EXCEPT ![k].summary = x][i].summary = x
<1>1. [ns EXCEPT ![k].summary = x][i] = IF i = k THEN [ns[i] EXCEPT !.summary = x] ELSE ns[i]
  OBVIOUS
<1>2. ASSUME NEW n, DOMAIN n = NodeFields
      PROVE  /\ DOMAIN [n EXCEPT !.summary = x] = NodeFields
             /\ [n EXCEPT !.summary = x].kind = n.kind /\ [n EXCEPT !.summary = x].ref = n.ref
             /\ [n EXCEPT !.summary = x].summary = x
  BY <1>2 DEF NodeFields
<1> QED
  BY <1>1, <1>2

LEMMA LinksChanged ==
  ASSUME NEW ns, \A i \in DOMAIN ns : DOMAIN ns[i] = NodeFields, NEW k, NEW x, NEW i \in DOMAIN ns
  PROVE  /\ DOMAIN [ns EXCEPT ![k].links = x][i] = NodeFields
         /\ [ns EXCEPT ![k].links = x][i].kind = ns[i].kind /\ [ns EXCEPT ![k].links = x][i].ref = ns[i].ref
         /\ i = k => [ns EXCEPT ![k].links = x][i].links = x
<1>1. [ns EXCEPT ![k].links = x][i] = IF i = k THEN [ns[i] EXCEPT !.links = x] ELSE ns[i]
  OBVIOUS
<1>2. ASSUME NEW n, DOMAIN n = NodeFields
      PROVE  /\ DOMAIN [n EXCEPT !.links = x] = NodeFields
             /\ [n EXCEPT !.links = x].kind = n.kind /\ [n EXCEPT !.links = x].ref = n.ref
             /\ [n EXCEPT !.links = x].links = x
  BY <1>2 DEF NodeFields
<1> QED
  BY <1>1, <1>2

LEMMA WithSummaryIs ==
  ASSUME NEW c, Whole(c), Sound(c), NEW r, NEW s
  PROVE  /\ Sound(WithSummary(c, r, s))
         /\ DOMAIN WithSummary(c, r, s).nodes = DOMAIN c.nodes
         /\ \A i \in DOMAIN c.nodes :
              /\ WithSummary(c, r, s).nodes[i].ref = c.nodes[i].ref
              /\ i = Position(c, r) => WithSummary(c, r, s).nodes[i].summary = s
<1> DEFINE k == Position(c, r)
           ns == [c.nodes EXCEPT ![k].summary = s]
<1>1. WithSummary(c, r, s) = [c EXCEPT !.nodes = ns]
  BY DEF WithSummary
<1>2. /\ DOMAIN ns = DOMAIN c.nodes
      /\ \A i \in DOMAIN c.nodes : /\ DOMAIN ns[i] = NodeFields /\ ns[i].kind = c.nodes[i].kind
                                   /\ ns[i].ref = c.nodes[i].ref
                                   /\ i = k => ns[i].summary = s
  <2>1. \A i \in DOMAIN c.nodes : DOMAIN c.nodes[i] = NodeFields
    BY DEF Sound
  <2> HIDE DEF k
  <2>2. ASSUME NEW i \in DOMAIN c.nodes
        PROVE  /\ DOMAIN ns[i] = NodeFields /\ ns[i].kind = c.nodes[i].kind
               /\ ns[i].ref = c.nodes[i].ref /\ (i = k => ns[i].summary = s)
    BY <2>1, <2>2, SummaryChanged
  <2> QED
    BY <2>2
<1> HIDE DEF ns
<1>3. Sound([c EXCEPT !.nodes = ns]) /\ [c EXCEPT !.nodes = ns].nodes = ns
  BY <1>2, NodesChanged
<1> QED
  BY <1>1, <1>2, <1>3

\* Nothing that is said of the files changes while they do not.
LEMMA SameFiles ==
  ASSUME disk' = disk
  PROVE  /\ \A f, r : IsTarget(f, r)' <=> IsTarget(f, r)
         /\ \A r, s : TargetHas(r, s)' <=> TargetHas(r, s)
         /\ \A u : Updating(u)' <=> Updating(u)
         /\ FilesSound' <=> FilesSound
BY DEF IsTarget, Holds, TargetHas, Updating, FilesSound

\* The rename puts the summary where the loader finds it.
LEMMA ReplacedHas ==
  ASSUME FilesInv, FilesSound, NEW f \in Files, NEW r, NEW s, IsTarget(f, r),
         disk' = [disk EXCEPT ![f] = WithSummary(disk[f], r, s)]
  PROVE  TargetHas(r, s)'
<1> DEFINE new == WithSummary(disk[f], r, s)
<1>1. Whole(disk[f]) /\ Sound(disk[f])
  BY DEF FilesInv, FilesWhole, FilesSound
<1>2. /\ DOMAIN new.nodes = DOMAIN disk[f].nodes
      /\ \A i \in DOMAIN disk[f].nodes : /\ new.nodes[i].ref = disk[f].nodes[i].ref
                                         /\ i = Position(disk[f], r) => new.nodes[i].summary = s
  BY <1>1, WithSummaryIs
<1>3. disk'[f] = new /\ \A g \in Files : g # f => disk'[g] = disk[g]
  BY DEF FilesInv, FilesWhole
<1> HIDE DEF new
<1>4. \A g \in Files : Holds(disk'[g], r) <=> Holds(disk[g], r)
  BY <1>2, <1>3 DEF Holds
<1>5. ASSUME NEW g \in Files, IsTarget(g, r)' PROVE g = f
  <2>1. Holds(disk[g], r) /\ Holds(disk[f], r)
    BY <1>4, <1>5 DEF IsTarget
  <2>2. g \in Nat /\ f \in Nat /\ (\A h \in 1 .. g - 1 : h \in Files) /\ g >= 1 /\ f >= 1
    BY GraphConstants DEF Files
  <2>3. ~ g < f
    BY <2>1, <2>2 DEF IsTarget
  <2>4. ~ f < g
    BY <2>1, <2>2, <1>4, <1>5 DEF IsTarget
  <2> QED
    BY <2>2, <2>3, <2>4
<1>6. ASSUME NEW i \in DOMAIN disk'[f].nodes, FirstAt(disk'[f], r, i) PROVE disk'[f].nodes[i].summary = s
  <2>1. \A j \in 1 .. i - 1 : j \in DOMAIN disk[f].nodes
    BY <1>1, <1>2, <1>3 DEF Sound
  <2>2. FirstAt(disk[f], r, i)
    BY <2>1, <1>2, <1>3, <1>6 DEF FirstAt
  <2>3. i = Position(disk[f], r)
    BY <2>2, <1>1, FirstIsPosition
  <2> QED
    BY <2>3, <1>2, <1>3
<1> QED
  BY <1>5, <1>6 DEF TargetHas

LEMMA OpenUpdates ==
  ASSUME UpdateInv, NEW p \in Writers, NEW w, Open(p, w), Sound(w.data),
         writer = [q \in Writers |-> writer[q]],
         p = "update_node" => Updating(w)
  PROVE  UpdateInv'
<1>1. disk' = disk /\ table' = table /\ acked' = acked /\ writer' = [writer EXCEPT ![p] = w]
  BY DEF Open
<1>2. writer'[p] = w /\ \A q \in Writers : q # p => writer'[q] = writer[q]
  BY <1>1
<1>3. DataSound'
  BY <1>2 DEF DataSound, UpdateInv
<1>4. PICK u : u = writer'["update_node"]
  OBVIOUS
<1>5. Updating(u)
  <2>1. "update_node" \in Writers
    BY DEF Writers
  <2> QED
    BY <1>2, <1>4, <2>1 DEF UpdateInv
<1>6. Updating(u)'
  BY <1>1, <1>5, SameFiles
<1>7. Updating(writer["update_node"])'
  BY <1>4, <1>6, Zenon
<1>8. FilesSound' /\ TableSound' /\ AckHolds' /\ UpdateReachesTheLoadedNode'
  BY <1>1, SameFiles DEF UpdateInv, TableSound, AckHolds, UpdateReachesTheLoadedNode
<1> QED
  BY <1>3, <1>7, <1>8 DEF UpdateInv

LEMMA UpdateStep == FilesInv /\ UpdateInv /\ [GraphNext]_gvars => UpdateInv'
<1> SUFFICES ASSUME FilesInv, UpdateInv, [GraphNext]_gvars PROVE UpdateInv'
  OBVIOUS
<1>0. /\ disk = [f \in Files |-> disk[f]] /\ \A f \in Files : Whole(disk[f]) /\ Sound(disk[f])
      /\ writer = [p \in Writers |-> writer[p]]
      /\ \A p \in Writers : writer[p] # Idle => Carrying(writer[p]) /\ Sound(writer[p].data)
      /\ volatile = {} /\ "update_node" \in Writers
  BY DEF FilesInv, FilesWhole, WritersCarry, UpdateInv, FilesSound, DataSound, Writers
<1>1. CASE update_node_in_yaml
  <2>1. PICK r \in Refs, s \in Summaries, f \in Files :
          IsTarget(f, r) /\ Open("update_node", Dumped(f, r, s, WithSummary(disk[f], r, s)))
    BY <1>1 DEF update_node_in_yaml, WithSummary
  <2> DEFINE w == Dumped(f, r, s, WithSummary(disk[f], r, s))
  <2>2. /\ w.pc = "dumped" /\ w.file = f /\ w.ref = r /\ w.summary = s
        /\ w.data = WithSummary(disk[f], r, s)
    BY DEF Dumped
  <2>3. Sound(w.data)
    BY <2>2, <1>0, WithSummaryIs
  <2>4. Updating(w)
    BY <2>1, <2>2 DEF Updating
  <2> HIDE DEF w
  <2> QED
    BY <2>1, <2>3, <2>4, <1>0, OpenUpdates DEF w
<1>2. CASE link
  <2>1. PICK r \in Refs, u \in Urls, f \in Files :
          Open("link", Dumped(f, r, "none",
            [disk[f] EXCEPT !.nodes[Position(disk[f], r)].links =
               IF u \in @ THEN @ \ {u} ELSE @ \cup {u}]))
    BY <1>2 DEF link
  <2> DEFINE c == disk[f]
             k == Position(disk[f], r)
             y == IF u \in c.nodes[k].links THEN c.nodes[k].links \ {u} ELSE c.nodes[k].links \cup {u}
             ns == [c.nodes EXCEPT ![k].links = y]
             w == Dumped(f, r, "none", [c EXCEPT !.nodes = ns])
  <2>2. Open("link", w)
    BY <2>1
  <2>3. w.data = [c EXCEPT !.nodes = ns]
    BY DEF Dumped
  <2>4. DOMAIN ns = DOMAIN c.nodes
    OBVIOUS
  <2>5. \A i \in DOMAIN c.nodes : DOMAIN c.nodes[i] = NodeFields
    BY <1>0 DEF Sound
  <2>6. ASSUME NEW i \in DOMAIN c.nodes PROVE DOMAIN ns[i] = NodeFields /\ ns[i].kind = c.nodes[i].kind
    <3> HIDE DEF y, k
    <3> QED
      BY <2>5, <2>6, LinksChanged
  <2>7. Sound(w.data)
    <3> HIDE DEF ns
    <3> QED
      BY <2>3, <2>4, <2>6, <1>0, NodesChanged
  <2> HIDE DEF w
  <2> QED
    BY <2>2, <2>7, <1>0, OpenUpdates DEF Writers
<1>3. CASE _patch_docs_field
  <2> DEFINE due(m, f) == {i \in DOMAIN disk[f].nodes :
                             disk[f].nodes[i].ref \in m /\ ~disk[f].nodes[i].docs}
  <2>1. PICK m \in SUBSET Refs, f \in Files :
          Open("patch_docs", Dumped(f, "none", "none",
            [disk[f] EXCEPT !.nodes = [i \in DOMAIN @ |->
               IF i \in due(m, f) THEN [@[i] EXCEPT !.docs = TRUE] ELSE @[i]]]))
    BY <1>3, Zenon DEF _patch_docs_field
  <2> DEFINE c == disk[f]
             ns == [i \in DOMAIN c.nodes |->
                      IF i \in due(m, f) THEN [c.nodes[i] EXCEPT !.docs = TRUE] ELSE c.nodes[i]]
             w == Dumped(f, "none", "none", [c EXCEPT !.nodes = ns])
  <2>2. Open("patch_docs", w)
    BY <2>1, Zenon
  <2>3. w.data = [c EXCEPT !.nodes = ns]
    BY DEF Dumped
  <2>4. \A n : DOMAIN n = NodeFields =>
           DOMAIN [n EXCEPT !.docs = TRUE] = NodeFields /\ [n EXCEPT !.docs = TRUE].kind = n.kind
    BY DEF NodeFields
  <2>5. \A i \in DOMAIN c.nodes : DOMAIN c.nodes[i] = NodeFields
    BY <1>0 DEF Sound
  <2>6. DOMAIN ns = DOMAIN c.nodes
        /\ \A i \in DOMAIN ns : DOMAIN ns[i] = NodeFields /\ ns[i].kind = c.nodes[i].kind
    BY <2>4, <2>5
  <2>7. Sound(w.data)
    <3> HIDE DEF ns
    <3> QED
      BY <2>3, <2>6, <1>0, NodesChanged
  <2> HIDE DEF w
  <2> QED
    BY <2>2, <2>7, <1>0, OpenUpdates DEF Writers
<1>4. ASSUME NEW p \in Writers, Flush(p) \/ Fsync(p) PROVE UpdateInv'
  <2>1. PICK at \in {"flushed", "synced"} : writer' = [writer EXCEPT ![p].pc = at]
    BY <1>4 DEF Flush, Fsync
  <2>2. writer[p] # Idle /\ writer[p].pc \in {"dumped", "flushed"}
    BY <1>4 DEF Flush, Fsync, Idle
  <2>3. disk' = disk /\ table' = table /\ acked' = acked
    BY <1>4 DEF Flush, Fsync
  <2> DEFINE w == [writer[p] EXCEPT !.pc = at]
  <2>4. /\ w = [pc |-> at, file |-> writer[p].file, ref |-> writer[p].ref, summary |-> writer[p].summary,
                data |-> writer[p].data, crossed |-> writer[p].crossed]
    BY <2>2, <1>0 DEF Carrying
  <2>5. /\ w.pc = at /\ w.file = writer[p].file /\ w.ref = writer[p].ref
        /\ w.summary = writer[p].summary /\ w.data = writer[p].data /\ w.crossed = writer[p].crossed
    BY <2>4
  <2>6. writer'[p] = w /\ \A q \in Writers : q # p => writer'[q] = writer[q]
    BY <2>1, <1>0
  <2> HIDE DEF w
  <2>7. DataSound'
    BY <2>2, <2>5, <2>6, <1>0 DEF DataSound
  <2>8. PICK u : u = writer'["update_node"]
    OBVIOUS
  <2>9. Updating(u)
    <3>1. CASE p = "update_node"
      <4>1. Updating(writer[p])
        BY <3>1 DEF UpdateInv
      <4> QED
        BY <4>1, <3>1, <2>2, <2>5, <2>6, <2>8 DEF Updating
    <3>2. CASE p # "update_node"
      BY <3>2, <2>6, <2>8, <1>0 DEF UpdateInv
    <3> QED
      BY <3>1, <3>2
  <2>10. Updating(writer["update_node"])'
    <3>1. Updating(u)'
      BY <2>3, <2>9, SameFiles
    <3> QED
      BY <3>1, <2>8, Zenon
  <2>11. FilesSound' /\ TableSound' /\ AckHolds' /\ UpdateReachesTheLoadedNode'
    BY <2>3, SameFiles DEF UpdateInv, TableSound, AckHolds, UpdateReachesTheLoadedNode
  <2> QED
    BY <2>7, <2>10, <2>11 DEF UpdateInv
<1>5. ASSUME NEW p \in Writers, Replace(p) PROVE UpdateInv'
  <2>1. writer[p].pc = "synced" /\ writer[p] # Idle
    BY <1>5 DEF Replace, ReadyToRename, Idle
  <2>2. /\ Carrying(writer[p]) /\ Sound(writer[p].data) /\ writer[p].file \in Files
        /\ disk' = [disk EXCEPT ![writer[p].file] = writer[p].data]
        /\ acked' = NoAck /\ table' = table
    BY <2>1, <1>5, <1>0 DEF Replace, Carrying
  <2>3. /\ writer'[p] = IF p = "update_node" THEN [writer[p] EXCEPT !.pc = "replaced"] ELSE Idle
        /\ \A q \in Writers : q # p =>
             writer'[q] = IF writer[q] = Idle THEN Idle ELSE [writer[q] EXCEPT !.crossed = TRUE]
    BY <1>5 DEF Replace, Crossed
  <2>4. \A q \in Writers : writer[q] # Idle =>
          /\ [writer[q] EXCEPT !.pc = "replaced"].data = writer[q].data
          /\ [writer[q] EXCEPT !.pc = "replaced"].pc = "replaced"
          /\ [writer[q] EXCEPT !.pc = "replaced"].ref = writer[q].ref
          /\ [writer[q] EXCEPT !.pc = "replaced"].summary = writer[q].summary
          /\ [writer[q] EXCEPT !.pc = "replaced"].crossed = writer[q].crossed
          /\ [writer[q] EXCEPT !.crossed = TRUE].data = writer[q].data
          /\ [writer[q] EXCEPT !.crossed = TRUE].crossed = TRUE
    <3> SUFFICES ASSUME NEW q \in Writers, writer[q] # Idle
                 PROVE  /\ [writer[q] EXCEPT !.pc = "replaced"].data = writer[q].data
                        /\ [writer[q] EXCEPT !.pc = "replaced"].pc = "replaced"
                        /\ [writer[q] EXCEPT !.pc = "replaced"].ref = writer[q].ref
                        /\ [writer[q] EXCEPT !.pc = "replaced"].summary = writer[q].summary
                        /\ [writer[q] EXCEPT !.pc = "replaced"].crossed = writer[q].crossed
                        /\ [writer[q] EXCEPT !.crossed = TRUE].data = writer[q].data
                        /\ [writer[q] EXCEPT !.crossed = TRUE].crossed = TRUE
      OBVIOUS
    <3>1. PICK a : a = writer[q]
      OBVIOUS
    <3>2. a = [pc |-> a.pc, file |-> a.file, ref |-> a.ref, summary |-> a.summary,
               data |-> a.data, crossed |-> a.crossed]
      BY <3>1, <1>0 DEF Carrying
    <3>3. /\ [a EXCEPT !.pc = "replaced"].data = a.data /\ [a EXCEPT !.pc = "replaced"].pc = "replaced"
          /\ [a EXCEPT !.pc = "replaced"].ref = a.ref /\ [a EXCEPT !.pc = "replaced"].summary = a.summary
          /\ [a EXCEPT !.pc = "replaced"].crossed = a.crossed
          /\ [a EXCEPT !.crossed = TRUE].data = a.data /\ [a EXCEPT !.crossed = TRUE].crossed = TRUE
      BY <3>2
    <3> QED
      BY <3>1, <3>3
  <2>5. DataSound'
    <3>1. ASSUME NEW q \in Writers, writer'[q] # Idle
          PROVE  writer[q] # Idle /\ writer'[q].data = writer[q].data
      <4>1. CASE q = p
        BY <3>1, <4>1, <2>1, <2>3, <2>4
      <4>2. CASE q # p
        <5>1. writer[q] # Idle /\ writer'[q] = [writer[q] EXCEPT !.crossed = TRUE]
          BY <3>1, <4>2, <2>3
        <5> QED
          BY <5>1, <2>4
      <4> QED
        BY <4>1, <4>2
    <3> QED
      BY <3>1, <1>0 DEF DataSound
  <2>6. FilesSound'
    BY <2>2, <1>0 DEF FilesSound
  <2>7. Updating(writer["update_node"])'
    <3>1. PICK u : u = writer'["update_node"]
      OBVIOUS
    <3>2. CASE p = "update_node"
      <4>1. u = [writer[p] EXCEPT !.pc = "replaced"]
        BY <3>1, <3>2, <2>3
      <4>2. /\ u.pc = "replaced" /\ u.ref = writer[p].ref /\ u.summary = writer[p].summary
            /\ u.crossed = writer[p].crossed
        BY <4>1, <2>1, <2>4
      <4>3. CASE u.crossed
        BY <4>3, <3>1 DEF Updating
      <4>4. CASE ~u.crossed
        <5>1. /\ IsTarget(writer[p].file, writer[p].ref)
              /\ writer[p].data = WithSummary(disk[writer[p].file], writer[p].ref, writer[p].summary)
          BY <4>2, <4>4, <3>2, <2>1 DEF UpdateInv, Updating
        <5>2. PICK f, r, s : f = writer[p].file /\ r = writer[p].ref /\ s = writer[p].summary /\ f \in Files
          BY <2>2
        <5>3. IsTarget(f, r) /\ disk' = [disk EXCEPT ![f] = WithSummary(disk[f], r, s)]
          BY <5>1, <5>2, <2>2
        <5>4. TargetHas(r, s)'
          BY <5>2, <5>3, ReplacedHas DEF UpdateInv
        <5>5. u.ref = r /\ u.summary = s
          BY <5>2, <4>2
        <5>6. Updating(u)'
          BY <5>4, <5>5, <4>2 DEF Updating
        <5> QED
          BY <5>6, <3>1, Zenon
      <4> QED
        BY <4>3, <4>4
    <3>3. CASE p # "update_node"
      <4>1. u = Idle \/ u.crossed = TRUE
        BY <3>1, <3>3, <2>3, <2>4, <1>0
      <4> QED
        BY <4>1, <3>1 DEF Updating
    <3> QED
      BY <3>2, <3>3
  <2>8. TableSound' /\ AckHolds' /\ UpdateReachesTheLoadedNode'
    BY <2>2 DEF UpdateInv, TableSound, AckHolds, UpdateReachesTheLoadedNode
  <2> QED
    BY <2>5, <2>6, <2>7, <2>8 DEF UpdateInv

<1>6. ASSUME NEW p \in Writers, Kill(p) PROVE UpdateInv'
  <2>1. disk' = disk /\ table' = table /\ acked' = acked /\ writer' = [writer EXCEPT ![p] = Idle]
    BY <1>6 DEF Kill
  <2>2. writer'[p] = Idle /\ \A q \in Writers : q # p => writer'[q] = writer[q]
    BY <2>1, <1>0
  <2>3. DataSound'
    BY <2>2, <1>0 DEF DataSound
  <2>4. PICK u : u = writer'["update_node"]
    OBVIOUS
  <2>5. Updating(u)
    BY <2>2, <2>4, <1>0 DEF UpdateInv, Updating
  <2>6. Updating(u)'
    BY <2>1, <2>5, SameFiles
  <2>7. Updating(writer["update_node"])'
    BY <2>4, <2>6, Zenon
  <2>8. FilesSound' /\ TableSound' /\ AckHolds' /\ UpdateReachesTheLoadedNode'
    BY <2>1, SameFiles DEF UpdateInv, TableSound, AckHolds, UpdateReachesTheLoadedNode
  <2> QED
    BY <2>3, <2>7, <2>8 DEF UpdateInv
<1>7. CASE UpdateTable
  <2>1. PICK u : u = writer["update_node"]
    OBVIOUS
  <2>2. /\ u.pc = "replaced" /\ disk' = disk
        /\ table' = [table EXCEPT !.nodes =
             {IF n.ref = u.ref THEN [n EXCEPT !.summary = u.summary] ELSE n : n \in @}]
        /\ acked' = IF u.crossed THEN NoAck ELSE [ref |-> u.ref, summary |-> u.summary]
        /\ writer' = [writer EXCEPT !["update_node"] = Idle]
    BY <1>7, <2>1 DEF UpdateTable
  <2>3. writer'["update_node"] = Idle /\ \A q \in Writers : q # "update_node" => writer'[q] = writer[q]
    BY <2>2, <1>0
  <2>4. DataSound' /\ Updating(writer["update_node"])'
    BY <2>3, <1>0 DEF DataSound, Updating
  <2> DEFINE new == {IF n.ref = u.ref THEN [n EXCEPT !.summary = u.summary] ELSE n : n \in table.nodes}
  <2>5. table' = [table EXCEPT !.nodes = new]
    BY <2>2
  <2>6. \A n \in new : DOMAIN n = NodeFields /\ (n.ref = u.ref => n.summary = u.summary)
    <3>1. \A n \in table.nodes : DOMAIN n = NodeFields
      BY DEF UpdateInv, TableSound
    <3>2. ASSUME NEW n, DOMAIN n = NodeFields
          PROVE  LET m == [n EXCEPT !.summary = u.summary]
                 IN  DOMAIN m = NodeFields /\ m.ref = n.ref /\ m.summary = u.summary
      BY <3>2 DEF NodeFields
    <3> QED
      BY <3>1, <3>2
  <2> HIDE DEF new
  <2>7. DOMAIN table' = {"nodes", "edges", "foreign"} /\ table'.nodes = new
    BY <2>5 DEF UpdateInv, TableSound
  <2>8. TableSound'
    BY <2>6, <2>7 DEF TableSound
  <2>9. UpdateReachesTheLoadedNode'
    BY <2>2, <2>6, <2>7 DEF UpdateReachesTheLoadedNode
  <2>10. AckHolds'
    <3>1. ASSUME ~u.crossed PROVE TargetHas(u.ref, u.summary)
      BY <2>1, <2>2, <3>1 DEF UpdateInv, Updating, Idle
    <3>2. PICK a : a = acked'
      OBVIOUS
    <3>3. a # NoAck => TargetHas(a.ref, a.summary)
      BY <3>1, <3>2, <2>2
    <3>4. (a # NoAck => TargetHas(a.ref, a.summary))'
      BY <3>3, <2>2, SameFiles
    <3> QED
      BY <3>2, <3>4, Zenon DEF AckHolds
  <2>11. FilesSound'
    BY <2>2, SameFiles DEF UpdateInv
  <2> QED
    BY <2>4, <2>8, <2>9, <2>10, <2>11 DEF UpdateInv
<1>8. CASE Reload
  <2>1. disk' = disk /\ writer' = writer /\ acked' = acked /\ table' = load_graph(disk)
    BY <1>8 DEF Reload
  <2> DEFINE loaded == load_graph(disk)
  <2>2. DOMAIN loaded = {"nodes", "edges", "foreign"}
    BY DEF load_graph
  <2>3. \A n \in loaded.nodes : DOMAIN n = NodeFields
    BY LoadsNodes DEF UpdateInv, FilesSound, Sound
  <2>4. ASSUME acked # NoAck, \A f \in Files : disk[f].shape = "ok",
               NEW n \in loaded.nodes, n.ref = acked.ref
        PROVE  n.summary = acked.summary
    <3>1. PICK f \in Files : \E i \in DOMAIN disk[f].nodes :
            n = disk[f].nodes[i] /\ IsTarget(f, n.ref) /\ FirstAt(disk[f], n.ref, i)
      BY <2>4, LoadsNodes DEF UpdateInv
    <3> QED
      BY <3>1, <2>4 DEF UpdateInv, AckHolds, TargetHas
  <2> HIDE DEF loaded
  <2>5. table' = loaded
    BY <2>1 DEF loaded
  <2>6. TableSound'
    BY <2>2, <2>3, <2>5 DEF TableSound
  <2>7. UpdateReachesTheLoadedNode'
    BY <2>1, <2>4, <2>5 DEF UpdateReachesTheLoadedNode
  <2>8. FilesSound' /\ DataSound' /\ AckHolds' /\ Updating(writer["update_node"])'
    BY <2>1, SameFiles DEF UpdateInv, DataSound, AckHolds
  <2> QED
    BY <2>6, <2>7, <2>8 DEF UpdateInv
<1>9. CASE AuthorEdits
  <2>1. PICK f \in Files, c \in Layouts : disk' = [disk EXCEPT ![f] = c]
    BY <1>9 DEF AuthorEdits
  <2>2. table' = table /\ acked' = NoAck /\ writer' = Crossed
    BY <1>9 DEF AuthorEdits
  <2>3. FilesSound'
    BY <2>1, <1>0, LayoutsSound DEF FilesSound
  <2>4. ASSUME NEW q \in Writers
        PROVE  \/ writer[q] = Idle /\ writer'[q] = Idle
               \/ writer[q] # Idle /\ writer'[q].data = writer[q].data /\ writer'[q].crossed = TRUE
    <3>1. PICK a : a = writer[q]
      OBVIOUS
    <3>2. writer'[q] = IF a = Idle THEN Idle ELSE [a EXCEPT !.crossed = TRUE]
      BY <3>1, <2>2 DEF Crossed
    <3>3. ASSUME a # Idle
          PROVE  [a EXCEPT !.crossed = TRUE].data = a.data /\ [a EXCEPT !.crossed = TRUE].crossed = TRUE
      <4>1. a = [pc |-> a.pc, file |-> a.file, ref |-> a.ref, summary |-> a.summary,
                 data |-> a.data, crossed |-> a.crossed]
        BY <3>1, <3>3, <1>0 DEF Carrying
      <4> QED
        BY <4>1
    <3> QED
      BY <3>1, <3>2, <3>3
  <2>5. DataSound' /\ Updating(writer["update_node"])'
    BY <2>4, <1>0 DEF DataSound, Updating
  <2>6. TableSound' /\ AckHolds' /\ UpdateReachesTheLoadedNode'
    BY <2>2 DEF UpdateInv, TableSound, AckHolds, UpdateReachesTheLoadedNode
  <2> QED
    BY <2>3, <2>5, <2>6 DEF UpdateInv
<1>10. CASE PowerFailure
  <2>1. disk' = disk /\ table' = table /\ acked' = acked /\ writer' = [p \in Writers |-> Idle]
    BY <1>10, <1>0 DEF PowerFailure
  <2>2. DataSound' /\ Updating(writer["update_node"])'
    BY <2>1, <1>0 DEF DataSound, Updating
  <2>3. FilesSound' /\ TableSound' /\ AckHolds' /\ UpdateReachesTheLoadedNode'
    BY <2>1, SameFiles DEF UpdateInv, TableSound, AckHolds, UpdateReachesTheLoadedNode
  <2> QED
    BY <2>2, <2>3 DEF UpdateInv
<1>11. CASE UNCHANGED gvars
  <2>1. disk' = disk /\ table' = table /\ acked' = acked /\ writer' = writer
    BY <1>11 DEF gvars
  <2>2. FilesSound' /\ DataSound' /\ TableSound' /\ AckHolds' /\ UpdateReachesTheLoadedNode'
        /\ Updating(writer["update_node"])'
    BY <2>1, SameFiles DEF UpdateInv, DataSound, TableSound, AckHolds, UpdateReachesTheLoadedNode
  <2> QED
    BY <2>2 DEF UpdateInv
<1> HIDE DEF UpdateInv
<1> QED
  BY <1>1, <1>2, <1>3, <1>4, <1>5, <1>6, <1>7, <1>8, <1>9, <1>10, <1>11 DEF GraphNext

LEMMA UpdateStarts == GraphInit => UpdateInv
<1> SUFFICES ASSUME GraphInit PROVE UpdateInv
  OBVIOUS
<1>1. FilesSound
  BY LayoutsSound DEF GraphInit, FilesSound
<1>2. DataSound /\ Updating(writer["update_node"])
  BY DEF GraphInit, DataSound, Updating, Writers
<1>3. TableSound
  BY <1>1, LoadsNodes DEF GraphInit, TableSound, load_graph, FilesSound, Sound
<1> QED
  BY <1>1, <1>2, <1>3 DEF GraphInit, UpdateInv, AckHolds, UpdateReachesTheLoadedNode

\* The summary update_node has answered for is the one every later reindex loads, until
\* somebody else changes a file: also with the ref_id in several places, with other
\* writers between its read and its rename, kills and power failures.
THEOREM UpdateIsLoaded == GraphInit /\ [][GraphNext]_gvars => []UpdateReachesTheLoadedNode
<1>1. UpdateInv => UpdateReachesTheLoadedNode
  BY DEF UpdateInv
<1> QED
  BY <1>1, UpdateStarts, UpdateStep, FilesInvariant, PTL

\* Whatever the files say, every item of theirs is loaded or complained about.
THEOREM NothingIsDropped == GraphInit /\ [][GraphNext]_gvars => []NothingSilentlyDropped
<1>1. ASSUME FilesSound PROVE NothingSilentlyDropped
  <2> DEFINE nodes == all_nodes(disk)
             lines == all_edges(disk)
             seen == seen_ref_ids(disk)
  <2>1. ASSUME NEW i \in DOMAIN nodes PROVE nodes[i].kind \in {"given", "null"}
    <3>1. PICK f \in Files : /\ i[2] \in DOMAIN Parsed(disk)[f].nodes
                             /\ nodes[i] = Parsed(disk)[f].nodes[i[2]]
      BY <2>1 DEF all_nodes
    <3>2. Parsed(disk)[f] = parse_graph_file(disk[f])
      BY DEF Parsed
    <3>3. parse_graph_file(disk[f]).nodes \in {disk[f].nodes, <<>>}
      BY DEF parse_graph_file
    <3>4. parse_graph_file(disk[f]).nodes = disk[f].nodes
      BY <3>1, <3>2, <3>3
    <3>5. Sound(disk[f])
      BY <1>1 DEF FilesSound
    <3> QED
      BY <3>1, <3>2, <3>4, <3>5 DEF Sound
  <2>2. ASSUME NEW i \in DOMAIN nodes \ NodeErrors(disk) PROVE nodes[i] \in load_graph(disk).nodes
    BY <2>1, <2>2 DEF NodeErrors, load_graph, Inserted
  <2>3. \A e : Fate(e, seen) \in {"error", "foreign", "warning", "local"}
    BY DEF Fate
  <2>4. ASSUME NEW i \in DOMAIN lines \ EdgeWarnings(disk)
        PROVE  lines[i] \in load_graph(disk).edges \cup load_graph(disk).foreign
    <3>1. Fate(lines[i], seen) \in {"foreign", "local"}
          /\ (Fate(lines[i], seen) = "local" => i \in InsertedEdges(disk))
      BY <2>3, <2>4 DEF EdgeWarnings
    <3>2. lines[i] \in Range(lines)
      BY <2>4 DEF Range
    <3> QED
      BY <3>1, <3>2 DEF load_graph, _insert_foreign_edge
  <2> QED
    BY <2>2, <2>4 DEF NothingSilentlyDropped
<1>2. UpdateInv => NothingSilentlyDropped
  BY <1>1 DEF UpdateInv
<1> QED
  BY <1>2, UpdateStarts, UpdateStep, FilesInvariant, PTL

-----------------------------------------------------------------------------
(* Reference documents.  The recorded fingerprint is the one that was      *)
(* attested; only attesting changes either.                                *)

RecordedIsAttested ==
  /\ refs = [d \in Docs |-> refs[d]]
  /\ \A d \in Docs : /\ refs[d] = [watches |-> refs[d].watches, hash |-> refs[d].hash,
                                   status |-> refs[d].status]
                     /\ refs[d] # NoRow => refs[d].hash = attested[d]

LEMMA RowChanged ==
  ASSUME NEW row, NEW x, NEW y,
         row = [watches |-> row.watches, hash |-> row.hash, status |-> row.status]
  PROVE  /\ [row EXCEPT !.status = y]
                = [watches |-> row.watches, hash |-> row.hash, status |-> y]
         /\ [row EXCEPT !.hash = x, !.status = y]
                = [watches |-> row.watches, hash |-> x, status |-> y]
<1>1. PICK r : r = [row EXCEPT !.hash = x]
  OBVIOUS
<1>2. r = [watches |-> row.watches, hash |-> x, status |-> row.status]
  BY <1>1
<1>3. [r EXCEPT !.status = y] = [watches |-> row.watches, hash |-> x, status |-> y]
  BY <1>2
<1>4. [row EXCEPT !.hash = x, !.status = y] = [watches |-> row.watches, hash |-> x, status |-> y]
  BY <1>1, <1>3, Zenon
<1>5. [row EXCEPT !.status = y] = [watches |-> row.watches, hash |-> row.hash, status |-> y]
  OBVIOUS
<1> QED
  BY <1>4, <1>5

LEMMA RecordsInvariant == HistoryInit /\ [][HistoryNext]_hvars => []RecordedIsAttested
<1>1. HistoryInit => RecordedIsAttested
  BY DEF HistoryInit, RecordedIsAttested, NoRow
<1>2. RecordedIsAttested /\ [HistoryNext]_hvars => RecordedIsAttested'
  <2> SUFFICES ASSUME RecordedIsAttested, [HistoryNext]_hvars PROVE RecordedIsAttested'
    OBVIOUS
  <2>1. ASSUME UNCHANGED <<refs, attested>>
        PROVE  RecordedIsAttested'
    BY <2>1 DEF RecordedIsAttested
  <2>2. CASE IndexRun
    <3>1. ASSUME NEW d \in Docs, watches[d] # << >>, refs[d].watches = watches[d]
          PROVE  refs[d] # NoRow
      BY <3>1 DEF NoRow
    <3>2. ASSUME NEW d \in Docs
          PROVE  refs'[d] = IF watches[d] = << >> THEN NoRow
                            ELSE IF refs[d].watches = watches[d] THEN refs[d]
                            ELSE [watches |-> watches[d], status |-> "ok",
                                  hash |-> aggregate_hash(watches[d], db')]
      BY <2>2, <3>2 DEF IndexRun, build_reference_state, KeepsBaseline
    <3>3. ASSUME NEW d \in Docs
          PROVE  attested'[d] = IF watches[d] = << >> THEN << >>
                                ELSE IF refs[d] # NoRow /\ refs[d].watches = watches[d]
                                THEN attested[d] ELSE aggregate_hash(watches[d], db')
      BY <2>2, <3>3, Zenon DEF IndexRun
    <3>4. refs' = [d \in Docs |-> refs'[d]]
      BY <2>2, Zenon DEF IndexRun, build_reference_state
    <3>5. ASSUME NEW d \in Docs
          PROVE  /\ refs'[d] # NoRow => refs'[d].hash = attested'[d]
                 /\ refs'[d] = [watches |-> refs'[d].watches, hash |-> refs'[d].hash,
                                status |-> refs'[d].status]
      <4> DEFINE hash == aggregate_hash(watches[d], db')
      <4> HIDE DEF hash
      <4>1. CASE watches[d] = << >>
        <5>1. NoRow = [watches |-> NoRow.watches, hash |-> NoRow.hash, status |-> NoRow.status]
          BY DEF NoRow
        <5>2. refs'[d] = NoRow
          BY <3>2, <4>1
        <5> QED
          BY <5>1, <5>2, Zenon
      <4>2. CASE watches[d] # << >> /\ refs[d].watches = watches[d]
        BY <3>1, <3>2, <3>3, <4>2 DEF RecordedIsAttested
      <4>3. CASE watches[d] # << >> /\ refs[d].watches # watches[d]
        <5>1. refs'[d] = [watches |-> watches[d], status |-> "ok", hash |-> hash]
          BY <3>2, <4>3, Zenon DEF hash
        <5>2. attested'[d] = hash
          BY <3>3, <4>3, Zenon DEF hash
        <5> QED
          BY <5>1, <5>2
      <4> QED
        BY <4>1, <4>2, <4>3
    <3> QED
      BY <3>4, <3>5 DEF RecordedIsAttested
  <2>3. CASE check_reference_drift
    <3>1. ASSUME NEW d \in Docs, refs[d] # NoRow
          PROVE  /\ refs'[d].hash = attested'[d]
                 /\ refs'[d] = [watches |-> refs'[d].watches, hash |-> refs'[d].hash,
                                status |-> refs'[d].status]
      <4> DEFINE s == IF drifted(d) THEN "surface_drift" ELSE "ok"
      <4>1. refs'[d] = [refs[d] EXCEPT !.status = s] /\ attested' = attested
        BY <2>3, <3>1, Zenon DEF check_reference_drift
      <4>2. refs'[d] = [watches |-> refs[d].watches, hash |-> refs[d].hash, status |-> s]
        BY <4>1, RowChanged, Zenon DEF RecordedIsAttested
      <4> QED
        BY <3>1, <4>1, <4>2 DEF RecordedIsAttested
    <3>2. ASSUME NEW d \in Docs, refs[d] = NoRow
          PROVE  refs'[d] = NoRow
      BY <2>3, <3>2, Zenon DEF check_reference_drift
    <3>3. refs' = [d \in Docs |-> refs'[d]]
      BY <2>3, Zenon DEF check_reference_drift
    <3> QED
      BY <3>1, <3>2, <3>3 DEF RecordedIsAttested, NoRow
  <2>4. ASSUME NEW ds \in SUBSET Docs, mark_reference_synced(ds)
        PROVE  RecordedIsAttested'
    <3> DEFINE now(d) == aggregate_hash(refs[d].watches, db)
    <3>1. ASSUME NEW d \in Docs, d \in ds, refs[d] # NoRow
          PROVE  /\ refs'[d].hash = attested'[d]
                 /\ refs'[d] = [watches |-> refs'[d].watches, hash |-> refs'[d].hash,
                                status |-> refs'[d].status]
      <4>1. refs'[d] = [refs[d] EXCEPT !.hash = now(d), !.status = "ok"] /\ attested'[d] = now(d)
        BY <2>4, <3>1, Zenon DEF mark_reference_synced
      <4>2. refs'[d] = [watches |-> refs[d].watches, hash |-> now(d), status |-> "ok"]
        BY <4>1, RowChanged, Zenon DEF RecordedIsAttested
      <4> HIDE DEF now
      <4> QED
        BY <4>1, <4>2
    <3>2. ASSUME NEW d \in Docs, d \notin ds \/ refs[d] = NoRow
          PROVE  refs'[d] = refs[d] /\ attested'[d] = attested[d]
      BY <2>4, <3>2, Zenon DEF mark_reference_synced
    <3>3. refs' = [d \in Docs |-> refs'[d]]
      BY <2>4, Zenon DEF mark_reference_synced
    <3> QED
      BY <3>1, <3>2, <3>3 DEF RecordedIsAttested
  <2> QED
    BY <2>1, <2>2, <2>3, <2>4
       DEF HistoryNext, EditGraph, Commit, EditWatches, EditFlow, NewRelease, reindex,
           incremental_reindex, save_snapshot, sync_update, _mark_synced_noninteractive, hvars
<1> QED
  BY <1>1, <1>2, PTL

\* A reference document's drift is reported exactly while a surface it watches differs
\* from what it was when the document was last attested, for any documents, surfaces,
\* graphs and runs (build_reference_state, check_reference_drift, mark_reference_synced).
THEOREM SurfaceDriftAlwaysKept == HistoryInit /\ [][HistoryNext]_hvars => []SurfaceDriftKept
<1>1. RecordedIsAttested => SurfaceDriftKept
  BY DEF RecordedIsAttested, SurfaceDriftKept, drifted
<1> QED
  BY <1>1, RecordsInvariant, PTL

-----------------------------------------------------------------------------
(* Comparisons.  The tables are a load of the files file_index names, a    *)
(* snapshot a load of the files it was taken of; of files that give each   *)
(* ref_id once the diff reads the nodes that are loaded, and the edges     *)
(* that are loaded are those it reads whose ends are nodes.                *)

Taken(g) == [nodes |-> loaded_graph(g).nodes, edges |-> loaded_graph(g).edges, of |-> g]
Snapshots == {Taken(g) : g \in Graphs}
OneEach(nodes) == \A m, n \in nodes : m.ref = n.ref => m = n
RefsIn(nodes) == {n.ref : n \in nodes}
HistoryInv ==
  /\ yaml \in Graphs /\ head \in Graphs
  /\ stamp.yaml \in Graphs /\ db = loaded_graph(stamp.yaml)
  /\ snaps \in Seq(Snapshots)

\* Places are pairs of numbers, and one of two different places is read before the other.
LEMMA PlacesOrdered ==
  ASSUME NEW g \in Graphs
  PROVE  /\ \A p \in Places(g) : Standing(g, p) \in GraphNode
         /\ \A p, q \in Places(g) : p # q => ReadBefore(p, q) \/ ReadBefore(q, p)
         /\ \A p \in Places(g) : ~ReadBefore(p, p)
<1>1. ASSUME NEW p \in Places(g)
      PROVE  /\ p = <<p[1], p[2]>> /\ p[1] \in Nat /\ p[2] \in Nat
             /\ Standing(g, p) \in GraphNode
  <2> DEFINE file == [nodes : Seq(GraphNode), edges : Seq(GraphEdge)]
  <2>1. g \in Seq(file)
    BY HistoryConstants
  <2>2. PICK i \in DOMAIN g : p \in {i} \X DOMAIN g[i].nodes
    BY <1>1 DEF Places
  <2>7. g[i] \in file /\ i \in Nat
    <3> HIDE DEF file
    <3> QED
      BY <2>1, <2>2
  <2>3. i \in Nat /\ g[i].nodes \in Seq(GraphNode)
    BY <2>7
  <2> DEFINE ns == g[i].nodes
  <2>4. p[1] = i /\ p[2] \in DOMAIN ns /\ p = <<p[1], p[2]>>
    BY <2>2
  <2>5. ns \in Seq(GraphNode)
    BY <2>3
  <2>6. Standing(g, p) = ns[p[2]]
    BY <2>4 DEF Standing
  <2> HIDE DEF ns
  <2> QED
    BY <2>3, <2>4, <2>5, <2>6
<1>2. ASSUME NEW p \in Places(g), NEW q \in Places(g), p # q
      PROVE  ReadBefore(p, q) \/ ReadBefore(q, p)
  <2>1. p[1] # q[1] \/ p[2] # q[2]
    BY <1>1, <1>2, Zenon
  <2> QED
    BY <1>1, <2>1 DEF ReadBefore
<1> QED
  BY <1>1, <1>2 DEF ReadBefore

LEMMA EdgePlacesAre ==
  ASSUME NEW g \in Graphs, NEW p \in EdgePlaces(g)
  PROVE  p[1] \in Nat /\ p[2] \in Nat /\ EdgeAt(g, p) \in GraphEdge
<1> DEFINE file == [nodes : Seq(GraphNode), edges : Seq(GraphEdge)]
<1>1. g \in Seq(file)
  BY HistoryConstants
<1>2. PICK i \in DOMAIN g : p \in {i} \X DOMAIN g[i].edges
  BY DEF EdgePlaces
<1>3. g[i] \in file /\ i \in Nat
  <2> HIDE DEF file
  <2> QED
    BY <1>1, <1>2
<1>4. g[i].edges \in Seq(GraphEdge)
  BY <1>3
<1> DEFINE es == g[i].edges
<1>5. p[1] = i /\ p[2] \in DOMAIN es
  BY <1>2
<1>6. EdgeAt(g, p) = es[p[2]]
  BY <1>5 DEF EdgeAt
<1>7. es \in Seq(GraphEdge)
  BY <1>4
<1> HIDE DEF es
<1> QED
  BY <1>3, <1>5, <1>6, <1>7

\* Normalising a lifecycle leaves what the diff reads of a node or an edge as it is.
LEMMA StoredReadsAlike ==
  /\ \A n \in GraphNode : AsRead(AsStored(n)) = AsRead(n) /\ AsStored(n).ref = n.ref
  /\ \A e \in GraphEdge : Triple(AsStored(e)) = Triple(e) /\ AsStored(e).contract = e.contract
<1>1. ASSUME NEW n \in GraphNode
      PROVE  /\ AsStored(n).ref = n.ref /\ AsStored(n).kind = n.kind
             /\ AsStored(n).summary = n.summary /\ AsStored(n).source = n.source
             /\ AsStored(n).tags = n.tags
  BY DEF AsStored, GraphNode
<1>2. ASSUME NEW e \in GraphEdge
      PROVE  /\ AsStored(e).src = e.src /\ AsStored(e).dst = e.dst
             /\ AsStored(e).kind = e.kind /\ AsStored(e).contract = e.contract
  BY DEF AsStored, GraphEdge
<1> QED
  BY <1>1, <1>2 DEF AsRead, Triple

\* A set of numbers has a least one.
LEMMA LeastOf ==
  ASSUME NEW T \in SUBSET Nat, T # {}
  PROVE  \E i \in T : \A j \in T : i <= j
<1> DEFINE R == {ss \in Nat \X Nat : ss[1] < ss[2]}
<1>1. IsWellFoundedOn(R, Nat)
  BY NatLessThanWellFounded DEF OpToRel
<1> HIDE DEF R
<1>2. PICK x \in T : \A y \in T : ~(<<y, x>> \in R)
  BY <1>1, WFMin
<1>3. \A y \in T : ~(y < x)
  BY <1>2 DEF R
<1> QED
  BY <1>3

\* Of the places that hold an edge of the same key one is read first.
LEMMA FirstOfAKey ==
  ASSUME NEW g \in Graphs, NEW S \in SUBSET EdgePlaces(g), S # {}
  PROVE  \E p \in S : \A q \in S : ~ReadBefore(q, p)
<1>1. \A p \in S : p[1] \in Nat /\ p[2] \in Nat
  BY EdgePlacesAre
<1> DEFINE files == {p[1] : p \in S}
<1>2. PICK i \in files : \A j \in files : i <= j
  <2>1. files \in SUBSET Nat /\ files # {}
    BY <1>1
  <2> HIDE DEF files
  <2> QED
    BY <2>1, LeastOf
<1> DEFINE places == {p[2] : p \in {q \in S : q[1] = i}}
<1>3. PICK k \in places : \A l \in places : k <= l
  <2>1. places \in SUBSET Nat /\ places # {}
    BY <1>1, <1>2
  <2> HIDE DEF places
  <2> QED
    BY <2>1, LeastOf
<1>4. PICK p \in S : p[1] = i /\ p[2] = k
  BY <1>3
<1>5. ASSUME NEW q \in S PROVE ~ReadBefore(q, p)
  <2>1. i <= q[1] /\ (q[1] = i => k <= q[2])
    BY <1>2, <1>3
  <2> QED
    BY <1>1, <1>4, <2>1 DEF ReadBefore
<1> QED
  BY <1>4, <1>5

\* What the diff reads and what is loaded, of files that give each ref_id once.
LEMMA NodesReadAndLoaded ==
  ASSUME NEW g \in Graphs, Unambiguous(g)
  PROVE  /\ _parse_yaml_content(g).nodes = {AsRead(n) : n \in loaded_graph(g).nodes}
         /\ RefsOf(g) = RefsIn(loaded_graph(g).nodes)
         /\ OneEach(loaded_graph(g).nodes)
<1>1. {x \in Places(g) : \A q \in Rivals(g, x) : ~ReadBefore(q, x)} = Places(g)
  BY PlacesOrdered DEF Unambiguous
<1>2. {x \in Places(g) : \A q \in Rivals(g, x) : ~ReadBefore(x, q)} = Places(g)
  BY PlacesOrdered DEF Unambiguous
<1>3. loaded_graph(g).nodes = {AsStored(Standing(g, p)) : p \in Places(g)}
  BY <1>1, Zenon DEF loaded_graph
<1>4. _parse_yaml_content(g).nodes = {AsRead(Standing(g, p)) : p \in Places(g)}
  BY <1>2, Zenon DEF _parse_yaml_content
<1>5. \A p \in Places(g) : /\ AsRead(AsStored(Standing(g, p))) = AsRead(Standing(g, p))
                           /\ AsStored(Standing(g, p)).ref = Standing(g, p).ref
  BY PlacesOrdered, StoredReadsAlike
<1>6. \A p, q \in Places(g) : Standing(g, p).ref = Standing(g, q).ref => p = q
  BY DEF Unambiguous, Rivals
<1>7. _parse_yaml_content(g).nodes = {AsRead(n) : n \in loaded_graph(g).nodes}
  BY <1>3, <1>4, <1>5
<1>8. RefsOf(g) = RefsIn(loaded_graph(g).nodes)
  BY <1>3, <1>5 DEF RefsOf, RefsIn
<1>9. OneEach(loaded_graph(g).nodes)
  BY <1>3, <1>5, <1>6 DEF OneEach
<1> QED
  BY <1>7, <1>8, <1>9

LEMMA EdgesReadAndLoaded ==
  ASSUME NEW g \in Graphs
  PROVE  Triples(loaded_graph(g).edges)
           = {t \in _parse_yaml_content(g).edges : {t[1], t[2]} \subseteq RefsOf(g)}
<1> DEFINE Key(p) == <<Triple(EdgeAt(g, p)), EdgeAt(g, p).contract>>
           FirstEdge(p) ==
             \A q \in EdgePlaces(g) : ReadBefore(q, p) =>
               \/ Triple(EdgeAt(g, q)) # Triple(EdgeAt(g, p))
               \/ EdgeAt(g, q).contract # EdgeAt(g, p).contract
           kept == {x \in EdgePlaces(g) : Binds(g, EdgeAt(g, x)) /\ FirstEdge(x)}
<1>1. loaded_graph(g).edges = {AsStored(EdgeAt(g, p)) : p \in kept}
  BY Zenon DEF loaded_graph
<1>2. \A p \in EdgePlaces(g) : Triple(AsStored(EdgeAt(g, p))) = Triple(EdgeAt(g, p))
  BY EdgePlacesAre, StoredReadsAlike
<1>3. _parse_yaml_content(g).edges = {Triple(EdgeAt(g, p)) : p \in EdgePlaces(g)}
  BY DEF _parse_yaml_content
<1>4. \A p \in EdgePlaces(g) :
        Binds(g, EdgeAt(g, p)) <=>
          {Triple(EdgeAt(g, p))[1], Triple(EdgeAt(g, p))[2]} \subseteq RefsOf(g)
  BY DEF Binds, Triple
<1>5. ASSUME NEW p \in EdgePlaces(g), Binds(g, EdgeAt(g, p))
      PROVE  \E q \in kept : Triple(EdgeAt(g, q)) = Triple(EdgeAt(g, p))
  <2> DEFINE S == {q \in EdgePlaces(g) : Triple(EdgeAt(g, q)) = Triple(EdgeAt(g, p))
                                         /\ EdgeAt(g, q).contract = EdgeAt(g, p).contract}
  <2>1. PICK q \in S : \A r \in S : ~ReadBefore(r, q)
    <3>1. S \in SUBSET EdgePlaces(g) /\ p \in S
      OBVIOUS
    <3> HIDE DEF S
    <3> QED
      BY <3>1, FirstOfAKey
  <2>2. FirstEdge(q)
    BY <2>1
  <2>3. Binds(g, EdgeAt(g, q))
    BY <1>4, <1>5, <2>1
  <2> QED
    BY <2>1, <2>2, <2>3
<1> DEFINE bound == {p \in EdgePlaces(g) : Binds(g, EdgeAt(g, p))}
<1>6. Triples(loaded_graph(g).edges) = {Triple(EdgeAt(g, p)) : p \in kept}
  <2>1. kept \subseteq EdgePlaces(g)
    OBVIOUS
  <2> HIDE DEF kept
  <2> QED
    BY <1>1, <1>2, <2>1 DEF Triples
<1>7. {Triple(EdgeAt(g, p)) : p \in kept} = {Triple(EdgeAt(g, p)) : p \in bound}
  <2>1. kept \subseteq bound
    OBVIOUS
  <2>2. \A p \in bound : \E q \in kept : Triple(EdgeAt(g, q)) = Triple(EdgeAt(g, p))
    BY <1>5
  <2> HIDE DEF kept, bound
  <2> QED
    BY <2>1, <2>2
<1>8. {Triple(EdgeAt(g, p)) : p \in bound}
        = {t \in _parse_yaml_content(g).edges : {t[1], t[2]} \subseteq RefsOf(g)}
  BY <1>3, <1>4
<1> QED
  BY <1>6, <1>7, <1>8

\* The invariant, step by step.
LEMMA HistoryInvariant == HistoryInit /\ [][HistoryNext]_hvars => []HistoryInv
<1>1. HistoryInit => HistoryInv
  BY DEF HistoryInit, HistoryInv, Indexed
<1>2. HistoryInv /\ [HistoryNext]_hvars => HistoryInv'
  <2> SUFFICES ASSUME HistoryInv, [HistoryNext]_hvars PROVE HistoryInv'
    OBVIOUS
  <2>1. ASSUME UNCHANGED <<db, snaps, stamp>>, yaml' \in Graphs, head' \in Graphs
        PROVE  HistoryInv'
    BY <2>1 DEF HistoryInv, Snapshots, Taken
  <2>2. CASE IndexRun
    <3>1. stamp'.yaml = yaml /\ db' = loaded_graph(yaml)
      BY <2>2 DEF IndexRun, Indexed
    <3> QED
      BY <2>2, <3>1 DEF IndexRun, HistoryInv, Snapshots, Taken
  <2>3. CASE save_snapshot
    <3> DEFINE s == [nodes |-> db.nodes, edges |-> db.edges, of |-> stamp.yaml]
    <3>1. s \in Snapshots
      BY DEF HistoryInv, Snapshots, Taken
    <3>2. snaps' = Append(snaps, s) /\ snaps \in Seq(Snapshots)
      BY <2>3 DEF save_snapshot, HistoryInv
    <3>3. snaps' \in Seq(Snapshots)
      <4> HIDE DEF s
      <4> QED
        BY <3>1, <3>2
    <3> QED
      BY <2>3, <3>3 DEF save_snapshot, HistoryInv, Snapshots, Taken
  <2> QED
    BY <2>1, <2>2, <2>3
       DEF HistoryNext, EditGraph, Commit, EditWatches, EditFlow, NewRelease, reindex,
           incremental_reindex, check_reference_drift, mark_reference_synced, sync_update,
           _mark_synced_noninteractive, hvars, HistoryInv
<1> QED
  BY <1>1, <1>2, PTL

\* The changes of a comparison: ref_ids that came, that went, and that are unlike.
Changes(old, new, unlike) ==
  {[ref |-> r, how |-> "added"] : r \in new \ old}
    \cup {[ref |-> r, how |-> "removed"] : r \in old \ new}
    \cup {[ref |-> r, how |-> "changed"] : r \in unlike}

LEMMA ChangesSay ==
  ASSUME NEW old, NEW new, NEW some, NEW more, some \subseteq more
  PROVE  /\ RefsIn(Changes(old, new, some)) = (new \ old) \cup (old \ new) \cup some
         /\ Changes(old, new, some) \subseteq Changes(old, new, more)
         /\ \A c \in Changes(old, new, more) \ Changes(old, new, some) : c.ref \in more \ some
<1> DEFINE Say(r, h) == [ref |-> r, how |-> h]
<1>1. \A r, h : Say(r, h).ref = r
  OBVIOUS
<1>2. \A s : Changes(old, new, s) = {Say(r, "added") : r \in new \ old}
                                      \cup {Say(r, "removed") : r \in old \ new}
                                      \cup {Say(r, "changed") : r \in s}
  BY DEF Changes
<1> HIDE DEF Say
<1>3. RefsIn(Changes(old, new, some)) = (new \ old) \cup (old \ new) \cup some
  <2>1. \A c \in Changes(old, new, some) : c.ref \in (new \ old) \cup (old \ new) \cup some
    BY <1>1, <1>2
  <2>2. \A r \in (new \ old) \cup (old \ new) \cup some :
          \E c \in Changes(old, new, some) : c.ref = r
    BY <1>1, <1>2
  <2> QED
    BY <2>1, <2>2 DEF RefsIn
<1>4. Changes(old, new, some) \subseteq Changes(old, new, more)
  BY <1>2
<1>5. ASSUME NEW c \in Changes(old, new, more) \ Changes(old, new, some)
      PROVE  c.ref \in more \ some
  <2>1. PICK r \in more : c = Say(r, "changed")
    BY <1>2, <1>5
  <2>2. r \notin some
    BY <1>2, <1>5, <2>1
  <2> QED
    BY <1>1, <2>1, <2>2
<1> QED
  BY <1>3, <1>4, <1>5

\* The same of edges, and of those of them that bind to the nodes there are.
Bound(edgeSet, nodeSet) == {t \in edgeSet : {t[1], t[2]} \subseteq nodeSet}

LEMMA EdgesCompared ==
  ASSUME NEW P, NEW Q, NEW A, NEW B
  PROVE  /\ \A c \in EdgeChanges(Bound(P, A), Bound(Q, B)) \ EdgeChanges(P, Q) :
              \E r \in {c.edge[1], c.edge[2]} : \/ c.how = "added" /\ r \in B \ A
                                                \/ c.how = "removed" /\ r \in A \ B
         /\ \A c \in EdgeChanges(P, Q) \ EdgeChanges(Bound(P, A), Bound(Q, B)) :
              \/ c.how = "added" /\ {c.edge[1], c.edge[2]} \ B # {}
              \/ c.how = "removed" /\ {c.edge[1], c.edge[2]} \ A # {}
         /\ \A e \in Bound(P, A) \cup Bound(Q, B) :
              \/ e \in Bound(P, A) /\ e \in Bound(Q, B)
              \/ e \in {c.edge : c \in EdgeChanges(P, Q)}
              \/ {e[1], e[2]} \cap ((A \ B) \cup (B \ A)) # {}
<1> DEFINE Say(e, h) == [edge |-> e, how |-> h]
           L == Bound(P, A)
           M == Bound(Q, B)
<1>6. L = {t \in P : {t[1], t[2]} \subseteq A} /\ M = {t \in Q : {t[1], t[2]} \subseteq B}
  BY DEF Bound
<1> HIDE DEF L, M
<1>1. \A e, h : Say(e, h).edge = e /\ Say(e, h).how = h
  OBVIOUS
<1>2. \A S, T : EdgeChanges(S, T) = {Say(e, "added") : e \in T \ S} \cup {Say(e, "removed") : e \in S \ T}
  BY DEF EdgeChanges
<1> HIDE DEF Say
<1>3. ASSUME NEW c \in EdgeChanges(L, M) \ EdgeChanges(P, Q)
      PROVE  \E r \in {c.edge[1], c.edge[2]} : \/ c.how = "added" /\ r \in B \ A
                                               \/ c.how = "removed" /\ r \in A \ B
  <2>1. CASE \E e \in M \ L : c = Say(e, "added")
    <3>1. PICK e \in M \ L : c = Say(e, "added")
      BY <2>1
    <3>2. e \in P
      BY <1>2, <1>3, <1>6, <3>1
    <3> QED
      BY <1>1, <1>6, <3>1, <3>2
  <2>2. CASE \E e \in L \ M : c = Say(e, "removed")
    <3>1. PICK e \in L \ M : c = Say(e, "removed")
      BY <2>2
    <3>2. e \in Q
      BY <1>2, <1>3, <1>6, <3>1
    <3> QED
      BY <1>1, <1>6, <3>1, <3>2
  <2> QED
    BY <1>2, <1>3, <2>1, <2>2
<1>4. ASSUME NEW c \in EdgeChanges(P, Q) \ EdgeChanges(L, M)
      PROVE  \/ c.how = "added" /\ {c.edge[1], c.edge[2]} \ B # {}
             \/ c.how = "removed" /\ {c.edge[1], c.edge[2]} \ A # {}
  <2>1. CASE \E e \in Q \ P : c = Say(e, "added")
    <3>1. PICK e \in Q \ P : c = Say(e, "added")
      BY <2>1
    <3>2. e \notin M
      BY <1>2, <1>4, <1>6, <3>1
    <3> QED
      BY <1>1, <1>6, <3>1, <3>2
  <2>2. CASE \E e \in P \ Q : c = Say(e, "removed")
    <3>1. PICK e \in P \ Q : c = Say(e, "removed")
      BY <2>2
    <3>2. e \notin L
      BY <1>2, <1>4, <1>6, <3>1
    <3> QED
      BY <1>1, <1>6, <3>1, <3>2
  <2> QED
    BY <1>2, <1>4, <2>1, <2>2
<1>5. ASSUME NEW e \in L \cup M, e \notin L \cap M, e \notin {c.edge : c \in EdgeChanges(P, Q)}
      PROVE  {e[1], e[2]} \cap ((A \ B) \cup (B \ A)) # {}
  <2>1. e \in P /\ e \in Q
    <3>1. e \notin Q \ P /\ e \notin P \ Q
      BY <1>1, <1>2, <1>5
    <3> QED
      BY <1>5, <1>6, <3>1
  <2> QED
    BY <1>5, <1>6, <2>1
<1> QED
  BY <1>3, <1>4, <1>5 DEF L, M

\* The nodes of two graphs, as the diff reads them and as they are stored.
Reading(nodes) == {AsRead(n) : n \in nodes}
GitChanges(then, now) == NodeChanges(Reading(then), Reading(now), SameNode)
SnapshotChanges(then, now) == NodeChanges(then, now, SameInSnapshot)
TableChanges(then, now) == NodeChanges(then, now, SameInTables)

InBoth(then, now) == RefsIn(then) \cap RefsIn(now)
ToGit(then, now) ==
  {r \in InBoth(then, now) : ~SameNode(NodeAt(Reading(then), r), NodeAt(Reading(now), r))}
ToSnapshots(then, now) ==
  {r \in InBoth(then, now) : ~SameInSnapshot(NodeAt(then, r), NodeAt(now, r))}
ToTables(then, now) ==
  {r \in InBoth(then, now) : ~SameInTables(NodeAt(then, r), NodeAt(now, r))}

LEMMA NodesCompared ==
  ASSUME NEW then, NEW now, OneEach(then), OneEach(now)
  PROVE  /\ GitChanges(then, now) = Changes(RefsIn(then), RefsIn(now), ToGit(then, now))
         /\ SnapshotChanges(then, now) = Changes(RefsIn(then), RefsIn(now), ToSnapshots(then, now))
         /\ TableChanges(then, now) = Changes(RefsIn(then), RefsIn(now), ToTables(then, now))
         /\ \A m \in then, n \in now : m.ref = n.ref =>
              /\ (m.ref \in ToGit(then, now) <=> AsRead(m) # AsRead(n))
              /\ (m.ref \in ToSnapshots(then, now) <=> m.kind # n.kind \/ m.summary # n.summary)
              /\ (m.ref \in ToTables(then, now) \ ToGit(then, now) => m.source = Absent)
         /\ ToSnapshots(then, now) \subseteq ToGit(then, now)
         /\ ToGit(then, now) \subseteq ToTables(then, now)
         /\ ToTables(then, now) \subseteq InBoth(then, now)
<1> DEFINE old == RefsIn(then)
           new == RefsIn(now)
           read(s) == Reading(s)
           unlike == {r \in old \cap new : ~SameNode(NodeAt(read(then), r), NodeAt(read(now), r))}
           stored == {r \in old \cap new : ~SameInSnapshot(NodeAt(then, r), NodeAt(now, r))}
           since == {r \in old \cap new : ~SameInTables(NodeAt(then, r), NodeAt(now, r))}
<1>1. \A n : /\ AsRead(n).ref = n.ref /\ AsRead(n).kind = n.kind /\ AsRead(n).summary = n.summary
             /\ AsRead(n).source = OrEmpty(n.source) /\ AsRead(n).tags = n.tags
  BY DEF AsRead
<1>2. \A s : {x.ref : x \in read(s)} = RefsIn(s)
  BY <1>1 DEF RefsIn, Reading
<1>3. ASSUME NEW s, OneEach(s)
      PROVE  \A n \in s : NodeAt(s, n.ref) = n /\ NodeAt(read(s), n.ref) = AsRead(n)
  <2>1. \A x, y \in read(s) : x.ref = y.ref => x = y
    BY <1>1, <1>3 DEF OneEach, Reading
  <2>2. \A n \in s : AsRead(n) \in read(s) /\ AsRead(n).ref = n.ref
    BY <1>1 DEF Reading
  <2> HIDE DEF read
  <2> QED
    BY <1>3, <2>1, <2>2 DEF NodeAt, OneEach
<1>4. NodeChanges(read(then), read(now), SameNode) = Changes(old, new, unlike)
  BY <1>2, Zenon DEF NodeChanges, Changes
<1>5. NodeChanges(then, now, SameInSnapshot) = Changes(old, new, stored)
  BY Zenon DEF NodeChanges, Changes, RefsIn
<1>6. NodeChanges(then, now, SameInTables) = Changes(old, new, since)
  BY Zenon DEF NodeChanges, Changes, RefsIn
<1>7. ASSUME NEW m \in then, NEW n \in now, m.ref = n.ref
      PROVE  /\ (m.ref \in unlike <=> AsRead(m) # AsRead(n))
             /\ (m.ref \in stored <=> m.kind # n.kind \/ m.summary # n.summary)
             /\ (m.ref \in since <=> ~SameInTables(m, n))
             /\ (m.ref \in since \ unlike => m.source = Absent)
             /\ (m.ref \in stored => m.ref \in unlike) /\ (m.ref \in unlike => m.ref \in since)
  <2>1. m.ref \in old \cap new
    BY <1>7 DEF RefsIn
  <2>2. /\ NodeAt(then, m.ref) = m /\ NodeAt(read(then), m.ref) = AsRead(m)
        /\ NodeAt(now, m.ref) = n /\ NodeAt(read(now), m.ref) = AsRead(n)
    BY <1>3, <1>7
  <2>3. /\ (m.ref \in unlike <=> ~SameNode(AsRead(m), AsRead(n)))
        /\ (m.ref \in stored <=> ~SameInSnapshot(m, n))
        /\ (m.ref \in since <=> ~SameInTables(m, n))
    BY <2>1, <2>2
  <2>4. SameNode(AsRead(m), AsRead(n)) <=>
          /\ m.kind = n.kind /\ m.summary = n.summary /\ m.tags = n.tags
          /\ OrEmpty(m.source) = OrEmpty(n.source)
    BY <1>1 DEF SameNode, SameButSource
  <2>5. SameNode(AsRead(m), AsRead(n)) <=> AsRead(m) = AsRead(n)
    <3>1. SameNode(AsRead(m), AsRead(n)) => AsRead(m) = AsRead(n)
      BY <1>7, <2>4 DEF AsRead
    <3>2. AsRead(m) = AsRead(n) => SameNode(AsRead(m), AsRead(n))
      BY DEF SameNode, SameButSource
    <3> QED
      BY <3>1, <3>2
  <2>6. SameInSnapshot(m, n) <=> m.kind = n.kind /\ m.summary = n.summary
    BY DEF SameInSnapshot
  <2>7. SameInTables(m, n) <=>
          /\ m.kind = n.kind /\ m.summary = n.summary /\ m.tags = n.tags
          /\ m.source # Absent /\ m.source = OrEmpty(n.source)
    BY DEF SameInTables, SameButSource, SameSource
  <2>8. m.source # Absent => OrEmpty(m.source) = m.source
    BY DEF OrEmpty
  <2> HIDE DEF unlike, stored, since
  <2> QED
    BY <2>3, <2>4, <2>5, <2>6, <2>7, <2>8
<1>8. stored \subseteq unlike /\ unlike \subseteq since /\ since \subseteq old \cap new
  <2>1. stored \subseteq old \cap new /\ unlike \subseteq old \cap new /\ since \subseteq old \cap new
    OBVIOUS
  <2>2. \A r \in old \cap new : \E m \in then, n \in now : m.ref = r /\ n.ref = r
    BY DEF RefsIn
  <2> HIDE DEF old, new, unlike, stored, since
  <2> QED
    BY <1>7, <2>1, <2>2
<1>9. unlike = ToGit(then, now) /\ stored = ToSnapshots(then, now) /\ since = ToTables(then, now)
  BY DEF ToGit, ToSnapshots, ToTables, InBoth
<1> HIDE DEF unlike, stored, since
<1> QED
  BY <1>4, <1>5, <1>6, <1>7, <1>8, <1>9
     DEF GitChanges, SnapshotChanges, TableChanges, InBoth

LEMMA Comparisons == HistoryInv => ComparisonsAgree
<1> SUFFICES ASSUME HistoryInv, Unambiguous(head), Unambiguous(yaml)
             PROVE  DiffTellsWhatLoads /\ ThreeWaysAgree
  BY DEF ComparisonsAgree
<1> DEFINE git == compute_diff(head, yaml)
           told == {c.ref : c \in git.nodes}
           then == loaded_graph(head)
           now == loaded_graph(yaml)
           P == _parse_yaml_content(head).edges
           Q == _parse_yaml_content(yaml).edges
           old == RefsIn(then.nodes)
           new == RefsIn(now.nodes)
           unlike == ToGit(then.nodes, now.nodes)
           stored == ToSnapshots(then.nodes, now.nodes)
           since == ToTables(then.nodes, now.nodes)
<1>1. yaml \in Graphs /\ head \in Graphs
  BY DEF HistoryInv
<1>2. RefsOf(head) = old /\ RefsOf(yaml) = new
  BY <1>1, NodesReadAndLoaded
<1>3. /\ _parse_yaml_content(head).nodes = Reading(then.nodes)
      /\ _parse_yaml_content(yaml).nodes = Reading(now.nodes)
  BY <1>1, NodesReadAndLoaded DEF Reading
<1>4. OneEach(then.nodes) /\ OneEach(now.nodes)
  BY <1>1, NodesReadAndLoaded
<1>5. /\ GitChanges(then.nodes, now.nodes) = Changes(old, new, unlike)
      /\ SnapshotChanges(then.nodes, now.nodes) = Changes(old, new, stored)
      /\ TableChanges(then.nodes, now.nodes) = Changes(old, new, since)
      /\ \A m \in then.nodes, n \in now.nodes : m.ref = n.ref =>
           /\ (m.ref \in unlike <=> AsRead(m) # AsRead(n))
           /\ (m.ref \in stored <=> m.kind # n.kind \/ m.summary # n.summary)
           /\ (m.ref \in since \ unlike => m.source = Absent)
      /\ stored \subseteq unlike /\ unlike \subseteq since /\ since \subseteq old \cap new
  <2> HIDE DEF then, now
  <2> QED
    BY <1>4, NodesCompared DEF InBoth
<1>6. git.nodes = GitChanges(then.nodes, now.nodes) /\ git.edges = EdgeChanges(P, Q)
  BY <1>3 DEF compute_diff, GitChanges
<1>7. Triples(then.edges) = Bound(P, old) /\ Triples(now.edges) = Bound(Q, new)
  BY <1>1, <1>2, EdgesReadAndLoaded DEF Bound
<1>8. \A m \in then.nodes : m.ref \in old
  BY DEF RefsIn
<1>9. \A m \in now.nodes : m.ref \in new
  BY DEF RefsIn
<1>10. /\ \A r \in old : \E m \in then.nodes : m.ref = r
       /\ \A r \in new : \E m \in now.nodes : m.ref = r
  BY DEF RefsIn
<1> HIDE DEF git, then, now, P, Q, old, new, unlike, stored, since
<1>11. git.nodes = Changes(old, new, unlike)
  BY <1>5, <1>6
<1>12. told = (new \ old) \cup (old \ new) \cup unlike
  BY <1>11, ChangesSay DEF RefsIn
<1> HIDE DEF told
<1>13. /\ \A c \in EdgeChanges(Triples(then.edges), Triples(now.edges)) \ git.edges :
            \E r \in {c.edge[1], c.edge[2]} : \/ c.how = "added" /\ r \in new \ old
                                              \/ c.how = "removed" /\ r \in old \ new
       /\ \A c \in git.edges \ EdgeChanges(Triples(then.edges), Triples(now.edges)) :
            \/ c.how = "added" /\ {c.edge[1], c.edge[2]} \ new # {}
            \/ c.how = "removed" /\ {c.edge[1], c.edge[2]} \ old # {}
       /\ \A e \in Triples(then.edges) \cup Triples(now.edges) :
            \/ e \in Triples(then.edges) /\ e \in Triples(now.edges)
            \/ e \in {c.edge : c \in git.edges}
            \/ {e[1], e[2]} \cap ((old \ new) \cup (new \ old)) # {}
  BY <1>6, <1>7, EdgesCompared
<1>14. DiffTellsWhatLoads
  <2> DEFINE Others(nodes) == {AsRead(n) : n \in {m \in nodes : m.ref \notin told}}
  <2>1. ASSUME NEW m \in then.nodes, m.ref \notin told
        PROVE  \E n \in now.nodes : n.ref \notin told /\ AsRead(n) = AsRead(m)
    <3>1. m.ref \in new /\ m.ref \notin unlike
      BY <1>8, <1>12, <2>1
    <3>2. PICK n \in now.nodes : n.ref = m.ref
      BY <1>10, <3>1
    <3> QED
      BY <1>5, <2>1, <3>1, <3>2
  <2>2. ASSUME NEW n \in now.nodes, n.ref \notin told
        PROVE  \E m \in then.nodes : m.ref \notin told /\ AsRead(m) = AsRead(n)
    <3>1. n.ref \in old /\ n.ref \notin unlike
      BY <1>9, <1>12, <2>2
    <3>2. PICK m \in then.nodes : m.ref = n.ref
      BY <1>10, <3>1
    <3> QED
      BY <1>5, <2>2, <3>1, <3>2
  <2>3. Others(then.nodes) = Others(now.nodes)
    BY <2>1, <2>2
  <2>4. ASSUME NEW m \in then.nodes, NEW n \in now.nodes, m.ref = n.ref, m.ref \in told
        PROVE  AsRead(m) # AsRead(n)
    <3>1. m.ref \in unlike
      BY <1>8, <1>9, <1>12, <2>4
    <3> QED
      BY <1>5, <2>4, <3>1
  <2>5. \A e \in Triples(then.edges) \cup Triples(now.edges) :
          \/ e \in Triples(then.edges) /\ e \in Triples(now.edges)
          \/ e \in {c.edge : c \in git.edges} \/ {e[1], e[2]} \cap told # {}
    BY <1>12, <1>13
  <2> QED
    BY <2>3, <2>4, <2>5, Zenon DEF DiffTellsWhatLoads, git, told, then, now
<1>15. ThreeWaysAgree
  <2> SUFFICES ASSUME NEW i \in DOMAIN snaps, snaps[i].of = head, stamp.yaml = yaml
               PROVE  LET against == compare_snapshots(snaps[i], db)
                          after == compute_diff_from_snapshot(snaps[i], db)
                          Missing(c) == LET g == IF c.how = "added" THEN yaml ELSE head
                                        IN {c.edge[1], c.edge[2]} \ RefsOf(g)
                          Arrived(c) == {[ref |-> r, how |-> c.how] : r \in {c.edge[1], c.edge[2]}}
                      IN /\ against.nodes \subseteq git.nodes
                         /\ \A c \in git.nodes \ against.nodes :
                              \E m \in snaps[i].nodes, n \in db.nodes :
                                m.ref = c.ref /\ n.ref = c.ref /\ m.kind = n.kind /\ m.summary = n.summary
                         /\ git.nodes \subseteq after.nodes
                         /\ \A c \in after.nodes \ git.nodes :
                              \E n \in snaps[i].nodes : n.ref = c.ref /\ n.source = Absent
                         /\ against.edges = after.edges
                         /\ \A c \in against.edges \ git.edges : Arrived(c) \cap git.nodes # {}
                         /\ \A c \in git.edges \ against.edges : Missing(c) # {}
    BY Zenon DEF ThreeWaysAgree, git
  <2> DEFINE against == compare_snapshots(snaps[i], db)
             after == compute_diff_from_snapshot(snaps[i], db)
  <2>1. snaps[i].nodes = then.nodes /\ snaps[i].edges = then.edges
    <3>1. snaps[i] \in Snapshots
      BY DEF HistoryInv
    <3>2. PICK g \in Graphs : snaps[i] = Taken(g)
      BY <3>1 DEF Snapshots
    <3> QED
      BY <3>2 DEF Taken, then
  <2>2. db = now
    BY DEF HistoryInv, now
  <2>3. against.nodes = Changes(old, new, stored) /\ after.nodes = Changes(old, new, since)
    BY <1>5, <2>1, <2>2
       DEF compare_snapshots, compute_diff_from_snapshot, SnapshotChanges, TableChanges
  <2>4. /\ against.edges = EdgeChanges(Triples(then.edges), Triples(now.edges))
        /\ after.edges = against.edges
    BY <2>1, <2>2 DEF compare_snapshots, compute_diff_from_snapshot
  <2> HIDE DEF against, after
  <2>5. against.nodes \subseteq git.nodes /\ git.nodes \subseteq after.nodes
    BY <1>5, <1>11, <2>3, ChangesSay
  <2>6. ASSUME NEW c \in git.nodes \ against.nodes
        PROVE  \E m \in snaps[i].nodes, n \in db.nodes :
                 m.ref = c.ref /\ n.ref = c.ref /\ m.kind = n.kind /\ m.summary = n.summary
    <3>1. c.ref \in unlike \ stored
      BY <1>5, <1>11, <2>3, <2>6, ChangesSay
    <3>2. c.ref \in old \cap new
      BY <1>5, <3>1
    <3>3. PICK m \in then.nodes, n \in now.nodes : m.ref = c.ref /\ n.ref = c.ref
      BY <1>10, <3>2
    <3> QED
      BY <1>5, <2>1, <2>2, <3>1, <3>3
  <2>7. ASSUME NEW c \in after.nodes \ git.nodes
        PROVE  \E n \in snaps[i].nodes : n.ref = c.ref /\ n.source = Absent
    <3>1. c.ref \in since \ unlike
      BY <1>5, <1>11, <2>3, <2>7, ChangesSay
    <3>2. c.ref \in old \cap new
      BY <1>5, <3>1
    <3>3. PICK m \in then.nodes, n \in now.nodes : m.ref = c.ref /\ n.ref = c.ref
      BY <1>10, <3>2
    <3> QED
      BY <1>5, <2>1, <3>1, <3>3
  <2>8. ASSUME NEW c \in against.edges \ git.edges
        PROVE  {[ref |-> r, how |-> c.how] : r \in {c.edge[1], c.edge[2]}} \cap git.nodes # {}
    <3>1. PICK r \in {c.edge[1], c.edge[2]} : \/ c.how = "added" /\ r \in new \ old
                                              \/ c.how = "removed" /\ r \in old \ new
      BY <1>13, <2>4, <2>8
    <3>2. [ref |-> r, how |-> c.how] \in git.nodes
      BY <1>11, <3>1 DEF Changes
    <3> QED
      BY <3>2
  <2>9. ASSUME NEW c \in git.edges \ against.edges
        PROVE  LET g == IF c.how = "added" THEN yaml ELSE head
               IN {c.edge[1], c.edge[2]} \ RefsOf(g) # {}
    <3>1. \/ c.how = "added" /\ {c.edge[1], c.edge[2]} \ new # {}
          \/ c.how = "removed" /\ {c.edge[1], c.edge[2]} \ old # {}
      BY <1>13, <2>4, <2>9
    <3>2. CASE c.how = "added"
      BY <1>2, <3>1, <3>2
    <3>3. CASE c.how = "removed"
      BY <1>2, <3>1, <3>3
    <3> QED
      BY <3>1, <3>2, <3>3
  <2> QED
    BY <2>4, <2>5, <2>6, <2>7, <2>8, <2>9, Zenon DEF against, after
<1> QED
  BY <1>14, <1>15

\* Whatever the graph files, commits and snapshots, for files that give each ref_id once:
\* what `diff` does not mention the loader makes the same of, in kind, summary, source and
\* tags and in the ends and kinds of edges; and the comparisons with a snapshot report what
\* `diff` does but for the differences named (compute_diff, compare_snapshots,
\* compute_diff_from_snapshot, load_graph). Of lifecycles, other keys and contracts it says
\* nothing, since no comparison does.
THEOREM ComparisonsAlwaysAgree == HistoryInit /\ [][HistoryNext]_hvars => []ComparisonsAgree
  BY Comparisons, HistoryInvariant, PTL

-----------------------------------------------------------------------------
(* Bootstrap.  What the last bootstrap wrote is the graph of the tree it   *)
(* saw; the rules may be an earlier one's.                                 *)

BootstrapInv ==
  /\ BootstrapIsSound
  /\ services_yml.root.kind = "service" /\ services_yml.rules \subseteq {"domain", "feature"}

LEMMA EdgesBind ==
  ASSUME NEW t, NEW e \in PartOf(t) \cup DependsOn(t)
  PROVE  {e.src, e.dst} \subseteq node_ref_ids(t) \cup {t.name}
<1> DEFINE clusters == _cluster_with_children(t)
<1>1. cluster_ref_ids(t) \subseteq node_ref_ids(t)
  <2> SUFFICES ASSUME NEW n \in clusters
               PROVE  Sanitized[n] \in {x.ref : x \in BelowRoot(t)}
    BY DEF cluster_ref_ids, node_ref_ids
  <2>1. Node1(Sanitized[n], classify_dir(detect_preset(t), n)) \in BelowRoot(t)
    BY DEF BelowRoot, ClusterNodes
  <2> QED
    BY <2>1 DEF Node1
<1>2. ASSUME NEW n \in clusters, NEW c \in t.kids[n]
      PROVE  child_ref_id(n, c) \in node_ref_ids(t)
  <2>1. Node1(child_ref_id(n, c), classify_dir(detect_preset(t), c)) \in BelowRoot(t)
    BY <1>2 DEF BelowRoot, ClusterNodes
  <2> QED
    BY <2>1 DEF Node1, node_ref_ids
<1>3. CASE e \in PartOf(t)
  <2>1. e \in ChildEdges(t) \/ \E r \in cluster_ref_ids(t) : e = Edge1(r, t.name, "part_of")
    BY <1>3 DEF PartOf
  <2>2. e \in ChildEdges(t)
          => \E n \in clusters : \E c \in t.kids[n] :
               /\ e = Edge1(child_ref_id(n, c), Sanitized[n], "part_of")
               /\ Sanitized[n] \in cluster_ref_ids(t)
    BY DEF ChildEdges, cluster_ref_ids
  <2> QED
    BY <2>1, <2>2, <1>1, <1>2 DEF Edge1
<1>4. CASE e \in DependsOn(t)
  <2>1. \E a \in cluster_ref_ids(t), b \in node_ref_ids(t) : e = Edge1(a, b, "depends_on")
    <3>1. CASE \E p \in _quick_import_scan(t) : e = Edge1(p[1], p[2], "depends_on")
      <4>1. \A p \in _quick_import_scan(t) : p[1] \in cluster_ref_ids(t) /\ p[2] \in cluster_ref_ids(t)
        BY DEF _quick_import_scan, cluster_ref_ids
      <4> QED
        BY <1>1, <3>1, <4>1
    <3>2. CASE \E n \in clusters : \E r \in node_ref_ids(t) : e = Edge1(Sanitized[n], r, "depends_on")
      BY <3>2 DEF cluster_ref_ids
    <3> QED
      BY <1>4, <3>1, <3>2 DEF DependsOn
  <2> QED
    BY <2>1, <1>1 DEF Edge1
<1> QED
  BY <1>3, <1>4

LEMMA NodesAttached ==
  ASSUME NEW t, _cluster_with_children(t) # {}, NEW n \in BelowRoot(t), n.ref # t.name
  PROVE  \E e \in PartOf(t) : e.kind = "part_of" /\ e.src = n.ref
<1> DEFINE clusters == _cluster_with_children(t)
<1>1. \/ n.ref \in cluster_ref_ids(t)
      \/ \E x \in clusters : \E c \in t.kids[x] : n.ref = child_ref_id(x, c)
  BY DEF BelowRoot, ClusterNodes, Node1, cluster_ref_ids
<1>2. CASE n.ref \in cluster_ref_ids(t)
  <2>1. Edge1(n.ref, t.name, "part_of")
          \in {Edge1(r, t.name, "part_of") : r \in cluster_ref_ids(t) \ {t.name}}
    BY <1>2
  <2>2. Edge1(n.ref, t.name, "part_of") \in PartOf(t)
    BY <2>1 DEF PartOf
  <2> QED
    BY <2>2 DEF Edge1
<1>3. ASSUME NEW x \in clusters, NEW c \in t.kids[x], n.ref = child_ref_id(x, c)
      PROVE  \E e \in PartOf(t) : e.kind = "part_of" /\ e.src = n.ref
  <2>1. Edge1(child_ref_id(x, c), Sanitized[x], "part_of")
          \in {Edge1(child_ref_id(x, y), Sanitized[x], "part_of") : y \in t.kids[x]}
    BY <1>3
  <2>2. Edge1(child_ref_id(x, c), Sanitized[x], "part_of") \in PartOf(t)
    BY <1>3, <2>1, Zenon DEF PartOf, ChildEdges
  <2> QED
    BY <1>3, <2>2 DEF Edge1
<1> QED
  BY <1>1, <1>2, <1>3

LEMMA BootstrapWritesSound ==
  ASSUME BootstrapInv, bootstrap_project
  PROVE  BootstrapInv'
<1>1. scanned' = tree
  BY DEF bootstrap_project
<1>2. CASE BelowRoot(tree) = {}
  <2>1. services_yml' = services_yml
    BY <1>2 DEF bootstrap_project
  <2>2. _cluster_with_children(tree) = {}
    <3> SUFFICES ASSUME NEW n \in _cluster_with_children(tree) PROVE FALSE
      OBVIOUS
    <3>1. Node1(Sanitized[n], classify_dir(detect_preset(tree), n)) \in BelowRoot(tree)
      BY DEF BelowRoot, ClusterNodes
    <3> QED
      BY <1>2, <3>1
  <2>3. _cluster_with_children(scanned)' = _cluster_with_children(tree)
    BY <1>1 DEF _cluster_with_children, scan_project
  <2> QED
    BY <2>1, <2>2, <2>3 DEF BootstrapInv, BootstrapIsSound, BootstrappedEdgesBind,
                            ClusteredBootstrapLintsClean, Loaded
<1>3. CASE BelowRoot(tree) # {}
  <2> DEFINE y == services_yml'
  <2>1. /\ y.root = Node1(tree.name, "service") /\ y.below = BelowRoot(tree)
        /\ y.edges = PartOf(tree) \cup DependsOn(tree)
        /\ y.rules = IF services_yml.rules = {} THEN generate_rules(BelowRoot(tree))
                     ELSE services_yml.rules
    BY <1>3 DEF bootstrap_project
  <2>2. y.root.kind = "service" /\ y.root.ref = tree.name
    BY <2>1 DEF Node1
  <2>3. y.rules \subseteq {"domain", "feature"}
    BY <2>1 DEF BootstrapInv, generate_rules
  <2>4. {n.ref : n \in BelowRoot(tree)} \cup {tree.name} \subseteq {n.ref : n \in Loaded(y)}
    BY <2>1, <2>2 DEF Loaded
  <2>5. \A e \in y.edges : {e.src, e.dst} \subseteq {n.ref : n \in Loaded(y)}
    BY <2>1, <2>4, EdgesBind DEF node_ref_ids
  <2>6. ASSUME _cluster_with_children(tree) # {}, NEW n \in Loaded(y), n.kind \in y.rules
        PROVE  \E e \in y.edges : e.kind = "part_of" /\ e.src = n.ref
    <3>1. n \in BelowRoot(tree) /\ n.ref # tree.name
      BY <2>1, <2>2, <2>3, <2>6 DEF Loaded
    <3> QED
      BY <2>1, <2>6, <3>1, NodesAttached
  <2>7. _cluster_with_children(scanned)' = _cluster_with_children(tree)
    BY <1>1 DEF _cluster_with_children, scan_project
  <2>8. BootstrappedEdgesBind'
    BY <2>5 DEF BootstrappedEdgesBind, Loaded
  <2>9. ClusteredBootstrapLintsClean'
    BY <2>6, <2>7 DEF ClusteredBootstrapLintsClean, Violations, Loaded
  <2> QED
    BY <2>2, <2>3, <2>8, <2>9 DEF BootstrapInv, BootstrapIsSound
<1> QED
  BY <1>2, <1>3

\* Every edge a bootstrap writes binds, and a graph with clusters passes the rules it
\* was given, for any tree, names and patterns and any bootstraps and changes before.
THEOREM BootstrapAlwaysSound == BootstrapInit /\ [][BootstrapNext]_bvars => []BootstrapIsSound
<1>1. BootstrapInit => BootstrapInv
  BY DEF BootstrapInit, NoYaml, Node1, BootstrapInv, BootstrapIsSound, BootstrappedEdgesBind,
         ClusteredBootstrapLintsClean, Violations
<1>2. BootstrapInv /\ [BootstrapNext]_bvars => BootstrapInv'
  <2>1. ASSUME BootstrapInv, UNCHANGED <<services_yml, scanned>>
        PROVE  BootstrapInv'
    BY <2>1 DEF BootstrapInv, BootstrapIsSound, BootstrappedEdgesBind, Loaded,
                ClusteredBootstrapLintsClean, Violations, _cluster_with_children, scan_project
  <2> QED
    BY <2>1, BootstrapWritesSound DEF BootstrapNext, TreeChanges, bvars
<1>3. BootstrapInv => BootstrapIsSound
  BY DEF BootstrapInv
<1> QED
  BY <1>1, <1>2, <1>3, PTL

-----------------------------------------------------------------------------
(* Agent files.  Every command is a function on a well-made project; it is *)
(* enough to know of each which fields it leaves and what it keeps.        *)

ProjectFields == {"release", "facts", "detected", "flow", "agents_md", "claude_md", "rules",
                  "cursor_dir", "roles", "commands", "pointer", "mcp", "ci", "kit"}
WellMade(p) ==
  /\ DOMAIN p = ProjectFields
  /\ DOMAIN p.rules = IDEs /\ DOMAIN p.commands = Commands
  /\ DOMAIN p.roles = Tools /\ \A t \in Tools : DOMAIN p.roles[t] = Roles
  /\ p.claude_md # None => DOMAIN p.claude_md = {"section", "info", "prose"}
  /\ p.agents_md # None => DOMAIN p.agents_md = {"text", "custom"}
  /\ DOMAIN p.mcp = Editors /\ \A e \in Editors : DOMAIN p.mcp[e] = {"there", "ours", "others"}
  /\ DOMAIN p.ci = {"stages", "job"}
  /\ p.flow.kind = "valid" => p.flow.tools \subseteq Tools

\* q is p but for some fields.
SameBut(p, q, fields) == \A f \in ProjectFields \ fields : q[f] = p[f]

LEMMA Stripped == \A t : strip(strip(t)) = strip(t)
<1>1. User # Untrimmed
  BY DEF User, Untrimmed
<1> QED
  BY <1>1 DEF strip

LEMMA KeptBySame == ASSUME NEW p, NEW c PROVE Kept(p, p, c)
  BY DEF Kept

LEMMA KeptOn ==
  ASSUME NEW p, NEW q, NEW r, NEW c, Kept(p, q, c), Kept(q, r, c)
  PROVE  Kept(p, r, c)
  BY DEF Kept

\* refresh_claude_md writes the sections of CLAUDE.md.
LEMMA Refreshed ==
  ASSUME NEW p, WellMade(p)
  PROVE  LET q == refresh_claude_md(p)
         IN /\ WellMade(q) /\ SameBut(p, q, {"claude_md"}) /\ ~StaleSections(q)
            /\ \A c : Kept(p, q, c)
<1> DEFINE q == refresh_claude_md(p)
<1>1. CASE ~StaleSections(p)
  BY <1>1, KeptBySame DEF refresh_claude_md, SameBut
<1>2. CASE StaleSections(p)
  <2> DEFINE i == _render_project_info_section(p)
             md == [p.claude_md EXCEPT !.info = i, !.section = "marked"]
  <2>1. p.claude_md # None /\ DOMAIN p.claude_md = {"section", "info", "prose"} /\ DOMAIN p = ProjectFields
    BY <1>2 DEF StaleSections, HasSection, WellMade
  <2>2. q = [p EXCEPT !.claude_md = md]
    BY <1>2 DEF refresh_claude_md
  <2>3. DOMAIN md = {"section", "info", "prose"} /\ md.info = i /\ md.section = "marked"
        /\ md.prose = p.claude_md.prose
    BY <2>1
  <2>4. md # None
    BY <2>3 DEF None
  <2> HIDE DEF md
  <2>5. SameBut(p, q, {"claude_md"}) /\ q.claude_md = md /\ DOMAIN q = ProjectFields
    BY <2>1, <2>2 DEF SameBut, ProjectFields
  <2> HIDE DEF q
  <2>6. /\ q.release = p.release /\ q.facts = p.facts /\ q.flow = p.flow /\ q.agents_md = p.agents_md
        /\ q.rules = p.rules /\ q.roles = p.roles /\ q.commands = p.commands /\ q.mcp = p.mcp /\ q.ci = p.ci
    BY <2>5 DEF SameBut, ProjectFields
  <2>7. WellMade(q)
    BY <2>3, <2>5, <2>6 DEF WellMade
  <2>8. ~StaleSections(q)
    BY <2>3, <2>5, <2>6 DEF StaleSections, _render_project_info_section
  <2>9. \A c : Kept(p, q, c)
    BY <2>3, <2>4, <2>5, <2>6 DEF Kept
  <2> QED
    BY <2>5, <2>7, <2>8, <2>9 DEF q
<1> QED
  BY <1>1, <1>2

LEMMA AgentsWritten ==
  ASSUME NEW p, WellMade(p)
  PROVE  LET q == generate_agents_md(p)
         IN /\ WellMade(q) /\ SameBut(p, q, {"agents_md"})
            /\ q.agents_md.text = Generated(p.release, p.facts) /\ q.agents_md # None
            /\ \A c : Kept(p, q, c)
<1> DEFINE md == build_agents_md_content(p)
           q == generate_agents_md(p)
<1>1. /\ DOMAIN md = {"text", "custom"} /\ md.text = Generated(p.release, p.facts)
      /\ md.custom = IF p.agents_md = None THEN None ELSE strip(p.agents_md.custom)
  BY DEF build_agents_md_content
<1>2. md # None
  BY <1>1 DEF None
<1>3. q = [p EXCEPT !.agents_md = md]
  BY DEF generate_agents_md
<1> HIDE DEF md
<1>4. SameBut(p, q, {"agents_md"}) /\ q.agents_md = md /\ DOMAIN q = ProjectFields
  BY <1>3 DEF SameBut, ProjectFields, WellMade
<1> HIDE DEF q
<1>5. /\ q.flow = p.flow /\ q.claude_md = p.claude_md
      /\ q.rules = p.rules /\ q.roles = p.roles /\ q.commands = p.commands /\ q.mcp = p.mcp /\ q.ci = p.ci
  BY <1>4 DEF SameBut, ProjectFields
<1>6. WellMade(q)
  BY <1>1, <1>4, <1>5 DEF WellMade
<1>7. \A c : Kept(p, q, c)
  BY <1>1, <1>2, <1>4, <1>5, Stripped DEF Kept
<1> QED
  BY <1>1, <1>2, <1>4, <1>6, <1>7 DEF q

\* The adapters of IDEs.
LEMMA RulesWritten ==
  ASSUME NEW p, WellMade(p)
  PROVE  LET q == setup_rules_auto(p)
         IN /\ WellMade(q) /\ SameBut(p, q, {"rules"})
            /\ \A ide \in IDEs :
                 q.rules[ide] = IF Marker(p, ide) /\ (p.rules[ide] = None \/ _is_beadloom_adapter(p.rules[ide]))
                                THEN _RULES_ADAPTER_TEMPLATE(p) ELSE p.rules[ide]
            /\ \A c : Kept(p, q, c)
<1> DEFINE q == setup_rules_auto(p)
           rules == [ide \in IDEs |->
              IF Marker(p, ide) /\ (p.rules[ide] = None \/ _is_beadloom_adapter(p.rules[ide]))
              THEN _RULES_ADAPTER_TEMPLATE(p) ELSE p.rules[ide]]
<1>1. q = [p EXCEPT !.rules = rules]
  BY DEF setup_rules_auto
<1>2. \A ide \in IDEs : p.rules[ide] = User => rules[ide] = User
  BY DEF User, None, _is_beadloom_adapter
<1>3. DOMAIN rules = IDEs
  OBVIOUS
<1>4. \A ide \in IDEs :
        rules[ide] = IF Marker(p, ide) /\ (p.rules[ide] = None \/ _is_beadloom_adapter(p.rules[ide]))
                     THEN _RULES_ADAPTER_TEMPLATE(p) ELSE p.rules[ide]
  OBVIOUS
<1> HIDE DEF rules
<1>5. SameBut(p, q, {"rules"}) /\ q.rules = rules /\ DOMAIN q = ProjectFields
  BY <1>1 DEF SameBut, ProjectFields, WellMade
<1> HIDE DEF q
<1>6. /\ q.flow = p.flow /\ q.claude_md = p.claude_md /\ q.agents_md = p.agents_md
      /\ q.roles = p.roles /\ q.commands = p.commands /\ q.mcp = p.mcp /\ q.ci = p.ci
  BY <1>5 DEF SameBut, ProjectFields
<1>7. WellMade(q)
  BY <1>3, <1>5, <1>6 DEF WellMade
<1>8. \A c : Kept(p, q, c)
  BY <1>2, <1>5, <1>6 DEF Kept
<1> QED
  BY <1>4, <1>5, <1>7, <1>8 DEF q

\* The role files of the tools a flow names.
LEMMA AdaptersWritten ==
  ASSUME NEW p, WellMade(p), NEW c
  PROVE  LET q == generate_adapters(p, c)
         IN /\ WellMade(q) /\ SameBut(p, q, {"roles", "pointer", "cursor_dir"})
            /\ q.cursor_dir = (p.cursor_dir \/ "cursor" \in c.tools)
            /\ \A t \in Tools : q.roles[t] = IF t \in c.tools THEN [r \in Roles |-> compose_role(p, c)]
                                             ELSE p.roles[t]
            /\ \A k : Kept(p, q, k)
<1> DEFINE q == generate_adapters(p, c)
           roles == [t \in Tools |-> IF t \in c.tools THEN [r \in Roles |-> compose_role(p, c)] ELSE p.roles[t]]
           pointer == IF "cursor" \in c.tools THEN Generated(p.release, 0) ELSE p.pointer
           dir == p.cursor_dir \/ "cursor" \in c.tools
<1>1. q = [[[p EXCEPT !.roles = roles] EXCEPT !.pointer = pointer] EXCEPT !.cursor_dir = dir]
  BY DEF generate_adapters, WellMade, ProjectFields
<1>2. DOMAIN roles = Tools /\ \A t \in Tools : DOMAIN roles[t] = Roles
  BY DEF WellMade
<1>3. \A t \in Tools : roles[t] = IF t \in c.tools THEN [r \in Roles |-> compose_role(p, c)] ELSE p.roles[t]
  OBVIOUS
<1> HIDE DEF roles, pointer, dir
<1>4. /\ SameBut(p, q, {"roles", "pointer", "cursor_dir"}) /\ q.roles = roles /\ q.cursor_dir = dir
      /\ DOMAIN q = ProjectFields
  BY <1>1 DEF SameBut, ProjectFields, WellMade
<1> HIDE DEF q
<1>5. /\ q.flow = p.flow /\ q.claude_md = p.claude_md /\ q.agents_md = p.agents_md
      /\ q.rules = p.rules /\ q.commands = p.commands /\ q.mcp = p.mcp /\ q.ci = p.ci
  BY <1>4 DEF SameBut, ProjectFields
<1>6. WellMade(q)
  BY <1>2, <1>4, <1>5 DEF WellMade
<1>7. \A k : Kept(p, q, k)
  BY <1>5 DEF Kept
<1> QED
  BY <1>3, <1>4, <1>6, <1>7 DEF q, dir

LEMMA ComposedWritten ==
  ASSUME NEW p, WellMade(p)
  PROVE  LET q == refresh_composed_adapters(p)
         IN /\ WellMade(q) /\ SameBut(p, q, {"roles", "pointer", "cursor_dir"})
            /\ p.flow.kind # "valid" => q = p
            /\ p.flow.kind = "valid" =>
                 /\ q.cursor_dir = (p.cursor_dir \/ "cursor" \in p.flow.tools)
                 /\ \A t \in Tools : q.roles[t] = IF t \in p.flow.tools
                                                  THEN [r \in Roles |-> compose_role(p, p.flow)]
                                                  ELSE p.roles[t]
            /\ \A k : Kept(p, q, k)
<1>1. CASE p.flow.kind = "valid"
  <2>1. refresh_composed_adapters(p) = generate_adapters(p, p.flow)
    BY <1>1 DEF refresh_composed_adapters
  <2> DEFINE c == p.flow
             q == generate_adapters(p, c)
  <2>2. /\ WellMade(q) /\ SameBut(p, q, {"roles", "pointer", "cursor_dir"})
        /\ q.cursor_dir = (p.cursor_dir \/ "cursor" \in c.tools)
        /\ \A t \in Tools : q.roles[t] = IF t \in c.tools THEN [r \in Roles |-> compose_role(p, c)]
                                         ELSE p.roles[t]
        /\ \A k : Kept(p, q, k)
    BY AdaptersWritten
  <2>3. refresh_composed_adapters(p) = q
    BY <2>1
  <2> HIDE DEF q
  <2> QED
    BY <1>1, <2>2, <2>3
<1>2. CASE p.flow.kind # "valid"
  BY <1>2, KeptBySame DEF refresh_composed_adapters, SameBut
<1> QED
  BY <1>1, <1>2

\* The vendored files of a scaffolded project.
LEMMA VendoredRestored ==
  ASSUME NEW p, WellMade(p)
  PROVE  LET q == refresh_agentic_flow_files(p)
         IN /\ WellMade(q) /\ SameBut(p, q, {"roles", "commands"})
            /\ ~_agentic_flow_scaffolded(p) => q = p
            /\ _agentic_flow_scaffolded(p) =>
                 /\ \A r \in Roles : q.roles["claude"][r] = Vendored(p.release)
                 /\ \A c \in Commands : q.commands[c] = Vendored(p.release)
            /\ Kept(p, q, FALSE)
<1> DEFINE q == refresh_agentic_flow_files(p)
<1>1. CASE ~_agentic_flow_scaffolded(p)
  BY <1>1, KeptBySame DEF refresh_agentic_flow_files, SameBut
<1>2. CASE _agentic_flow_scaffolded(p)
  <2> DEFINE v == [r \in Roles |-> Vendored(p.release)]
             roles == [p.roles EXCEPT !["claude"] = v]
             commands == [c \in Commands |-> Vendored(p.release)]
  <2>1. q = [[p EXCEPT !.roles = roles] EXCEPT !.commands = commands]
    BY <1>2 DEF refresh_agentic_flow_files
  <2>2. DOMAIN v = Roles /\ \A r \in Roles : v[r] = Vendored(p.release)
    OBVIOUS
  <2>3. DOMAIN commands = Commands /\ \A c \in Commands : commands[c] = Vendored(p.release)
    OBVIOUS
  <2> HIDE DEF v
  <2>4. DOMAIN roles = Tools /\ roles["claude"] = v /\ \A t \in Tools : DOMAIN roles[t] = Roles
    BY <2>2 DEF WellMade, Tools
  <2> HIDE DEF roles, commands
  <2>5. /\ SameBut(p, q, {"roles", "commands"}) /\ q.roles = roles /\ q.commands = commands
        /\ DOMAIN q = ProjectFields
    BY <2>1 DEF SameBut, ProjectFields, WellMade
  <2> HIDE DEF q
  <2>6. /\ q.flow = p.flow /\ q.claude_md = p.claude_md /\ q.agents_md = p.agents_md
        /\ q.rules = p.rules /\ q.mcp = p.mcp /\ q.ci = p.ci
    BY <2>5 DEF SameBut, ProjectFields
  <2>7. WellMade(q)
    BY <2>3, <2>4, <2>5, <2>6 DEF WellMade
  <2>8. Kept(p, q, FALSE)
    BY <2>6 DEF Kept
  <2>9. /\ \A r \in Roles : q.roles["claude"][r] = Vendored(p.release)
        /\ \A c \in Commands : q.commands[c] = Vendored(p.release)
    BY <2>2, <2>3, <2>4, <2>5
  <2> QED
    BY <1>2, <2>5, <2>7, <2>8, <2>9 DEF q
<1> QED
  BY <1>1, <1>2

\* One run of --fix, and what is left of each kind of drift after it.
At(k, j, p) == IF j <= k THEN FixStep(j, p) ELSE p

LEMMA FixSteps ==
  ASSUME NEW p, NEW k
  PROVE  Fix(k, p) = At(k, 5, At(k, 4, At(k, 3, At(k, 2, At(k, 1, p)))))
  BY DEF Fix, At

LEMMA StepsAre ==
  ASSUME NEW p
  PROVE  /\ FixStep(1, p) = refresh_claude_md(p) /\ FixStep(2, p) = generate_agents_md(p)
         /\ FixStep(3, p) = setup_rules_auto(p) /\ FixStep(4, p) = refresh_agentic_flow_files(p)
         /\ FixStep(5, p) = refresh_composed_adapters(p)
  BY DEF FixStep

LEMMA FiveSteps ==
  ASSUME NEW p
  PROVE  Fix(5, p) = refresh_composed_adapters(refresh_agentic_flow_files(
                       setup_rules_auto(generate_agents_md(refresh_claude_md(p)))))
<1>1. \A q : /\ At(5, 1, q) = refresh_claude_md(q) /\ At(5, 2, q) = generate_agents_md(q)
              /\ At(5, 3, q) = setup_rules_auto(q) /\ At(5, 4, q) = refresh_agentic_flow_files(q)
              /\ At(5, 5, q) = refresh_composed_adapters(q)
  BY StepsAre DEF At
<1>2. Fix(5, p) = At(5, 5, At(5, 4, At(5, 3, At(5, 2, At(5, 1, p)))))
  BY FixSteps
<1> QED
  BY <1>1, <1>2, Zenon

FixedOnce(p, q) ==
  /\ WellMade(q)
  /\ q.release = p.release /\ q.facts = p.facts /\ q.flow = p.flow
  /\ ~StaleSections(q) /\ q.agents_md.text = Generated(q.release, q.facts)
  /\ \A ide \in IDEs : (_is_beadloom_adapter(q.rules[ide]) /\ (ide = "cursor" => p.cursor_dir))
                          => q.rules[ide] = _RULES_ADAPTER_TEMPLATE(q)
  /\ IF q.flow.kind = "valid"
     THEN /\ q.cursor_dir = (p.cursor_dir \/ "cursor" \in q.flow.tools)
          /\ \A t \in q.flow.tools, r \in Roles : q.roles[t][r] = compose_role(q, q.flow)
     ELSE q.cursor_dir = p.cursor_dir
  /\ IF _agentic_flow_scaffolded(p)
     THEN /\ \A c \in Commands : q.commands[c] = Vendored(q.release)
          /\ q.flow.kind # "valid" => \A r \in Roles : q.roles["claude"][r] = Vendored(q.release)
     ELSE /\ q.commands = p.commands
          /\ (q.flow.kind = "valid" /\ "claude" \in q.flow.tools) \/ q.roles["claude"] = p.roles["claude"]

LEMMA FixedOnceIs == ASSUME NEW p, WellMade(p) PROVE FixedOnce(p, Fix(5, p))
<1> DEFINE p1 == refresh_claude_md(p)
           p2 == generate_agents_md(p1)
           p3 == setup_rules_auto(p2)
           p4 == refresh_agentic_flow_files(p3)
           p5 == refresh_composed_adapters(p4)
<1>0. Fix(5, p) = p5
  BY FiveSteps
<1>1. WellMade(p1) /\ SameBut(p, p1, {"claude_md"}) /\ ~StaleSections(p1)
  BY Refreshed
<1> HIDE DEF p1
<1>2. WellMade(p2) /\ SameBut(p1, p2, {"agents_md"}) /\ p2.agents_md.text = Generated(p1.release, p1.facts)
  BY <1>1, AgentsWritten
<1> HIDE DEF p2
<1>3. /\ WellMade(p3) /\ SameBut(p2, p3, {"rules"})
      /\ \A ide \in IDEs :
           p3.rules[ide] = IF Marker(p2, ide) /\ (p2.rules[ide] = None \/ _is_beadloom_adapter(p2.rules[ide]))
                           THEN _RULES_ADAPTER_TEMPLATE(p2) ELSE p2.rules[ide]
  BY <1>2, RulesWritten
<1> HIDE DEF p3
<1>4. /\ WellMade(p4) /\ SameBut(p3, p4, {"roles", "commands"})
      /\ ~_agentic_flow_scaffolded(p3) => p4 = p3
      /\ _agentic_flow_scaffolded(p3) =>
           /\ \A r \in Roles : p4.roles["claude"][r] = Vendored(p3.release)
           /\ \A c \in Commands : p4.commands[c] = Vendored(p3.release)
  BY <1>3, VendoredRestored
<1> HIDE DEF p4
<1>5. /\ WellMade(p5) /\ SameBut(p4, p5, {"roles", "pointer", "cursor_dir"})
      /\ p4.flow.kind # "valid" => p5 = p4
      /\ p4.flow.kind = "valid" =>
           /\ p5.cursor_dir = (p4.cursor_dir \/ "cursor" \in p4.flow.tools)
           /\ \A t \in Tools : p5.roles[t] = IF t \in p4.flow.tools
                                            THEN [r \in Roles |-> compose_role(p4, p4.flow)]
                                            ELSE p4.roles[t]
  BY <1>4, ComposedWritten
<1> HIDE DEF p5
<1>6. /\ p1.release = p.release /\ p2.release = p.release /\ p3.release = p.release
      /\ p4.release = p.release /\ p5.release = p.release
      /\ p1.facts = p.facts /\ p2.facts = p.facts /\ p5.facts = p.facts
      /\ p3.flow = p.flow /\ p4.flow = p.flow /\ p5.flow = p.flow
      /\ p5.agents_md = p2.agents_md /\ p5.claude_md = p1.claude_md
      /\ p2.rules = p.rules /\ p5.rules = p3.rules
      /\ p2.cursor_dir = p.cursor_dir /\ p4.cursor_dir = p.cursor_dir
      /\ p3.commands = p.commands /\ p5.commands = p4.commands /\ p3.roles = p.roles
  BY <1>1, <1>2, <1>3, <1>4, <1>5 DEF SameBut, ProjectFields
<1>7. ~StaleSections(p5)
  BY <1>1, <1>6 DEF StaleSections, HasSection, _render_project_info_section
<1>8. p5.agents_md.text = Generated(p5.release, p5.facts)
  BY <1>2, <1>6
<1>9. ASSUME NEW ide \in IDEs, _is_beadloom_adapter(p5.rules[ide]), ide = "cursor" => p.cursor_dir
      PROVE  p5.rules[ide] = _RULES_ADAPTER_TEMPLATE(p5)
  <2>1. _RULES_ADAPTER_TEMPLATE(p5) = _RULES_ADAPTER_TEMPLATE(p2)
    BY <1>6 DEF _RULES_ADAPTER_TEMPLATE
  <2>2. CASE p2.rules[ide] = None
    <3>1. Marker(p2, ide) \/ ~_is_beadloom_adapter(None)
      BY DEF _is_beadloom_adapter, None
    <3> QED
      BY <1>3, <1>6, <1>9, <2>1, <2>2, <3>1
  <2>3. CASE p2.rules[ide] # None
    <3>1. Marker(p2, ide)
      BY <1>6, <1>9, <2>3 DEF Marker
    <3> QED
      BY <1>3, <1>6, <1>9, <2>1, <3>1
  <2> QED
    BY <2>2, <2>3
<1>10. IF p5.flow.kind = "valid"
       THEN /\ p5.cursor_dir = (p.cursor_dir \/ "cursor" \in p5.flow.tools)
            /\ \A t \in p5.flow.tools, r \in Roles : p5.roles[t][r] = compose_role(p5, p5.flow)
       ELSE p5.cursor_dir = p.cursor_dir
  <2>1. CASE p5.flow.kind = "valid"
    <3>1. p5.flow.tools \subseteq Tools
      BY <1>5, <2>1 DEF WellMade
    <3>2. compose_role(p5, p5.flow) = compose_role(p4, p4.flow)
      BY <1>6 DEF compose_role
    <3> QED
      BY <1>5, <1>6, <2>1, <3>1, <3>2
  <2>2. CASE p5.flow.kind # "valid"
    BY <1>5, <1>6, <2>2
  <2> QED
    BY <2>1, <2>2
<1>11. _agentic_flow_scaffolded(p) <=> _agentic_flow_scaffolded(p3)
  BY <1>6 DEF _agentic_flow_scaffolded
<1>12. IF _agentic_flow_scaffolded(p)
       THEN /\ \A c \in Commands : p5.commands[c] = Vendored(p5.release)
            /\ p5.flow.kind # "valid" => \A r \in Roles : p5.roles["claude"][r] = Vendored(p5.release)
       ELSE /\ p5.commands = p.commands
            /\ (p5.flow.kind = "valid" /\ "claude" \in p5.flow.tools) \/ p5.roles["claude"] = p.roles["claude"]
  <2>1. CASE _agentic_flow_scaffolded(p)
    BY <1>4, <1>5, <1>6, <1>11, <2>1
  <2>2. CASE ~_agentic_flow_scaffolded(p)
    <3>1. p4 = p3
      BY <1>4, <1>11, <2>2
    <3>2. "claude" \in Tools
      BY DEF Tools
    <3> QED
      BY <1>5, <1>6, <2>2, <3>1, <3>2
  <2> QED
    BY <2>1, <2>2
<1>13. FixedOnce(p, p5)
  BY <1>5, <1>6, <1>7, <1>8, <1>9, <1>10, <1>12 DEF FixedOnce
<1> QED
  BY <1>0, <1>13

\* Two runs.
LEMMA FixedTwice ==
  ASSUME NEW o, WellMade(o), NEW p, FixedOnce(o, p), NEW q, FixedOnce(p, q)
  PROVE  check_config_drift(q) \subseteq
           (IF q.flow.kind = "invalid" THEN {<<"flow.yml">>} ELSE {})
             \cup (IF q.cursor_dir THEN {} ELSE {<<"rules", "cursor">>})
<1>1. _agents_md_drift(q) = {}
  BY DEF FixedOnce, _agents_md_drift, _agents_auto_region, build_agents_md_content
<1>2. _claude_md_drift(q) = {}
  BY DEF FixedOnce, _claude_md_drift
<1>3. _flow_config_drift(q) = IF q.flow.kind = "invalid" THEN {<<"flow.yml">>} ELSE {}
  BY DEF _flow_config_drift
<1>4. _composed_adapter_drifts(q) = {}
  <2>1. CASE q.flow.kind # "valid"
    BY <2>1 DEF _composed_adapter_drifts
  <2>2. CASE q.flow.kind = "valid"
    <3>1. \A x \in q.flow.tools \X Roles : q.roles[x[1]][x[2]] = compose_role(q, q.flow)
      BY <2>2 DEF FixedOnce
    <3> QED
      BY <2>2, <3>1 DEF _composed_adapter_drifts
  <2> QED
    BY <2>1, <2>2
<1>5. q.cursor_dir => p.cursor_dir
  BY DEF FixedOnce
<1>6. _adapter_drifts(q) \subseteq IF q.cursor_dir THEN {} ELSE {<<"rules", "cursor">>}
  BY <1>5 DEF FixedOnce, _adapter_drifts
<1>7. _agentic_flow_drifts(q) = {}
  <2>1. CASE ~_agentic_flow_scaffolded(q)
    BY <2>1 DEF _agentic_flow_drifts
  <2>2. CASE _agentic_flow_scaffolded(q) /\ _agentic_flow_scaffolded(p)
    <3>1. \A c \in Commands : q.commands[c] = Vendored(q.release)
      BY <2>2 DEF FixedOnce
    <3>2. q.flow.kind = "absent" => \A r \in Roles : q.roles["claude"][r] = Vendored(q.release)
      BY <2>2 DEF FixedOnce
    <3> QED
      BY <2>2, <3>1, <3>2 DEF _agentic_flow_drifts
  <2>3. CASE _agentic_flow_scaffolded(q) /\ ~_agentic_flow_scaffolded(p)
    <3>1. q.commands = p.commands
      BY <2>3 DEF FixedOnce
    <3>2. PICK r \in Roles : p.roles["claude"][r] = None
      BY <2>3, <3>1 DEF _agentic_flow_scaffolded
    <3>3. p.flow.kind = "valid" /\ "claude" \in p.flow.tools
      BY <2>3, <3>2 DEF FixedOnce, _agentic_flow_scaffolded
    <3>4. p.roles["claude"][r] = compose_role(p, p.flow)
      BY <3>3 DEF FixedOnce
    <3>5. compose_role(p, p.flow) # None
      BY DEF compose_role, Composed, None
    <3> QED
      BY <3>2, <3>4, <3>5
  <2> QED
    BY <2>1, <2>2, <2>3
<1> QED
  BY <1>1, <1>2, <1>3, <1>4, <1>6, <1>7 DEF check_config_drift

(* The other commands. *)

LEMMA VendoredScaffolded ==
  ASSUME NEW p, WellMade(p), NEW force \in BOOLEAN
  PROVE  /\ WellMade(_scaffold_vendored(p, force))
         /\ ~force => Kept(p, _scaffold_vendored(p, force), TRUE)
<1> DEFINE q == _scaffold_vendored(p, force)
           commands == [c \in Commands |-> IF p.commands[c] = None \/ force THEN Vendored(p.release)
                                           ELSE p.commands[c]]
<1>1. q = [p EXCEPT !.commands = commands]
  BY DEF _scaffold_vendored
<1>2. DOMAIN commands = Commands
  OBVIOUS
<1>3. ~force => \A c \in Commands : p.commands[c] = User => commands[c] = User
  BY DEF User, None
<1> HIDE DEF commands
<1>4. SameBut(p, q, {"commands"}) /\ q.commands = commands /\ DOMAIN q = ProjectFields
  BY <1>1 DEF SameBut, ProjectFields, WellMade
<1> HIDE DEF q
<1>5. /\ q.flow = p.flow /\ q.claude_md = p.claude_md /\ q.agents_md = p.agents_md
      /\ q.rules = p.rules /\ q.roles = p.roles /\ q.mcp = p.mcp /\ q.ci = p.ci
  BY <1>4 DEF SameBut, ProjectFields
<1>6. WellMade(q)
  BY <1>2, <1>4, <1>5 DEF WellMade
<1>7. ~force => Kept(p, q, TRUE)
  BY <1>3, <1>4, <1>5 DEF Kept
<1> QED
  BY <1>6, <1>7 DEF q

LEMMA ClaudeScaffolded ==
  ASSUME NEW p, WellMade(p), NEW force \in BOOLEAN
  PROVE  /\ WellMade(_scaffold_claude_md(p, force))
         /\ ~force => Kept(p, _scaffold_claude_md(p, force), TRUE)
<1>1. CASE ~force /\ p.claude_md # None
  <2>1. _scaffold_claude_md(p, force) = refresh_claude_md(p)
    BY <1>1 DEF _scaffold_claude_md
  <2> QED
    BY <2>1, Refreshed
<1>2. CASE force \/ p.claude_md = None
  <2> DEFINE md == [section |-> "marked", info |-> None, prose |-> None]
             q == [p EXCEPT !.claude_md = md]
  <2>1. _scaffold_claude_md(p, force) = refresh_claude_md(q)
    BY <1>2 DEF _scaffold_claude_md
  <2>2. DOMAIN md = {"section", "info", "prose"}
    OBVIOUS
  <2> HIDE DEF md
  <2>3. SameBut(p, q, {"claude_md"}) /\ q.claude_md = md /\ DOMAIN q = ProjectFields
    BY DEF SameBut, ProjectFields, WellMade
  <2> HIDE DEF q
  <2>4. /\ q.flow = p.flow /\ q.agents_md = p.agents_md /\ q.commands = p.commands
        /\ q.rules = p.rules /\ q.roles = p.roles /\ q.mcp = p.mcp /\ q.ci = p.ci
    BY <2>3 DEF SameBut, ProjectFields
  <2>5. WellMade(q)
    BY <2>2, <2>3, <2>4 DEF WellMade
  <2>6. ~force => Kept(p, q, TRUE)
    BY <1>2, <2>4 DEF Kept
  <2>7. WellMade(refresh_claude_md(q)) /\ Kept(q, refresh_claude_md(q), TRUE)
    BY <2>5, Refreshed
  <2> QED
    BY <2>1, <2>6, <2>7, KeptOn
<1> QED
  BY <1>1, <1>2

LEMMA FlowSetUp ==
  ASSUME NEW p, WellMade(p), NEW flags, NEW force \in BOOLEAN
  PROVE  /\ WellMade(setup_agentic_flow(p, flags, force))
         /\ ~force => Kept(p, setup_agentic_flow(p, flags, force), TRUE)
<1> DEFINE c == resolve_flow_config(p, flags)
           p1 == generate_adapters(p, c)
           p2 == _scaffold_vendored(p1, force)
           p3 == _scaffold_claude_md(p2, force)
<1>1. WellMade(p1) /\ Kept(p, p1, TRUE)
  BY AdaptersWritten
<1>2. setup_agentic_flow(p, flags, force) = p \/ setup_agentic_flow(p, flags, force) = p3
  BY DEF setup_agentic_flow
<1> HIDE DEF p1, c
<1>3. WellMade(p2) /\ (~force => Kept(p1, p2, TRUE))
  BY <1>1, VendoredScaffolded
<1> HIDE DEF p2
<1>4. WellMade(p3) /\ (~force => Kept(p2, p3, TRUE))
  BY <1>3, ClaudeScaffolded
<1> HIDE DEF p3
<1>5. ~force => Kept(p, p3, TRUE)
  <2>1. ~force => Kept(p, p2, TRUE)
    BY <1>1, <1>3, KeptOn
  <2> QED
    BY <1>4, <2>1, KeptOn
<1> QED
  BY <1>2, <1>4, <1>5, KeptBySame

LEMMA RulesSetUp ==
  ASSUME NEW p, WellMade(p), NEW ide \in IDEs \cup {"auto"}, NEW refresh \in BOOLEAN
  PROVE  WellMade(setup_rules(p, ide, refresh)) /\ Kept(p, setup_rules(p, ide, refresh), TRUE)
<1>1. CASE refresh
  <2> DEFINE p1 == refresh_claude_md(p)
  <2>1. setup_rules(p, ide, refresh) = generate_agents_md(p1)
    BY <1>1 DEF setup_rules
  <2>2. WellMade(p1) /\ Kept(p, p1, TRUE)
    BY Refreshed
  <2> HIDE DEF p1
  <2>3. WellMade(generate_agents_md(p1)) /\ Kept(p1, generate_agents_md(p1), TRUE)
    BY <2>2, AgentsWritten
  <2> QED
    BY <2>1, <2>2, <2>3, KeptOn
<1>2. CASE ~refresh /\ ide = "auto"
  <2>1. setup_rules(p, ide, refresh) = setup_rules_auto(p)
    BY <1>2 DEF setup_rules
  <2> QED
    BY <2>1, RulesWritten
<1>3. CASE ~refresh /\ ide # "auto"
  <2> DEFINE t == IF p.rules[ide] = None THEN _RULES_ADAPTER_TEMPLATE(p) ELSE p.rules[ide]
             rules == [p.rules EXCEPT ![ide] = t]
             q == setup_rules(p, ide, refresh)
  <2>1. q = [p EXCEPT !.rules = rules]
    BY <1>3 DEF setup_rules, WellMade
  <2>2. p.rules[ide] = User => t = User
    BY DEF User, None
  <2> HIDE DEF t
  <2>3. DOMAIN rules = IDEs /\ \A i \in IDEs : p.rules[i] = User => rules[i] = User
    BY <2>2 DEF WellMade
  <2> HIDE DEF rules
  <2>4. SameBut(p, q, {"rules"}) /\ q.rules = rules /\ DOMAIN q = ProjectFields
    BY <2>1 DEF SameBut, ProjectFields, WellMade
  <2> HIDE DEF q
  <2>5. /\ q.flow = p.flow /\ q.claude_md = p.claude_md /\ q.agents_md = p.agents_md
        /\ q.roles = p.roles /\ q.commands = p.commands /\ q.mcp = p.mcp /\ q.ci = p.ci
    BY <2>4 DEF SameBut, ProjectFields
  <2>6. WellMade(q) /\ Kept(p, q, TRUE)
    BY <2>3, <2>4, <2>5 DEF WellMade, Kept
  <2> QED
    BY <2>6 DEF q
<1> QED
  BY <1>1, <1>2, <1>3

LEMMA McpSetUp ==
  ASSUME NEW p, WellMade(p), NEW editor \in Editors, NEW remove \in BOOLEAN
  PROVE  WellMade(setup_mcp(p, editor, remove)) /\ Kept(p, setup_mcp(p, editor, remove), TRUE)
<1> DEFINE q == setup_mcp(p, editor, remove)
           entry == [there |-> TRUE, ours |-> ~remove, others |-> p.mcp[editor].others]
           mcp == [p.mcp EXCEPT ![editor] = entry]
           dir == p.cursor_dir \/ editor = "cursor"
<1>1. q = [[p EXCEPT !.mcp = mcp] EXCEPT !.cursor_dir = dir]
  BY DEF setup_mcp, WellMade, ProjectFields
<1>2. DOMAIN entry = {"there", "ours", "others"} /\ entry.others = p.mcp[editor].others
  OBVIOUS
<1> HIDE DEF entry, dir
<1>3. /\ DOMAIN mcp = Editors /\ \A e \in Editors : DOMAIN mcp[e] = {"there", "ours", "others"}
      /\ \A e \in Editors : mcp[e].others = p.mcp[e].others
  BY <1>2 DEF WellMade
<1> HIDE DEF mcp
<1>4. SameBut(p, q, {"mcp", "cursor_dir"}) /\ q.mcp = mcp /\ DOMAIN q = ProjectFields
  BY <1>1 DEF SameBut, ProjectFields, WellMade
<1> HIDE DEF q
<1>5. /\ q.flow = p.flow /\ q.claude_md = p.claude_md /\ q.agents_md = p.agents_md
      /\ q.rules = p.rules /\ q.roles = p.roles /\ q.commands = p.commands /\ q.ci = p.ci
  BY <1>4 DEF SameBut, ProjectFields
<1>6. WellMade(q) /\ Kept(p, q, TRUE)
  BY <1>3, <1>4, <1>5 DEF WellMade, Kept
<1> QED
  BY <1>6 DEF q

LEMMA McpAutoSetUp ==
  ASSUME NEW p, WellMade(p)
  PROVE  WellMade(setup_mcp_auto(p)) /\ Kept(p, setup_mcp_auto(p), TRUE)
<1> DEFINE editor == _MCP_EDITOR_MARKERS(p)
<1>1. editor \in Editors
  BY DEF _MCP_EDITOR_MARKERS, Editors
<1>2. setup_mcp_auto(p) = p \/ setup_mcp_auto(p) = setup_mcp(p, editor, FALSE)
  BY DEF setup_mcp_auto
<1> HIDE DEF editor
<1>3. WellMade(setup_mcp(p, editor, FALSE)) /\ Kept(p, setup_mcp(p, editor, FALSE), TRUE)
  BY <1>1, McpSetUp
<1> QED
  BY <1>2, <1>3, KeptBySame

LEMMA TechwriterSetUp ==
  ASSUME NEW p, WellMade(p), NEW platform
  PROVE  WellMade(setup_ai_techwriter(p, platform)) /\ Kept(p, setup_ai_techwriter(p, platform), TRUE)
<1> DEFINE ci == IF platform = "gitlab" THEN [p.ci EXCEPT !.job = TRUE] ELSE p.ci
           kit == Generated(p.release, 0)
           q == setup_ai_techwriter(p, platform)
<1>1. DOMAIN ci = {"stages", "job"} /\ ci.stages = p.ci.stages
  BY DEF WellMade
<1>2. CASE platform = "gitlab"
  <2>1. ci = [p.ci EXCEPT !.job = TRUE]
    BY <1>2
  <2>2. _scaffold_gitlab(p) = [p EXCEPT !.ci = ci]
    BY <2>1 DEF _scaffold_gitlab, WellMade, ProjectFields
  <2>3. q = [[p EXCEPT !.ci = ci] EXCEPT !.kit = Generated(_scaffold_gitlab(p).release, 0)]
    BY <1>2, <2>2 DEF setup_ai_techwriter
  <2> DEFINE k == Generated(_scaffold_gitlab(p).release, 0)
  <2> HIDE DEF ci, k, q
  <2>4. SameBut(p, q, {"ci", "kit"}) /\ q.ci = ci /\ DOMAIN q = ProjectFields
    BY <2>3 DEF k, SameBut, ProjectFields, WellMade
  <2>5. /\ q.flow = p.flow /\ q.claude_md = p.claude_md /\ q.agents_md = p.agents_md
        /\ q.rules = p.rules /\ q.roles = p.roles /\ q.commands = p.commands /\ q.mcp = p.mcp
    BY <2>4 DEF SameBut, ProjectFields
  <2>6. WellMade(q) /\ Kept(p, q, TRUE)
    BY <1>1, <2>4, <2>5 DEF WellMade, Kept
  <2> QED
    BY <2>6 DEF q
<1>3. CASE platform # "gitlab"
  <2>1. q = [p EXCEPT !.kit = kit]
    BY <1>3 DEF setup_ai_techwriter
  <2> HIDE DEF kit, q
  <2>2. SameBut(p, q, {"kit"}) /\ DOMAIN q = ProjectFields
    BY <2>1 DEF SameBut, ProjectFields, WellMade
  <2>3. /\ q.flow = p.flow /\ q.claude_md = p.claude_md /\ q.agents_md = p.agents_md
        /\ q.rules = p.rules /\ q.roles = p.roles /\ q.commands = p.commands /\ q.mcp = p.mcp
        /\ q.ci = p.ci
    BY <2>2 DEF SameBut, ProjectFields
  <2>4. WellMade(q) /\ Kept(p, q, TRUE)
    BY <2>2, <2>3 DEF WellMade, Kept
  <2> QED
    BY <2>4 DEF q
<1> QED
  BY <1>2, <1>3

LEMMA FilesBootstrapped ==
  ASSUME NEW p, WellMade(p)
  PROVE  WellMade(BootstrapAgentFiles(p)) /\ Kept(p, BootstrapAgentFiles(p), TRUE)
<1> DEFINE p1 == generate_agents_md(p)
           p2 == setup_mcp_auto(p1)
           p3 == setup_rules_auto(p2)
<1>1. BootstrapAgentFiles(p) = p3
  BY DEF BootstrapAgentFiles
<1>2. WellMade(p1) /\ Kept(p, p1, TRUE)
  BY AgentsWritten
<1> HIDE DEF p1
<1>3. WellMade(p2) /\ Kept(p1, p2, TRUE)
  BY <1>2, McpAutoSetUp
<1> HIDE DEF p2
<1>4. WellMade(p3) /\ Kept(p2, p3, TRUE)
  BY <1>3, RulesWritten
<1> HIDE DEF p3
<1>5. Kept(p, p2, TRUE)
  BY <1>2, <1>3, KeptOn
<1>6. Kept(p, p3, TRUE)
  BY <1>4, <1>5, KeptOn
<1> QED
  BY <1>1, <1>4, <1>6

LEMMA InitRuns ==
  ASSUME NEW p, WellMade(p), NEW force \in BOOLEAN
  PROVE  /\ WellMade(non_interactive_init(p, force))
         /\ ~force => Kept(p, non_interactive_init(p, force), TRUE)
<1> DEFINE absent == [kind |-> "absent"]
           q == [[p EXCEPT !.agents_md = None] EXCEPT !.flow = absent]
<1>1. CASE (p.agents_md # None \/ p.flow.kind # "absent") /\ ~force
  <2>1. non_interactive_init(p, force) = p
    BY <1>1 DEF non_interactive_init
  <2> QED
    BY <2>1, KeptBySame
<1>2. CASE ~((p.agents_md # None \/ p.flow.kind # "absent") /\ ~force)
  <2>1. non_interactive_init(p, force) = BootstrapAgentFiles(q)
    BY <1>2 DEF non_interactive_init
  <2>2. absent.kind = "absent"
    OBVIOUS
  <2> HIDE DEF absent
  <2>3. /\ SameBut(p, q, {"agents_md", "flow"}) /\ q.agents_md = None /\ q.flow = absent
        /\ DOMAIN q = ProjectFields
    BY DEF SameBut, ProjectFields, WellMade
  <2> HIDE DEF q
  <2>4. /\ q.claude_md = p.claude_md /\ q.rules = p.rules /\ q.roles = p.roles
        /\ q.commands = p.commands /\ q.mcp = p.mcp /\ q.ci = p.ci
    BY <2>3 DEF SameBut, ProjectFields
  <2>5. WellMade(q)
    BY <2>2, <2>3, <2>4 DEF WellMade
  <2>6. ~force => Kept(p, q, TRUE)
    BY <1>2, <2>4 DEF Kept
  <2>7. WellMade(BootstrapAgentFiles(q)) /\ Kept(q, BootstrapAgentFiles(q), TRUE)
    BY <2>5, FilesBootstrapped
  <2> QED
    BY <2>1, <2>6, <2>7, KeptOn
<1> QED
  BY <1>1, <1>2

LEMMA StepKeeps ==
  ASSUME NEW p, WellMade(p), NEW k, NEW j \in {1, 2, 3, 4, 5}
  PROVE  WellMade(At(k, j, p)) /\ Kept(p, At(k, j, p), FALSE)
<1>1. WellMade(FixStep(1, p)) /\ Kept(p, FixStep(1, p), FALSE)
  BY Refreshed, StepsAre
<1>2. WellMade(FixStep(2, p)) /\ Kept(p, FixStep(2, p), FALSE)
  BY AgentsWritten, StepsAre
<1>3. WellMade(FixStep(3, p)) /\ Kept(p, FixStep(3, p), FALSE)
  BY RulesWritten, StepsAre
<1>4. WellMade(FixStep(4, p)) /\ Kept(p, FixStep(4, p), FALSE)
  BY VendoredRestored, StepsAre
<1>5. WellMade(FixStep(5, p)) /\ Kept(p, FixStep(5, p), FALSE)
  <2> DEFINE q == refresh_composed_adapters(p)
  <2>1. WellMade(q) /\ \A c : Kept(p, q, c)
    BY ComposedWritten
  <2>2. FixStep(5, p) = q
    BY StepsAre
  <2> HIDE DEF q
  <2> QED
    BY <2>1, <2>2
<1>6. WellMade(FixStep(j, p)) /\ Kept(p, FixStep(j, p), FALSE)
  BY <1>1, <1>2, <1>3, <1>4, <1>5
<1>7. At(k, j, p) = p \/ At(k, j, p) = FixStep(j, p)
  BY DEF At
<1> QED
  BY <1>6, <1>7, KeptBySame

LEMMA FixRuns ==
  ASSUME NEW p, WellMade(p), NEW k
  PROVE  WellMade(Fix(k, p)) /\ Kept(p, Fix(k, p), FALSE)
<1> DEFINE p1 == At(k, 1, p)
           p2 == At(k, 2, p1)
           p3 == At(k, 3, p2)
           p4 == At(k, 4, p3)
           p5 == At(k, 5, p4)
<1>2. Fix(k, p) = p5
  BY FixSteps
<1>3. WellMade(p1) /\ Kept(p, p1, FALSE)
  BY StepKeeps
<1> HIDE DEF p1
<1>4. WellMade(p2) /\ Kept(p1, p2, FALSE)
  BY StepKeeps, <1>3
<1> HIDE DEF p2
<1>5. WellMade(p3) /\ Kept(p2, p3, FALSE)
  BY StepKeeps, <1>4
<1> HIDE DEF p3
<1>6. WellMade(p4) /\ Kept(p3, p4, FALSE)
  BY StepKeeps, <1>5
<1> HIDE DEF p4
<1>7. WellMade(p5) /\ Kept(p4, p5, FALSE)
  BY StepKeeps, <1>6
<1> HIDE DEF p5
<1>8. Kept(p, p2, FALSE)
  BY <1>3, <1>4, KeptOn
<1>9. Kept(p, p3, FALSE)
  BY <1>5, <1>8, KeptOn
<1>10. Kept(p, p4, FALSE)
  BY <1>6, <1>9, KeptOn
<1>11. Kept(p, p5, FALSE)
  BY <1>7, <1>10, KeptOn
<1> QED
  BY <1>2, <1>7, <1>11

(* Users, and the invariant. *)

LEMMA DriftAlike ==
  ASSUME NEW p, NEW q,
         q.release = p.release, q.facts = p.facts, q.flow = p.flow, q.roles = p.roles,
         q.commands = p.commands, (q.agents_md = None) <=> (p.agents_md = None),
         p.agents_md # None => q.agents_md.text = p.agents_md.text,
         HasSection(q) <=> HasSection(p), HasSection(p) => q.claude_md.info = p.claude_md.info,
         \A ide \in IDEs : \/ q.rules[ide] = p.rules[ide]
                           \/ /\ ~_is_beadloom_adapter(q.rules[ide])
                              /\ ~_is_beadloom_adapter(p.rules[ide])
  PROVE  check_config_drift(q) = check_config_drift(p)
<1>1. _agents_md_drift(q) = _agents_md_drift(p)
  BY DEF _agents_md_drift, _agents_auto_region, build_agents_md_content
<1>2. _claude_md_drift(q) = _claude_md_drift(p)
  BY DEF _claude_md_drift, StaleSections, _render_project_info_section
<1>3. _adapter_drifts(q) = _adapter_drifts(p)
  <2>1. _RULES_ADAPTER_TEMPLATE(q) = _RULES_ADAPTER_TEMPLATE(p)
    BY DEF _RULES_ADAPTER_TEMPLATE
  <2>2. {i \in IDEs : _is_beadloom_adapter(q.rules[i]) /\ q.rules[i] # _RULES_ADAPTER_TEMPLATE(q)}
        = {i \in IDEs : _is_beadloom_adapter(p.rules[i]) /\ p.rules[i] # _RULES_ADAPTER_TEMPLATE(p)}
    BY <2>1
  <2> QED
    BY <2>2 DEF _adapter_drifts
<1>4. _agentic_flow_drifts(q) = _agentic_flow_drifts(p)
  BY DEF _agentic_flow_drifts, _agentic_flow_scaffolded
<1>5. _flow_config_drift(q) = _flow_config_drift(p)
  BY DEF _flow_config_drift
<1>6. _composed_adapter_drifts(q) = _composed_adapter_drifts(p)
  BY DEF _composed_adapter_drifts, compose_role
<1> QED
  BY <1>1, <1>2, <1>3, <1>4, <1>5, <1>6 DEF check_config_drift

LEMMA ProseWritten ==
  ASSUME WellMade(project), WritesProse
  PROVE  WellMade(project') /\ check_config_drift(project') = check_config_drift(project)
<1> DEFINE p == project
           q == project'
<1>1. CASE p.agents_md # None /\ Acts("prose", [p EXCEPT !.agents_md.custom = Untrimmed])
  <2> DEFINE md == [p.agents_md EXCEPT !.custom = Untrimmed]
  <2>1. q = [p EXCEPT !.agents_md = md]
    BY <1>1 DEF Acts
  <2>2. DOMAIN md = {"text", "custom"} /\ md.text = p.agents_md.text
    BY <1>1 DEF WellMade
  <2>3. md # None
    BY <2>2 DEF None
  <2> HIDE DEF md
  <2>4. SameBut(p, q, {"agents_md"}) /\ q.agents_md = md /\ DOMAIN q = ProjectFields
    BY <2>1 DEF SameBut, ProjectFields, WellMade
  <2>5. /\ q.flow = p.flow /\ q.claude_md = p.claude_md /\ q.release = p.release /\ q.facts = p.facts
        /\ q.rules = p.rules /\ q.roles = p.roles /\ q.commands = p.commands /\ q.mcp = p.mcp
        /\ q.ci = p.ci
    BY <2>4 DEF SameBut, ProjectFields
  <2> HIDE DEF p, q
  <2>6. WellMade(q)
    BY <2>2, <2>4, <2>5 DEF WellMade, p
  <2>7. HasSection(q) <=> HasSection(p)
    BY <2>5 DEF HasSection
  <2>8. check_config_drift(q) = check_config_drift(p)
    BY <1>1, <2>2, <2>3, <2>4, <2>5, <2>7, DriftAlike
  <2> QED
    BY <2>6, <2>8 DEF p, q
<1>2. CASE p.claude_md # None /\ Acts("prose", [p EXCEPT !.claude_md.prose = User])
  <2> DEFINE md == [p.claude_md EXCEPT !.prose = User]
  <2>1. q = [p EXCEPT !.claude_md = md]
    BY <1>2 DEF Acts
  <2>2. /\ DOMAIN md = {"section", "info", "prose"}
        /\ md.section = p.claude_md.section /\ md.info = p.claude_md.info
    BY <1>2 DEF WellMade
  <2>3. md # None
    BY <2>2 DEF None
  <2> HIDE DEF md
  <2>4. SameBut(p, q, {"claude_md"}) /\ q.claude_md = md /\ DOMAIN q = ProjectFields
    BY <2>1 DEF SameBut, ProjectFields, WellMade
  <2>5. /\ q.flow = p.flow /\ q.agents_md = p.agents_md /\ q.release = p.release /\ q.facts = p.facts
        /\ q.rules = p.rules /\ q.roles = p.roles /\ q.commands = p.commands /\ q.mcp = p.mcp
        /\ q.ci = p.ci
    BY <2>4 DEF SameBut, ProjectFields
  <2> HIDE DEF p, q
  <2>6. WellMade(q)
    BY <2>2, <2>4, <2>5 DEF WellMade, p
  <2>7. HasSection(q) <=> HasSection(p)
    BY <1>2, <2>2, <2>3, <2>4 DEF HasSection
  <2>8. check_config_drift(q) = check_config_drift(p)
    BY <2>2, <2>4, <2>5, <2>7, DriftAlike
  <2> QED
    BY <2>6, <2>8 DEF p, q
<1>3. CASE p.claude_md = None /\ \E s \in {"none", "unclosed"} :
             Acts("prose", [p EXCEPT !.claude_md = [section |-> s, info |-> None, prose |-> User]])
  <2> PICK s \in {"none", "unclosed"} :
             Acts("prose", [p EXCEPT !.claude_md = [section |-> s, info |-> None, prose |-> User]])
    BY <1>3
  <2> DEFINE md == [section |-> s, info |-> None, prose |-> User]
  <2>1. q = [p EXCEPT !.claude_md = md]
    BY DEF Acts
  <2>2. DOMAIN md = {"section", "info", "prose"} /\ md.section \notin {"marked", "heading"}
    OBVIOUS
  <2> HIDE DEF md
  <2>4. SameBut(p, q, {"claude_md"}) /\ q.claude_md = md /\ DOMAIN q = ProjectFields
    BY <2>1 DEF SameBut, ProjectFields, WellMade
  <2>5. /\ q.flow = p.flow /\ q.agents_md = p.agents_md /\ q.release = p.release /\ q.facts = p.facts
        /\ q.rules = p.rules /\ q.roles = p.roles /\ q.commands = p.commands /\ q.mcp = p.mcp
        /\ q.ci = p.ci
    BY <2>4 DEF SameBut, ProjectFields
  <2> HIDE DEF p, q
  <2>6. WellMade(q)
    BY <2>2, <2>4, <2>5 DEF WellMade, p
  <2>7. ~HasSection(q) /\ ~HasSection(p)
    BY <1>3, <2>2, <2>4 DEF HasSection
  <2>8. check_config_drift(q) = check_config_drift(p)
    BY <2>4, <2>5, <2>7, DriftAlike
  <2> QED
    BY <2>6, <2>8 DEF p, q
<1>4. CASE \E ide \in IDEs : p.rules[ide] = None /\ Acts("prose", [p EXCEPT !.rules[ide] = User])
  <2> PICK ide \in IDEs : p.rules[ide] = None /\ Acts("prose", [p EXCEPT !.rules[ide] = User])
    BY <1>4
  <2> DEFINE rules == [p.rules EXCEPT ![ide] = User]
  <2>1. q = [p EXCEPT !.rules = rules]
    BY DEF Acts
  <2>2. /\ DOMAIN rules = IDEs /\ rules[ide] = User /\ p.rules[ide] = None
        /\ \A i \in IDEs : i = ide \/ rules[i] = p.rules[i]
    BY DEF WellMade
  <2> HIDE DEF rules
  <2>4. SameBut(p, q, {"rules"}) /\ q.rules = rules /\ DOMAIN q = ProjectFields
    BY <2>1 DEF SameBut, ProjectFields, WellMade
  <2>5. /\ q.flow = p.flow /\ q.agents_md = p.agents_md /\ q.release = p.release /\ q.facts = p.facts
        /\ q.claude_md = p.claude_md /\ q.roles = p.roles /\ q.commands = p.commands /\ q.mcp = p.mcp
        /\ q.ci = p.ci
    BY <2>4 DEF SameBut, ProjectFields
  <2> HIDE DEF p, q
  <2>6. WellMade(q)
    BY <2>2, <2>4, <2>5 DEF WellMade, p
  <2>7. HasSection(q) <=> HasSection(p)
    BY <2>5 DEF HasSection
  <2>8. ~_is_beadloom_adapter(User) /\ ~_is_beadloom_adapter(None)
    BY DEF _is_beadloom_adapter, User, None
  <2>9. \A i \in IDEs : \/ q.rules[i] = p.rules[i]
                        \/ ~_is_beadloom_adapter(q.rules[i]) /\ ~_is_beadloom_adapter(p.rules[i])
    BY <2>2, <2>4, <2>8
  <2>10. check_config_drift(q) = check_config_drift(p)
    BY <2>5, <2>7, <2>9, DriftAlike
  <2> QED
    BY <2>6, <2>10 DEF p, q
<1>5. CASE \E e \in Editors : Acts("prose", [p EXCEPT !.mcp[e].others = TRUE, !.mcp[e].there = TRUE])
  <2> PICK e \in Editors : Acts("prose", [p EXCEPT !.mcp[e].others = TRUE, !.mcp[e].there = TRUE])
    BY <1>5
  <2> DEFINE entry == [[p.mcp[e] EXCEPT !.others = TRUE] EXCEPT !.there = TRUE]
             mcp == [p.mcp EXCEPT ![e] = entry]
  <2>1. q = [p EXCEPT !.mcp = mcp]
    BY DEF Acts, WellMade, ProjectFields
  <2>2. DOMAIN entry = {"there", "ours", "others"}
    BY DEF WellMade
  <2> HIDE DEF entry
  <2>3. DOMAIN mcp = Editors /\ \A i \in Editors : DOMAIN mcp[i] = {"there", "ours", "others"}
    BY <2>2 DEF WellMade
  <2> HIDE DEF mcp
  <2>4. SameBut(p, q, {"mcp"}) /\ q.mcp = mcp /\ DOMAIN q = ProjectFields
    BY <2>1 DEF SameBut, ProjectFields, WellMade
  <2>5. /\ q.flow = p.flow /\ q.agents_md = p.agents_md /\ q.release = p.release /\ q.facts = p.facts
        /\ q.claude_md = p.claude_md /\ q.roles = p.roles /\ q.commands = p.commands
        /\ q.rules = p.rules /\ q.ci = p.ci
    BY <2>4 DEF SameBut, ProjectFields
  <2> HIDE DEF p, q
  <2>6. WellMade(q)
    BY <2>3, <2>4, <2>5 DEF WellMade, p
  <2>7. HasSection(q) <=> HasSection(p)
    BY <2>5 DEF HasSection
  <2>8. check_config_drift(q) = check_config_drift(p)
    BY <2>5, <2>7, DriftAlike
  <2> QED
    BY <2>6, <2>8 DEF p, q
<1>6. CASE Acts("prose", [p EXCEPT !.ci.stages = TRUE])
  <2> DEFINE ci == [p.ci EXCEPT !.stages = TRUE]
  <2>1. q = [p EXCEPT !.ci = ci]
    BY <1>6 DEF Acts
  <2>2. DOMAIN ci = {"stages", "job"}
    BY DEF WellMade
  <2> HIDE DEF ci
  <2>4. SameBut(p, q, {"ci"}) /\ q.ci = ci /\ DOMAIN q = ProjectFields
    BY <2>1 DEF SameBut, ProjectFields, WellMade
  <2>5. /\ q.flow = p.flow /\ q.agents_md = p.agents_md /\ q.release = p.release /\ q.facts = p.facts
        /\ q.claude_md = p.claude_md /\ q.roles = p.roles /\ q.commands = p.commands
        /\ q.rules = p.rules /\ q.mcp = p.mcp
    BY <2>4 DEF SameBut, ProjectFields
  <2> HIDE DEF p, q
  <2>6. WellMade(q)
    BY <2>2, <2>4, <2>5 DEF WellMade, p
  <2>7. HasSection(q) <=> HasSection(p)
    BY <2>5 DEF HasSection
  <2>8. check_config_drift(q) = check_config_drift(p)
    BY <2>5, <2>7, DriftAlike
  <2> QED
    BY <2>6, <2>8 DEF p, q
<1> QED
  BY <1>1, <1>2, <1>3, <1>4, <1>5, <1>6 DEF WritesProse

LEMMA UserWritten ==
  ASSUME WellMade(project), ChangesGenerated \/ WritesFlow \/ FactsChange \/ Upgrade
  PROVE  WellMade(project')
<1> DEFINE p == project
           q == project'
<1>1. CASE p.agents_md # None /\ Acts("user", [p EXCEPT !.agents_md.text = User])
  <2> DEFINE md == [p.agents_md EXCEPT !.text = User]
  <2>1. q = [p EXCEPT !.agents_md = md]
    BY <1>1 DEF Acts
  <2>2. DOMAIN md = {"text", "custom"}
    BY <1>1 DEF WellMade
  <2> HIDE DEF md
  <2> QED
    BY <2>1, <2>2 DEF WellMade, ProjectFields
<1>2. CASE HasSection(p) /\ Acts("user", [p EXCEPT !.claude_md.info = User])
  <2> DEFINE md == [p.claude_md EXCEPT !.info = User]
  <2>1. q = [p EXCEPT !.claude_md = md]
    BY <1>2 DEF Acts
  <2>2. DOMAIN md = {"section", "info", "prose"}
    BY <1>2 DEF WellMade, HasSection
  <2> HIDE DEF md
  <2> QED
    BY <2>1, <2>2 DEF WellMade, ProjectFields
<1>3. CASE \E ide \in IDEs, t \in {None, UserNames} : Acts("user", [p EXCEPT !.rules[ide] = t])
  <2> PICK ide \in IDEs, t \in {None, UserNames} : Acts("user", [p EXCEPT !.rules[ide] = t])
    BY <1>3
  <2> DEFINE rules == [p.rules EXCEPT ![ide] = t]
  <2>1. q = [p EXCEPT !.rules = rules]
    BY DEF Acts
  <2>2. DOMAIN rules = IDEs
    BY DEF WellMade
  <2> HIDE DEF rules
  <2> QED
    BY <2>1, <2>2 DEF WellMade, ProjectFields
<1>4. CASE \E t \in Tools, r \in Roles, x \in {None, User} : Acts("user", [p EXCEPT !.roles[t][r] = x])
  <2> PICK t \in Tools, r \in Roles, x \in {None, User} : Acts("user", [p EXCEPT !.roles[t][r] = x])
    BY <1>4
  <2> DEFINE files == [p.roles[t] EXCEPT ![r] = x]
             roles == [p.roles EXCEPT ![t] = files]
  <2>1. q = [p EXCEPT !.roles = roles]
    BY DEF Acts
  <2>2. DOMAIN files = Roles
    BY DEF WellMade
  <2> HIDE DEF files
  <2>3. DOMAIN roles = Tools /\ \A u \in Tools : DOMAIN roles[u] = Roles
    BY <2>2 DEF WellMade
  <2> HIDE DEF roles
  <2> QED
    BY <2>1, <2>3 DEF WellMade, ProjectFields
<1>5. CASE \E c \in Commands, x \in {None, User} : Acts("user", [p EXCEPT !.commands[c] = x])
  <2> PICK c \in Commands, x \in {None, User} : Acts("user", [p EXCEPT !.commands[c] = x])
    BY <1>5
  <2> DEFINE commands == [p.commands EXCEPT ![c] = x]
  <2>1. q = [p EXCEPT !.commands = commands]
    BY DEF Acts
  <2>2. DOMAIN commands = Commands
    BY DEF WellMade
  <2> HIDE DEF commands
  <2> QED
    BY <2>1, <2>2 DEF WellMade, ProjectFields
<1>6. CASE Acts("user", [p EXCEPT !.pointer = User])
  BY <1>6 DEF Acts, WellMade, ProjectFields
<1>7. CASE Acts("user", [p EXCEPT !.cursor_dir = FALSE, !.pointer = None,
                                  !.roles["cursor"] = [r \in Roles |-> None]])
  <2> DEFINE files == [r \in Roles |-> None]
             roles == [p.roles EXCEPT !["cursor"] = files]
  <2>1. q = [[[p EXCEPT !.cursor_dir = FALSE] EXCEPT !.pointer = None] EXCEPT !.roles = roles]
    BY <1>7 DEF Acts, WellMade, ProjectFields
  <2>2. DOMAIN files = Roles
    OBVIOUS
  <2> HIDE DEF files
  <2>3. DOMAIN roles = Tools /\ \A u \in Tools : DOMAIN roles[u] = Roles
    BY <2>2 DEF WellMade
  <2> HIDE DEF roles
  <2>4. SameBut(p, q, {"cursor_dir", "pointer", "roles"}) /\ q.roles = roles /\ DOMAIN q = ProjectFields
    BY <2>1 DEF SameBut, ProjectFields, WellMade
  <2>5. /\ q.flow = p.flow /\ q.agents_md = p.agents_md /\ q.claude_md = p.claude_md
        /\ q.commands = p.commands /\ q.rules = p.rules /\ q.mcp = p.mcp /\ q.ci = p.ci
    BY <2>4 DEF SameBut, ProjectFields
  <2> HIDE DEF q
  <2>6. WellMade(q)
    BY <2>3, <2>4, <2>5 DEF WellMade
  <2> QED
    BY <2>6 DEF q
<1>8. CASE ChangesGenerated
  BY <1>1, <1>2, <1>3, <1>4, <1>5, <1>6, <1>7, <1>8 DEF ChangesGenerated
<1>9. CASE WritesFlow
  <2>1. PICK written : /\ written.kind = "valid" => written.tools \subseteq Tools
                    /\ q = [p EXCEPT !.flow = written]
    <3>1. CASE Acts("user", [p EXCEPT !.flow = [kind |-> "absent"]])
      BY <3>1 DEF Acts
    <3>2. CASE \E tools \in SUBSET Tools, arch \in Archs, stack \in {{"python"}, {"typescript"}} :
                 Acts("user", [p EXCEPT !.flow = build_flow_config(tools, arch, stack)])
      <4> PICK tools \in SUBSET Tools, arch \in Archs, stack \in {{"python"}, {"typescript"}} :
                 Acts("user", [p EXCEPT !.flow = build_flow_config(tools, arch, stack)])
        BY <3>2
      <4> DEFINE written == build_flow_config(tools, arch, stack)
      <4>1. written.kind = "valid" => written.tools \subseteq Tools
        BY DEF build_flow_config
      <4>2. q = [p EXCEPT !.flow = written]
        BY DEF Acts
      <4> HIDE DEF written
      <4> QED
        BY <4>1, <4>2
    <3> QED
      BY <1>9, <3>1, <3>2 DEF WritesFlow
  <2> QED
    BY <2>1 DEF WellMade, ProjectFields
<1>10. CASE FactsChange
  <2> DEFINE facts == p.facts + 1
  <2>1. q = [p EXCEPT !.facts = facts]
    BY <1>10 DEF FactsChange, Acts
  <2> HIDE DEF facts
  <2> QED
    BY <2>1 DEF WellMade, ProjectFields
<1>11. CASE Upgrade
  <2> DEFINE release == p.release + 1
  <2>1. q = [p EXCEPT !.release = release]
    BY <1>11 DEF Upgrade, Acts
  <2> HIDE DEF release
  <2> QED
    BY <2>1 DEF WellMade, ProjectFields
<1> QED
  BY <1>8, <1>9, <1>10, <1>11

LEMMA ProjectStarts == AgentInit => WellMade(project)
<1> SUFFICES ASSUME AgentInit PROVE WellMade(project)
  OBVIOUS
<1>1. PICK s \in {"none", "heading"}, cursor \in BOOLEAN :
        LET new == [Fresh({"python"}) EXCEPT !.cursor_dir = cursor]
            prose == [new EXCEPT !.claude_md = [section |-> s, info |-> User, prose |-> User]]
        IN  project \in {new, prose,
                         setup_agentic_flow(BootstrapAgentFiles(new), NoFlags, FALSE)}
  BY DEF AgentInit
<1> DEFINE new == [Fresh({"python"}) EXCEPT !.cursor_dir = cursor]
           md == [section |-> s, info |-> User, prose |-> User]
           prose == [new EXCEPT !.claude_md = md]
<1>2. WellMade(Fresh({"python"}))
  BY DEF Fresh, WellMade, ProjectFields
<1>3. WellMade(new)
  BY <1>2 DEF WellMade, ProjectFields
<1>4. DOMAIN md = {"section", "info", "prose"}
  OBVIOUS
<1>5. project \in {new, prose, setup_agentic_flow(BootstrapAgentFiles(new), NoFlags, FALSE)}
  BY <1>1
<1> HIDE DEF new, md
<1>6. WellMade(prose)
  BY <1>3, <1>4 DEF WellMade, ProjectFields
<1>7. WellMade(BootstrapAgentFiles(new))
  BY <1>3, FilesBootstrapped
<1>8. WellMade(setup_agentic_flow(BootstrapAgentFiles(new), NoFlags, FALSE))
  BY <1>7, FlowSetUp
<1> QED
  BY <1>3, <1>5, <1>6, <1>8

\* Commands keep what users wrote beside the generated text, unless they are forced.
LEMMA CommandsRun ==
  ASSUME WellMade(project),
         ConfigCheckFix \/ SetupAgenticFlow \/ SetupRules \/ SetupMcp \/ SetupAiTechwriter \/ Init_
  PROVE  /\ WellMade(project') /\ last' # "prose"
         /\ last' \in {"fix", "cut", "flow", "command"} =>
              Kept(project, project', last' \in {"flow", "command"})
<1>1. CASE ConfigCheckFix
  <2> PICK k \in 0 .. 5 : Runs(IF k = 5 THEN "fix" ELSE "cut", Fix(k, project))
    BY <1>1 DEF ConfigCheckFix
  <2>1. project' = Fix(k, project) /\ last' \in {"fix", "cut"}
    BY DEF Runs
  <2>2. WellMade(Fix(k, project)) /\ Kept(project, Fix(k, project), FALSE)
    BY FixRuns
  <2>3. (last' \in {"flow", "command"}) = FALSE
    BY <2>1
  <2> QED
    BY <2>1, <2>2, <2>3
<1>2. CASE SetupAgenticFlow
  <2> PICK flags \in [tools: SUBSET Tools, arch: {"none", "fsd"}, stack: {{}, {"typescript"}}],
           force \in BOOLEAN :
             Runs(IF force THEN "force" ELSE "flow", setup_agentic_flow(project, flags, force))
    BY <1>2 DEF SetupAgenticFlow
  <2>1. project' = setup_agentic_flow(project, flags, force) /\ last' = IF force THEN "force" ELSE "flow"
    BY DEF Runs
  <2>2. /\ WellMade(setup_agentic_flow(project, flags, force))
        /\ ~force => Kept(project, setup_agentic_flow(project, flags, force), TRUE)
    BY FlowSetUp
  <2>3. CASE force
    BY <2>1, <2>2, <2>3
  <2>4. CASE ~force
    <3>1. (last' \in {"flow", "command"}) = TRUE /\ last' = "flow"
      BY <2>1, <2>4
    <3> QED
      BY <2>1, <2>2, <2>4, <3>1
  <2> QED
    BY <2>3, <2>4
<1>3. CASE SetupRules
  <2> PICK ide \in IDEs \cup {"auto"}, refresh \in BOOLEAN :
             Runs("command", setup_rules(project, ide, refresh))
    BY <1>3 DEF SetupRules
  <2>1. project' = setup_rules(project, ide, refresh) /\ last' = "command"
    BY DEF Runs
  <2>2. WellMade(project') /\ Kept(project, project', TRUE)
    BY <2>1, RulesSetUp
  <2>3. (last' \in {"flow", "command"}) = TRUE
    BY <2>1
  <2> QED
    BY <2>1, <2>2, <2>3
<1>4. CASE SetupMcp
  <2> PICK editor \in Editors, remove \in BOOLEAN : Runs("command", setup_mcp(project, editor, remove))
    BY <1>4 DEF SetupMcp
  <2>1. project' = setup_mcp(project, editor, remove) /\ last' = "command"
    BY DEF Runs
  <2>2. WellMade(project') /\ Kept(project, project', TRUE)
    BY <2>1, McpSetUp
  <2>3. (last' \in {"flow", "command"}) = TRUE
    BY <2>1
  <2> QED
    BY <2>1, <2>2, <2>3
<1>5. CASE SetupAiTechwriter
  <2> PICK platform \in {"github", "gitlab"} : Runs("command", setup_ai_techwriter(project, platform))
    BY <1>5 DEF SetupAiTechwriter
  <2>1. project' = setup_ai_techwriter(project, platform) /\ last' = "command"
    BY DEF Runs
  <2>2. WellMade(project') /\ Kept(project, project', TRUE)
    BY <2>1, TechwriterSetUp
  <2>3. (last' \in {"flow", "command"}) = TRUE
    BY <2>1
  <2> QED
    BY <2>1, <2>2, <2>3
<1>6. CASE Runs("command", BootstrapAgentFiles(project))
  <2>1. project' = BootstrapAgentFiles(project) /\ last' = "command"
    BY <1>6 DEF Runs
  <2>2. WellMade(project') /\ Kept(project, project', TRUE)
    BY <2>1, FilesBootstrapped
  <2>3. (last' \in {"flow", "command"}) = TRUE
    BY <2>1
  <2> QED
    BY <2>1, <2>2, <2>3
<1>7. CASE \E force \in BOOLEAN : Runs(IF force THEN "force" ELSE "command",
                                         non_interactive_init(project, force))
  <2> PICK force \in BOOLEAN : Runs(IF force THEN "force" ELSE "command",
                                    non_interactive_init(project, force))
    BY <1>7
  <2>1. project' = non_interactive_init(project, force) /\ last' = IF force THEN "force" ELSE "command"
    BY DEF Runs
  <2>2. /\ WellMade(non_interactive_init(project, force))
        /\ ~force => Kept(project, non_interactive_init(project, force), TRUE)
    BY InitRuns
  <2>3. CASE force
    BY <2>1, <2>2, <2>3
  <2>4. CASE ~force
    <3>1. (last' \in {"flow", "command"}) = TRUE /\ last' = "command"
      BY <2>1, <2>4
    <3> QED
      BY <2>1, <2>2, <2>4, <3>1
  <2> QED
    BY <2>3, <2>4
<1> QED
  BY <1>1, <1>2, <1>3, <1>4, <1>5, <1>6, <1>7 DEF Init_

LEMMA ProjectMade == AgentInit /\ [][AgentNext]_avars => []WellMade(project)
<1>1. ASSUME WellMade(project), [AgentNext]_avars PROVE WellMade(project')
  <2>1. CASE UNCHANGED avars
    BY <1>1, <2>1 DEF avars
  <2>2. CASE WritesProse
    BY <1>1, <2>2, ProseWritten
  <2>3. CASE ChangesGenerated \/ WritesFlow \/ FactsChange \/ Upgrade
    BY <1>1, <2>3, UserWritten
  <2>4. CASE ConfigCheckFix \/ SetupAgenticFlow \/ SetupRules \/ SetupMcp \/ SetupAiTechwriter \/ Init_
    BY <1>1, <2>4, CommandsRun
  <2> QED
    BY <1>1, <2>1, <2>2, <2>3, <2>4 DEF AgentNext
<1>2. WellMade(project)' <=> WellMade(project')
  OBVIOUS
<1> QED
  BY <1>1, <1>2, ProjectStarts, PTL

(* After two fixes nothing drifts that --fix owns (config_sync.py), for any *)
(* roles, commands, releases and history of edits, commands and kills.      *)
THEOREM FixAlwaysConverges == AgentInit /\ [][AgentNext]_avars => []FixConverges
<1>1. WellMade(project) => FixConverges
  <2> SUFFICES ASSUME WellMade(project) PROVE FixConverges
    OBVIOUS
  <2> DEFINE p == Fix(5, project)
             q == Fix(5, p)
  <2>1. FixedOnce(project, p)
    BY FixedOnceIs
  <2>2. WellMade(p)
    BY <2>1 DEF FixedOnce
  <2>3. FixedOnce(p, q)
    BY <2>2, FixedOnceIs
  <2>4. check_config_drift(q) \subseteq
           (IF q.flow.kind = "invalid" THEN {<<"flow.yml">>} ELSE {})
             \cup (IF q.cursor_dir THEN {} ELSE {<<"rules", "cursor">>})
    BY <2>1, <2>3, FixedTwice
  <2> QED
    BY <2>4 DEF FixConverges
<1> QED
  BY <1>1, ProjectMade, PTL

(* No command without --force, and no --fix cut between two writes, changes *)
(* what users wrote beside the generated text, and writing it never trips   *)
(* config-check. A kill in the middle of one write is not covered.          *)
THEOREM ProseAlwaysSafe == AgentInit /\ [][AgentNext]_avars => ProseIsSafe
<1> DEFINE Safe == /\ last' \in {"fix", "cut", "flow", "command"} =>
                        Kept(project, project', last' \in {"flow", "command"})
                   /\ last' = "prose" => check_config_drift(project') = check_config_drift(project)
<1>1. ASSUME WellMade(project), AgentNext PROVE Safe
  <2>1. CASE WritesProse
    <3>1. last' = "prose"
      BY <2>1 DEF WritesProse, Acts
    <3> QED
      BY <1>1, <2>1, <3>1, ProseWritten
  <2>2. CASE ChangesGenerated \/ WritesFlow \/ FactsChange \/ Upgrade
    <3>1. last' = "user"
      BY <2>2 DEF ChangesGenerated, WritesFlow, FactsChange, Upgrade, Acts
    <3> QED
      BY <3>1
  <2>3. CASE ConfigCheckFix \/ SetupAgenticFlow \/ SetupRules \/ SetupMcp \/ SetupAiTechwriter \/ Init_
    BY <1>1, <2>3, CommandsRun
  <2> QED
    BY <1>1, <2>1, <2>2, <2>3 DEF AgentNext
<1>2. WellMade(project) /\ [AgentNext]_avars => [Safe]_avars
  BY <1>1
<1> QED
  BY <1>2, ProjectMade, PTL DEF ProseIsSafe

-----------------------------------------------------------------------------
(* Bounded walks.  The walk goes level by level: what it has collected is  *)
(* at most one level beyond the queue, and whoever is off the queue has    *)
(* had all neighbours looked at, or was cut short when the cap was hit.    *)

Collected == DOMAIN level
Queued == {queue[i] : i \in 1..Len(queue)}
Roots == {n \in Collected : level[n] = 0}
Around(n) == _get_neighbors(n, leg)

ReadsTyped ==
  /\ edges \in EdgeSets /\ ask \in Questions
  /\ leg \in {"asked", "refused", "answered", "both", "upstream", "downstream"}
  /\ leg \in {"upstream", "downstream"} => Range(ask.focus) \subseteq Nodes

WalkShape ==
  /\ Collected = visited \cap Nodes /\ queue \in Seq(Collected)
  /\ seeds \in Seq(Range(ask.focus))
  /\ \A n \in Collected : level[n] \in 0..Depth
  /\ seeds # <<>> => pending = {} /\ \A n \in Collected : level[n] = 0 /\ n \in Queued
  /\ pending # {} => /\ current \in Collected /\ level[current] < Depth
                     /\ pending \subseteq Around(current)

WalkRooted ==
  /\ Roots \subseteq Range(ask.focus)
  /\ \A n \in Range(ask.focus) \cap Nodes : n \in Roots \/ Full \/ n \in Range(seeds)

WalkTree ==
  /\ \A n \in DOMAIN parent : /\ n \in Collected /\ parent[n] \in Collected
                              /\ level[n] = level[parent[n]] + 1 /\ Joined(parent[n], n, leg)
  /\ \A n \in Collected : Near(Roots, n, level[n], leg)

WalkOrder ==
  /\ \A i, j \in 1..Len(queue) : i <= j => level[queue[i]] <= level[queue[j]]
  /\ \A n \in Collected : \A i \in 1..Len(queue) : level[n] <= level[queue[i]] + 1
  /\ pending # {} => /\ \A n \in Collected : level[n] <= level[current] + 1
                     /\ \A i \in 1..Len(queue) : level[current] <= level[queue[i]]

LookedAt(n, rows) ==
  \A p \in rows : /\ p[1] \in Collected /\ level[p[1]] <= level[n] + 1
                  /\ leg = "both" => p[2] \in shown
CutShort(n) ==
  /\ Full /\ \E p \in Around(n) : p[1] \notin visited
  /\ \A m \in Collected : level[m] <= level[n] + 1
Done(n) == LookedAt(n, Around(n)) \/ CutShort(n)

WalkLooks ==
  /\ pending # {} => LookedAt(current, Around(current) \ pending)
  /\ \A n \in Collected :
       n \in Queued \/ level[n] >= Depth \/ (pending # {} /\ n = current) \/ Done(n)
  /\ \A e \in shown : e \in edges /\ \E n \in {e.src, e.dst} \cap Collected : level[n] < Depth

WalkInv == WalkShape /\ WalkRooted /\ WalkTree /\ WalkOrder /\ WalkLooks

WholeAnswer(a, way) ==
  /\ DOMAIN a.level \subseteq Nodes /\ NearestFirst(a, way)
  /\ way = "both" => EdgesOfTheInnerNodes(a, way)

ReadsInv ==
  /\ ReadsTyped /\ (Walking => WalkInv)
  /\ \A way \in DOMAIN answer : WholeAnswer(answer[way], way)

\* Walks of no step, and of one step more.
LEMMA NearHere ==
  ASSUME NEW S \in SUBSET Nodes, NEW n \in S, NEW way
  PROVE  Near(S, n, 0, way)
<1> DEFINE w == [i \in 0..0 |-> n]
<1>1. w \in [0..0 -> Nodes] /\ w[0] = n
  OBVIOUS
<1>2. 1..0 = {}
  OBVIOUS
<1> HIDE DEF w
<1> QED
  BY <1>1, <1>2 DEF Near

LEMMA NearNext ==
  ASSUME NEW S, NEW m, NEW n \in Nodes, NEW k \in Nat, NEW way,
         Near(S, m, k, way), Joined(m, n, way)
  PROVE  Near(S, n, k + 1, way)
<1>1. PICK w \in [0..k -> Nodes] : /\ w[0] \in S /\ w[k] = m
                                   /\ \A i \in 1..k : w[i] = w[i - 1] \/ Joined(w[i - 1], w[i], way)
  BY DEF Near
<1> DEFINE v == [i \in 0..(k + 1) |-> IF i = k + 1 THEN n ELSE w[i]]
<1>2. v \in [0..(k + 1) -> Nodes]
  OBVIOUS
<1>3. v[k + 1] = n /\ \A i \in 0..k : v[i] = w[i]
  OBVIOUS
<1> HIDE DEF v
<1>4. v[0] \in S
  BY <1>1, <1>3
<1>5. ASSUME NEW i \in 1..(k + 1) PROVE v[i] = v[i - 1] \/ Joined(v[i - 1], v[i], way)
  <2>1. CASE i = k + 1
    <3>1. v[i - 1] = m /\ v[i] = n
      BY <1>1, <1>3, <2>1
    <3> QED
      BY <3>1
  <2>2. CASE i # k + 1
    <3>1. i \in 1..k /\ i \in 0..k /\ i - 1 \in 0..k
      BY <2>2
    <3>2. v[i] = w[i] /\ v[i - 1] = w[i - 1]
      BY <1>3, <3>1
    <3> QED
      BY <1>1, <3>1, <3>2
  <2> QED
    BY <2>1, <2>2
<1> QED
  BY <1>2, <1>3, <1>4, <1>5 DEF Near

LEMMA NearMore ==
  ASSUME NEW S, NEW n, NEW k \in Nat, NEW d \in Nat, k <= d, NEW way, Near(S, n, k, way)
  PROVE  Near(S, n, d, way)
<1>1. PICK w \in [0..k -> Nodes] : /\ w[0] \in S /\ w[k] = n
                                   /\ \A i \in 1..k : w[i] = w[i - 1] \/ Joined(w[i - 1], w[i], way)
  BY DEF Near
<1> DEFINE v == [i \in 0..d |-> IF i <= k THEN w[i] ELSE n]
<1>2. v \in [0..d -> Nodes]
  BY <1>1
<1>3. \A i \in 0..d : (i <= k => v[i] = w[i]) /\ (i >= k => v[i] = n)
  BY <1>1
<1> HIDE DEF v
<1>4. v[0] \in S /\ v[d] = n
  BY <1>1, <1>3
<1>5. ASSUME NEW i \in 1..d PROVE v[i] = v[i - 1] \/ Joined(v[i - 1], v[i], way)
  <2>1. CASE i <= k
    <3>1. i \in 1..k /\ i \in 0..d /\ i - 1 \in 0..d /\ i - 1 <= k
      BY <2>1
    <3>2. v[i] = w[i] /\ v[i - 1] = w[i - 1]
      BY <1>3, <2>1, <3>1
    <3> QED
      BY <1>1, <3>1, <3>2
  <2>2. CASE i > k
    <3>1. i - 1 \in 0..d /\ i \in 0..d /\ i - 1 >= k /\ i >= k
      BY <2>2
    <3> QED
      BY <1>3, <3>1
  <2> QED
    BY <2>1, <2>2
<1> QED
  BY <1>2, <1>4, <1>5 DEF Near

LEMMA NearSame ==
  ASSUME edges' = edges, NEW S, NEW n, NEW k, NEW way
  PROVE  Near(S, n, k, way)' <=> Near(S, n, k, way)
  BY DEF Near, Joined, _get_neighbors, In, Out

\* If every collected node short of the depth has its neighbours collected, one level on at
\* most, or else the cap was hit when nothing was farther than that, the levels are distances.
Accounted(L, lev, capped, n, way) ==
  \/ \A m \in Nodes : Joined(n, m, way) => m \in L /\ lev[m] <= lev[n] + 1
  \/ capped /\ \A x \in L : lev[x] <= lev[n] + 1

LEMMA WalksAreFollowed ==
  ASSUME NEW L \in SUBSET Nodes, NEW S \in SUBSET L, NEW lev, NEW capped, NEW way, NEW depth \in Nat,
         \A n \in L : lev[n] \in Nat, \A n \in S : lev[n] = 0,
         \A n \in L : lev[n] < depth => Accounted(L, lev, capped, n, way),
         NEW m \in Nodes, NEW k \in 0..depth, Near(S, m, k, way)
  PROVE  IF m \in L THEN lev[m] <= k ELSE capped /\ \A n \in L : lev[n] <= k
<1>1. PICK w \in [0..k -> Nodes] : /\ w[0] \in S /\ w[k] = m
                                   /\ \A i \in 1..k : w[i] = w[i - 1] \/ Joined(w[i - 1], w[i], way)
  BY DEF Near
<1> DEFINE Lost == {i \in 0..k : ~(w[i] \in L /\ lev[w[i]] <= i)}
<1>2. CASE Lost = {}
  <2>1. k \in 0..k
    OBVIOUS
  <2>2. w[k] \in L /\ lev[w[k]] <= k
    BY <1>2, <2>1
  <2> QED
    BY <1>1, <2>2
<1>3. CASE Lost # {}
  <2>1. PICK j \in Lost : \A i \in Lost : j <= i
    <3>1. Lost \subseteq Nat
      OBVIOUS
    <3> HIDE DEF Lost
    <3> QED
      BY <1>3, <3>1, LeastOf
  <2>2. j \in 0..k /\ ~(w[j] \in L /\ lev[w[j]] <= j)
    OBVIOUS
  <2>3. j # 0
    BY <1>1, <2>2
  <2>4. j \in 1..k /\ j - 1 \in 0..k /\ j - 1 \notin Lost
    BY <2>1, <2>2, <2>3
  <2>5. w[j - 1] \in L /\ lev[w[j - 1]] <= j - 1
    BY <2>4
  <2> HIDE DEF Lost
  <2>6. PICK n \in L : n = w[j - 1]
    BY <2>5
  <2>7. lev[n] \in Nat /\ lev[n] <= j - 1 /\ lev[n] < depth /\ lev[n] + 1 <= j
    BY <2>4, <2>5, <2>6
  <2>8. w[j] # n
    BY <2>2, <2>4, <2>6, <2>7
  <2>9. Joined(n, w[j], way)
    BY <1>1, <2>4, <2>6, <2>8
  <2>10. w[j] \in Nodes
    BY <2>2
  <2>11. ~(\A x \in Nodes : Joined(n, x, way) => x \in L /\ lev[x] <= lev[n] + 1)
    <3>1. w[j] \in L => lev[w[j]] \in Nat
      OBVIOUS
    <3> QED
      BY <2>2, <2>7, <2>9, <2>10, <3>1
  <2>12. capped /\ \A x \in L : lev[x] <= lev[n] + 1
    BY <2>7, <2>11 DEF Accounted
  <2>13. \A x \in L : lev[x] <= k
    BY <2>4, <2>7, <2>12
  <2> QED
    BY <2>12, <2>13
<1> QED
  BY <1>2, <1>3

LEMMA AppendedIs ==
  ASSUME NEW S, NEW q \in Seq(S), NEW x
  PROVE  /\ Len(q) \in Nat /\ Len(Append(q, x)) = Len(q) + 1
         /\ Append(q, x)[Len(q) + 1] = x
         /\ \A i \in 1..Len(q) : Append(q, x)[i] = q[i] /\ q[i] \in S
         /\ Append(q, x) \in Seq(S \cup {x})
  OBVIOUS

LEMMA HeadAndTail ==
  ASSUME NEW S, NEW q \in Seq(S), q # <<>>
  PROVE  /\ Len(q) \in Nat /\ 1 \in 1..Len(q) /\ Head(q) = q[1] /\ Head(q) \in S
         /\ Tail(q) \in Seq(S) /\ Len(Tail(q)) = Len(q) - 1
         /\ \A i \in 1..Len(Tail(q)) : Tail(q)[i] = q[i + 1] /\ i + 1 \in 1..Len(q)
  OBVIOUS

LEMMA RowsAround ==
  ASSUME ReadsTyped, NEW n, NEW way, NEW p \in _get_neighbors(n, way)
  PROVE  /\ p[1] \in Nodes /\ Joined(n, p[1], way)
         /\ p[2] \in edges /\ n \in {p[2].src, p[2].dst}
<1>1. \A e \in edges : e.src \in Nodes /\ e.dst \in Nodes
  BY ReadConstants DEF ReadsTyped
<1>2. p \in Out(n) \cup In(n)
  BY DEF _get_neighbors
<1>3. Joined(n, p[1], way)
  BY DEF Joined
<1> QED
  BY <1>1, <1>2, <1>3 DEF Out, In

LEMMA DepthIs == ReadsTyped => Depth \in Nat
<1>1. \A a \in Nat : a \div 2 \in Nat
  OBVIOUS
<1>2. ReadsTyped => ask.depth \in Nat
  BY ReadConstants DEF ReadsTyped
<1> QED
  BY <1>1, <1>2 DEF Depth

\* What a walk ends with is a whole answer.
LEMMA WalkAnswers ==
  ASSUME ReadsTyped, WalkInv, Walking, seeds = <<>>, pending = {}, queue = <<>>,
         NEW a, a = [level |-> level, shown |-> shown, parent |-> parent, capped |-> Full, depth |-> Depth]
  PROVE  WholeAnswer(a, leg)
<1>1. /\ a.level = level /\ a.shown = shown /\ a.parent = parent /\ a.depth = Depth
      /\ a.capped = Full
  OBVIOUS
<1>2. Sources(a) = Roots
  BY <1>1 DEF Sources, Roots, Collected
<1>3. Collected \subseteq Nodes /\ Roots \subseteq Collected /\ \A n \in Collected : level[n] \in 0..Depth
  BY DEF WalkInv, WalkShape, Roots
<1>4. Depth \in Nat /\ \A n \in Collected : level[n] \in Nat
  BY <1>3, DepthIs
<1>5. Queued = {} /\ Range(seeds) = {}
  BY DEF Queued, Range
<1>6. \A n \in Collected : level[n] < Depth => Done(n)
  BY <1>3, <1>4, <1>5 DEF WalkInv, WalkLooks
<1>7. \A n \in Collected : level[n] < Depth => Accounted(Collected, level, Full, n, leg)
  BY <1>6 DEF Done, LookedAt, CutShort, Accounted, Joined, Around
<1>8. ASSUME NEW m \in Nodes, NEW k \in 0..Depth, Near(Roots, m, k, leg)
      PROVE  IF m \in Collected THEN level[m] <= k ELSE Full /\ \A n \in Collected : level[n] <= k
  <2>1. \A n \in Roots : level[n] = 0
    BY DEF Roots
  <2> QED
    BY <1>3, <1>4, <1>7, <1>8, <2>1, WalksAreFollowed
<1>9. NearestFirst(a, leg)
  <2>1. Roots \subseteq Range(ask.focus) /\ (Full \/ Range(ask.focus) \cap Nodes \subseteq Roots)
    BY <1>5 DEF WalkInv, WalkRooted
  <2>2. \A n \in Collected : level[n] \in 0..Depth /\ Near(Roots, n, level[n], leg)
    BY <1>3 DEF WalkInv, WalkTree
  <2>3. \A n \in DOMAIN parent : level[n] = level[parent[n]] + 1 /\ Joined(parent[n], n, leg)
    BY DEF WalkInv, WalkTree
  <2>4. \A m \in Nodes, k \in 0..Depth :
          \/ IF m \in Collected THEN level[m] <= k ELSE Full /\ \A n \in Collected : level[n] <= k
          \/ ~Near(Roots, m, k, leg)
    BY <1>8
  <2> QED
    BY <1>1, <1>2, <2>1, <2>2, <2>3, <2>4 DEF NearestFirst, Collected
<1>10. ASSUME leg = "both" PROVE EdgesOfTheInnerNodes(a, leg)
  <2> DEFINE inner == {e \in edges : \E n \in {e.src, e.dst} \cap Collected : level[n] < Depth}
  <2>1. shown \subseteq inner
    BY DEF WalkInv, WalkLooks
  <2>2. CASE \A n \in Collected : level[n] < Depth => LookedAt(n, Around(n))
    <3>1. ASSUME NEW e \in inner PROVE e \in shown
      <4>1. PICK n \in {e.src, e.dst} \cap Collected : level[n] < Depth
        OBVIOUS
      <4>2. e \in edges
        OBVIOUS
      <4>3. \E p \in Around(n) : p[2] = e
        <5>1. CASE n = e.src
          <6>1. <<e.dst, e>> \in Out(n)
            BY <4>2, <5>1 DEF Out
          <6>2. <<e.dst, e>> \in Around(n) /\ <<e.dst, e>>[2] = e
            BY <1>10, <6>1 DEF Around, _get_neighbors
          <6> QED
            BY <6>2
        <5>2. CASE n = e.dst
          <6>1. <<e.src, e>> \in In(n)
            BY <4>2, <5>2 DEF In
          <6>2. <<e.src, e>> \in Around(n) /\ <<e.src, e>>[2] = e
            BY <1>10, <6>1 DEF Around, _get_neighbors
          <6> QED
            BY <6>2
        <5> QED
          BY <4>1, <5>1, <5>2
      <4> QED
        BY <1>10, <2>2, <4>1, <4>3 DEF LookedAt
    <3> QED
      BY <1>1, <2>1, <3>1 DEF EdgesOfTheInnerNodes, Collected
  <2>3. ASSUME NEW n \in Collected, level[n] < Depth, ~LookedAt(n, Around(n))
        PROVE  \E m \in Nodes \ Collected : Near(Roots, m, Depth, leg)
    <3>1. CutShort(n)
      BY <1>6, <2>3 DEF Done
    <3>2. PICK p \in Around(n) : p[1] \notin visited
      BY <3>1 DEF CutShort
    <3>3. p[1] \in Nodes /\ Joined(n, p[1], leg) /\ p[1] \notin Collected
      BY <3>2, RowsAround DEF Around, WalkInv, WalkShape
    <3>4. Near(Roots, n, level[n], leg)
      BY DEF WalkInv, WalkTree
    <3>5. Near(Roots, p[1], level[n] + 1, leg)
      BY <1>4, <3>3, <3>4, NearNext
    <3>6. Near(Roots, p[1], Depth, leg)
      BY <1>4, <2>3, <3>5, NearMore
    <3> QED
      BY <3>3, <3>6
  <2>4. CASE \E m \in Nodes \ Collected : Near(Roots, m, Depth, leg)
    BY <1>1, <1>2, <2>1, <2>4 DEF EdgesOfTheInnerNodes, Collected
  <2> QED
    BY <2>2, <2>3, <2>4
<1> QED
  BY <1>1, <1>3, <1>9, <1>10 DEF WholeAnswer, Collected

-----------------------------------------------------------------------------
(* Steps of a walk.                                                        *)

Onward == edges' = edges /\ ask' = ask /\ leg' = leg

LEMMA SameAround ==
  ASSUME Onward
  PROVE  /\ \A n : Around(n)' = Around(n)
         /\ Depth' = Depth /\ Walking' = Walking
         /\ \A n, m : Joined(n, m, leg)' <=> Joined(n, m, leg)
         /\ \A S, n, k : Near(S, n, k, leg)' <=> Near(S, n, k, leg)
<1>1. \A n, way : _get_neighbors(n, way)' = _get_neighbors(n, way)
  BY DEF Onward, _get_neighbors, In, Out
<1>2. \A S, n, k, way : Near(S, n, k, way)' <=> Near(S, n, k, way)
  BY NearSame DEF Onward
<1>3. \A S, n, k : Near(S, n, k, leg)' <=> Near(S, n, k, leg)
  BY <1>2 DEF Onward
<1>4. \A n : Around(n)' = Around(n)
  BY <1>1 DEF Onward, Around
<1>5. \A n, m : Joined(n, m, leg)' <=> Joined(n, m, leg)
  BY <1>1 DEF Onward, Joined
<1> QED
  BY <1>3, <1>4, <1>5 DEF Onward, Depth, Walking

\* What has been looked at stays looked at while the walk collects.
LEMMA LookedAtKept ==
  ASSUME Onward, shown \subseteq shown', Collected \subseteq Collected',
         \A m \in Collected : level'[m] = level[m],
         NEW n \in Collected, NEW R, LookedAt(n, R)
  PROVE  LookedAt(n, R)'
  BY DEF LookedAt, Onward

LEMMA DoneKept ==
  ASSUME Onward, shown \subseteq shown', Collected \subseteq Collected',
         \A m \in Collected : level'[m] = level[m],
         ~Full \/ (visited' = visited /\ Collected' = Collected),
         NEW n \in Collected, Done(n)
  PROVE  Done(n)'
<1>1. Around(n)' = Around(n)
  BY SameAround
<1>2. CASE LookedAt(n, Around(n))
  <2>1. PICK R : R = Around(n)
    OBVIOUS
  <2>2. LookedAt(n, R)'
    BY <1>2, <2>1, LookedAtKept
  <2> QED
    BY <1>1, <2>1, <2>2 DEF Done
<1>3. CASE CutShort(n)
  <2>1. Full /\ visited' = visited /\ Collected' = Collected
    BY <1>3 DEF CutShort
  <2>2. Full'
    BY <2>1 DEF Full, Counted, Onward
  <2>3. CutShort(n)'
    BY <1>1, <1>3, <2>1, <2>2 DEF CutShort
  <2> QED
    BY <2>3 DEF Done
<1> QED
  BY <1>2, <1>3 DEF Done

LEMMA LevelsPut ==
  ASSUME NEW x, NEW v, level' = Put(level, x, v), x \notin Collected
  PROVE  /\ Collected' = Collected \cup {x} /\ level'[x] = v
         /\ \A n \in Collected : level'[n] = level[n]
  BY DEF Put, Collected

LEMMA ShownKept ==
  ASSUME Onward, Collected \subseteq Collected', \A m \in Collected : level'[m] = level[m],
         NEW e, e \in edges, NEW n \in {e.src, e.dst} \cap Collected, level[n] < Depth
  PROVE  e \in edges' /\ \E m \in {e.src, e.dst} \cap Collected' : level'[m] < Depth'
  BY SameAround DEF Onward

LEMMA SeedKeeps ==
  ASSUME ReadsTyped, Walking, WalkInv, Seed
  PROVE  WalkInv'
<1> DEFINE n == Head(seeds)
<1>1. /\ Onward /\ seeds # <<>> /\ seeds' = Tail(seeds) /\ current' = current /\ pending' = pending
      /\ parent' = parent /\ shown' = shown /\ answer' = answer
  BY DEF Seed, Onward
<1>2. /\ pending = {} /\ Collected = visited \cap Nodes /\ queue \in Seq(Collected)
      /\ seeds \in Seq(Range(ask.focus)) /\ \A m \in Collected : level[m] = 0 /\ m \in Queued
  BY <1>1 DEF WalkInv, WalkShape
<1>3. /\ n \in Range(ask.focus) /\ seeds' \in Seq(Range(ask.focus))
      /\ \A x \in Range(seeds) : x = n \/ x \in Range(seeds)'
  <2>1. /\ Len(seeds) \in Nat /\ n = seeds[1] /\ n \in Range(ask.focus)
        /\ Tail(seeds) \in Seq(Range(ask.focus)) /\ Len(Tail(seeds)) = Len(seeds) - 1
        /\ \A i \in 1..Len(Tail(seeds)) : Tail(seeds)[i] = seeds[i + 1]
    BY <1>1, <1>2, HeadAndTail
  <2>2. ASSUME NEW x \in Range(seeds), x # n PROVE x \in Range(Tail(seeds))
    <3>1. DOMAIN seeds = 1..Len(seeds) /\ DOMAIN Tail(seeds) = 1..Len(Tail(seeds))
      BY <1>2, <2>1
    <3>2. PICK i \in 1..Len(seeds) : x = seeds[i]
      BY <3>1 DEF Range
    <3>3. i # 1 /\ i - 1 \in 1..Len(Tail(seeds)) /\ (i - 1) + 1 = i
      BY <2>1, <2>2, <3>2
    <3>4. Tail(seeds)[i - 1] = x
      BY <2>1, <3>2, <3>3
    <3> QED
      BY <3>1, <3>3, <3>4 DEF Range
  <2> QED
    BY <1>1, <2>1, <2>2
<1>4. Depth' = Depth /\ Depth \in Nat /\ \A S, m, k : Near(S, m, k, leg)' <=> Near(S, m, k, leg)
  BY <1>1, SameAround, DepthIs
<1>5. \A m \in Collected : m \in Roots
  BY <1>2 DEF Roots
<1> HIDE DEF n
<1>6. CASE UNCHANGED <<level, queue>>
  <2>1. visited' \cap Nodes = visited \cap Nodes /\ (Full => visited' = visited)
        /\ (n \in Nodes => Full \/ n \in Collected)
    <3>1. CASE n \notin visited /\ ~Full /\ n \in Nodes
      <4>1. level' = Put(level, n, 0)
        BY <3>1 DEF Seed, n
      <4>2. n \notin Collected /\ n \in Collected'
        BY <1>2, <3>1, <4>1, LevelsPut
      <4> QED
        BY <1>6, <4>2 DEF Collected
    <3>2. CASE ~(n \notin visited /\ ~Full /\ n \in Nodes)
      <4>1. visited' = IF n \notin visited /\ ~Full THEN visited \cup {n} ELSE visited
        BY DEF Seed, n
      <4> QED
        BY <1>2, <3>2, <4>1
    <3> QED
      BY <3>1, <3>2
  <2>2. Collected' = Collected /\ Roots' = Roots /\ Queued' = Queued
    BY <1>6 DEF Collected, Roots, Queued
  <2>3. Full => Full'
    BY <1>1, <2>1 DEF Full, Counted, Onward
  <2>4. WalkShape'
    BY <1>1, <1>2, <1>3, <1>4, <1>6, <2>1, <2>2 DEF WalkInv, WalkShape, Onward
  <2>5. WalkRooted'
    <3>1. ask' = ask
      BY <1>1 DEF Onward
    <3> QED
      BY <1>3, <1>5, <2>1, <2>2, <2>3, <3>1 DEF WalkInv, WalkRooted
  <2>6. WalkTree'
    BY <1>1, <1>4, <1>6, <2>2, SameAround DEF WalkInv, WalkTree, Onward
  <2>7. WalkOrder'
    BY <1>1, <1>6, <2>2 DEF WalkInv, WalkOrder
  <2>8. WalkLooks'
    BY <1>1, <1>2, <1>4, <1>6, <2>2 DEF WalkInv, WalkLooks, Onward
  <2> QED
    BY <2>4, <2>5, <2>6, <2>7, <2>8 DEF WalkInv
<1>7. CASE n \notin visited /\ ~Full /\ n \in Nodes
  <2>1. level' = Put(level, n, 0) /\ queue' = Append(queue, n) /\ visited' = visited \cup {n}
    BY <1>7 DEF Seed, n
  <2>2. n \notin Collected
    BY <1>2, <1>7
  <2>3. /\ Collected' = Collected \cup {n} /\ level'[n] = 0
        /\ \A m \in Collected : level'[m] = level[m]
    BY <2>1, <2>2, LevelsPut
  <2>4. \A m \in Collected' : level'[m] = 0
    BY <1>2, <2>3
  <2>5. Roots' = Collected'
    BY <2>4 DEF Roots
  <2>6. /\ queue' \in Seq(Collected') /\ Len(queue) \in Nat /\ Len(queue') = Len(queue) + 1
        /\ queue'[Len(queue) + 1] = n /\ \A i \in 1..Len(queue) : queue'[i] = queue[i]
    BY <1>2, <2>1, <2>3, AppendedIs
  <2>7. Queued \subseteq Queued' /\ n \in Queued'
    BY <2>6 DEF Queued
  <2>8. \A i \in 1..Len(queue') : queue'[i] \in Collected'
    <3>1. \A T : \A q \in Seq(T) : \A i \in 1..Len(q) : q[i] \in T
      OBVIOUS
    <3> QED
      BY <2>6, <3>1
  <2>9. WalkShape'
    <3>1. Collected' = visited' \cap Nodes
      BY <1>2, <1>7, <2>1, <2>3
    <3> QED
      BY <1>1, <1>2, <1>3, <1>4, <2>3, <2>4, <2>6, <2>7, <3>1 DEF WalkShape, Onward
  <2>10. WalkRooted'
    <3>1. ask' = ask
      BY <1>1 DEF Onward
    <3>2. \A x \in Range(ask.focus) \cap Nodes : x \in Roots \/ x \in Range(seeds)
      BY <1>7 DEF WalkInv, WalkRooted
    <3>3. Roots \subseteq Collected /\ Collected \subseteq Range(ask.focus)
      BY <1>5 DEF WalkInv, WalkRooted, Roots
    <3> QED
      BY <1>3, <2>3, <2>5, <3>1, <3>2, <3>3 DEF WalkRooted
  <2>11. WalkTree'
    <3>1. \A m \in Collected' : Near(Roots', m, 0, leg)
      <4>1. Roots' \subseteq Nodes
        BY <1>2, <1>7, <2>3, <2>5
      <4> QED
        BY <2>5, <4>1, NearHere
    <3>2. \A m \in Collected' : Near(Roots', m, level'[m], leg)
      BY <2>4, <3>1
    <3>3. \A m \in Collected' : Near(Roots, m, level[m], leg)'
      BY <1>4, <3>2
    <3>4. \A m \in DOMAIN parent : FALSE
      BY <1>2 DEF WalkInv, WalkTree, WalkShape
    <3> QED
      BY <1>1, <3>3, <3>4 DEF WalkTree
  <2>12. WalkOrder'
    BY <1>1, <1>2, <2>4, <2>8 DEF WalkOrder
  <2>13. WalkLooks'
    <3>1. \A m \in Collected' : m \in Queued'
      BY <1>2, <2>3, <2>7
    <3>2. \A e \in shown' : e \in edges' /\ \E m \in {e.src, e.dst} \cap Collected' : level'[m] < Depth'
      BY <1>1, <2>3, ShownKept DEF WalkInv, WalkLooks
    <3> QED
      BY <1>1, <1>2, <3>1, <3>2 DEF WalkLooks
  <2> QED
    BY <2>9, <2>10, <2>11, <2>12, <2>13 DEF WalkInv
<1> QED
  BY <1>6, <1>7 DEF Seed, n

LEMMA ExpandKeeps ==
  ASSUME ReadsTyped, Walking, WalkInv, Expand
  PROVE  WalkInv'
<1>0. PICK n : n = Head(queue)
  OBVIOUS
<1>1. /\ Onward /\ queue # <<>> /\ seeds = <<>> /\ seeds' = seeds /\ pending = {} /\ current' = n
      /\ queue' = Tail(queue) /\ visited' = visited /\ level' = level /\ parent' = parent
      /\ shown' = shown /\ pending' = (IF level[n] >= Depth THEN {} ELSE Around(n))
  BY <1>0 DEF Expand, Onward, Around
<1>2. /\ queue \in Seq(Collected) /\ Collected \subseteq Nodes
      /\ \A m \in Collected : level[m] \in 0..Depth
  BY DEF WalkInv, WalkShape
<1>3. /\ Len(queue) \in Nat /\ 1 \in 1..Len(queue) /\ n = queue[1] /\ n \in Collected
      /\ queue' \in Seq(Collected) /\ Len(queue') = Len(queue) - 1
      /\ \A i \in 1..Len(queue') : queue'[i] = queue[i + 1] /\ i + 1 \in 1..Len(queue)
  BY <1>0, <1>1, <1>2, HeadAndTail
<1>4. /\ Collected' = Collected /\ Roots' = Roots /\ Full' = Full /\ Depth' = Depth /\ Depth \in Nat
      /\ \A m : Around(m)' = Around(m)
  BY <1>1, SameAround, DepthIs DEF Collected, Roots, Full, Counted, Onward
<1>5. \A m \in Collected : level[m] \in Nat
  BY <1>2, <1>4
<1>6. \A m \in Queued : m = n \/ m \in Queued'
  <2>1. ASSUME NEW i \in 1..Len(queue), i # 1 PROVE queue[i] \in Queued'
    <3>1. i - 1 \in 1..Len(queue') /\ (i - 1) + 1 = i
      BY <1>3, <2>1
    <3>2. queue'[i - 1] = queue[i]
      BY <1>3, <3>1
    <3> QED
      BY <3>1, <3>2 DEF Queued
  <2> QED
    BY <1>3, <2>1 DEF Queued
<1>7. pending' # {} => level[n] < Depth /\ pending' = Around(n)
  BY <1>1, <1>3, <1>4, <1>5
<1>8. WalkShape'
  BY <1>1, <1>2, <1>3, <1>4, <1>7 DEF WalkInv, WalkShape, Onward
<1>9. WalkRooted'
  <2>1. ask' = ask /\ Range(seeds)' = Range(seeds)
    BY <1>1 DEF Onward
  <2> QED
    BY <1>4, <2>1 DEF WalkInv, WalkRooted
<1>10. WalkTree'
  BY <1>1, <1>4, SameAround DEF WalkInv, WalkTree, Onward
<1>11. WalkOrder'
  <2>1. \A i, j \in 1..Len(queue') : i <= j => level[queue'[i]] <= level[queue'[j]]
    <3>1. \A i, j \in 1..Len(queue) : i <= j => level[queue[i]] <= level[queue[j]]
      BY DEF WalkInv, WalkOrder
    <3>2. ASSUME NEW i \in 1..Len(queue'), NEW j \in 1..Len(queue'), i <= j
          PROVE  level[queue'[i]] <= level[queue'[j]]
      <4>1. i + 1 <= j + 1
        BY <3>2, <1>3
      <4> QED
        BY <1>3, <3>1, <4>1
    <3> QED
      BY <3>2
  <2>2. \A m \in Collected : \A i \in 1..Len(queue') : level[m] <= level[queue'[i]] + 1
    BY <1>3 DEF WalkInv, WalkOrder
  <2>3. \A m \in Collected : level[m] <= level[n] + 1
    BY <1>3 DEF WalkInv, WalkOrder
  <2>4. \A i \in 1..Len(queue') : level[n] <= level[queue'[i]]
    <3>1. \A i \in 1..Len(queue') : 1 <= i + 1
      BY <1>3
    <3> QED
      BY <1>3, <3>1 DEF WalkInv, WalkOrder
  <2> QED
    BY <1>1, <1>4, <2>1, <2>2, <2>3, <2>4 DEF WalkOrder
<1>12. WalkLooks'
  <2>1. \A m \in Collected : Done(m) => Done(m)'
    BY <1>1, <1>4, DoneKept
  <2>2. ASSUME pending' = {}, level[n] < Depth PROVE Done(n)'
    <3>1. Around(n) = {}
      BY <1>1, <1>3, <1>4, <1>5, <2>2
    <3>2. Done(n)
      BY <3>1 DEF LookedAt, Done
    <3> QED
      BY <1>3, <2>1, <3>2
  <2>3. \A m \in Collected : \/ m \in Queued' \/ level[m] >= Depth
                             \/ (pending' # {} /\ m = current') \/ Done(m)'
    <3>1. \A m \in Collected : m \in Queued \/ level[m] >= Depth \/ Done(m)
      BY <1>1 DEF WalkInv, WalkLooks
    <3>2. ASSUME NEW m \in Collected, m = n
          PROVE  level[m] >= Depth \/ (pending' # {} /\ m = current') \/ Done(m)'
      <4>1. level[n] >= Depth \/ level[n] < Depth
        BY <1>3, <1>4, <1>5
      <4> QED
        BY <1>1, <2>2, <3>2, <4>1
    <3> QED
      BY <1>6, <2>1, <3>1, <3>2
  <2>5. pending' # {} => LookedAt(current, Around(current) \ pending)'
    <3>1. pending' # {} => Around(current)' \ pending' = {}
      BY <1>1, <1>4, <1>7 DEF Around, Onward, _get_neighbors, In, Out
    <3> QED
      BY <3>1 DEF LookedAt, Done
  <2>6. \A e \in shown' : e \in edges' /\ \E m \in {e.src, e.dst} \cap Collected' : level'[m] < Depth'
    BY <1>1, <1>4 DEF WalkInv, WalkLooks, Onward
  <2> QED
    BY <1>1, <1>4, <2>3, <2>5, <2>6 DEF WalkLooks
<1> QED
  BY <1>8, <1>9, <1>10, <1>11, <1>12 DEF WalkInv

\* A neighbour already met, or the cut at the cap.
LEMMA LookSkips ==
  ASSUME ReadsTyped, Walking, WalkInv, Onward, pending # {}, NEW p \in pending,
         UNCHANGED <<seeds, queue, current, visited, level, parent>>,
         shown' = IF KeepsEdge(p) THEN shown \cup {p[2]} ELSE shown,
         \/ p[1] \in visited /\ pending' = pending \ {p}
         \/ p[1] \notin visited /\ Full /\ pending' = {}
  PROVE  WalkInv'
<1>0. PICK c : c = current
  OBVIOUS
<1>1. /\ c \in Collected /\ level[c] < Depth /\ pending \subseteq Around(c) /\ seeds = <<>>
      /\ Collected = visited \cap Nodes
  BY <1>0 DEF WalkInv, WalkShape
<1>2. p[1] \in Nodes /\ p[2] \in edges /\ c \in {p[2].src, p[2].dst}
  BY <1>1, RowsAround DEF Around
<1>3. /\ Collected' = Collected /\ Roots' = Roots /\ Full' = Full /\ Queued' = Queued
      /\ Depth' = Depth /\ Around(c)' = Around(c)
  BY SameAround DEF Collected, Roots, Full, Counted, Onward, Queued
<1>4. shown \subseteq shown' /\ (leg = "both" => p[2] \in shown') /\ shown' \subseteq shown \cup {p[2]}
  BY DEF KeepsEdge
<1>5. \A m \in Collected : level[m] <= level[c] + 1
  BY <1>0 DEF WalkInv, WalkOrder
<1>6. \A m \in Collected : Done(m) => Done(m)'
  BY <1>3, <1>4, DoneKept
<1>7. ASSUME p[1] \in visited, pending' = pending \ {p}
      PROVE  LookedAt(c, Around(c) \ pending)'
  <2>1. PICK R : R = Around(c) \ pending
    OBVIOUS
  <2>2. LookedAt(c, R)
    BY <1>0, <2>1 DEF WalkInv, WalkLooks
  <2>3. LookedAt(c, R)'
    BY <1>1, <1>3, <1>4, <2>2, LookedAtKept
  <2>4. p[1] \in Collected' /\ level'[p[1]] <= level'[c] + 1 /\ (leg' = "both" => p[2] \in shown')
    BY <1>1, <1>2, <1>3, <1>4, <1>5, <1>7 DEF Onward
  <2>5. Around(c)' \ pending' \subseteq R \cup {p}
    BY <1>3, <2>1, <1>7
  <2> QED
    BY <2>3, <2>4, <2>5 DEF LookedAt
<1>8. pending' = {} => Done(c)'
  <2>1. ASSUME p[1] \notin visited, Full PROVE Done(c)
    <3>1. CutShort(c)
      BY <1>1, <1>5, <2>1 DEF CutShort
    <3> QED
      BY <3>1 DEF Done
  <2>2. ASSUME p[1] \in visited, pending' = pending \ {p}, pending' = {} PROVE Done(c)'
    <3>1. LookedAt(c, Around(c) \ pending)'
      BY <1>7, <2>2
    <3>2. Around(c)' \ pending' = Around(c)'
      BY <2>2
    <3> QED
      BY <3>1, <3>2 DEF Done
  <2> QED
    BY <1>1, <1>6, <2>1, <2>2
<1>9. WalkShape'
  BY <1>0, <1>1, <1>3 DEF WalkInv, WalkShape, Onward
<1>10. WalkRooted'
  <2>1. ask' = ask /\ Range(seeds)' = Range(seeds)
    BY DEF Onward
  <2> QED
    BY <1>3, <2>1 DEF WalkInv, WalkRooted
<1>11. WalkTree'
  BY <1>3, SameAround DEF WalkInv, WalkTree, Onward
<1>12. WalkOrder'
  BY <1>3 DEF WalkInv, WalkOrder
<1>13. WalkLooks'
  <2>1. pending' # {} => LookedAt(current, Around(current) \ pending)'
    <3>1. c = current'
      BY <1>0
    <3> QED
      BY <1>7, <3>1 DEF LookedAt, Around
  <2>2. \A m \in Collected : \/ m \in Queued' \/ level[m] >= Depth
                             \/ (pending' # {} /\ m = current') \/ Done(m)'
    <3>1. \A m \in Collected : m \in Queued \/ level[m] >= Depth \/ m = c \/ Done(m)
      BY <1>0 DEF WalkInv, WalkLooks
    <3> QED
      BY <1>0, <1>3, <1>6, <1>8, <3>1
  <2>3. \A e \in shown' : e \in edges' /\ \E m \in {e.src, e.dst} \cap Collected' : level'[m] < Depth'
    <3>1. \A e \in shown' :
            e \in edges /\ \E m \in {e.src, e.dst} \cap Collected : level[m] < Depth
      BY <1>1, <1>2, <1>4 DEF WalkInv, WalkLooks
    <3> QED
      BY <1>3, <3>1 DEF Onward
  <2> QED
    BY <1>3, <2>1, <2>2, <2>3 DEF WalkLooks
<1> QED
  BY <1>9, <1>10, <1>11, <1>12, <1>13 DEF WalkInv

\* A neighbour collected, one level below the current node.
LEMMA LookCollects ==
  ASSUME ReadsTyped, Walking, WalkInv, Onward, pending # {}, NEW p \in pending,
         UNCHANGED <<seeds, current>>, p[1] \notin visited, ~Full,
         shown' = IF KeepsEdge(p) THEN shown \cup {p[2]} ELSE shown,
         pending' = pending \ {p}, queue' = Append(queue, p[1]), visited' = visited \cup {p[1]},
         level' = Put(level, p[1], level[current] + 1), parent' = Put(parent, p[1], current)
  PROVE  WalkInv'
<1>0. PICK c, m : c = current /\ m = p[1]
  OBVIOUS
<1>1. /\ c \in Collected /\ level[c] < Depth /\ pending \subseteq Around(c) /\ seeds = <<>>
      /\ Collected = visited \cap Nodes /\ queue \in Seq(Collected)
      /\ \A n \in Collected : level[n] \in 0..Depth
  BY <1>0 DEF WalkInv, WalkShape
<1>2. /\ m \in Nodes /\ Joined(c, m, leg) /\ p[2] \in edges /\ c \in {p[2].src, p[2].dst}
  BY <1>0, <1>1, RowsAround DEF Around
<1>3. m \notin Collected /\ m # c
  BY <1>0, <1>1
<1>4. /\ Collected' = Collected \cup {m} /\ level'[m] = level[c] + 1
      /\ \A n \in Collected : level'[n] = level[n]
  BY <1>0, <1>3, LevelsPut
<1>5. Depth' = Depth /\ Depth \in Nat /\ (\A n : Around(n)' = Around(n))
      /\ \A n \in Collected : level[n] \in Nat
  BY <1>1, SameAround, DepthIs
<1>6. level'[m] \in 1..Depth
  BY <1>1, <1>4, <1>5
<1>7. Roots' = Roots
  <2>1. level'[m] # 0
    BY <1>5, <1>6
  <2> QED
    BY <1>4, <2>1 DEF Roots
<1>8. /\ queue' \in Seq(Collected') /\ Len(queue) \in Nat /\ Len(queue') = Len(queue) + 1
      /\ queue'[Len(queue) + 1] = m
      /\ \A i \in 1..Len(queue) : queue'[i] = queue[i] /\ queue[i] \in Collected
  BY <1>0, <1>1, <1>4, AppendedIs
<1>9. Queued \subseteq Queued' /\ m \in Queued'
  BY <1>8 DEF Queued
<1>10. shown \subseteq shown' /\ (leg = "both" => p[2] \in shown') /\ shown' \subseteq shown \cup {p[2]}
  BY DEF KeepsEdge
<1>11. /\ \A n \in Collected : level[n] <= level[c] + 1
       /\ \A i \in 1..Len(queue) : level[c] <= level[queue[i]]
  BY <1>0 DEF WalkInv, WalkOrder
<1>12. WalkShape'
  <2>1. Collected' = visited' \cap Nodes
    BY <1>0, <1>1, <1>2, <1>4
  <2>2. \A n \in Collected' : level'[n] \in 0..Depth'
    BY <1>1, <1>4, <1>5, <1>6
  <2>3. seeds' \in Seq(Range(ask.focus)')
    BY DEF WalkInv, WalkShape, Onward
  <2>4. current' \in Collected' /\ level'[current'] < Depth' /\ pending' \subseteq Around(current)'
    <3>1. pending' \subseteq Around(c)'
      BY <1>1, <1>5
    <3> QED
      BY <1>0, <1>1, <1>4, <1>5, <3>1
  <2> QED
    BY <1>1, <1>8, <2>1, <2>2, <2>3, <2>4 DEF WalkShape
<1>13. WalkRooted'
  <2>1. ask' = ask /\ Range(seeds) = {}
    BY <1>1 DEF Onward, Range
  <2>2. \A n \in Range(ask.focus) \cap Nodes : n \in Roots
    BY <2>1 DEF WalkInv, WalkRooted
  <2> QED
    BY <1>7, <2>1, <2>2 DEF WalkInv, WalkRooted
<1>14. WalkTree'
  <2>1. /\ DOMAIN parent' = DOMAIN parent \cup {m} /\ parent'[m] = c
        /\ \A n \in DOMAIN parent : n \in Collected /\ parent'[n] = parent[n] /\ parent[n] \in Collected
    <3>1. DOMAIN parent \subseteq Collected /\ m \notin DOMAIN parent
      BY <1>3 DEF WalkInv, WalkTree
    <3> QED
      BY <1>0, <3>1 DEF WalkInv, WalkTree, Put
  <2>2. \A n \in DOMAIN parent' :
          /\ n \in Collected' /\ parent'[n] \in Collected'
          /\ level'[n] = level'[parent'[n]] + 1 /\ Joined(parent'[n], n, leg)
    <3>1. \A n \in DOMAIN parent : level[n] = level[parent[n]] + 1 /\ Joined(parent[n], n, leg)
      BY DEF WalkInv, WalkTree
    <3> QED
      BY <1>1, <1>2, <1>4, <2>1, <3>1
  <2>3. Near(Roots, m, level'[m], leg)
    <3>1. Near(Roots, c, level[c], leg)
      BY <1>1 DEF WalkInv, WalkTree
    <3> QED
      BY <1>1, <1>2, <1>4, <1>5, <3>1, NearNext
  <2>4. \A n \in Collected' : Near(Roots', n, level'[n], leg)
    BY <1>4, <1>7, <2>3 DEF WalkInv, WalkTree
  <2> QED
    BY <2>2, <2>4, SameAround DEF WalkTree, Onward
<1>15. WalkOrder'
  <2>1. \A i \in 1..Len(queue') :
          IF i = Len(queue) + 1 THEN level'[queue'[i]] = level[c] + 1
          ELSE i \in 1..Len(queue) /\ queue[i] \in Collected /\ level'[queue'[i]] = level[queue[i]]
    BY <1>4, <1>8
  <2>2. ASSUME NEW i \in 1..Len(queue'), NEW j \in 1..Len(queue'), i <= j
        PROVE  level'[queue'[i]] <= level'[queue'[j]]
    <3>1. CASE j \in 1..Len(queue)
      <4>1. i \in 1..Len(queue)
        BY <1>8, <2>2, <3>1
      <4>2. i # Len(queue) + 1 /\ j # Len(queue) + 1
        BY <1>8, <3>1, <4>1
      <4> QED
        BY <2>1, <2>2, <3>1, <4>1, <4>2 DEF WalkInv, WalkOrder
    <3>2. CASE j = Len(queue) + 1
      BY <1>1, <1>5, <1>11, <2>1, <3>2
    <3> QED
      BY <1>8, <3>1, <3>2
  <2>3. ASSUME NEW n \in Collected', NEW i \in 1..Len(queue')
        PROVE  level'[n] <= level'[queue'[i]] + 1
    <3>1. CASE i = Len(queue) + 1
      BY <1>1, <1>4, <1>5, <1>11, <2>1, <3>1
    <3>2. CASE i # Len(queue) + 1 /\ n = m
      BY <1>1, <1>4, <1>5, <1>11, <2>1, <3>2
    <3>3. CASE i # Len(queue) + 1 /\ n \in Collected
      BY <1>4, <2>1, <3>3 DEF WalkInv, WalkOrder
    <3> QED
      BY <1>4, <3>1, <3>2, <3>3
  <2>4. \A n \in Collected' : level'[n] <= level'[c] + 1
    BY <1>1, <1>4, <1>5, <1>11
  <2>5. \A i \in 1..Len(queue') : level'[c] <= level'[queue'[i]]
    BY <1>1, <1>4, <1>5, <1>11, <2>1
  <2> QED
    BY <1>0, <2>2, <2>3, <2>4, <2>5 DEF WalkOrder
<1>16. WalkLooks'
  <2>1. \A n \in Collected : Done(n) => Done(n)'
    BY <1>4, <1>10, DoneKept
  <2>2. LookedAt(c, Around(c) \ pending)'
    <3>1. PICK R : R = Around(c) \ pending
      OBVIOUS
    <3>2. LookedAt(c, R)
      BY <1>0, <3>1 DEF WalkInv, WalkLooks
    <3>3. LookedAt(c, R)'
      BY <1>1, <1>4, <1>10, <3>2, LookedAtKept
    <3>4. p[1] \in Collected' /\ level'[p[1]] <= level'[c] + 1 /\ (leg' = "both" => p[2] \in shown')
      BY <1>0, <1>1, <1>4, <1>5, <1>10 DEF Onward
    <3>5. Around(c)' \ pending' \subseteq R \cup {p}
      BY <1>5, <3>1
    <3> QED
      BY <3>3, <3>4, <3>5 DEF LookedAt
  <2>3. pending' = {} => Done(c)'
    <3>1. pending' = {} => Around(c)' \ pending' = Around(c)'
      OBVIOUS
    <3> QED
      BY <2>2, <3>1 DEF Done
  <2>4. \A n \in Collected' : \/ n \in Queued' \/ level'[n] >= Depth'
                              \/ (pending' # {} /\ n = current') \/ Done(n)'
    <3>1. \A n \in Collected : n \in Queued \/ level[n] >= Depth \/ n = c \/ Done(n)
      BY <1>0 DEF WalkInv, WalkLooks
    <3> QED
      BY <1>0, <1>4, <1>5, <1>9, <2>1, <2>3, <3>1
  <2>5. pending' # {} => LookedAt(current, Around(current) \ pending)'
    <3>1. c = current'
      BY <1>0
    <3> QED
      BY <2>2, <3>1 DEF LookedAt, Around
  <2>6. \A e \in shown' : e \in edges' /\ \E n \in {e.src, e.dst} \cap Collected' : level'[n] < Depth'
    <3>1. \A e \in shown' :
            e \in edges /\ \E n \in {e.src, e.dst} \cap Collected : level[n] < Depth
      BY <1>1, <1>2, <1>10 DEF WalkInv, WalkLooks
    <3> QED
      BY <1>4, <3>1, ShownKept
  <2> QED
    BY <2>4, <2>5, <2>6 DEF WalkLooks
<1> QED
  BY <1>12, <1>13, <1>14, <1>15, <1>16 DEF WalkInv

LEMMA LookKeeps ==
  ASSUME ReadsTyped, Walking, WalkInv, Look
  PROVE  WalkInv'
<1>1. NextRows(leg) \subseteq pending
  BY DEF NextRows
<1>2. Onward /\ UNCHANGED <<seeds, current>> /\ pending # {}
  BY DEF Look, Onward
<1>3. PICK p \in NextRows(leg) :
        /\ shown' = IF KeepsEdge(p) THEN shown \cup {p[2]} ELSE shown
        /\ IF p[1] \in visited
           THEN pending' = pending \ {p} /\ UNCHANGED <<queue, visited, level, parent>>
           ELSE IF Full
           THEN pending' = {} /\ UNCHANGED <<queue, visited, level, parent>>
           ELSE /\ pending' = pending \ {p} /\ queue' = Append(queue, p[1])
                /\ visited' = visited \cup {p[1]}
                /\ level' = Put(level, p[1], level[current] + 1)
                /\ parent' = Put(parent, p[1], current)
  BY DEF Look
<1>4. p \in pending
  BY <1>1
<1>5. CASE p[1] \in visited
  BY <1>2, <1>3, <1>4, <1>5, LookSkips
<1>6. CASE p[1] \notin visited /\ Full
  BY <1>2, <1>3, <1>4, <1>6, LookSkips
<1>7. CASE p[1] \notin visited /\ ~Full
  BY <1>2, <1>3, <1>4, <1>7, LookCollects
<1> QED
  BY <1>5, <1>6, <1>7

LEMMA BeginWalk ==
  ASSUME ReadsTyped, edges' = edges, ask' = ask, NEW way, NEW first, NEW found, Begin(way, first, found),
         \/ way = "both" /\ first = ask.focus /\ found = <<>>
         \/ /\ way \in {"upstream", "downstream"} /\ first = <<>> /\ found = ask.focus
            /\ Range(ask.focus) \subseteq Nodes
  PROVE  WalkInv'
<1>1. /\ leg' = way /\ seeds' = first /\ queue' = found /\ visited' = Range(found)
      /\ level' = [n \in Range(found) |-> 0] /\ parent' = <<>> /\ shown' = {} /\ pending' = {}
  BY DEF Begin
<1>2. ask.focus \in Seq(Range(ask.focus)) /\ ask.depth \in Nat
  BY ReadConstants DEF ReadsTyped
<1>3. found \in Seq(Range(found)) /\ Range(found) \subseteq Nodes \cap Range(ask.focus)
  <2>1. Range(<<>>) = {} /\ \A T : <<>> \in Seq(T)
    BY DEF Range
  <2> QED
    BY <1>2, <2>1
<1>4. /\ Collected' = Range(found) /\ Roots' = Range(found) /\ \A n \in Collected' : level'[n] = 0
  BY <1>1 DEF Collected, Roots
<1>5. Depth' \in Nat
  <2>1. \A a \in Nat : a \div 2 \in Nat
    OBVIOUS
  <2> QED
    BY <1>2, <2>1 DEF Depth
<1>6. \A i \in 1..Len(found) : found[i] \in Range(found)
  BY <1>3
<1>7. \A n \in Collected' : n \in Queued'
  <2>1. DOMAIN found = 1..Len(found)
    BY <1>3
  <2> QED
    BY <1>1, <1>4, <2>1 DEF Queued, Range
<1>8. WalkShape'
  <2>1. seeds' \in Seq(Range(ask.focus)) /\ Range(ask.focus)' = Range(ask.focus)
    <3>1. \A T : <<>> \in Seq(T)
      OBVIOUS
    <3> QED
      BY <1>1, <1>2, <3>1
  <2>2. Collected' = visited' \cap Nodes /\ queue' \in Seq(Collected')
    BY <1>1, <1>3, <1>4
  <2>3. \A n \in Collected' : level'[n] \in 0..Depth'
    BY <1>4, <1>5
  <2> QED
    BY <1>1, <1>4, <1>7, <2>1, <2>2, <2>3 DEF WalkShape
<1>9. WalkRooted'
  BY <1>1, <1>3, <1>4 DEF WalkRooted
<1>10. WalkTree'
  <2>1. \A n \in Range(found) : Near(Range(found), n, 0, way)
    BY <1>3, NearHere
  <2>2. \A S, n, k : Near(S, n, k, way)' <=> Near(S, n, k, way)
    BY NearSame
  <2>3. \A n \in Collected' : Near(Roots, n, level[n], leg)'
    BY <1>1, <1>4, <2>1, <2>2
  <2>4. DOMAIN parent' = {}
    BY <1>1
  <2> QED
    BY <2>3, <2>4 DEF WalkTree
<1>11. WalkOrder'
  BY <1>1, <1>4, <1>6 DEF WalkOrder
<1>12. WalkLooks'
  BY <1>1, <1>7 DEF WalkLooks
<1> QED
  BY <1>8, <1>9, <1>10, <1>11, <1>12 DEF WalkInv

LEMMA AnswerKept ==
  ASSUME edges' = edges, ask' = ask, NEW a, NEW way, WholeAnswer(a, way)
  PROVE  WholeAnswer(a, way)'
<1>1. \A S, n, k : Near(S, n, k, way)' <=> Near(S, n, k, way)
  BY NearSame
<1>2. \A n, m : Joined(n, m, way)' <=> Joined(n, m, way)
  BY DEF Joined, _get_neighbors, In, Out
<1>3. NearestFirst(a, way)'
  BY <1>1, <1>2 DEF WholeAnswer, NearestFirst, Sources
<1>4. way = "both" => EdgesOfTheInnerNodes(a, way)'
  BY <1>1 DEF WholeAnswer, EdgesOfTheInnerNodes, Sources
<1> QED
  BY <1>3, <1>4 DEF WholeAnswer

LEMMA StartKeeps ==
  ASSUME ReadsInv, Start
  PROVE  ReadsInv'
<1>1. /\ edges' = edges /\ ask' = ask /\ answer' = answer /\ ReadsTyped
      /\ \A way \in DOMAIN answer : WholeAnswer(answer[way], way)
  BY DEF Start, ReadsInv
<1>2. \A way \in DOMAIN answer' : WholeAnswer(answer[way], way)'
  <2>1. ASSUME NEW way \in DOMAIN answer PROVE WholeAnswer(answer[way], way)'
    <3>1. PICK a : a = answer[way]
      OBVIOUS
    <3>2. WholeAnswer(a, way)'
      BY <1>1, <3>1, AnswerKept
    <3> QED
      BY <1>1, <3>1, <3>2
  <2> QED
    BY <1>1, <2>1
<1>3. CASE leg' = "refused"
  BY <1>1, <1>2, <1>3 DEF ReadsInv, ReadsTyped, Walking
<1>4. CASE ask.tool = "why" /\ Range(ask.focus) \subseteq Nodes /\ Begin("upstream", <<>>, ask.focus)
  <2>1. leg' = "upstream"
    BY <1>4 DEF Begin
  <2>2. WalkInv'
    BY <1>1, <1>4, BeginWalk
  <2> QED
    BY <1>1, <1>2, <1>4, <2>1, <2>2 DEF ReadsInv, ReadsTyped
<1>5. CASE Begin("both", ask.focus, <<>>)
  <2>1. leg' = "both"
    BY <1>5 DEF Begin
  <2>2. WalkInv'
    BY <1>1, <1>5, BeginWalk
  <2> QED
    BY <1>1, <1>2, <2>1, <2>2 DEF ReadsInv, ReadsTyped
<1> QED
  BY <1>3, <1>4, <1>5 DEF Start

LEMMA FinishKeeps ==
  ASSUME ReadsInv, Finish
  PROVE  ReadsInv'
<1>1. /\ edges' = edges /\ ask' = ask /\ ReadsTyped /\ Walking /\ WalkInv
      /\ seeds = <<>> /\ pending = {} /\ queue = <<>>
      /\ \A way \in DOMAIN answer : WholeAnswer(answer[way], way)
  BY DEF Finish, ReadsInv
<1>2. PICK a, done : /\ a = [level |-> level, shown |-> shown, parent |-> parent,
                              capped |-> Full, depth |-> Depth]
                     /\ done = leg
  OBVIOUS
<1>3. WholeAnswer(a, done)
  BY <1>1, <1>2, WalkAnswers
<1>4. answer' = Put(answer, done, a)
  BY <1>2 DEF Finish
<1>5. \A way \in DOMAIN answer' : WholeAnswer(answer[way], way)'
  <2>1. ASSUME NEW way \in DOMAIN answer' PROVE WholeAnswer(answer[way], way)'
    <3>1. PICK b : b = answer'[way]
      OBVIOUS
    <3>2. WholeAnswer(b, way)
      BY <1>1, <1>3, <1>4, <3>1 DEF Put
    <3>3. WholeAnswer(b, way)'
      BY <1>1, <3>2, AnswerKept
    <3> QED
      BY <3>1, <3>3
  <2> QED
    BY <2>1
<1>6. CASE leg = "upstream"
  <2>1. Begin("downstream", <<>>, ask.focus) /\ Range(ask.focus) \subseteq Nodes
    BY <1>1, <1>6 DEF Finish, ReadsTyped
  <2>2. WalkInv'
    BY <1>1, <2>1, BeginWalk
  <2>3. leg' = "downstream"
    BY <2>1 DEF Begin
  <2> QED
    BY <1>1, <1>5, <2>1, <2>2, <2>3 DEF ReadsInv, ReadsTyped
<1>7. CASE leg # "upstream"
  <2>1. leg' = "answered"
    BY <1>7 DEF Finish
  <2> QED
    BY <1>1, <1>5, <2>1 DEF ReadsInv, ReadsTyped, Walking
<1> QED
  BY <1>6, <1>7

LEMMA ReadsKept ==
  ASSUME ReadsInv, [ReadNext]_rvars
  PROVE  ReadsInv'
<1>1. CASE Seed \/ Expand \/ Look
  <2>1. Walking /\ Onward /\ answer' = answer
    BY <1>1 DEF Seed, Expand, Look, Onward
  <2>2. WalkInv'
    BY <1>1, <2>1, SeedKeeps, ExpandKeeps, LookKeeps DEF ReadsInv
  <2>3. ReadsTyped'
    BY <2>1 DEF ReadsInv, ReadsTyped, Onward
  <2>4. \A way \in DOMAIN answer' : WholeAnswer(answer[way], way)'
    <3>1. ASSUME NEW way \in DOMAIN answer PROVE WholeAnswer(answer[way], way)'
      <4>1. PICK a : a = answer[way]
        OBVIOUS
      <4>2. WholeAnswer(a, way)'
        BY <2>1, <4>1, AnswerKept DEF ReadsInv, Onward
      <4> QED
        BY <2>1, <4>1, <4>2
    <3> QED
      BY <2>1, <3>1
  <2> QED
    BY <2>2, <2>3, <2>4 DEF ReadsInv
<1>2. CASE UNCHANGED rvars
  <2>1. UNCHANGED <<edges, ask, leg, seeds, queue, current, pending, visited, level, parent, shown, answer>>
    BY <1>2 DEF rvars
  <2>2. ReadsTyped' /\ (Walking' => WalkInv')
    <3> DEFINE same == Onward /\ UNCHANGED <<seeds, queue, current, pending, visited, level, parent, shown>>
    <3>1. same
      BY <2>1 DEF Onward
    <3>2. /\ Collected' = Collected /\ Queued' = Queued /\ Roots' = Roots /\ Full' = Full
      BY <2>1 DEF Collected, Queued, Roots, Full, Counted
    <3>3. /\ Depth' = Depth /\ Walking' = Walking /\ \A n : Around(n)' = Around(n)
      BY <3>1, SameAround
    <3>4. WalkShape => WalkShape'
      BY <2>1, <3>2, <3>3 DEF WalkShape
    <3>5. WalkRooted => WalkRooted'
      <4>1. Range(seeds)' = Range(seeds) /\ Range(ask.focus)' = Range(ask.focus)
        BY <2>1
      <4> QED
        BY <3>2, <4>1 DEF WalkRooted
    <3>6. WalkTree => WalkTree'
      BY <2>1, <3>1, <3>2, SameAround DEF WalkTree
    <3>7. WalkOrder => WalkOrder'
      BY <2>1, <3>2 DEF WalkOrder
    <3>8. \A n, R : LookedAt(n, R) => LookedAt(n, R)'
      BY <2>1, <3>2 DEF LookedAt
    <3>9. \A n : Done(n) => Done(n)'
      BY <2>1, <3>2, <3>3, <3>8 DEF Done, CutShort
    <3>10. WalkLooks => WalkLooks'
      <4>1. PICK c, R : c = current /\ R = Around(current) \ pending
        OBVIOUS
      <4>2. LookedAt(c, R)' => LookedAt(current, Around(current) \ pending)'
        <5>1. c = current' /\ R = (Around(current) \ pending)'
          BY <2>1, <3>3, <4>1 DEF Around, _get_neighbors, In, Out
        <5> QED
          BY <5>1 DEF LookedAt
      <4>3. LookedAt(current, Around(current) \ pending) => LookedAt(c, R)
        BY <4>1
      <4> QED
        BY <2>1, <3>2, <3>3, <3>8, <3>9, <4>2, <4>3 DEF WalkLooks
    <3>11. WalkInv => WalkInv'
      BY <3>4, <3>5, <3>6, <3>7, <3>10 DEF WalkInv
    <3> QED
      BY <2>1, <3>11 DEF ReadsInv, ReadsTyped, Walking
  <2>3. \A way \in DOMAIN answer' : WholeAnswer(answer[way], way)'
    <3>1. ASSUME NEW way \in DOMAIN answer PROVE WholeAnswer(answer[way], way)'
      <4>1. PICK a : a = answer[way]
        OBVIOUS
      <4>2. WholeAnswer(a, way)'
        BY <2>1, <4>1, AnswerKept DEF ReadsInv
      <4> QED
        BY <2>1, <4>1, <4>2
    <3> QED
      BY <2>1, <3>1
  <2> QED
    BY <2>2, <2>3 DEF ReadsInv
<1> QED
  BY <1>1, <1>2, StartKeeps, FinishKeeps DEF ReadNext

\* What the linter may apply to a node, the answer lists.
LEMMA RulesListed ==
  ASSUME NEW ns \in SUBSET Nodes
  PROVE  RulesOfTheNodesListed(ns)
<1> SUFFICES ASSUME NEW r \in RulesRead, NEW n \in ns,
                    NEW k \in {"from", "to", "for"} \cap DOMAIN r.spec, matches(r.spec[k], n)
             PROVE  /\ r \in _active_rules_for_node(n)
                    /\ r.type \in {"deny", "require"} =>
                         \E row \in _collect_constraints(ns) : row.name = r.name
  BY DEF RulesOfTheNodesListed
<1>1. PICK m : m = r.spec[k]
  OBVIOUS
<1>2. /\ n \in Nodes /\ n \notin m.exclude /\ m.ref \in {Blank, n} /\ m.kind \in {Blank, Row[n].kind}
  BY <1>1 DEF matches
<1>3. /\ r.type = "deny" => k \in {"from", "to"} /\ DOMAIN r.spec = {"from", "to", "unless"}
      /\ r.type = "forbid" => k \in {"from", "to"}
      /\ r.type \in {"require", "check"} => k = "for"
  <2>1. PICK text : r = ParsedRule(text) /\ r # Refused
    <3> DEFINE listed == Default(RulesYml, "rules", << >>)
               parsed == [i \in DOMAIN listed |-> ParsedRule(listed[i])]
    <3>1. RulesRead = Range(parsed) /\ Refused \notin Range(parsed)
      BY ReadConstants DEF RulesRead, load_rules
    <3> QED
      BY <3>1 DEF Range
  <2>2. PICK type, spec, name, severity :
          /\ r = [name |-> name, severity |-> severity, type |-> type, spec |-> spec]
          /\ spec # Refused /\ \E b : spec = ParsedBlock(type, b)
    BY <2>1 DEF ParsedRule
  <2>3. r.type = type /\ r.spec = spec
    BY <2>2
  <2>4. PICK b : spec = ParsedBlock(type, b)
    BY <2>2
  <2>5. type = "deny" => DOMAIN spec = {"from", "to", "unless"}
    BY <2>2, <2>4 DEF ParsedBlock, _parse_deny_rule
  <2>6. type = "forbid" => DOMAIN spec = {"from", "to", "edge_kind"}
    BY <2>2, <2>4 DEF ParsedBlock, _parse_forbid_rule
  <2>7. type = "require" => DOMAIN spec = {"for", "has_edge_to", "edge_kind"}
    BY <2>2, <2>4 DEF ParsedBlock, _parse_require_rule
  <2>8. type = "check" => DOMAIN spec = {"for", "max_symbols", "max_files", "min_doc_coverage"}
    BY <2>2, <2>4 DEF ParsedBlock, _parse_check_rule
  <2> QED
    BY <2>3, <2>5, <2>6, <2>7, <2>8
<1>4. r \in _active_rules_for_node(n)
  <2>1. Matchers(r) = {} \/ m \in Matchers(r)
    BY <1>1, <1>3 DEF Matchers
  <2> QED
    BY <1>2, <2>1 DEF _active_rules_for_node
<1>5. ASSUME r.type \in {"deny", "require"}
      PROVE  \E row \in _collect_constraints(ns) : row.name = r.name
  <2>1. PICK row : row = _serialize_rule(r)
    OBVIOUS
  <2>2. row \in RulesTable
    BY <2>1, ReadConstants DEF RulesTable, RulesRead, _load_rules_into_db
  <2>3. row.name = r.name /\ row.type = r.type
    <3>1. Default(RowType, r.type, r.type) = r.type
      BY <1>5 DEF Default, RowType
    <3> QED
      BY <2>1, <3>1 DEF _serialize_rule
  <2>4. k \in Subjects(row.type)
    BY <1>3, <1>5, <2>3 DEF Subjects
  <2>5. row.json[k] = _serialize_node_matcher(m)
    <3>1. r.spec[k] # Blank
      BY ReadConstants DEF RulesRead
    <3>2. ~NoItems(r.spec, k)
      BY DEF NoItems
    <3> QED
      BY <1>1, <2>1, <3>1, <3>2 DEF _serialize_rule
  <2>6. Get(row.json[k], "ref_id") = m.ref /\ Get(row.json[k], "kind") = m.kind
    BY <2>5 DEF _serialize_node_matcher, OnlyGiven, Get
  <2>7. _matcher_applies(row.json[k], ns)
    BY <1>2, <2>6 DEF _matcher_applies
  <2> QED
    BY <2>2, <2>3, <2>4, <2>7 DEF _collect_constraints
<1> QED
  BY <1>4, <1>5

\* Bundles and impact trees hold what is nearest to the question, level by level, whatever
\* the order of the rows, with every rule that may apply (bfs_subgraph, _build_tree,
\* _collect_constraints, _active_rules_for_node).
THEOREM AnswersAlwaysWhole == ReadInit /\ [][ReadNext]_rvars => []AnswersAreWhole
<1>1. ReadInit => ReadsInv
  <2> SUFFICES ASSUME ReadInit PROVE ReadsInv
    OBVIOUS
  <2>1. DOMAIN answer = {} /\ ~Walking /\ ReadsTyped
    BY DEF ReadInit, ReadsTyped, Walking
  <2> QED
    BY <2>1 DEF ReadsInv
<1>2. ReadsInv /\ [ReadNext]_rvars => ReadsInv'
  BY ReadsKept
<1>3. ReadsInv => AnswersAreWhole
  <2> SUFFICES ASSUME ReadsInv, NEW way \in DOMAIN answer
               PROVE  /\ NearestFirst(answer[way], way)
                      /\ way = "both" => /\ EdgesOfTheInnerNodes(answer[way], way)
                                         /\ RulesOfTheNodesListed(DOMAIN answer[way].level)
    BY DEF AnswersAreWhole
  <2>1. WholeAnswer(answer[way], way)
    BY DEF ReadsInv
  <2> QED
    BY <2>1, RulesListed DEF WholeAnswer
<1> QED
  BY <1>1, <1>2, <1>3, PTL
=============================================================================
