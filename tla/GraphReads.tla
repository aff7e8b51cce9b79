----------------------------- MODULE GraphReads -----------------------------
(***************************************************************************)
(* The two bounded walks over the graph tables: bfs_subgraph, behind `ctx` *)
(* and `graph`, and the impact trees of `why`, with the rules listed       *)
(* beside them. Rows come in no stated order.                              *)
(***************************************************************************)
EXTENDS RuleFile

CONSTANTS
  Nodes, Row,    \* rows of the nodes table: [Nodes -> [kind, tags]]
  EdgeSets,      \* contents the edges table may have: sets of [src, dst, kind]
  Questions,     \* [tool, focus, depth, cap, reverse]
  RulesYml       \* rules.yml, also when the tables were loaded

VARIABLES
  edges, ask,    \* the tables, the question
  leg,           \* the walk under way: "both" ways, "upstream" or "downstream", or "answered"
  seeds,         \* focus nodes still to be looked up
  queue, current, pending,   \* current node and its neighbours still to be looked at
  visited, level, parent,    \* level: [collected node -> depth]
  shown,         \* edges collected
  answer         \* [leg -> [level, shown, parent]]

rvars == <<edges, ask, leg, seeds, queue, current, pending, visited, level, parent, shown, answer>>

NoNode == "none"

ASSUME ReadConstants ==
  /\ load_rules(RulesYml) # Refused
  /\ \A q \in Questions :
       /\ q.tool \in {"ctx", "graph", "why"} /\ {q.depth, q.cap} \subseteq Nat
       /\ q.focus \in Seq(Range(q.focus)) /\ (q.tool = "why" => Len(q.focus) = 1)
  /\ \A e \in UNION EdgeSets : {e.src, e.dst} \subseteq Nodes   \* foreign keys
  /\ \A r \in load_rules(RulesYml) : \A k \in {"from", "to", "for"} \cap DOMAIN r.spec :
       r.spec[k] # Blank                                        \* null is no matcher

-----------------------------------------------------------------------------
(* What the walks look at.                                                 *)

_EDGE_PRIORITY == [part_of |-> 1, touches_entity |-> 2, uses |-> 3, implements |-> 3,
                   depends_on |-> 4, touches_code |-> 5]
Out(n) == {<<e.dst, e>> : e \in {x \in edges : x.src = n}}
In(n) == {<<e.src, e>> : e \in {x \in edges : x.dst = n}}
_get_neighbors(n, way) == (IF way = "downstream" THEN {} ELSE Out(n))
                            \cup (IF way = "upstream" THEN {} ELSE In(n))

\* Only the subgraph is sorted, by the kind of the edge.
NextRows(way) ==
  IF way # "both" THEN pending
  ELSE {p \in pending : \A o \in pending : _EDGE_PRIORITY[p[2].kind] <= _EDGE_PRIORITY[o[2].kind]}

\* The start of an impact tree is not one of its nodes.
Counted == Cardinality(visited) - (IF leg = "both" THEN 0 ELSE 1)
Full == Counted >= ask.cap
Depth == IF leg = "downstream" /\ ask.reverse THEN (IF ask.depth < 2 THEN 1 ELSE ask.depth \div 2)
         ELSE ask.depth

\* Mutant: only the edge by which a node was found is kept.
OnlyTreeEdges(p) == p[1] \notin visited
KeepsEdge(p) == leg = "both"

-----------------------------------------------------------------------------
(* Steps.                                                                  *)

Put(f, x, y) == [z \in DOMAIN f \cup {x} |-> IF z = x THEN y ELSE f[z]]

Begin(way, first, found) ==
  /\ leg' = way /\ seeds' = first /\ queue' = found
  /\ visited' = Range(found) /\ level' = [n \in Range(found) |-> 0]
  /\ parent' = <<>> /\ shown' = {} /\ current' = NoNode /\ pending' = {}

\* A bundle, and an impact analysis, of a ref_id that is no node is refused with
\* suggestions; `graph` ignores it, though it counts towards the cap.
Start ==
  /\ leg = "asked"
  /\ IF ask.tool # "graph" /\ ~(Range(ask.focus) \subseteq Nodes)
     THEN /\ leg' = "refused"
          /\ UNCHANGED <<seeds, queue, current, pending, visited, level, parent, shown>>
     ELSE IF ask.tool = "why" THEN Begin("upstream", <<>>, ask.focus)
     ELSE Begin("both", ask.focus, <<>>)
  /\ UNCHANGED <<edges, ask, answer>>

Walking == leg \in {"both", "upstream", "downstream"}

Seed ==
  /\ Walking /\ seeds # <<>> /\ seeds' = Tail(seeds)
  /\ LET n == Head(seeds) new == n \notin visited /\ ~Full IN
       /\ visited' = IF new THEN visited \cup {n} ELSE visited
       /\ IF new /\ n \in Nodes THEN level' = Put(level, n, 0) /\ queue' = Append(queue, n)
          ELSE UNCHANGED <<level, queue>>
  /\ UNCHANGED <<edges, ask, leg, current, pending, parent, shown, answer>>

Expand ==
  /\ Walking /\ seeds = <<>> /\ pending = {} /\ queue # <<>>
  /\ LET n == Head(queue) IN
       /\ current' = n /\ queue' = Tail(queue)
       /\ pending' = IF level[n] >= Depth THEN {} ELSE _get_neighbors(n, leg)
  /\ UNCHANGED <<edges, ask, leg, seeds, visited, level, parent, shown, answer>>

\* One neighbour. At the cap the rest of the neighbours, and their edges, are passed over.
Look ==
  /\ Walking /\ pending # {}
  /\ \E p \in NextRows(leg) :
       /\ shown' = IF KeepsEdge(p) THEN shown \cup {p[2]} ELSE shown
       /\ IF p[1] \in visited
          THEN pending' = pending \ {p} /\ UNCHANGED <<queue, visited, level, parent>>
          ELSE IF Full
          THEN pending' = {} /\ UNCHANGED <<queue, visited, level, parent>>
          ELSE /\ pending' = pending \ {p} /\ queue' = Append(queue, p[1])
               /\ visited' = visited \cup {p[1]}
               /\ level' = Put(level, p[1], level[current] + 1)
               /\ parent' = Put(parent, p[1], current)
  /\ UNCHANGED <<edges, ask, leg, seeds, current, answer>>

Finish ==
  /\ Walking /\ seeds = <<>> /\ pending = {} /\ queue = <<>>
  /\ answer' = Put(answer, leg, [level |-> level, shown |-> shown, parent |-> parent,
                                 capped |-> Full, depth |-> Depth])
  /\ IF leg = "upstream" THEN Begin("downstream", <<>>, ask.focus)
     ELSE /\ leg' = "answered"
          /\ UNCHANGED <<seeds, queue, current, pending, visited, level, parent, shown>>
  /\ UNCHANGED <<edges, ask>>

ReadInit ==
  /\ edges \in EdgeSets /\ ask \in Questions /\ leg = "asked"
  /\ seeds = <<>> /\ queue = <<>> /\ current = NoNode /\ pending = {} /\ visited = {}
  /\ level = <<>> /\ parent = <<>> /\ shown = {} /\ answer = <<>>

ReadNext == Start \/ Seed \/ Expand \/ Look \/ Finish

-----------------------------------------------------------------------------
(* Rules beside the answer.                                                *)

RulesRead == load_rules(RulesYml)
RulesTable == _load_rules_into_db(RulesYml)

\* What the linter asks of a node.
matches(m, n) == /\ n \notin m.exclude /\ m.ref \in {Blank, n}
                 /\ m.kind \in {Blank, Row[n].kind}
                 /\ (m.tag = Blank \/ m.tag \in Row[n].tags)

\* What the bundle asks of a row: tags and exclusions are not looked at.
_matcher_applies(json, ns) ==
  \E n \in ns \cap Nodes : Get(json, "ref_id") \in {Blank, n} /\ Get(json, "kind") \in {Blank, Row[n].kind}

\* Mutant: a deny rule is listed for the node it is about only.
FirstSubject(type) == CASE type = "deny" -> {"from"} [] type = "require" -> {"for"} [] OTHER -> {}
Subjects(type) == CASE type = "deny" -> {"from", "to"} [] type = "require" -> {"for"} [] OTHER -> {}
_collect_constraints(ns) ==
  {row \in RulesTable : \E k \in Subjects(row.type) : _matcher_applies(row.json[k], ns)}

\* bead_context reads the file again. It passes no tags, and then any tag will do; a rule
\* of another type counts as one about everything.
Matchers(r) ==
  CASE r.type \in {"deny", "forbid"} -> {r.spec.from, r.spec.to}
    [] r.type \in {"require", "check"} -> {r.spec.for}
    [] OTHER -> {}
_active_rules_for_node(n) ==
  {r \in RulesRead : Matchers(r) = {} \/ \E m \in Matchers(r) :
     n \notin m.exclude /\ m.ref \in {Blank, n} /\ m.kind \in {Blank, Row[n].kind}}

-----------------------------------------------------------------------------
(* Properties.                                                             *)

\* What the rows say of distances: n can be reached in k steps, or fewer.
Joined(n, m, way) == \E p \in _get_neighbors(n, way) : p[1] = m
Near(sources, n, k, way) ==
  \E w \in [0..k -> Nodes] : /\ w[0] \in sources /\ w[k] = n
                            /\ \A i \in 1..k : w[i] = w[i - 1] \/ Joined(w[i - 1], w[i], way)
Sources(a) == {n \in DOMAIN a.level : a.level[n] = 0}

\* What an answer holds are the nodes nearest to the question, each at its distance: a
\* node within the depth is left out only at the cap, and then no farther one is in. So
\* direct and transitive dependents are what they say, whatever the order of the rows, and
\* a tree hangs every node under one it is really joined to.
NearestFirst(a, way) ==
  LET from == Sources(a) known == DOMAIN a.level IN
  /\ from \subseteq Range(ask.focus) /\ (a.capped \/ Range(ask.focus) \cap Nodes \subseteq from)
  /\ \A n \in known : a.level[n] \in 0..a.depth /\ Near(from, n, a.level[n], way)
  /\ \A n \in DOMAIN a.parent :
       a.level[n] = a.level[a.parent[n]] + 1 /\ Joined(a.parent[n], n, way)
  /\ \A m \in Nodes, k \in 0..a.depth :
       \/ IF m \in known THEN a.level[m] <= k ELSE a.capped /\ \A n \in known : a.level[n] <= k
       \/ ~Near(from, m, k, way)

\* A bundle that leaves no node out shows every edge of its inner nodes: two neighbours
\* of the focus are not shown as unrelated when they are not.
EdgesOfTheInnerNodes(a, way) ==
  LET inner == {e \in edges : \E n \in {e.src, e.dst} \cap DOMAIN a.level : a.level[n] < a.depth}
  IN /\ a.shown \subseteq inner
     /\ a.shown = inner \/ \E n \in Nodes \ DOMAIN a.level : Near(Sources(a), n, a.depth, way)

\* Every deny or require rule the linter may apply to a node of the bundle is listed in it,
\* and every rule it may apply to the node of a bead in the bead's context.
RulesOfTheNodesListed(ns) ==
  \A r \in RulesRead, n \in ns :
    (\E k \in {"from", "to", "for"} \cap DOMAIN r.spec : matches(r.spec[k], n)) =>
      /\ r \in _active_rules_for_node(n)
      /\ r.type \in {"deny", "require"} => \E row \in _collect_constraints(ns) : row.name = r.name

\* Nothing near is missing from an answer, and nothing far stands in for it.
AnswersAreWhole ==
  \A way \in DOMAIN answer :
    LET a == answer[way] IN
    /\ NearestFirst(a, way)
    /\ way = "both" => EdgesOfTheInnerNodes(a, way) /\ RulesOfTheNodesListed(DOMAIN a.level)
=============================================================================
