----------------------------- MODULE Federation -----------------------------
(***************************************************************************)
(* `beadloom federate': a hub composes the exports of several satellites,  *)
(* gives every edge and every contract a verdict, and lets a gate decide.  *)
(*                                                                         *)
(* An export has a repo, a landscape, nodes (a function from their refs)   *)
(* and edges, in the order of its file.  A node is [external, described],  *)
(* an edge is [dst, lifecycle, contract], where dst is [repo, ref] with    *)
(* the own repo filled in (which is what namespacing does) and contract a  *)
(* set of at most one payload.                                             *)
(* The sources of edges are left out: no verdict depends on them.          *)
(***************************************************************************)
EXTENDS GraphqlBreaking, AmqpBody, FiniteSets

CONSTANTS
  ExportLists,       \* the artifacts on a command line, in its order
  FailSets,          \* what --fail-on was given; {} stands for no gate
  NoLandscape,       \* that of an export that declares none
  Repos, Landscapes, Refs,   \* names of repositories, products and nodes
  ContractPayloads   \* what edges declare of contracts

VARIABLES
  exports, failOn,   \* the command line
  phase, next,       \* where aggregate_exports is: the loop, its next element
  nodes,             \* federated id -> node
  edges,             \* resolved edges
  verdicts,          \* verdicts[i]: that of edges[i]
  unresolved,        \* absent foreign targets
  contracts,         \* group -> contract
  failures, exit

vars == <<exports, failOn, phase, next, nodes, edges, verdicts, unresolved, contracts,
          failures, exit>>

-----------------------------------------------------------------------------
\* What a command line consists of

\* What may be left out is a set of one element or none.
AtMostOne(S) == {X \in SUBSET S : \A a, b \in X : a = b}

Partial(S, T) == UNION {[D -> T] : D \in SUBSET S}

Lifecycles == {"active", "planned", "deprecated", "dead", "external"}

Nodes == [external : BOOLEAN, described : BOOLEAN]

IsPayload(p) ==
  /\ p.protocol \in {"amqp", "graphql", "other"}
  /\ p.direction \in {"produces", "consumes"}
  /\ \A f \in DOMAIN p.fields : IsField(p.fields[f])
  /\ \A a, b \in p.body : IsBody(a) /\ a = b

ExportedEdges ==
  [dst : [repo : Repos, ref : Refs], lifecycle : Lifecycles, contract : AtMostOne(ContractPayloads)]

Exports ==
  [repo : Repos, landscape : Landscapes \cup {NoLandscape}, nodes : Partial(Refs, Nodes),
   edges : Seq(ExportedEdges)]

ASSUME PayloadsAssumption == \A p \in ContractPayloads : IsPayload(p)

ASSUME ExportsAssumption == ExportLists \subseteq Seq(Exports)

-----------------------------------------------------------------------------
\* Edges

Id(repo, ref) == [repo |-> repo, ref |-> ref]

NodesOf(x) == [id \in {Id(x.repo, ref) : ref \in DOMAIN x.nodes} |-> x.nodes[id.ref]]

\* Of two nodes with one id, the later one is looked up.
Merged(old, new) ==
  [id \in DOMAIN old \cup DOMAIN new |-> IF id \in DOMAIN new THEN new[id] ELSE old[id]]

ResolvedEdges(x) ==
  [i \in DOMAIN x.edges |->
     [repo |-> x.repo, landscape |-> x.landscape, dst |-> x.edges[i].dst,
      lifecycle |-> x.edges[i].lifecycle, contract |-> x.edges[i].contract]]

ByLifecycle(lifecycle, present) ==
  CASE lifecycle = "planned" -> "expected"
    [] lifecycle = "dead" -> "dead"
    [] lifecycle = "deprecated" -> IF present THEN "cleanup_candidate" ELSE "expected"
    [] OTHER -> IF present THEN "ok" ELSE "drift"

\* A target nobody describes, present or not.
EdgeVerdictByDescription(edge, union) ==
  LET present == edge.dst \in DOMAIN union
  IN  CASE edge.lifecycle = "external" \/ (present /\ union[edge.dst].external) -> "external"
        [] edge.lifecycle = "active" /\ ~ (present /\ union[edge.dst].described) -> "unmapped"
        [] OTHER -> ByLifecycle(edge.lifecycle, present)

EdgeVerdict(edge, union) ==
  LET present == edge.dst \in DOMAIN union
  IN  CASE edge.lifecycle = "external" \/ (present /\ union[edge.dst].external) -> "external"
        [] edge.lifecycle = "active" /\ present /\ ~ union[edge.dst].described -> "unmapped"
        [] OTHER -> ByLifecycle(edge.lifecycle, present)

\* Whatever the verdict, an id that is resolved is namespaced, hence foreign.
Unresolved(edge, union) ==
  IF edge.dst \notin DOMAIN union /\ EdgeVerdict(edge, union) \in {"drift", "expected"}
  THEN {edge.dst} ELSE {}

-----------------------------------------------------------------------------
\* Contracts

Payloads(edge) == {p \in edge.contract : p.protocol \in {"amqp", "graphql"}}

Key(p) == <<p.protocol, p.name>>

\* Keys that an edge into another repo declares.
CrossLandscapeKeys(es) ==
  UNION {{Key(p) : p \in Payloads(es[i])} : i \in {j \in DOMAIN es : es[j].dst.repo # es[j].repo}}

GroupKeyOfName(edge, p, crossKeys) == <<NoLandscape, Key(p)>>

GroupKey(edge, p, crossKeys) ==
  <<IF Key(p) \in crossKeys THEN NoLandscape ELSE edge.landscape, Key(p)>>

Significance == [active |-> 1, planned |-> 2, deprecated |-> 3, dead |-> 4, external |-> 5]

LastOneWins(current, candidate) ==
  IF Significance[candidate] > 1 THEN candidate ELSE current

MoreSignificant(current, candidate) ==
  IF Significance[candidate] > Significance[current] THEN candidate ELSE current

EmptySurface == [f \in {} |-> {}]

NewContract ==
  [directions |-> {}, lifecycle |-> "active", verdict |-> "none", exposed |-> {}, references |-> {},
   exposedFields |-> EmptySurface, referencedFields |-> EmptySurface,
   exposedBody |-> {}, referencedBody |-> {}]

LastBody(old, new) == IF new = {} THEN old ELSE new

\* _accumulate_surface: names are united, typed fields updated, a body replaced.
\* Whoever does not produce counts as a reader.
Accumulated(c, edge, p) ==
  LET produced == p.direction = "produces"
  IN  [c EXCEPT !.directions = @ \cup {p.direction},
                !.lifecycle = MoreSignificant(@, edge.lifecycle),
                !.exposed = @ \cup p.exposed,
                !.references = @ \cup p.references,
                !.exposedFields = IF produced THEN Merged(@, p.fields) ELSE @,
                !.referencedFields = IF produced THEN @ ELSE Merged(@, p.fields),
                !.exposedBody = IF produced THEN LastBody(@, p.body) ELSE @,
                !.referencedBody = IF produced THEN @ ELSE LastBody(@, p.body)]

\* One edge of the loop of reconcile_contracts.
Folded(cs, edge, crossKeys) ==
  LET Entry(g) == IF g \in DOMAIN cs THEN cs[g] ELSE NewContract
      new == [g \in {GroupKey(edge, p, crossKeys) : p \in Payloads(edge)} |->
                Accumulated(Entry(g), edge, CHOOSE p \in Payloads(edge) : TRUE)]
  IN  Merged(cs, new)

Typed(c) == c.exposedFields # EmptySurface /\ c.referencedFields # EmptySurface

\* The surface a consumer relies on and the producer breaks.
Missing(protocol, c) ==
  CASE protocol = "amqp" ->
         UNION {BreakingBodyDescriptors(p, r) : p \in c.exposedBody, r \in c.referencedBody}
    [] protocol = "graphql" /\ Typed(c) ->
         BreakingFieldDescriptors(c.exposedFields, c.referencedFields)
    [] OTHER -> {<<n>> : n \in c.references \ c.exposed}

Classify(protocol, c) ==
  CASE c.lifecycle = "external" -> "external"
    [] c.lifecycle = "dead" -> "dead"
    [] c.lifecycle \in {"planned", "deprecated"} -> "expected"
    [] c.lifecycle = "active" /\ {"produces", "consumes"} \subseteq c.directions ->
         IF Missing(protocol, c) # {} THEN "breaking" ELSE "confirmed"
    [] c.lifecycle = "active" /\ "consumes" \in c.directions /\ "produces" \notin c.directions ->
         "orphaned_consumer"
    [] OTHER -> "undeclared_producer"

Classified(cs) == [g \in DOMAIN cs |-> [cs[g] EXCEPT !.verdict = Classify(g[2][1], cs[g])]]

-----------------------------------------------------------------------------
\* The sweep of producers nobody listens to, and the gate

ConsumedGroups(es) ==
  UNION {{GroupKey(es[i], p, CrossLandscapeKeys(es)) :
            p \in {q \in Payloads(es[i]) : q.direction = "consumes"}} : i \in DOMAIN es}

UndeclaredByName(es, i) ==
  \E p \in es[i].contract :
    /\ p.protocol = "amqp"
    /\ p.direction = "produces"
    /\ \A j \in DOMAIN es, q \in UNION {es[k].contract : k \in DOMAIN es} :
         ~ (q \in es[j].contract /\ q.direction = "consumes" /\ Key(q) = Key(p))

Undeclared(es, i) ==
  \E p \in es[i].contract :
    /\ p.protocol = "amqp"
    /\ p.direction = "produces"
    /\ GroupKey(es[i], p, CrossLandscapeKeys(es)) \notin ConsumedGroups(es)

Swept(es, vs) == [i \in DOMAIN es |-> IF Undeclared(es, i) THEN "undeclared" ELSE vs[i]]

NeverFail ==
  {"external", "expected", "dead", "unmapped", "confirmed", "ok", "cleanup_candidate"}

SafeDefault == {"breaking", "drift", "orphaned_consumer", "undeclared_producer", "undeclared"}

GateFailures(vs, cs, wanted) ==
  {<<"edge", i, vs[i]>> : i \in {j \in DOMAIN vs : vs[j] \in wanted}}
    \cup {<<"contract", g, cs[g].verdict>> : g \in {h \in DOMAIN cs : cs[h].verdict \in wanted}}

-----------------------------------------------------------------------------
\* The command, step by step

Init ==
  /\ exports \in ExportLists
  /\ failOn \in FailSets
  /\ phase = "start" /\ next = 1
  /\ nodes = [id \in {} |-> {}]
  /\ edges = << >> /\ verdicts = << >>
  /\ unresolved = {}
  /\ contracts = [g \in {} |-> {}]
  /\ failures = {} /\ exit = "running"

FailSet == IF failOn = {"default"} THEN SafeDefault ELSE failOn \ {"default"}

Fed == <<nodes, edges, verdicts, unresolved, contracts>>

\* The command ends before it reconciles anything; nothing is written.
Refuse(code) ==
  /\ exit' = code /\ phase' = "stopped"
  /\ UNCHANGED <<exports, failOn, next, failures, Fed>>

TooFew ==
  /\ phase = "start"
  /\ Len(exports) < 2
  /\ Refuse("failed")

RejectFailOn ==
  /\ phase = "start"
  /\ Len(exports) >= 2
  /\ failOn \cap NeverFail # {}
  /\ Refuse("rejected")

\* An artifact that cannot be read, or is not a JSON object.
Unreadable ==
  /\ phase = "start"
  /\ Len(exports) >= 2
  /\ failOn \cap NeverFail = {}
  /\ Refuse("failed")

Start ==
  /\ phase = "start"
  /\ Len(exports) >= 2
  /\ failOn \cap NeverFail = {}
  /\ phase' = "nodes"
  /\ UNCHANGED <<exports, failOn, next, failures, exit, Fed>>

\* The loops of aggregate_exports, over exports or over edges.
Looping(loop, elements) == phase = loop /\ next <= Len(elements) /\ next' = next + 1

AddNodes ==
  /\ Looping("nodes", exports)
  /\ nodes' = Merged(nodes, NodesOf(exports[next]))
  /\ UNCHANGED <<exports, failOn, phase, edges, verdicts, unresolved, contracts, failures, exit>>

AddEdges ==
  /\ Looping("edges", exports)
  /\ edges' = edges \o ResolvedEdges(exports[next])
  /\ UNCHANGED <<exports, failOn, phase, nodes, verdicts, unresolved, contracts, failures, exit>>

AssignVerdict ==
  /\ Looping("verdicts", edges)
  /\ verdicts' = Append(verdicts, EdgeVerdict(edges[next], nodes))
  /\ unresolved' = unresolved \cup Unresolved(edges[next], nodes)
  /\ UNCHANGED <<exports, failOn, phase, nodes, edges, contracts, failures, exit>>

Reconcile ==
  /\ Looping("contracts", edges)
  /\ contracts' = Folded(contracts, edges[next], CrossLandscapeKeys(edges))
  /\ UNCHANGED <<exports, failOn, phase, nodes, edges, verdicts, unresolved, failures, exit>>

After == [nodes |-> "edges", edges |-> "verdicts", verdicts |-> "contracts", contracts |-> "classify"]

NextLoop ==
  /\ phase \in DOMAIN After
  /\ next > (IF phase \in {"nodes", "edges"} THEN Len(exports) ELSE Len(edges))
  /\ phase' = After[phase] /\ next' = 1
  /\ UNCHANGED <<exports, failOn, failures, exit, Fed>>

ClassifyAll ==
  /\ phase = "classify"
  /\ contracts' = Classified(contracts)
  /\ phase' = "sweep"
  /\ UNCHANGED <<exports, failOn, next, nodes, edges, verdicts, unresolved, failures, exit>>

MarkUndeclared ==
  /\ phase = "sweep"
  /\ verdicts' = Swept(edges, verdicts)
  /\ phase' = "gate"
  /\ UNCHANGED <<exports, failOn, next, nodes, edges, unresolved, contracts, failures, exit>>

\* The artifact has been written and printed before.
Gate ==
  /\ phase = "gate"
  /\ failures' = IF failOn = {} THEN {} ELSE GateFailures(verdicts, contracts, FailSet)
  /\ exit' = IF failures' = {} THEN "ok" ELSE "failed"
  /\ phase' = "done"
  /\ UNCHANGED <<exports, failOn, next, Fed>>

Next ==
  \/ TooFew \/ RejectFailOn \/ Unreadable \/ Start \/ NextLoop
  \/ AddNodes \/ AddEdges \/ AssignVerdict \/ Reconcile
  \/ ClassifyAll \/ MarkUndeclared \/ Gate

Spec == Init /\ [][Next]_vars

-----------------------------------------------------------------------------
\* Properties

Group(es, i, p) == GroupKey(es[i], p, CrossLandscapeKeys(es))

\* The edges that declare contract g, with what they declare.
Declarations(es, g) ==
  UNION {{<<i, p>> : p \in {q \in Payloads(es[i]) : Group(es, i, q) = g}} : i \in DOMAIN es}

Side(p) == p.direction = "produces"

\* A contract by its declarations alone: the most significant lifecycle, all names,
\* and of two bodies, or types of a field, on a side the one declared last.
MostSignificant(Ls) ==
  CHOOSE l \in {"active"} \cup Ls : \A k \in Ls : Significance[k] <= Significance[l]

Latest(D) == {d \in D : \A e \in D : e[1] <= d[1]}

FieldsOf(D) ==
  [f \in UNION {DOMAIN d[2].fields : d \in D} |->
     (CHOOSE d \in Latest({e \in D : f \in DOMAIN e[2].fields}) : TRUE)[2].fields[f]]

BodyOf(D) == UNION {d[2].body : d \in Latest({e \in D : e[2].body # {}})}

Made(D, side) == {d \in D : Side(d[2]) = side}

Together(es, D) ==
  [lifecycle |-> MostSignificant({es[d[1]].lifecycle : d \in D}),
   directions |-> {d[2].direction : d \in D},
   exposed |-> UNION {d[2].exposed : d \in D}, references |-> UNION {d[2].references : d \in D},
   exposedFields |-> FieldsOf(Made(D, TRUE)), referencedFields |-> FieldsOf(Made(D, FALSE)),
   exposedBody |-> BodyOf(Made(D, TRUE)), referencedBody |-> BodyOf(Made(D, FALSE))]

VerdictOf(es, g) == Classify(g[2][1], Together(es, Declarations(es, g)))

\* Within a contract nobody declares another body, or another type of a field,
\* than somebody else on the same side.
OneSurface(es, g) ==
  \A d, e \in Declarations(es, g) :
    Side(d[2]) = Side(e[2]) =>
      /\ d[2].body = {} \/ e[2].body = {} \/ d[2].body = e[2].body
      /\ \A f \in DOMAIN d[2].fields \cap DOMAIN e[2].fields : d[2].fields[f] = e[2].fields[f]

Reconciled == phase = "done"

\* The order of the artifacts on the command line, and so that of their edges,
\* decides no contract's verdict (tests/test_federate_f2_gate.py:334), as long as
\* nobody on the same side declares another surface: what reconcile_contracts folds
\* edge by edge is what the declarations say together in any order.
OrderFree ==
  Reconciled =>
    \A order \in Bijection(DOMAIN edges, DOMAIN edges) : \A g \in DOMAIN contracts :
      OneSurface(edges, g) =>
        VerdictOf([i \in DOMAIN edges |-> edges[order[i]]], g) = contracts[g].verdict

\* Products do not meet by chance (SPEC.md:188): what a product is told of a
\* contract no edge carries into another repo, and of its producers, is what
\* it would be told if it were federated alone.
ProductsApart ==
  Reconciled =>
    \A i \in DOMAIN edges : \A p \in Payloads(edges[i]) :
      Key(p) \notin CrossLandscapeKeys(edges) =>
        LET alone == Restrict(edges, {j \in DOMAIN edges : edges[j].landscape = edges[i].landscape})
        IN  /\ contracts[Group(edges, i, p)].verdict = VerdictOf(alone, Group(alone, i, p))
            /\ Undeclared(edges, i) <=> Undeclared(alone, i)

\* The default gate fails exactly for a live edge whose target no satellite has,
\* a live contract that is one-sided or broken, and a producer without consumers:
\* the overwriting of verdicts and the folding of lifecycles hide none of them
\* and add none.
GateFailsForBreaks ==
  (Reconciled /\ failOn = {"default"}) =>
    LET Exported(dst) == \E k \in DOMAIN exports :
                           exports[k].repo = dst.repo /\ dst.ref \in DOMAIN exports[k].nodes
        Lost(i) == edges[i].lifecycle = "active" /\ ~ Exported(edges[i].dst)
        Live(g) == \A d \in Declarations(edges, g) : edges[d[1]].lifecycle = "active"
        Directions(g) == {d[2].direction : d \in Declarations(edges, g)}
        Broken(g) == ~ ({"produces", "consumes"} \subseteq Directions(g))
                       \/ Missing(g[2][1], contracts[g]) # {}
        Unheard(i) == \E p \in Payloads(edges[i]) :
                        /\ Key(p)[1] = "amqp" /\ Side(p)
                        /\ "consumes" \notin Directions(Group(edges, i, p))
    IN  exit = "failed" <=>
          \/ \E i \in DOMAIN edges : Lost(i) \/ Unheard(i)
          \/ \E g \in DOMAIN contracts : Live(g) /\ Broken(g)

\* For a live AMQP contract the two sweeps say the same: an edge is undeclared
\* exactly if it produces into a contract that is an undeclared producer's.
LiveVerdictsAgree ==
  Reconciled =>
    \A i \in DOMAIN edges : \A p \in Payloads(edges[i]) :
      LET c == contracts[Group(edges, i, p)]
      IN  (p.protocol = "amqp" /\ c.lifecycle = "active") =>
            (verdicts[i] = "undeclared" <=> Side(p) /\ c.verdict = "undeclared_producer")

\* A confirmed AMQP contract can be used: every message that conforms to the body
\* of a producer has what a consumer requires, where and as it reads it, as far as types
\* are known and arrays not nested (breaking_body_descriptors compares the schemas only).
ConfirmedIsReadable ==
  Reconciled =>
    \A g \in DOMAIN contracts :
      (g[2][1] = "amqp" /\ contracts[g].verdict = "confirmed" /\ OneSurface(edges, g)) =>
        \A d, e \in Declarations(edges, g) : Side(d[2]) /\ ~ Side(e[2]) =>
          \A b \in d[2].body, c \in e[2].body : TypesKnown(b) /\ ItemsCompared(c) =>
            \A m \in Messages(b) : Readable(m, c)

\* Between typed surfaces a GraphQL contract is breaking exactly if the consumer
\* uses a field that is gone, or may receive or send a value the other side does
\* not take (args the producer has dropped are not looked at).
TypedBreakIsReal ==
  Reconciled =>
    \A g \in DOMAIN contracts :
      LET c == contracts[g]
          Works(f) == f \in DOMAIN c.exposedFields
                        /\ Understood(c.exposedFields[f], c.referencedFields[f])
      IN  (g[2][1] = "graphql" /\ Typed(c) /\ c.verdict \in {"confirmed", "breaking"}) =>
            (c.verdict = "breaking" <=> \E f \in DOMAIN c.referencedFields : ~ Works(f))

\* A body or field surface that is passed can be used, and one that is failed cannot.
SurfacesAreUsable == ConfirmedIsReadable /\ TypedBreakIsReal

\* A contract's verdict depends on its declarations only: neither on the order of the
\* artifacts nor on other products.
VerdictsAreOwn == OrderFree /\ ProductsApart

\* What the gate does and what the two sweeps say follow from the same declarations.
VerdictsAreTrue == GateFailsForBreaks /\ LiveVerdictsAgree

\* SPEC.md:187: "an additional projection over the same fact, not a replacement);
\* both stay intact and never contradict".  Violated: the sweep does not look at
\* lifecycles, so an edge can be undeclared in a contract that is expected or dead.
VerdictsNeverContradict ==
  Reconciled =>
    \A i \in DOMAIN edges : \A p \in Payloads(edges[i]) :
      verdicts[i] = "undeclared" => contracts[Group(edges, i, p)].verdict = "undeclared_producer"

=============================================================================
