---------------------------- MODULE MCFederation ----------------------------
(***************************************************************************)
(* Instances of Federation for TLC, one family of command lines for each   *)
(* part of the hub.  A satellite has one or two edges at most.             *)
(***************************************************************************)
EXTENDS Federation

CONSTANTS r1, r2, r3, L1, L2, n, x, y, T, U

Node(e, d) == [external |-> e, described |-> d]
Plain == [ref \in {n} |-> Node(FALSE, TRUE)]

Export(r, l, ns, es) ==
  [repo |-> r, landscape |-> l, nodes |-> ns, edges |-> es]
Edge(repo, l, c) == [dst |-> Id(repo, n), lifecycle |-> l, contract |-> c]

Payload(protocol, direction) ==
  [protocol |-> protocol, name |-> x, direction |-> direction, exposed |-> {}, references |-> {},
   fields |-> EmptySurface, body |-> {}]

Pair(p, c) == <<Export(r1, NoLandscape, Plain, <<Edge(r1, "active", {p})>>),
                Export(r2, NoLandscape, Plain, <<Edge(r2, "active", {c})>>)>>

\* Edges without a contract, and their targets: absent, external, undescribed, whole.
Targets == {EmptySurface} \cup [{n} -> {Node(TRUE, TRUE), Node(FALSE, FALSE), Node(FALSE, TRUE)}]

Dependencies ==
  {<<Export(r1, NoLandscape, Plain, <<Edge(r2, l, {}), Edge(r2, "active", c)>>),
     Export(r2, NoLandscape, ns, << >>)>>
     : l \in DOMAIN Significance, ns \in Targets, c \in {{}, {Payload("amqp", "produces")}}}
    \cup {<<Export(r1, NoLandscape, Plain, << >>)>>}

\* Three satellites of two products and one message.
Message(r, l) ==
  {Export(r, l, Plain, es) : es \in {<< >>} \cup
     {<<Edge(to, life, {Payload("amqp", d)})>> : to \in {r, r1},
        life \in {"active", "planned", "dead"}, d \in {"produces", "consumes"}}}

Messages3 == UNION {{<<a, b, c>> : a \in Message(r1, L1), b \in Message(r2, l), c \in Message(r3, L2)}
                      : l \in {L1, L2, NoLandscape}}

\* The bodies of one producer and one consumer.
Scalar(type, enum) == [path \in {<< >>} |-> [BodySchema EXCEPT !.type = type, !.enum = enum]]
Nested(type, parts, req) ==
  [path \in {<< >>} \cup UNION {{<<k>> \o p : p \in DOMAIN parts[k]} : k \in DOMAIN parts} |->
     IF path = << >> THEN [BodySchema EXCEPT !.type = type, !.required = req]
     ELSE parts[Head(path)][Tail(path)]]
Struct(parts, req) == Nested("object", parts, req)
Array(items) == Nested("array", [k \in {"[]"} |-> items], {})

Inner == {Scalar("int", {}), Scalar("str", {})}
Child ==
  Inner \cup {Scalar("int", {1}), Scalar("int", {1, 2})}
    \cup {Struct([k \in {x} |-> i], req) : i \in Inner, req \in SUBSET {x}}
    \cup {Array(i) : i \in Inner \cup {Struct([k \in {x} |-> j], {x}) : j \in Inner}} \cup {Nested("array", EmptySurface, {})}

MCBodies == {Struct([k \in {y} |-> c], req) : c \in Child, req \in SUBSET {y}} \cup {Struct(EmptySurface, {})}

BodyPairs ==
  {Pair([Payload("amqp", "produces") EXCEPT !.body = {b}], [Payload("amqp", "consumes") EXCEPT !.body = {c}])
     : b \in MCBodies, c \in MCBodies}

\* Two consumers of one producer, that may read different bodies.
Reader(r, bs) == Export(r, L1, Plain, <<Edge(r, "active", {[Payload("amqp", "consumes") EXCEPT !.body = bs]})>>)
SmallBodies == {{}} \cup {{Struct([k \in {y} |-> c], req)} : c \in Inner, req \in SUBSET {y}}

BodyTriples ==
  {<<Reader(r1, b),
     Export(r2, L1, Plain, <<Edge(r2, "active", {[Payload("amqp", "produces") EXCEPT !.body = p]})>>),
     Reader(r3, c)>> : b \in SmallBodies, p \in SmallBodies, c \in SmallBodies}

\* GraphQL surfaces, by name and by type.
NamePairs ==
  {Pair([Payload("graphql", "produces") EXCEPT !.exposed = p], [Payload("graphql", "consumes") EXCEPT !.references = c])
     : p \in SUBSET {x, y}, c \in SUBSET {x, y}}

\* One producer between two consumers.
NameTriples ==
  {<<Export(r1, L1, Plain, <<Edge(r1, "active", {[Payload("graphql", "consumes") EXCEPT !.references = a]})>>),
     Export(r2, L1, Plain, <<Edge(r2, "active", {[Payload("graphql", "produces") EXCEPT !.exposed = b]})>>),
     Export(r3, L1, Plain, <<Edge(r3, "active", {[Payload("graphql", "consumes") EXCEPT !.references = c]})>>)>>
     : a \in SUBSET {x, y}, b \in SUBSET {x, y}, c \in SUBSET {x, y}}

Types == {[nonNull |-> s, leaf |-> t] : s \in UNION {[1..k -> BOOLEAN] : k \in 1..2}, t \in Leaves}
MCFields == {[type |-> t, args |-> as] : t \in Types, as \in {EmptySurface} \cup [{y} -> {u \in Types : u.leaf = T}]}

Surfaces == {EmptySurface} \cup [{x} -> MCFields]
SurfacePairs ==
  {Pair([Payload("graphql", "produces") EXCEPT !.fields = p], [Payload("graphql", "consumes") EXCEPT !.fields = c])
     : p \in Surfaces, c \in Surfaces}

MCExportLists == Dependencies \cup Messages3 \cup BodyPairs \cup BodyTriples \cup NamePairs \cup NameTriples \cup SurfacePairs

MCPayloads == UNION {UNION {UNION {e[k].contract : k \in DOMAIN e} :
                       e \in {xs[i].edges : i \in DOMAIN xs}} : xs \in MCExportLists}

MCFailSets == {{"default"}, {}, {"default", "drift"}, {"drift", "expected"}}

\* Bound: the other arguments of --fail-on are tried without contracts only.
MCInit == Init /\ (failOn = {"default"} \/ exports \in Dependencies)

MCSpec == MCInit /\ [][Next]_vars

=============================================================================
