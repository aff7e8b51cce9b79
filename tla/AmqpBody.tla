------------------------------ MODULE AmqpBody ------------------------------
(***************************************************************************)
(* amqp_body.py: the diff of the body schema a producer declares and the   *)
(* one a consumer reads.  A body is a function from paths to schemas: the  *)
(* empty path is the body itself, a name leads on to a property and "[]"   *)
(* to the items of an array.  What the code does at a schema it comes to   *)
(* by recursion is said of the path that leads there.                      *)
(***************************************************************************)
EXTENDS Naturals, Sequences, SequencesExt

\* A schema of which nothing is known: type, required names, enum (empty if none).
BodySchema == [type |-> "", required |-> {}, enum |-> {}]

IsBody(body) ==
  /\ << >> \in DOMAIN body
  /\ \A path \in DOMAIN body :
       /\ path \in Seq(Range(path))
       /\ \A k \in 0..Len(path) : SubSeq(path, 1, k) \in DOMAIN body
       /\ "[]" \notin body[path].required

TypesIgnored(producer, consumer) == TRUE

\* A type that is not known breaks nothing.
TypesCompatible(producer, consumer) ==
  "" \in {producer.type, consumer.type} \/ producer.type = consumer.type

EnumNarrowed(producer, consumer) ==
  /\ consumer.enum # {}
  /\ producer.enum # {}
  /\ ~ (consumer.enum \subseteq producer.enum)

Object(body, path) ==
  \/ body[path].type = "object"
  \/ \E p \in DOMAIN body : p # << >> /\ Front(p) = path /\ Last(p) # "[]"

Mismatch(producer, consumer) ==
  ~ TypesCompatible(producer, consumer) \/ EnumNarrowed(producer, consumer)

\* Items that a producer does not declare are not known.
Declared(producer, path) == IF path \in DOMAIN producer THEN producer[path] ELSE BodySchema

\* A property that is read must be declared, and required if the reader requires it.
DiffNode(producer, consumer, path) ==
  \/ Mismatch(Declared(producer, path), consumer[path])
  \/ /\ Last(path) # "[]"
     /\ \/ path \notin DOMAIN producer
        \/ Last(path) \in consumer[Front(path)].required \ Declared(producer, Front(path)).required

\* The items of an array that is an item itself are not looked into.
DiffItems(consumer, path) ==
  path # << >> /\ Last(path) # "[]" /\ ~ Object(consumer, path) /\ consumer[path].type = "array"

\* Nothing is looked at below what breaks.
Diff(producer, consumer, path) ==
  /\ \A k \in 1..Len(path) : path[k] = "[]" => DiffItems(consumer, SubSeq(path, 1, k - 1))
  /\ \A k \in 1..(Len(path) - 1) : ~ DiffNode(producer, consumer, SubSeq(path, 1, k))

BreakingBodyDescriptors(producer, consumer) ==
  {path \in DOMAIN consumer \ {<< >>} :
     Diff(producer, consumer, path) /\ DiffNode(producer, consumer, path)}

-----------------------------------------------------------------------------
\* The meaning of a body, independent of the code: the messages a producer may
\* send, with lists of one element, each by the types at the paths it fills;
\* and whether a consumer can read one.
Messages(body) ==
  LET Sent == {filled \in SUBSET DOMAIN body :
                 /\ << >> \in filled
                 /\ \A path \in filled \ {<< >>} : Front(path) \in filled
                 /\ \A path \in DOMAIN body \ {<< >>} :
                      Front(path) \in filled /\ Last(path) \in body[Front(path)].required => path \in filled}
  IN  {[path \in filled |-> body[path].type] : filled \in Sent}

Readable(message, body) ==
  \A path \in DOMAIN body \ {<< >>} : Front(path) \in DOMAIN message =>
    IF path \in DOMAIN message
    THEN body[path].type \in {"", message[path]}
    ELSE Last(path) \notin body[Front(path)].required

\* What the diff can tell: types are known, and no array is an item.
TypesKnown(body) == \A path \in DOMAIN body \ {<< >>} : body[path].type # ""

ItemsCompared(body) ==
  \A path \in DOMAIN body \ {<< >>} : Last(path) = "[]" => DiffItems(body, Front(path))

=============================================================================
