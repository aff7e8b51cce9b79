-------------------------- MODULE GraphqlBreaking --------------------------
(***************************************************************************)
(* graphql_breaking.py: which references of a consumer a producer breaks.  *)
(*                                                                         *)
(* A type is a leaf wrapped in lists.  `nonNull' has one entry per level,  *)
(* the outermost first; the last one is that of the leaf.  A surface maps  *)
(* names of operation fields to their type and the types of their args.    *)
(***************************************************************************)
EXTENDS Naturals, Sequences

CONSTANT Leaves    \* names of the types that are no lists

ASSUME LeavesAssumption == Leaves \cap {"null", "empty"} = {}

\* Types wrapped to any depth, and fields with args of such types.
WrappedTypes == [nonNull : Seq(BOOLEAN) \ {<< >>}, leaf : Leaves]

IsField(f) == f.type \in WrappedTypes /\ \A a \in DOMAIN f.args : f.args[a] \in WrappedTypes

SatisfiesAtTheTop(producer, consumer) ==
  /\ Len(producer.nonNull) = Len(consumer.nonNull)
  /\ producer.leaf = consumer.leaf
  /\ consumer.nonNull[1] => producer.nonNull[1]

\* Every level of the producer's type promises what the consumer relies on.
Satisfies(producer, consumer) ==
  /\ Len(producer.nonNull) = Len(consumer.nonNull)
  /\ producer.leaf = consumer.leaf
  /\ \A l \in DOMAIN consumer.nonNull : consumer.nonNull[l] => producer.nonNull[l]

\* What the consumer supplies has to satisfy what the producer asks for; an arg
\* it leaves out must not be required.
BrokenArgs(producer, consumer) ==
  {a \in DOMAIN producer.args :
     IF a \in DOMAIN consumer.args
     THEN ~ Satisfies(consumer.args[a], producer.args[a])
     ELSE producer.args[a].nonNull[1]}

\* Descriptors: <<field>>, or <<field, arg>>.
BreakingFieldDescriptors(exposed, referenced) ==
  UNION {IF f \notin DOMAIN exposed
         THEN {<<f>>}
         ELSE {<<f>> : x \in {y \in {f} : ~ Satisfies(exposed[f].type, referenced[f].type)}}
                \cup {<<f, a>> : a \in BrokenArgs(exposed[f], referenced[f])}
         : f \in DOMAIN referenced}

-----------------------------------------------------------------------------
\* The meaning of a type, independent of the code: the values a client may
\* receive.  Following one element of each list, a value is null or an empty
\* list at some level, or reaches a leaf.
Values(type) ==
  {[level |-> l, is |-> "null"] : l \in {k \in DOMAIN type.nonNull : ~ type.nonNull[k]}}
    \cup {[level |-> l, is |-> "empty"] : l \in 1..(Len(type.nonNull) - 1)}
    \cup {[level |-> Len(type.nonNull), is |-> type.leaf]}

\* What the producer may return the consumer can take, and what the consumer
\* sends the producer accepts; leaving an arg out is sending null.
Understood(producer, consumer) ==
  /\ Values(producer.type) \subseteq Values(consumer.type)
  /\ \A a \in DOMAIN producer.args :
       IF a \in DOMAIN consumer.args
       THEN Values(consumer.args[a]) \subseteq Values(producer.args[a])
       ELSE [level |-> 1, is |-> "null"] \in Values(producer.args[a])

=============================================================================
