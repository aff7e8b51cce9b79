------------------------------ MODULE RuleFile ------------------------------
(***************************************************************************)
(* rules.yml: what its text makes the linter enforce, and the rows of the  *)
(* rules table (graph/rules/loader.py, application/reindex/rules_loader.py).*)
(*                                                                         *)
(* A mapping is a function from the keys that are there.  A glob is the    *)
(* set of what it matches, a list whose order does not matter a set.       *)
(***************************************************************************)
EXTENDS Naturals, Sequences, FiniteSets, SequencesExt

CONSTANTS
  Blank,       \* null, and what get() returns for a key that is not there
  Garbage,     \* a value of a type the reader does not expect
  Refused      \* ValueError

Get(d, k) == IF k \in DOMAIN d THEN d[k] ELSE Blank
Default(d, k, v) == IF k \in DOMAIN d THEN d[k] ELSE v
Given(v) == v \notin {Blank, Garbage}

VALID_NODE_KINDS == {"domain", "feature", "component", "service", "entity", "adr"}
VALID_EDGE_KINDS == {"part_of", "depends_on", "uses", "implements", "touches_entity", "touches_code"}
VALID_RULE_SEVERITIES == {"error", "warn"}
SUPPORTED_SCHEMA_VERSIONS == {1, 2, 3}

ASSUME NullIsNoWord == Blank \notin VALID_RULE_SEVERITIES \cup VALID_EDGE_KINDS

-----------------------------------------------------------------------------
(* Parts of a rule.                                                        *)

\* A matcher must ask for something; only has_edge_to may be empty.
AnyMatcher(d) == Given(d) /\ Get(d, "kind") \in VALID_NODE_KINDS \cup {Blank}
IsMatcher(d) == AnyMatcher(d) /\ \E k \in {"ref_id", "kind", "tag"} : Get(d, k) # Blank

\* Exclusions are a list or one name, here a set either way.
_parse_node_matcher(d) ==
  [ref |-> Get(d, "ref_id"), kind |-> Get(d, "kind"), tag |-> Get(d, "tag"),
   exclude |-> IF Given(Get(d, "exclude")) THEN d.exclude ELSE {}]

IsEdgeKind(k) == k \in VALID_EDGE_KINDS \cup {Blank}
IsCount(v) == Given(v) /\ v \in Nat
ListOf(v) == IF v = Blank THEN {} ELSE v

_parse_deny_rule(b) ==
  LET unless == Default(b, "unless_edge", {}) IN
  IF IsMatcher(Get(b, "from")) /\ IsMatcher(Get(b, "to")) /\ Given(unless) /\ unless \subseteq VALID_EDGE_KINDS
  THEN [from |-> _parse_node_matcher(b.from), to |-> _parse_node_matcher(b.to), unless |-> unless]
  ELSE Refused

_parse_require_rule(b) ==
  IF IsMatcher(Get(b, "for")) /\ AnyMatcher(Get(b, "has_edge_to")) /\ IsEdgeKind(Get(b, "edge_kind"))
  THEN [for |-> _parse_node_matcher(b.for), has_edge_to |-> _parse_node_matcher(b.has_edge_to),
        edge_kind |-> Get(b, "edge_kind")]
  ELSE Refused

_parse_cycle_rule(b) ==
  LET kinds == Get(b, "edge_kind") depth == Default(b, "max_depth", 10) IN
  IF Given(kinds) /\ kinds \subseteq VALID_EDGE_KINDS /\ Given(depth)
  THEN [edge_kind |-> kinds, max_depth |-> depth] ELSE Refused

_parse_forbid_import_rule(b) ==
  IF Given(Get(b, "from")) /\ Given(Get(b, "to"))
  THEN [from_glob |-> b.from, to_glob |-> b.to] ELSE Refused

_parse_forbid_rule(b) ==
  IF IsMatcher(Get(b, "from")) /\ IsMatcher(Get(b, "to")) /\ IsEdgeKind(Get(b, "edge_kind"))
  THEN [from |-> _parse_node_matcher(b.from), to |-> _parse_node_matcher(b.to),
        edge_kind |-> Get(b, "edge_kind")]
  ELSE Refused

\* The keys beside `layers` count as part of its block. Null switches skipping off.
_parse_layer_rule(b) ==
  LET layers == b.layers
      IsLayer(l) == Given(l) /\ Given(Get(l, "name")) /\ Given(Get(l, "tag"))
      kind == Default(b, "edge_kind", "uses")
  IN IF /\ Given(layers)
        /\ Len(layers) >= 2 /\ \A i \in DOMAIN layers : IsLayer(layers[i])
        /\ Get(b, "enforce") \in {"top-down"} /\ kind \in VALID_EDGE_KINDS
     THEN [layers |-> [i \in DOMAIN layers |-> layers[i].tag], edge_kind |-> kind,
           allow_skip |-> Default(b, "allow_skip", TRUE) \notin {FALSE, Blank}]
     ELSE Refused

\* Percent of the documented pairs.
_parse_check_rule(b) ==
  LET limits == {k \in {"max_symbols", "max_files", "min_doc_coverage"} : Get(b, k) # Blank} IN
  IF /\ IsMatcher(Get(b, "for")) /\ limits # {} /\ \A k \in limits : IsCount(b[k])
     /\ "min_doc_coverage" \in limits => b.min_doc_coverage <= 100
  THEN [for |-> _parse_node_matcher(b.for), max_symbols |-> Get(b, "max_symbols"),
        max_files |-> Get(b, "max_files"), min_doc_coverage |-> Get(b, "min_doc_coverage")]
  ELSE Refused

_parse_unregistered_feature_candidate_rule(b) ==
  LET least == Default(b, "min_symbols", 5) IN
  IF IsMatcher(Get(b, "for")) /\ IsCount(least) /\ Get(b, "exclude") # Garbage
  THEN [for |-> _parse_node_matcher(b.for), min_symbols |-> least, exclude |-> ListOf(Get(b, "exclude"))]
  ELSE Refused

_parse_module_coverage_rule(b) ==
  LET least == Default(b, "min_symbols", 1) IN
  IF IsCount(least) /\ Get(b, "exempt") # Garbage
  THEN [source_root |-> Default(b, "source_root", <<"src", "beadloom">>), min_symbols |-> least,
        exempt |-> ListOf(Get(b, "exempt"))]
  ELSE Refused

ParsedBlock(type, b) ==
  IF ~Given(b) THEN Refused
  ELSE CASE type = "deny" -> _parse_deny_rule(b)
         [] type = "require" -> _parse_require_rule(b)
         [] type = "forbid_cycles" -> _parse_cycle_rule(b)
         [] type = "forbid_import" -> _parse_forbid_import_rule(b)
         [] type = "forbid" -> _parse_forbid_rule(b)
         [] type = "layers" -> _parse_layer_rule(b)
         [] type = "check" -> _parse_check_rule(b)
         [] type = "unregistered_feature_candidate" -> _parse_unregistered_feature_candidate_rule(b)
         [] type = "module_coverage" -> _parse_module_coverage_rule(b)

-----------------------------------------------------------------------------
(* The file: [version, rules], a rule [name, severity, blocks].            *)

Advisory == {"unregistered_feature_candidate", "module_coverage"}

\* Mutant: what is not said is only a warning.
SeverityLenient(r) == Default(r, "severity", "warn")
SeverityOf(r) ==
  Default(r, "severity", IF DOMAIN r.blocks \cap Advisory # {} THEN "warn" ELSE "error")

ParsedRule(r) ==
  IF ~Given(r) \/ ~Given(Get(r, "name")) THEN Refused
  ELSE IF SeverityOf(r) \notin VALID_RULE_SEVERITIES \/ ~(\E t \in DOMAIN r.blocks : DOMAIN r.blocks = {t})
  THEN Refused
  ELSE LET type == CHOOSE t \in DOMAIN r.blocks : TRUE
           spec == ParsedBlock(type, r.blocks[type])
       IN IF spec = Refused THEN Refused
          ELSE [name |-> r.name, severity |-> SeverityOf(r), type |-> type, spec |-> spec]

\* All rules, or none: one that is malformed, or two of one name, refuse the file.
load_rules(yml) ==
  LET listed == Default(yml, "rules", << >>)
      parsed == [i \in DOMAIN listed |-> ParsedRule(listed[i])]
  IN IF ~Given(yml) THEN Refused
     ELSE IF Get(yml, "version") \notin SUPPORTED_SCHEMA_VERSIONS \/ ~Given(listed) THEN Refused
     ELSE IF Refused \in Range(parsed) THEN Refused
     ELSE IF \E i, j \in DOMAIN parsed : i # j /\ parsed[i].name = parsed[j].name THEN Refused
     ELSE Range(parsed)

-----------------------------------------------------------------------------
(* The rules table.  Severities are not kept.                              *)

\* Keys that are not given are left out.
OnlyGiven(d) == [k \in {x \in DOMAIN d : d[x] # Blank} |-> d[k]]
_serialize_node_matcher(m) ==
  OnlyGiven([ref_id |-> m.ref, kind |-> m.kind, tag |-> m.tag,
            exclude |-> IF m.exclude = {} THEN Blank ELSE m.exclude])

NoItems(spec, k) == k \in {"unless", "exclude", "exempt"} /\ spec[k] = {}

RowType == [check |-> "cardinality", forbid |-> "forbid_edge"]
_serialize_rule(r) ==
  [name |-> r.name, type |-> Default(RowType, r.type, r.type),
   json |-> [k \in {x \in DOMAIN r.spec : r.spec[x] # Blank /\ ~NoItems(r.spec, x)} |->
               IF k \in {"from", "to", "for", "has_edge_to"} THEN _serialize_node_matcher(r.spec[k])
               ELSE r.spec[k]]]

\* Of a refused file nothing is loaded, and the run goes on.
_load_rules_into_db(yml) ==
  LET rules == load_rules(yml)
  IN IF rules = Refused THEN {} ELSE {_serialize_rule(r) : r \in rules}
=============================================================================
