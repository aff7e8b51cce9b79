----------------------------- MODULE MCArchLint -----------------------------
(***************************************************************************)
(* A service over a domain over a store whose directory lies in the        *)
(* domain's: every pair of them may come to depend on each other, by       *)
(* imports or by declaration.                                              *)
(***************************************************************************)
EXTENDS ArchLint

App == [dir |-> <<"src", "web">>, name |-> "app"]
Model == [dir |-> <<"src", "core">>, name |-> "model"]
Store == [dir |-> <<"src", "core", "store">>, name |-> "__init__"]

MCRefOf == <<<<"web">>, <<"core">>, <<"domain", "store">>>>
MCKindOf == <<"service", "domain", "component">>
MCTagsOf == <<{}, {"domain-layer"}, {"store-layer", "sql"}>>
MCDirOf == <<<<"src", "web">>, <<"src", "core">>, <<"src", "core", "store">>>>
MCFileOf == << >>

MCModules == {App, Model, Store}

ImportsWeb == <<"web", "app">>
ImportsCore == <<"core", "model">>
ImportsStore == <<"core", "store">>

Contents ==
  [web     |-> [imports |-> {ImportsCore}, symbols |-> <<<<[key |-> "service", value |-> "web"]>>>>],
   clean   |-> [imports |-> {ImportsStore}, symbols |-> <<<<[key |-> "domain", value |-> "core"]>>>>],
   upward  |-> [imports |-> {ImportsWeb},
                symbols |-> <<<< >>, <<[key |-> "feature", value |-> "x"], [key |-> "domain", value |-> "core"]>>>>],
   leaf    |-> [imports |-> {<<"os">>}, symbols |-> <<<<[key |-> "domain", value |-> "store"]>>>>],
   loop    |-> [imports |-> {ImportsCore}, symbols |-> << >>]]

MCImportsIn == [c \in DOMAIN Contents |-> Contents[c].imports]
MCSymbolsIn == [c \in DOMAIN Contents |-> Contents[c].symbols]

MCContentsOf == (App :> {"web", Absent}) @@ (Model :> {"clean", "upward"}) @@ (Store :> {"leaf", "loop"})

MCScanPaths == <<<<"src">>>>

PartOf == <<2, 1, "part_of">> :> "active"
MCGraphs ==
  {PartOf @@ (<<2, 1, "uses">> :> "active"),
   PartOf @@ (<<2, 3, "depends_on">> :> "planned") @@ (<<3, 2, "depends_on">> :> "planned"),
   (<<2, 1, "depends_on">> :> "planned") @@ (<<3, 1, "depends_on">> :> "active")}

OfKind(k) == [kind |-> k]
Rule(name, type, block) == [name |-> name, blocks |-> (type :> block)]
DenyUpward == Rule("deny", "deny", [from |-> OfKind("domain"), to |-> OfKind("service"), unless_edge |-> {"uses"}])
FewFiles == Rule("size", "check", [for |-> OfKind("domain"), max_files |-> 2, max_symbols |-> 3])
WholeFile ==
  [version |-> 3, rules |->
    <<DenyUpward, [name |-> "soft", severity |-> "warn"] @@ FewFiles,
      Rule("part", "require", [for |-> OfKind("domain"), has_edge_to |-> << >>, edge_kind |-> "part_of"]),
      Rule("acyclic", "forbid_cycles", [edge_kind |-> {"depends_on"}, max_depth |-> 3]),
      [severity |-> "warn"] @@ Rule("boundary", "forbid_import", [from |-> {Model}, to |-> {ImportsWeb}]),
      [severity |-> "warn"] @@ Rule("graph", "forbid", [from |-> OfKind("component"), to |-> [ref_id |-> 1]]),
      Rule("layers", "layers", [layers |-> <<[name |-> "d", tag |-> "domain-layer"], [name |-> "s", tag |-> "store-layer"]>>,
                                enforce |-> "top-down", edge_kind |-> "depends_on", allow_skip |-> Blank]),
      Rule("features", "unregistered_feature_candidate", [for |-> OfKind("domain"), min_symbols |-> 1, exclude |-> Blank]),
      Rule("covered", "module_coverage", [source_root |-> <<"src">>])>>]
TwoBlocks == [version |-> 1, rules |-> <<FewFiles, [name |-> "both", blocks |-> DenyUpward.blocks @@ FewFiles.blocks]>>]
MCRuleFiles == [whole |-> WholeFile, refused |-> TwoBlocks]
MCLedgerOf == [n \in 1..3 |-> [ok |-> 1, total |-> n - 1]]

\* In this instance the annotations agree with the directories, and no import is ambiguous.
ASSUME AnnotatedAtHome
ASSUME OneHome
=============================================================================
