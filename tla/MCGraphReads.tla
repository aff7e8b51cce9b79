---------------------------- MODULE MCGraphReads ----------------------------
EXTENDS GraphReads
MCNodes == {"a", "b", "c", "d"}
MCRow == [n \in MCNodes |-> [kind |-> IF n = "a" THEN "domain" ELSE "feature",
                             tags |-> IF n = "c" THEN {"ui"} ELSE {}]]
Arc(s, d, k) == [src |-> s, dst |-> d, kind |-> k]
MCEdgeSets == SUBSET {Arc("a", "b", "part_of"), Arc("b", "c", "uses"), Arc("c", "a", "uses"),
                      Arc("a", "c", "part_of"), Arc("d", "c", "uses"), Arc("d", "b", "depends_on"),
                      Arc("b", "d", "uses"), Arc("a", "a", "uses")}
Asked(t, f, r) == {[tool |-> t, focus |-> f, depth |-> d, cap |-> c, reverse |-> r] :
                     d \in 1..3, c \in {1, 2, 20}}
MCQuestions == Asked("ctx", <<"a">>, FALSE) \cup Asked("why", <<"b">>, TRUE)
                 \cup Asked("graph", <<"ghost", "c", "a">>, FALSE)
                 \cup {[tool |-> "ctx", focus |-> <<"ghost">>, depth |-> 2, cap |-> 20, reverse |-> FALSE]}
About(name, type, block) == [name |-> name, blocks |-> (type :> block)]
MCRulesYml ==
  [version |-> 3, rules |->
    <<About("d", "deny", [from |-> [kind |-> "domain"], to |-> [tag |-> "ui", exclude |-> {"b"}]]),
      About("r", "require", [for |-> [ref_id |-> "c", tag |-> "ui"], has_edge_to |-> << >>]),
      About("f", "forbid", [from |-> [ref_id |-> "d"], to |-> [kind |-> "feature"]]),
      About("s", "check", [for |-> [kind |-> "feature", exclude |-> {"d"}], max_symbols |-> 9]),
      About("u", "unregistered_feature_candidate", [for |-> [kind |-> "domain"]]),
      About("l", "layers", [enforce |-> "top-down", layers |-> <<[name |-> "x", tag |-> "ui"], [name |-> "y", tag |-> "z"]>>])>>]
=============================================================================
