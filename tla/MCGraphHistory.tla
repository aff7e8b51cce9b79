--------------------------- MODULE MCGraphHistory ---------------------------
EXTENDS GraphHistory
Nd(r, k, s, src, l) ==
  [ref |-> r, kind |-> k, summary |-> s, source |-> src, tags |-> {}, extra |-> "", lifecycle |-> l]
Ed(s, d, c, l) == [src |-> s, dst |-> d, kind |-> "uses", contract |-> c, lifecycle |-> l]
GFile(ns, es) == [nodes |-> ns, edges |-> es]
NodeA == Nd("a", "domain", "s1", "src/a", "")
NodeB == Nd("b", "service", "s1", Absent, "")
G1 == <<GFile(<<NodeA, NodeB>>, <<Ed("a", "b", "", "")>>)>>
\* Two files, another source, an edge given twice and one more contract.
G2 == <<GFile(<<[NodeA EXCEPT !.source = "src/x"]>>, <<>>),
        GFile(<<NodeB>>, <<Ed("a", "b", "", "dead"), Ed("a", "b", "m", ""), Ed("a", "b", "", "")>>)>>
\* Another kind; lifecycles, keys and a source that is empty, which the diff does not compare.
G3 == <<GFile(<<[NodeA EXCEPT !.kind = "feature"], [NodeB EXCEPT !.source = "", !.lifecycle = "planned", !.extra = "x"]>>,
              <<Ed("a", "b", "", "planned")>>)>>
\* A node less, the edge to it left dangling.
G4 == <<GFile(<<[NodeA EXCEPT !.tags = {"core"}]>>, <<Ed("a", "b", "", "")>>)>>
G5 == <<GFile(<<[NodeA EXCEPT !.summary = "s2"], NodeA, NodeB>>, <<Ed("a", "b", "", "")>>)>>
\* G1 but for a lifecycle: quiet, and another graph.
G6 == <<GFile(<<[NodeA EXCEPT !.lifecycle = "planned"], NodeB>>, <<Ed("a", "b", "", "")>>)>>
MCGraphs == {G1, G2, G3, G4, G5, G6}
MCDocs == {"docs/a.md", "README.md"}
MCScanned == {"docs/a.md"}
MCWatchLists == {<<>>, <<"graph">>, <<"flow.yml", "cli">>}
=============================================================================
