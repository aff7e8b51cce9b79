---------------------------- MODULE MCGraphFiles ----------------------------
EXTENDS GraphFiles
CONSTANTS na, nb, foreign, malformed, s1, s2, url
N(r, k) == [ref |-> r, summary |-> s1, links |-> {}, docs |-> FALSE, kind |-> k]
E(x, y) == [src |-> x, dst |-> y, contract |-> ""]
File(ns, es) == [shape |-> "ok", nodes |-> ns, edges |-> es]
MCLayouts ==
  {File(<<N(na, "given"), N(na, "given"), N(nb, "given")>>, <<E(na, nb), E(na, nb)>>),
   File(<<N(nb, "null")>>, <<E(nb, na), E(na, foreign), E(na, malformed)>>),
   [shape |-> "syntax", nodes |-> <<>>, edges |-> <<>>],
   [File(<<N(na, "given")>>, <<>>) EXCEPT !.shape = "edges"]}
=============================================================================
