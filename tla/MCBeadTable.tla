---------------------------- MODULE MCBeadTable ----------------------------
EXTENDS BeadTable, TLC
CONSTANTS a1, a2
Columns3 == <<Cell("Bead"), Cell("Role"), Cell("Status")>>
Columns4 == Append(Columns3, Cell("Depends"))
Row3(b, s) == TableRow(<<Cell(b), Cell("dev"), s>>)
Row4(b, s) == TableRow(<<Cell(b), Cell("dev"), s, Cell("none yet")>>)
Table3 == <<TableRow(Columns3), Separator(3), Row3("b1", Rich("ready")), Row3("b2", Cell("ready"))>>
Table4 == <<TableRow(Columns4), Separator(4), Row4("b1", Rich("done")), Row4("b2", Cell("blocked")),
            Row4("b9", Cell("done"))>>
Linked(f, fails) ==
  [made |-> {"b1", "b2"}, deps |-> {<<"b2", "b1">>}, file |-> f, red |-> fails]
MCStarts == {Linked(Table3, {"lint", "doctor"}), Linked(Table4, {}),
             [made |-> {}, deps |-> {}, file |-> NoFile, red |-> {}]}
MCIds == <<"b1", "b2", "b3", "b4">>
MCBreakable == {"lint", "tests"}
Two == {a1, a2}
Alike == Permutations(Two)
=============================================================================
