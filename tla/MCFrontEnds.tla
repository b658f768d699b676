--------------------------- MODULE MCFrontEnds ---------------------------
EXTENDS EraserViews

MCEntries == <<"a", "b">>
MCFirstImages == {<<>>, <<"packed", "text">>}
MCOtherImage == <<"packed", "packed">>

Word(w) == [word |-> w, ranges |-> <<>>]
List(r) == [word |-> "list", ranges |-> r]
MCSelections == {Word(w) : w \in {"", "0", "all", "q", "?"}}
  \cup {List(r) : r \in {<<>>, <<<<2, 2>>>>, <<<<0, 0>>, <<1, 1>>>>, <<<<2, 1>>>>, <<<<2, 3>>>>}}
=============================================================================
