------------------------ MODULE MCDirectoryRecovery ------------------------
EXTENDS DirectoryRecovery

N(stem) == [stem |-> stem, copies |-> <<>>]

MCStems == {"case", "sub", "casework", "out", "x"}
MCDirs == {<<>>, <<N("case")>>, <<N("case"), N("sub")>>, <<N("casework")>>, <<N("out")>>}
MCFirstFiles == {<<N("case"), N("x")>>, <<N("casework"), N("x")>>}
MCLonger == {<<N("case"), N("casework")>>}
MCMounts == {<<>>, <<N("case")>>}
MCTombs == <<N("x")>>
MCTargets == {<<>>, <<N("case")>>}
MCOutputs == {<<N("out")>>, <<N("case"), N("sub")>>}
=============================================================================
