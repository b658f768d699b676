-------------------------- MODULE MCEraseOperation --------------------------
(***************************************************************************)
(* Model values for EraseOperation: two loose files, two files in the      *)
(* folder and one in its subfolder.                                        *)
(***************************************************************************)
EXTENDS EraseOperation

CONSTANTS a, b, c, d, e, dir

LooseFiles == {a, b}
RootFiles == {c, d}
SubFiles == {e}
ProtectedFile == {b, e}
=============================================================================
