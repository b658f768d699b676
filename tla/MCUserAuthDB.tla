---------------------------- MODULE MCUserAuthDB ----------------------------
(***************************************************************************)
(* Two users and two passwords, which can be exchanged for each other.     *)
(***************************************************************************)
EXTENDS Session, TLC

CONSTANTS u1, u2, p1, p2

TwoUsers == {u1, u2}
TwoPasswords == {p1, p2}
Symmetry == Permutations(TwoUsers) \cup Permutations(TwoPasswords)
=============================================================================
