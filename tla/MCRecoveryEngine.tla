-------------------------- MODULE MCRecoveryEngine --------------------------
(* Instances of RecoveryEngine for TLC: a database of two signatures, the  *)
(* longer one of higher priority, and a few listings, of which one has a   *)
(* file without clusters.                                                  *)
EXTENDS RecoveryEngine

TwoSignatures ==
  <<[header |-> 2, min |-> 2, max |-> 3], [header |-> 1, min |-> 1, max |-> 1]>>

File(offset, size) == [byte_offset |-> offset, file_size |-> size]

SomeListings == {<<>>, <<File(1, 2)>>, <<File(0, 3), File(3, 1)>>}
=============================================================================
