--------------------------- MODULE MCAuditLogger ---------------------------
(* Instances of AuditLogger for TLC. *)
EXTENDS AuditLogger

CONSTANTS alice, system, nobody, t1

MCOperators == {alice, system}

(* One record that the text format brings back altered and JSON does not,  *)
(* and one the other way round.                                            *)
MCData ==
  { [who |-> nobody, shape |-> "plain"],
    [who |-> alice,  shape |-> "slashed"] }

=============================================================================
