---------------------------- MODULE AuditLedger ----------------------------
(***************************************************************************)
(* What the audit log promises, with no hashes, files or threads.  The     *)
(* ledger is a numbered list of facts.  A fact is added at the end under   *)
(* the next number.  Whatever else happens to the program - a restart, a   *)
(* reset, a reload from a file that may have been damaged meanwhile - the  *)
(* ledger it holds afterwards is one that it held at some earlier moment:  *)
(* no fact is invented, renumbered, reordered or taken out of the middle.  *)
(*                                                                         *)
(* AuditLogger implements this specification (its LedgerSpec).             *)
(***************************************************************************)
EXTENDS Naturals, Sequences

CONSTANT Facts         \* what can be recorded

VARIABLES
  ledger,              \* sequence of <<number, fact>>
  past                 \* every ledger that was ever held

ledgerVars == <<ledger, past>>

Init ==
  /\ ledger = <<>>
  /\ past = {<<>>}

Record(d) ==
  /\ ledger' = Append(ledger, <<Len(ledger) + 1, d>>)
  /\ past' = past \cup {ledger'}

Return ==
  /\ ledger' \in past
  /\ UNCHANGED past

Next == Return \/ \E d \in Facts : Record(d)

Spec == Init /\ [][Next]_ledgerVars
=============================================================================
