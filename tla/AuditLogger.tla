---------------------------- MODULE AuditLogger ----------------------------
(***************************************************************************)
(* The hash-chained audit log of src/src/logging/audit_logger.cpp: one     *)
(* process with its threads, the two files the log is written to, and the  *)
(* restarts of the process.                                                *)
(*                                                                         *)
(* Every public method holds mutex_ from its first to its last statement,  *)
(* file access included, so a call is one action.  What is not atomic is   *)
(* a caller that makes two calls: DirectoryScanner reads the entries, and  *)
(* if there are none loads the journal - another thread may log between.   *)
(*                                                                         *)
(* SHA-256 is idealised: the hash of an entry is the sequence of           *)
(* <<entry_id, contents>> from the genesis entry to it, which is what a    *)
(* collision-free hash of (previous_hash, entry_id, contents) determines.  *)
(*                                                                         *)
(* A file is the sequence of entries that its parser finds in it, so the   *)
(* loss of the formats is applied when a file is written.                  *)
(***************************************************************************)
EXTENDS Naturals, Sequences, FiniteSets, SequencesExt

CONSTANTS
  Threads,       \* threads of the process
  Operators,     \* non-empty operator names
  System,        \* the name the text format prints for an empty one
  NoOperator,    \* the empty operator name
  Data,          \* the contents callers pass in, a subset of Contents
  MaxEntries,    \* bound on the entries in memory
  MaxFile,       \* bound on the entries in a file
  MaxLedgers,    \* bound on the different ledgers of a behaviour
  MaxFaults      \* bound on failing writes and damage to files

(***************************************************************************)
(* What the two formats tell apart.  A "plain" record comes back from both.*)
(* A "rich" one holds something the text format never prints: operation_id,*)
(* artifacts, custody events, warnings, a second line of details.  In a    *)
(* "slashed" one a value ends with a backslash, so that the JSON parser    *)
(* takes the closing quote for an escaped one and reads a "garbled" value. *)
(***************************************************************************)
Shapes == {"plain", "rich", "slashed", "garbled"}
Contents == [who : Operators \cup {NoOperator}, shape : Shapes]

ASSUME DataAssumption ==
  /\ System \in Operators
  /\ NoOperator \notin Operators
  /\ Data \subseteq Contents

ASSUME BoundAssumption == {MaxEntries, MaxFile, MaxLedgers, MaxFaults} \subseteq Nat

Files == {"text", "json"}     \* audit_log.txt and audit_journal.jsonl

Hash  == Seq(Nat \X Contents)
Entry == [id : Nat, data : Contents, prev : Hash, hash : Hash]

VARIABLES
  entries,       \* entries_
  lastHash,      \* last_hash_
  disk,          \* the files
  scanning,      \* threads that found the log empty and go on to load a file
  past,          \* history: the ledgers that were ever in memory
  faults         \* history: how often a write failed or a file was damaged

vars == <<entries, lastHash, disk, scanning, past, faults>>

Genesis == <<>>

(* computeEntryHash *)
EntryHash(prev, id, d) == Append(prev, <<id, d>>)

(* Mutant: each hash is recomputed, the links are not followed. *)
HashesOnly(es) ==
  \A i \in 1..Len(es) : es[i].hash = EntryHash(es[i].prev, es[i].id, es[i].data)

(* Mutant: the first entry may link to anything. *)
AnyGenesis(es) ==
  \A i \in 1..Len(es) :
    /\ i > 1 => es[i].prev = es[i - 1].hash
    /\ es[i].hash = EntryHash(es[i].prev, es[i].id, es[i].data)

(* What verifyChain, and loadFromFile before it commits, accept. *)
ChainOK(es) ==
  \A i \in 1..Len(es) :
    /\ es[i].prev = IF i = 1 THEN Genesis ELSE es[i - 1].hash
    /\ es[i].hash = EntryHash(es[i].prev, es[i].id, es[i].data)

(* last_hash_ after entries_ was replaced. *)
HeadHash(es) == IF es = <<>> THEN Genesis ELSE es[Len(es)].hash

(* formatEntryAsText, read back: nobody becomes "System", and what the    *)
(* format does not print is gone.                                         *)
TextForm(d) ==
  [who   |-> IF d.who = NoOperator THEN System ELSE d.who,
   shape |-> IF d.shape = "rich" THEN "plain" ELSE d.shape]

(* AuditEntry::toJson, read back. *)
JsonForm(d) == [d EXCEPT !.shape = IF d.shape = "slashed" THEN "garbled" ELSE d.shape]

Written(f, e) == [e EXCEPT !.data = IF f = "text" THEN TextForm(e.data) ELSE JsonForm(e.data)]
WrittenAll(f, es) == [i \in 1..Len(es) |-> Written(f, es[i])]

(* The numbered facts of a list of entries. *)
LedgerOf(es) == [i \in 1..Len(es) |-> <<es[i].id, es[i].data>>]

Init ==
  /\ entries = <<>>
  /\ lastHash = Genesis
  /\ disk = [f \in Files |-> <<>>]
  /\ scanning = {}
  /\ past = {<<>>}
  /\ faults = 0

(* The environment gets in the way once more. *)
Fault == faults < MaxFaults /\ faults' = faults + 1

-----------------------------------------------------------------------------
(* logForensicOperation, which logEvent calls: number the entry, chain it, *)
(* keep it, append it to the text journal.  A failed append is ignored.    *)
Log(d) ==
  /\ Len(entries) < MaxEntries /\ Cardinality(past) < MaxLedgers
  /\ LET e == [id   |-> Len(entries) + 1,
               data |-> d,
               prev |-> lastHash,
               hash |-> EntryHash(lastHash, Len(entries) + 1, d)]
     IN /\ entries' = Append(entries, e)
        /\ lastHash' = e.hash
        /\ past' = past \cup {LedgerOf(entries')}
        /\ \/ /\ Len(disk["text"]) < MaxFile
              /\ disk' = [disk EXCEPT !["text"] = Append(@, Written("text", e))]
              /\ UNCHANGED faults
           \/ Fault /\ UNCHANGED disk
  /\ UNCHANGED scanning

(* saveToFile / saveToTextFile: the file is truncated and all entries of   *)
(* memory are written.                                                     *)
Save(f) ==
  /\ disk' = [disk EXCEPT ![f] = WrittenAll(f, entries)]
  /\ UNCHANGED <<entries, lastHash, scanning, past, faults>>

(* The same call when the disk fills up, or the process dies, half-way:    *)
(* what was there is gone already, and only some entries come after it.    *)
SaveFails(f) ==
  /\ Fault
  /\ \E n \in 0..Len(entries) :
       /\ n < Len(entries)
       /\ disk' = [disk EXCEPT ![f] = SubSeq(WrittenAll(f, entries), 1, n)]
  /\ UNCHANGED <<entries, lastHash, scanning, past>>

(* Mutant: the file is taken as it is. *)
LoadUnverified(f) ==
  IF disk[f] # <<>>
  THEN /\ entries' = disk[f]
       /\ lastHash' = HeadHash(disk[f])
       /\ UNCHANGED <<disk, past, faults>>
  ELSE UNCHANGED <<entries, lastHash, disk, past, faults>>

(* loadFromFile: an absent or empty file changes nothing, a broken chain   *)
(* is refused, and anything else replaces the log in memory.               *)
Load(f) ==
  IF disk[f] # <<>> /\ ChainOK(disk[f])
  THEN /\ entries' = disk[f]
       /\ lastHash' = HeadHash(disk[f])
       /\ UNCHANGED <<disk, past, faults>>
  ELSE UNCHANGED <<entries, lastHash, disk, past, faults>>

(* A text journal that has its heading and no entry, as a save of an empty *)
(* log leaves it, is read as a log without entries.                        *)
LoadHeading ==
  /\ disk["text"] = <<>>
  /\ entries' = <<>>
  /\ lastHash' = Genesis
  /\ UNCHANGED <<disk, past, faults>>

(* DirectoryScanner::scanSanitizedAuditRecords: first it looks ...         *)
ScanFindsEmpty(t) ==
  /\ t \notin scanning
  /\ entries = <<>>
  /\ scanning' = scanning \cup {t}
  /\ UNCHANGED <<entries, lastHash, disk, past, faults>>

(* ... then it loads the journal, or the older file if there is none.      *)
ScanLoads(t) ==
  /\ t \in scanning
  /\ scanning' = scanning \ {t}
  /\ LoadHeading \/ Load(IF disk["text"] # <<>> THEN "text" ELSE "json")

(* The process ends, in the middle of anything, and is started again.      *)
(* (clear(), which only the tests call, empties the log in the same way.)  *)
Restart ==
  /\ entries' = <<>>
  /\ lastHash' = Genesis
  /\ scanning' = {}
  /\ UNCHANGED <<disk, past, faults>>

(* A file is damaged while the program is not using the log: an entry is   *)
(* lost, repeated or out of order, its contents or its number changed, or  *)
(* the end of the file cut off.                                            *)
Damaged(es) ==
  {SubSeq(es, 1, i) : i \in 0..Len(es)}
    \cup {RemoveAt(es, i) : i \in DOMAIN es}
    \cup {[es EXCEPT ![i] = es[j]] : i, j \in DOMAIN es}
    \cup {[es EXCEPT ![i] = es[j], ![j] = es[i]] : i, j \in DOMAIN es}
    \cup {[es EXCEPT ![i].data = d] : i \in DOMAIN es, d \in Data}
    \cup {[es EXCEPT ![i].id = n] : i \in DOMAIN es, n \in 0..MaxFile}

Damage(f) ==
  /\ Fault
  /\ entries = <<>>
  /\ \E es \in Damaged(disk[f]) : disk' = [disk EXCEPT ![f] = es]
  /\ UNCHANGED <<entries, lastHash, scanning, past>>

Next ==
  \/ \E d \in Data : Log(d)
  \/ \E f \in Files : Save(f) \/ SaveFails(f) \/ Damage(f)
  \/ \E t \in Threads : ScanFindsEmpty(t) \/ ScanLoads(t)
  \/ Restart

Spec == Init /\ [][Next]_vars
-----------------------------------------------------------------------------
(* Types. *)
TypeOK ==
  /\ entries \in Seq(Entry)
  /\ lastHash \in Hash
  /\ disk \in [Files -> Seq(Entry)]
  /\ scanning \in SUBSET Threads
  /\ past \subseteq Hash
  /\ faults \in Nat

(* verifyChain never fails and new entries are chained to the last one,    *)
(* whatever was loaded from a damaged, truncated or mixed-up file in       *)
(* between.                                                                *)
ChainVerifies == ChainOK(entries) /\ lastHash = HeadHash(entries)

(* The numbers are 1, 2, 3, ... in order.  loadFromFile takes them from    *)
(* the file and never compares them with anything but the hash, and the    *)
(* next entry's number is computed from the count.                         *)
IdsSequential == \A i \in DOMAIN entries : entries[i].id = i

(* The race of scanSanitizedAuditRecords with a logging thread: an entry   *)
(* of memory whose text reached the journal survives the load that         *)
(* replaces the log; only the end of the process discards it.              *)
InJournal(e) == Written("text", e) \in Range(disk["text"])

EntriesKept ==
  [][\/ \A i \in DOMAIN entries :
           InJournal(entries[i]) => i \in DOMAIN entries' /\ entries'[i] = entries[i]
     \/ Restart]_vars

(* The journal keeps the records of the running session: re-writing it     *)
(* from memory loses none of them, unless that write fails.                *)
SessionStaysJournalled ==
  [][\/ \A e \in Range(entries) : InJournal(e) => Written("text", e) \in Range(disk'["text"])
     \/ SaveFails("text")]_vars

(* Memory only ever holds a ledger that was really recorded: damage is     *)
(* either noticed by loadFromFile or has only cut off the end.             *)
Ledger == INSTANCE AuditLedger WITH
            Facts <- Data, ledger <- LedgerOf(entries), past <- past

LedgerSpec == Ledger!Spec

=============================================================================
