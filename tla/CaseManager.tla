----------------------------- MODULE CaseManager -----------------------------
(***************************************************************************)
(* Case workspaces: CaseManager of src/src/core/case_manager.cpp, one      *)
(* object at a time in a program that can crash and is then started again, *)
(* while the files that it takes evidence from may change.                 *)
(*                                                                         *)
(* registerEvidence hashes the source, copies it to a file beside the      *)
(* place where it belongs, compares hashes, renames, and writes the        *)
(* catalog anew.  A hash stands for the content it was taken of.           *)
(***************************************************************************)
EXTENDS Naturals, Sequences, FiniteSets

CONSTANTS
  Cases,         \* workspaces
  Sources,       \* files outside the workspaces, to take evidence from
  Names,         \* file names
  NameOf,        \* of every source
  Tmp,           \* of every name, that name with ".tmp" added
  Contents,
  Absent, Partial,   \* no file, a file that is not whole
  NoHash,        \* what computeFileSha256 returns of a file it cannot open
  NoCase,
  MaxItems,      \* bound on the evidence in memory
  MaxChanges, MaxFaults, MaxRestarts   \* bounds on the environment

ASSUME CaseAssumption ==
  /\ NameOf \in [Sources -> DOMAIN Tmp]
  /\ Tmp \in [DOMAIN Tmp -> Names] /\ DOMAIN Tmp \subseteq Names
  /\ \A n \in DOMAIN Tmp : Tmp[n] # n
  /\ Absent \notin Contents /\ Partial \notin Contents /\ NoHash \notin Contents
  /\ Absent # Partial /\ NoHash \notin {Absent, Partial}
  /\ NoCase \notin Cases
  /\ {MaxItems, MaxChanges, MaxFaults, MaxRestarts} \subseteq Nat

VARIABLES
  source,        \* the contents of the sources
  dir,           \* the evidence directories
  metadata,      \* which case_metadata.json exist
  catalog,       \* the evidence_catalog.json
  case_root, evidence_list, custody_log,   \* the object; custody of an id
  journal,       \* ids in the audit log of this process
  call,          \* registerEvidence: where it is, and what for
  item,          \* the item it makes
  before,        \* history: the directory when it was called
  leftover,      \* history: a temporary file could not be removed
  changes, faults, restarts

memory == <<case_root, evidence_list, custody_log, journal>>
disk == <<dir, metadata, catalog>>
bounds == <<changes, faults, restarts>>
vars == <<source, disk, memory, call, item, before, leftover, bounds>>

Temporaries == {Tmp[n] : n \in DOMAIN Tmp}
Hash == Contents \cup {Partial, NoHash}
NoCall == [at |-> "idle"]
NoItem == [id |-> 0]
EmptyDir == [n \in Names |-> Absent]

Init ==
  /\ source \in [Sources -> Contents]
  /\ dir = [c \in Cases |-> EmptyDir]
  /\ metadata = {}
  /\ catalog = [c \in Cases |-> <<>>]
  /\ case_root = NoCase /\ evidence_list = <<>> /\ custody_log = {} /\ journal = {}
  /\ call = NoCall /\ item = NoItem
  /\ before = EmptyDir /\ leftover = FALSE
  /\ changes = 0 /\ faults = 0 /\ restarts = 0

At(step) == call.at = step
Goto(step) == call' = [call EXCEPT !.at = step]
Hangup == call' = NoCall /\ item' = NoItem /\ before' = EmptyDir
Fault == faults < MaxFaults /\ faults' = faults + 1

-----------------------------------------------------------------------------
(* initializeWorkspace: directories and metadata; what is there is kept.   *)
InitializeWorkspace(c) ==
  /\ At("idle")
  /\ c \notin metadata
  /\ metadata' = metadata \cup {c}
  /\ UNCHANGED <<source, dir, catalog, memory, call, item, before, leftover, bounds>>

(* openWorkspace: of what is on disk, only the metadata is read.  What the *)
(* object remembers of another case stays.  A case that is not there is    *)
(* taken for open as well.                                                 *)
OpenWorkspace(c) ==
  /\ At("idle")
  /\ case_root' = c
  /\ UNCHANGED <<source, disk, evidence_list, custody_log, journal, call, item, before,
                 leftover, bounds>>

(* registerEvidence: of a source, or of a file that lies where evidence    *)
(* belongs already.                                                        *)
NewItem(n, copied) ==
  [id |-> Len(evidence_list) + 1, case |-> case_root, name |-> n, hash |-> NoHash,
   copied |-> copied]

RegisterSource(s) ==
  /\ At("idle") /\ case_root # NoCase /\ Len(evidence_list) < MaxItems
  /\ call' = [at |-> "hash", source |-> s]
  /\ item' = NewItem(NameOf[s], TRUE)
  /\ before' = dir[case_root]
  /\ UNCHANGED <<source, disk, memory, leftover, bounds>>

RegisterInPlace(n) ==
  /\ At("idle") /\ case_root # NoCase /\ Len(evidence_list) < MaxItems
  /\ call' = [at |-> "hash"]
  /\ item' = NewItem(n, FALSE)
  /\ before' = dir[case_root]
  /\ UNCHANGED <<source, disk, memory, leftover, bounds>>

(* computeFileSha256: a file that cannot be opened has no hash, one that   *)
(* cannot be read to its end the hash of what could be read.               *)
HashOf(content, hash) ==
  \/ content = Absent /\ hash = NoHash /\ UNCHANGED faults
  \/ content # Absent /\ hash = content /\ UNCHANGED faults
  \/ content # Absent /\ Fault /\ hash \in {NoHash, Partial}

HashSource ==
  /\ At("hash")
  /\ \E hash \in Hash :
       /\ HashOf(IF item.copied THEN source[call.source] ELSE dir[case_root][item.name], hash)
       /\ item' = [item EXCEPT !.hash = hash]
  /\ Goto(IF item.copied THEN "copy" ELSE "push")
  /\ UNCHANGED <<source, disk, memory, before, leftover, changes, restarts>>

TmpName == Tmp[item.name]
Put(n, content) == dir' = [dir EXCEPT ![case_root][n] = content]

(* Mutant: the copy is made under the final name. *)
CopyInPlace ==
  /\ At("copy")
  /\ IF source[call.source] = Absent \/ case_root \notin metadata
     THEN Goto("remove") /\ UNCHANGED dir
     ELSE Goto("copying") /\ Put(item.name, Partial)
  /\ UNCHANGED <<source, metadata, catalog, memory, item, before, leftover, bounds>>

(* Mutant: the item is listed and the catalog saved before the rename. *)
CompareThenList ==
  /\ At("compare")
  /\ \E hash \in Hash :
       /\ HashOf(dir[case_root][TmpName], hash)
       /\ Goto(IF hash = item.hash THEN "rename" ELSE "remove")
       /\ catalog' = IF hash = item.hash
                     THEN [catalog EXCEPT ![case_root] = Append(evidence_list, item)] ELSE catalog
  /\ UNCHANGED <<source, dir, metadata, memory, item, before, leftover, changes, restarts>>

(* copy_file begins to write the temporary file, ... *)
CopyBegins ==
  /\ At("copy")
  /\ IF source[call.source] = Absent \/ case_root \notin metadata
     THEN Goto("remove") /\ UNCHANGED dir
     ELSE Goto("copying") /\ Put(TmpName, Partial)
  /\ UNCHANGED <<source, metadata, catalog, memory, item, before, leftover, bounds>>

(* ... and completes it: a source that was removed meanwhile is still open. *)
CopyEnds ==
  /\ At("copying")
  /\ \E content \in IF source[call.source] = Absent THEN Contents ELSE {source[call.source]} :
       Put(TmpName, content)
  /\ Goto("compare")
  /\ UNCHANGED <<source, metadata, catalog, memory, item, before, leftover, bounds>>

(* Mutant: a copy that is not the source stays. *)
CompareLeaves ==
  /\ At("compare")
  /\ \E hash \in Hash :
       /\ HashOf(dir[case_root][TmpName], hash)
       /\ Goto(IF hash = item.hash THEN "rename" ELSE "failed")
  /\ UNCHANGED <<source, disk, memory, item, before, leftover, changes, restarts>>

(* Mutant: copies are taken as they are. *)
CompareNothing ==
  /\ At("compare")
  /\ Goto("rename")
  /\ UNCHANGED <<source, disk, memory, item, before, leftover, bounds>>

(* The copy is hashed and compared. *)
Compare ==
  /\ At("compare")
  /\ \E hash \in Hash :
       /\ HashOf(dir[case_root][TmpName], hash)
       /\ Goto(IF hash = item.hash THEN "rename" ELSE "remove")
  /\ UNCHANGED <<source, disk, memory, item, before, leftover, changes, restarts>>

Rename ==
  /\ At("rename")
  /\ dir' = [dir EXCEPT ![case_root][item.name] = dir[case_root][TmpName],
                        ![case_root][TmpName] = Absent]
  /\ Goto("push")
  /\ UNCHANGED <<source, metadata, catalog, memory, item, before, leftover, bounds>>

(* copy_file or rename fails. *)
StepFails ==
  /\ At("copying") \/ At("rename")
  /\ Fault
  /\ Goto("remove")
  /\ UNCHANGED <<source, disk, memory, item, before, leftover, changes, restarts>>

(* The temporary file is removed, if that can be done. *)
RemoveTmp ==
  /\ At("remove")
  /\ \/ Put(TmpName, Absent) /\ UNCHANGED <<leftover, faults>>
     \/ Fault /\ leftover' = TRUE /\ UNCHANGED dir
  /\ Goto("failed")
  /\ UNCHANGED <<source, metadata, catalog, memory, item, before, changes, restarts>>

(* evidence_list_.push_back *)
Push ==
  /\ At("push")
  /\ evidence_list' = Append(evidence_list, item)
  /\ Goto("truncate")
  /\ UNCHANGED <<source, disk, case_root, custody_log, journal, item, before, leftover, bounds>>

(* saveMetadata rewrites the catalog: it is cut to nothing first.  A       *)
(* catalog that cannot be opened is passed over.                           *)
Truncate ==
  /\ At("truncate")
  /\ \/ /\ case_root \in metadata
        /\ catalog' = [catalog EXCEPT ![case_root] = <<>>]
        /\ Goto("write")
        /\ UNCHANGED faults
     \/ /\ IF case_root \in metadata THEN Fault ELSE UNCHANGED faults
        /\ Goto("account")
        /\ UNCHANGED catalog
  /\ UNCHANGED <<source, dir, metadata, memory, item, before, leftover, changes, restarts>>

Write ==
  /\ At("write")
  /\ catalog' = [catalog EXCEPT ![case_root] = evidence_list]
  /\ Goto("account")
  /\ UNCHANGED <<source, dir, metadata, memory, item, before, leftover, bounds>>

(* addCustodyRecord and logForensicOperation *)
Account ==
  /\ At("account")
  /\ custody_log' = custody_log \cup {item.id}
  /\ journal' = journal \cup {item.id}
  /\ Hangup
  /\ UNCHANGED <<source, disk, case_root, evidence_list, leftover, bounds>>

(* The caller gets an item without a filepath. *)
ReturnFailed ==
  /\ At("failed")
  /\ Hangup
  /\ UNCHANGED <<source, disk, memory, leftover, bounds>>

-----------------------------------------------------------------------------
(* A source is written to, or removed. *)
SourceChanges(s) ==
  /\ changes < MaxChanges
  /\ changes' = changes + 1
  /\ \E content \in (Contents \cup {Absent}) \ {source[s]} :
       source' = [source EXCEPT ![s] = content]
  /\ UNCHANGED <<disk, memory, call, item, before, leftover, faults, restarts>>

(* The program is killed, or ends, and is started again. *)
Restart ==
  /\ restarts < MaxRestarts
  /\ restarts' = restarts + 1
  /\ case_root' = NoCase /\ evidence_list' = <<>> /\ custody_log' = {} /\ journal' = {}
  /\ Hangup
  /\ UNCHANGED <<source, disk, leftover, changes, faults>>

RegisterEvidence ==
  \/ \E s \in Sources : RegisterSource(s)
  \/ \E n \in DOMAIN Tmp : RegisterInPlace(n)
  \/ HashSource \/ CopyBegins \/ CopyEnds \/ Compare \/ Rename \/ StepFails \/ RemoveTmp
  \/ Push \/ Truncate \/ Write \/ Account \/ ReturnFailed

Next ==
  \/ \E c \in Cases : InitializeWorkspace(c) \/ OpenWorkspace(c)
  \/ RegisterEvidence
  \/ \E s \in Sources : SourceChanges(s)
  \/ Restart

Spec == Init /\ [][Next]_vars

-----------------------------------------------------------------------------

(* What lies under the final name of evidence is a whole file, whenever    *)
(* the program is killed and whatever fails, as long as no evidence is     *)
(* named like the temporary file of another.                               *)
WholeEvidence == \A c \in Cases, n \in Names \ Temporaries : dir[c][n] # Partial

(* A catalog names no evidence that is not in its directory: the file is   *)
(* in place before the catalog says so.  Excepted is evidence that was     *)
(* never there, registered in place with no hash.                          *)
Backed(i) == i.hash # NoHash /\ i.name \notin Temporaries => dir[i.case][i.name] # Absent
CatalogBacked == \A c \in Cases : \A k \in DOMAIN catalog[c] : Backed(catalog[c][k])

(* An ingestion that fails, at any step, leaves the directory as it found  *)
(* it, but for an older leftover of the same name and for a removal that   *)
(* itself failed.                                                          *)
FailureLeavesNothing ==
  At("failed") /\ ~leftover => dir[case_root] = [before EXCEPT ![TmpName] = Absent]

(* Evidence enters the list with the hash of what was stored, even when    *)
(* the source changes while it is read twice, hashed and copied.           *)
StoredAsHashed ==
  [][At("push") /\ evidence_list' # <<>> /\ item.copied /\ item.hash \in Contents
       => dir'[case_root][item.name] = item.hash]_vars

=============================================================================
