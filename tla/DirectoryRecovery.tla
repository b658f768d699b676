-------------------------- MODULE DirectoryRecovery --------------------------
(***************************************************************************)
(* Finding and restoring what was deleted from a directory: the class      *)
(* DirectoryScanner behind DirectoryRecoveryAPI, the view that drives it    *)
(* and the commands --scan-dir and --recover-dir.                          *)
(*                                                                         *)
(* The trash, the tombstones of the volume and the audit log are read one   *)
(* after the other, items are restored one by one, and all the while the    *)
(* user deletes, purges, erases and edits the two paths in the view.        *)
(***************************************************************************)
EXTENDS Naturals, Sequences, SequencesExt, FiniteSets, FiniteSetsExt, TLC

CONSTANTS
  Stems,       \* what names are made of
  Dirs,        \* directories that exist; a path is a sequence of names
  FirstFiles,  \* the files at the start
  Longer,      \* pairs of names of which the first is the beginning of the second
  Mounts,      \* mount points whose device can be read
  Tombs,       \* names of the deleted records of their volume
  Targets, Outputs,  \* what is typed in the view
  MaxTrash, MaxErased, MaxRequests,  \* bounds on slots, erasures, requests
  MaxMoves,    \* and on what the user does besides
  Broken, Gone \* contents: what a damaged volume gives, and none

(* A name is a stem with the numbers that were put behind it, one for each  *)
(* time it was taken: "x_recovered_1" has the stem "x" and <<1>>.           *)
Names == [stem : Stems, copies : Seq(Nat)]
Places == Seq(Names)
FilePlaces == Places \ {<<>>}

ASSUME DirectoryRecoveryAssumption ==
  /\ FirstFiles \subseteq FilePlaces /\ IsFiniteSet(FirstFiles)
  /\ Dirs \subseteq Places /\ IsFiniteSet(Dirs) /\ FirstFiles \cap Dirs = {}
  /\ Targets \subseteq Places /\ Outputs \subseteq Places /\ Tombs \in Seq(Names)
  /\ {Broken, Gone} \cap FirstFiles = {} /\ Broken # Gone
  /\ MaxTrash \in Nat

VARIABLES
  files,      \* contents of files, by path; at first every file holds its own
  trash,      \* the trash: records of the slot, the original path and the content
  log,        \* audit entries in memory
  journal,    \* audit entries in audit_log.txt
  typed,      \* the two paths in the view
  items,      \* the scan result
  shown,      \* whether it is shown
  task,       \* the scan or the recovery in the background
  scanned,    \* history: the directory of the result, and what was erased before
  erased,     \* history: files erased by this process
  recovered,  \* history: files restored, with what they were copied from
  moves       \* what the user did besides requests

scannerVars == <<files, trash, log, journal, typed, items, shown, task, scanned, erased, recovered, moves>>
disk == <<files, trash>>
audit == <<log, journal>>
view == <<typed, items, shown, task, scanned>>
history == <<erased, recovered>>

NoTask == [phase |-> "idle", dir |-> <<>>, out |-> <<>>, command |-> FALSE,
           left |-> {}, asked |-> 0, count |-> 0]

ScannerInit ==
  /\ files = [f \in FirstFiles |-> f]
  /\ trash = {} /\ log = <<>> /\ journal = <<>>
  /\ \E t \in Targets, o \in Outputs : typed = [target |-> t, output |-> o, requests |-> 0]
  /\ items = <<>> /\ shown = FALSE /\ task = NoTask
  /\ scanned = [dir |-> <<>>, erased |-> {}]
  /\ erased = {} /\ recovered = <<>> /\ moves = 0

-----------------------------------------------------------------------------
(* Mutant: a prefix without a look at what follows it.                      *)
PathStartsWithString(full, prefix) ==
  \/ IsPrefix(prefix, full)
  \/ /\ prefix # <<>> /\ Len(full) >= Len(prefix)
     /\ IsPrefix(Front(prefix), full)
     /\ <<Last(prefix), full[Len(prefix)]>> \in Longer

(* What follows the prefix must be a separator; behind "/" itself no path   *)
(* has one.                                                                *)
PathStartsWith(full, prefix) ==
  full = prefix \/ (prefix # <<>> /\ IsPrefix(prefix, full))

(* Whether the device below a directory is found and can be read.           *)
ResolveMountInfo(dir) == \E point \in Mounts : PathStartsWith(dir, point)

Item(kind, path, locator) ==
  [kind |-> kind, path |-> path, locator |-> locator, selected |-> kind # "sanitized"]

(* A record in the trash counts as long as its payload is there.            *)
ScanTrashJournals(dir) ==
  SetToSeq({Item("trash", t.path, t.slot) : t \in
              {r \in trash : PathStartsWith(r.path, dir) /\ r.content # Gone}})

(* Every tombstone of the volume is taken for one of this directory.        *)
ScanFilesystemMetadata(dir) ==
  IF ResolveMountInfo(dir)
  THEN [i \in DOMAIN Tombs |-> Item("tomb", Append(dir, Tombs[i]), <<Tombs[i], i>>)]
  ELSE <<>>

(* The log of the process, or what the file holds when that is empty.       *)
LogRead == IF log = <<>> THEN journal ELSE log

(* Each path once, whether its erasure succeeded or failed.                 *)
ScanSanitizedAuditRecords(dir, entries) ==
  SetToSeq({Item("sanitized", e.path, <<>>) : e \in
              {x \in Range(entries) : x.op = "erase" /\ PathStartsWith(x.path, dir)}})

Taken == DOMAIN files \cup Dirs
Candidate(dir, name, k) ==
  Append(dir, IF k = 0 THEN name ELSE [name EXCEPT !.copies = Append(@, k)])

(* Mutant: a name that is taken is replaced once.                           *)
FreeNameOnce(dir, name) ==
  Candidate(dir, name, IF Candidate(dir, name, 0) \in Taken THEN 1 ELSE 0)

FreeName(dir, name) ==
  Candidate(dir, name,
            Min({k \in 0..Cardinality(Taken) : Candidate(dir, name, k) \notin Taken}))

Record(op, path, ok) == [op |-> op, path |-> path, ok |-> ok]

-----------------------------------------------------------------------------
Move == moves < MaxMoves /\ moves' = moves + 1

(* The files that the user deletes or erases: none that was restored.       *)
Own == {p \in DOMAIN files : files[p] = p} \ {r.file : r \in Range(recovered)}

(* The user moves a file to the trash, into the first slot that is free.    *)
Delete ==
  /\ Move
  /\ Cardinality(trash) < MaxTrash
  /\ \E p \in Own :
       LET used == {t.slot : t \in trash}
           slot == <<Last(p), Min({k \in 0..MaxTrash : <<Last(p), k>> \notin used})>>
       IN  /\ trash' = trash \cup {[slot |-> slot, path |-> p, content |-> files[p]]}
           /\ files' = [f \in DOMAIN files \ {p} |-> files[f]]
  /\ UNCHANGED <<audit, view, history>>

(* The trash is emptied of an item, or its payload alone is removed.        *)
Purge ==
  /\ Move
  /\ \E t \in trash :
       \/ trash' = trash \ {t}
       \/ t.content # Gone /\ trash' = (trash \ {t}) \cup {[t EXCEPT !.content = Gone]}
  /\ UNCHANGED <<files, audit, view, history>>

(* This process erases a file and then records it: the API saves its log     *)
(* over the file, the view of the eraser appends.  The two are one step here,  *)
(* so that a scan between them is not seen, and so are the records of folders. *)
Erase ==
  /\ Move
  /\ Cardinality(erased) < MaxErased
  /\ \E p \in Own, ok \in BOOLEAN :
       /\ log' = Append(log, Record("erase", p, ok))
       /\ journal' \in {log', Append(journal, Record("erase", p, ok))}
       /\ files' = IF ok THEN [f \in DOMAIN files \ {p} |-> files[f]] ELSE files
       /\ erased' = IF ok THEN erased \cup {p} ELSE erased
       /\ Len(log) < MaxErased
  /\ UNCHANGED <<trash, view, recovered>>

(* The process ends, in the middle of what it does, and is started again.   *)
Restart ==
  /\ Move
  /\ log # <<>> /\ log' = <<>>
  /\ items' = <<>> /\ shown' = FALSE /\ task' = NoTask
  /\ scanned' = [dir |-> <<>>, erased |-> {}] /\ erased' = {}
  /\ UNCHANGED <<disk, journal, typed, recovered>>

-----------------------------------------------------------------------------
(* A path is picked in a dialog, or typed: only the first forgets the scan. *)
EditPaths ==
  /\ Move
  /\ \E t \in Targets, o \in Outputs, picked \in BOOLEAN :
       /\ typed' = [typed EXCEPT !.target = t, !.output = o]
       /\ shown' = (shown /\ (~picked \/ t = typed.target))
  /\ UNCHANGED <<disk, audit, items, task, scanned, history>>

(* The checkboxes and the buttons above them: never what was sanitized.     *)
Select ==
  /\ Move
  /\ shown /\ task.phase = "idle"
  /\ \E chosen \in SUBSET {i \in DOMAIN items : items[i].kind # "sanitized"} :
       items' = [i \in DOMAIN items |-> [items[i] EXCEPT !.selected = i \in chosen]]
  /\ UNCHANGED <<disk, audit, typed, shown, task, scanned, history>>

Start(next) ==
  /\ task.phase = "idle" /\ typed.requests < MaxRequests
  /\ typed' = [typed EXCEPT !.requests = @ + 1]
  /\ task' = next
  /\ UNCHANGED <<disk, audit, items, scanned, history, moves>>

StartScan ==
  /\ typed.target \in Dirs
  /\ Start([NoTask EXCEPT !.phase = "trash", !.dir = typed.target])
  /\ shown' = FALSE

(* --scan-dir and --recover-dir: scan, then restore everything found.       *)
Command ==
  /\ log = <<>>
  /\ \E o \in Outputs : Start([NoTask EXCEPT !.phase = "trash", !.dir = typed.target,
                                             !.out = o, !.command = TRUE])
  /\ shown' = FALSE

(* A request is for positions in the list, which stays as it is meanwhile.  *)
Chosen == {i \in DOMAIN items : items[i].selected}

(* The view compares the two paths as they are typed now.                   *)
StartRecovery ==
  /\ shown /\ Chosen # {}
  /\ ~IsPrefix(typed.target, typed.output)
  /\ Start([NoTask EXCEPT !.phase = "check", !.dir = typed.target, !.out = typed.output,
                          !.left = Chosen, !.asked = Cardinality(Chosen)])
  /\ UNCHANGED shown

-----------------------------------------------------------------------------
Found(more, phase) ==
  /\ items' = more
  /\ task' = [task EXCEPT !.phase = phase]
  /\ UNCHANGED <<disk, journal, typed, history, moves>>

ScanTrash ==
  /\ task.phase = "trash"
  /\ Found(ScanTrashJournals(task.dir), "metadata")
  /\ UNCHANGED <<log, shown, scanned>>

ScanMetadata ==
  /\ task.phase = "metadata"
  /\ Found(items \o ScanFilesystemMetadata(task.dir), "records")
  /\ UNCHANGED <<log, shown, scanned>>

(* The scan ends; the command goes on with all that was found.              *)
ScanRecords ==
  /\ task.phase = "records"
  /\ LET all == items \o ScanSanitizedAuditRecords(task.dir, LogRead)
     IN  /\ items' = all
         /\ task' = IF task.command /\ all # <<>>
                    THEN [task EXCEPT !.phase = "check", !.left = DOMAIN all, !.asked = Len(all)]
                    ELSE NoTask
  /\ log' = LogRead
  /\ shown' = ~task.command
  /\ scanned' = [dir |-> task.dir, erased |-> erased]
  /\ UNCHANGED <<disk, journal, typed, history, moves>>

(* Nothing is written into the directory named in the request.              *)
CheckDestination ==
  /\ task.phase = "check"
  /\ task' = IF PathStartsWith(task.out, task.dir) THEN NoTask
             ELSE [task EXCEPT !.phase = "recover"]
  /\ UNCHANGED <<disk, audit, typed, items, shown, scanned, history, moves>>

(* What an item can be restored to: nothing when it failed.                 *)
Payload(item) ==
  CASE item.kind = "trash" ->
         {t.content : t \in {r \in trash : r.slot = item.locator /\ r.content # Gone}} \cup {Gone}
    [] item.kind = "tomb" -> IF ResolveMountInfo(task.dir) THEN {item.path, Broken, Gone} ELSE {Gone}
    [] OTHER -> {Gone}

(* The look for a name and the copy under it are one step: nobody else writes  *)
(* to the output folder, and a copy that fails leaves nothing.               *)
RecoverItem ==
  /\ task.phase = "recover" /\ task.left # {}
  /\ \E content \in Payload(items[Min(task.left)]) :
       LET item == items[Min(task.left)]
           target == FreeName(task.out, Last(item.path))
           rest == task.left \ {Min(task.left)}
       IN  IF content = Gone
           THEN /\ task' = [task EXCEPT !.left = rest]
                /\ UNCHANGED <<files, recovered>>
           ELSE /\ files' = [f \in DOMAIN files \cup {target} |->
                               IF f = target THEN content ELSE files[f]]
                /\ recovered' = Append(recovered, [file |-> target, content |-> content,
                                                   item |-> item, from |-> scanned.dir])
                /\ task' = [task EXCEPT !.left = rest, !.count = @ + 1]
  /\ UNCHANGED <<trash, audit, typed, items, shown, scanned, erased, moves>>

FinishRecovery ==
  /\ task.phase = "recover" /\ task.left = {}
  /\ LET entry == Record("recover", task.dir, task.count > 0 \/ task.asked = 0)
     IN  log' = Append(log, entry) /\ journal' = Append(journal, entry)
  /\ task' = NoTask
  /\ UNCHANGED <<disk, typed, items, shown, scanned, history, moves>>

ScannerNext ==
  \/ Delete \/ Purge \/ Erase \/ Restart
  \/ EditPaths \/ Select \/ StartScan \/ Command \/ StartRecovery
  \/ ScanTrash \/ ScanMetadata \/ ScanRecords
  \/ CheckDestination \/ RecoverItem \/ FinishRecovery

ScannerSpec == ScannerInit /\ [][ScannerNext]_scannerVars

-----------------------------------------------------------------------------
(* Restoring overwrites nothing: files restored in one request or in        *)
(* several, under equal names, lie apart, and each still holds what was in  *)
(* the trash or on the volume for it; so does what lay there before.        *)
KeptApart ==
  /\ \A i, j \in DOMAIN recovered : i # j => recovered[i].file # recovered[j].file
  /\ \A r \in Range(recovered) : r.file \in DOMAIN files /\ files[r.file] = r.content
  /\ \A f \in DOMAIN files \ {r.file : r \in Range(recovered)} : files[f] = f

(* What is listed as deleted or sanitized lay in the directory, and what    *)
(* this process erased there before is listed as sanitized, is never        *)
(* selected and never restored.                                            *)
ListedTrue ==
  /\ shown => \A i \in DOMAIN items :
       items[i].kind # "tomb" => IsPrefix(scanned.dir, items[i].path)
  /\ shown => \A p \in scanned.erased : IsPrefix(scanned.dir, p) /\ scanned.dir # <<>> =>
       \E i \in DOMAIN items : items[i].path = p /\ items[i].kind = "sanitized"
  /\ \A r \in Range(recovered) : r.item.kind # "sanitized"

=============================================================================
