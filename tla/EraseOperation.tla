--------------------------- MODULE EraseOperation ---------------------------
(***************************************************************************)
(* Batch erasure: the selection, confirmation and execution of             *)
(* src/src/sanitization/erase_operation.cpp, and the recursive erasure of  *)
(* a folder of secure_folder_eraser.cpp that execute calls.                *)
(*                                                                         *)
(* A file is erased by SecureFileEraser, whose module shows what to expect *)
(* of a call: if it says so, the file was overwritten and has no name; if  *)
(* it does not, the file is there as it was, or spoiled, or never was      *)
(* there.  Meanwhile other programs put new files into the folder.         *)
(***************************************************************************)
EXTENDS Naturals, Sequences, FiniteSets

CONSTANTS
  Loose,           \* files that are selected by themselves
  InRoot,          \* files in the folder
  InSub,           \* files in its subfolder
  Directory,       \* the folder
  ProtectedItems,  \* the files and folders that isProtected objects to
  MaxSelected,     \* bound on the files, and on the folders, selected
  MaxFaults        \* bound on failing removals

Files == Loose \cup InRoot \cup InSub

ASSUME FilesAssumption ==
  /\ Loose \cap (InRoot \cup InSub) = {} /\ InRoot \cap InSub = {}
  /\ Directory \notin Files
  /\ ProtectedItems \subseteq Files \cup {Directory}
  /\ {MaxSelected, MaxFaults} \subseteq Nat

VARIABLES
  files,         \* fate of every file
  root, sub,     \* do the folder and its subfolder exist
  selected_files, selected_folders,
  confirmed_,
  pc,            \* where execute is
  todoFiles, todoFolders,  \* what its loops have still to do
  found,         \* allFiles of eraseFolder, as far as still to do
  errors,        \* result.errors is not empty
  result,        \* of the last call of execute
  faults,
  unseen,        \* history: the folder was there, and could not be looked at
  unverified,    \* files of the folder that its last report names as not verified
  unlisted       \* history: files of the folder that its last listing lacks

selection == <<selected_files, selected_folders, confirmed_>>
disk == <<files, root, sub>>
loops == <<todoFiles, todoFolders, found, errors>>
accounts == <<unseen, unverified, unlisted>>
batchVars == <<disk, selection, pc, loops, result, faults, accounts>>

Present(f) == files[f] \in {"data", "spoiled"}
Held == {f \in InRoot \cup InSub : Present(f)}
Kept(f) == IF f \in InSub THEN sub ELSE IF f \in InRoot THEN root ELSE TRUE

BatchInit ==
  /\ files \in [Files -> {"absent", "data"}]
  /\ root \in BOOLEAN /\ sub \in BOOLEAN /\ (sub => root)
  /\ \A f \in Files : Present(f) => Kept(f)
  /\ selected_files = <<>> /\ selected_folders = <<>>
  /\ confirmed_ = FALSE
  /\ pc = "idle"
  /\ todoFiles = <<>> /\ todoFolders = <<>> /\ found = {} /\ errors = FALSE
  /\ result = "none"
  /\ faults = 0
  /\ unseen = FALSE /\ unverified = {} /\ unlisted = {}

Fault == faults < MaxFaults /\ faults' = faults + 1

-----------------------------------------------------------------------------
(* addFile *)
addFile(f) ==
  /\ pc = "idle"
  /\ Len(selected_files) < MaxSelected
  /\ selected_files' = Append(selected_files, f)
  /\ UNCHANGED <<disk, selected_folders, confirmed_, pc, loops, result, faults, accounts>>

(* addFolder *)
addFolder ==
  /\ pc = "idle"
  /\ Len(selected_folders) < MaxSelected
  /\ selected_folders' = Append(selected_folders, Directory)
  /\ UNCHANGED <<disk, selected_files, confirmed_, pc, loops, result, faults, accounts>>

(* clearSelection *)
clearSelection ==
  /\ pc = "idle"
  /\ selected_files' = <<>> /\ selected_folders' = <<>>
  /\ confirmed_' = FALSE
  /\ UNCHANGED <<disk, pc, loops, result, faults, accounts>>

(* setConfirmed(true), or setConfirmationToken with the right token.       *)
confirm ==
  /\ pc = "idle"
  /\ confirmed_' = TRUE
  /\ UNCHANGED <<disk, selected_files, selected_folders, pc, loops, result, faults, accounts>>

(* setConfirmed(false) *)
unconfirm ==
  /\ pc = "idle"
  /\ confirmed_' = FALSE
  /\ UNCHANGED <<disk, selected_files, selected_folders, pc, loops, result, faults, accounts>>

(* safety_passed of preview. *)
SafetyPassed ==
  /\ \A i \in DOMAIN selected_files : selected_files[i] \notin ProtectedItems
  /\ \A i \in DOMAIN selected_folders : selected_folders[i] \notin ProtectedItems

(* The first two steps of execute: confirmation, and preview, which looks  *)
(* into the folders and may throw.                                         *)
execute ==
  /\ pc = "idle"
  /\ IF ~confirmed_
     THEN result' = "confirmation required" /\ UNCHANGED <<pc, loops, unseen, faults>>
     ELSE \/ /\ ~SafetyPassed
             /\ result' = "blocked"
             /\ UNCHANGED <<pc, loops, unseen, faults>>
          \/ /\ selected_folders # <<>> /\ Fault
             /\ result' = "thrown"
             /\ UNCHANGED <<pc, loops, unseen>>
          \/ /\ SafetyPassed
             /\ pc' = "files"
             /\ todoFiles' = selected_files /\ todoFolders' = selected_folders
             /\ errors' = FALSE /\ unseen' = FALSE
             /\ result' = "none"
             /\ UNCHANGED <<found, faults>>
  /\ UNCHANGED <<disk, selection, unverified, unlisted>>

(* A call of SecureFileEraser::eraseFile that comes back verified.         *)
FileErased(f) ==
  /\ f \notin ProtectedItems
  /\ Present(f)
  /\ files' = [files EXCEPT ![f] = "erased"]

(* One that does not.                                                      *)
FileNotErased(f) ==
  \/ UNCHANGED files
  \/ f \notin ProtectedItems /\ Present(f) /\ files' = [files EXCEPT ![f] = "spoiled"]

(* The loop over the files. *)
FileLoop ==
  /\ pc = "files" /\ todoFiles # <<>>
  /\ todoFiles' = Tail(todoFiles)
  /\ \/ FileErased(Head(todoFiles)) /\ UNCHANGED errors
     \/ FileNotErased(Head(todoFiles)) /\ errors' = TRUE
  /\ UNCHANGED <<root, sub, selection, pc, todoFolders, found, result, faults, accounts>>

(* The loop over the folders.  eraseFolder begins with its own check of    *)
(* the folder.                                                             *)
Refuse ==
  /\ pc = "files" /\ todoFiles = <<>> /\ todoFolders # <<>>
  /\ \/ (Head(todoFolders) \in ProtectedItems \/ ~root) /\ UNCHANGED faults
     \/ Fault   \* exists fails
  /\ errors' = TRUE
  /\ todoFolders' = Tail(todoFolders)
  /\ UNCHANGED <<disk, selection, pc, todoFiles, found, result, accounts>>

(* Mutant: it lists the folder itself, and not its subfolders. *)
DiscoverFlat ==
  /\ pc = "files" /\ todoFiles = <<>> /\ todoFolders # <<>>
  /\ Head(todoFolders) \notin ProtectedItems /\ root
  /\ pc' = "shred"
  /\ found' = Held \ InSub
  /\ unverified' = unverified \ found'
  /\ unlisted' = unlisted \ found'
  /\ UNCHANGED <<disk, selection, todoFiles, todoFolders, errors, result, faults, unseen>>

(* It lists what is there.  Where a directory cannot be opened, or the     *)
(* kind of an entry not be read, the listing is short, without an error.   *)
(* (Symbolic links and the like, which have no contents, are left out.)    *)
Discover ==
  /\ pc = "files" /\ todoFiles = <<>> /\ todoFolders # <<>>
  /\ Head(todoFolders) \notin ProtectedItems /\ root
  /\ pc' = "shred"
  /\ \E missed \in SUBSET Held :
       /\ IF missed = {} THEN UNCHANGED faults ELSE Fault
       /\ found' = Held \ missed
       /\ unverified' = unverified \ found'
       /\ unlisted' = (unlisted \ found') \cup missed
  /\ UNCHANGED <<disk, selection, todoFiles, todoFolders, errors, result, unseen>>

(* The step from one entry to the next throws, out of execute. *)
DiscoverThrows ==
  /\ pc = "files" /\ todoFiles = <<>> /\ todoFolders # <<>>
  /\ Head(todoFolders) \notin ProtectedItems /\ root
  /\ Fault
  /\ pc' = "idle"
  /\ result' = "thrown"
  /\ UNCHANGED <<disk, selection, loops, accounts>>

(* Every file found is overwritten; one that fails is not an error.        *)
Shred ==
  /\ pc = "shred"
  /\ \E f \in found :
       /\ found' = found \ {f}
       /\ \/ FileErased(f) /\ UNCHANGED unverified
          \/ FileNotErased(f) /\ unverified' = unverified \cup {f}
  /\ UNCHANGED <<root, sub, selection, pc, todoFiles, todoFolders, errors, result, faults, unseen, unlisted>>

(* remove_all of a directory that holds fs; it may fail half-way.          *)
RemoveAll(fs) ==
  \/ /\ files' = [f \in Files |-> IF f \in fs /\ Present(f) THEN "deleted" ELSE files[f]]
     /\ UNCHANGED faults
  \/ /\ Fault
     /\ \E some \in SUBSET fs :
          files' = [f \in Files |-> IF f \in some /\ Present(f) THEN "deleted" ELSE files[f]]

(* The subfolders are removed ... *)
RemoveSubfolders ==
  /\ pc = "shred" /\ found = {}
  /\ pc' = "root"
  /\ \/ RemoveAll(InSub) /\ sub' = (sub /\ faults' # faults)
     \/ faults > 0 /\ UNCHANGED <<files, sub, faults>>   \* one that a short listing lacks
  /\ UNCHANGED <<root, selection, loops, result, accounts>>

(* Mutant: a folder that is still there is no error. *)
RemoveRootUnchecked ==
  /\ pc = "root"
  /\ pc' = "files"
  /\ todoFolders' = Tail(todoFolders)
  /\ RemoveAll(InRoot \cup InSub)
  /\ sub' = (sub /\ faults' # faults)
  /\ root' = (faults' # faults /\ root)
  /\ UNCHANGED <<selection, todoFiles, found, errors, result, accounts>>

(* ... then the folder.  It is retried with a plain remove, which succeeds *)
(* if the folder was emptied after all.  Success is that the folder is not *)
(* seen any more: exists says so of one that it fails to look at, too; and *)
(* nothing asks what became of the files.                                  *)
RemoveRoot ==
  /\ pc = "root"
  /\ pc' = "files"
  /\ todoFolders' = Tail(todoFolders)
  /\ RemoveAll(InRoot \cup InSub)
  /\ sub' \in {FALSE, sub /\ faults' # faults}
  /\ sub' \/ \A f \in InSub : files'[f] \notin {"data", "spoiled"}
  /\ root' \in {FALSE, root /\ faults' # faults}
  /\ root' \/ (~sub' /\ \A f \in InRoot : files'[f] \notin {"data", "spoiled"})
  /\ \E seen \in BOOLEAN :
       /\ errors' = (errors \/ (root' /\ seen))
       /\ unseen' = (unseen \/ (root' /\ ~seen))
  /\ UNCHANGED <<selection, todoFiles, found, result, unverified, unlisted>>

(* The end of execute; the confirmation stays. *)
Report ==
  /\ pc = "files" /\ todoFiles = <<>> /\ todoFolders = <<>>
  /\ pc' = "idle"
  /\ result' = IF errors THEN "partial" ELSE "success"
  /\ UNCHANGED <<disk, selection, loops, faults, accounts>>

(* Another program puts a file into a directory that is still there.       *)
Create(f) ==
  /\ files[f] = "absent"
  /\ Kept(f)
  /\ files' = [files EXCEPT ![f] = "data"]
  /\ unlisted' = IF pc \in {"shred", "root"} THEN unlisted \cup ({f} \ Loose) ELSE unlisted
  /\ UNCHANGED <<root, sub, selection, pc, loops, result, faults, unseen, unverified>>

Operation ==
  \/ execute \/ FileLoop \/ Refuse \/ Discover \/ DiscoverThrows
  \/ Shred \/ RemoveSubfolders \/ RemoveRoot \/ Report

BatchNext ==
  \/ \E f \in Loose : addFile(f)
  \/ addFolder \/ clearSelection \/ confirm \/ unconfirm
  \/ Operation
  \/ \E f \in Files : Create(f)

BatchSpec == BatchInit /\ [][BatchNext]_batchVars
-----------------------------------------------------------------------------

(* When execute is about to report success, every file selected by itself  *)
(* was erased and every folder selected is gone, whatever failed, was      *)
(* selected twice or came into the folder on the way.  The exception is a  *)
(* folder that could not be removed and then not be looked at either.      *)
SuccessMeansGone ==
  pc = "files" /\ todoFiles = <<>> /\ todoFolders = <<>> /\ ~errors
    => /\ \A i \in DOMAIN selected_files : files[selected_files[i]] = "erased"
       /\ selected_folders # <<>> => ~root \/ unseen

(* A file of the folder that was deleted with its data on the medium is    *)
(* one whose erasure was reported as not verified, or one that the listing *)
(* of the folder did not have: it came after it, or the listing fell       *)
(* short.  No order of the removals, no second attempt at the folder and   *)
(* no fault adds to these.                                                 *)
ContentsAccounted ==
  \A f \in InRoot \cup InSub : files[f] = "deleted" => f \in unverified \cup unlisted
=============================================================================
