# Verification of the forensic recovery and deletion system

TLA+ modules that model the program's own logic, TLC configurations that check them
on small instances, and proofs, checked by TLAPS, of what matters most for every value
of the constants. `PROJECT.json` maps every definition to the lines it models and lists
runs, mutants, hazards, findings and theorems.

To check a run: `tlc -workers 2 -config MCX.cfg MCX.tla`; to check proofs:
`tlapm AuditLoggerProofs.tla`, and likewise the other `*Proofs` modules.

## 1. The system

A C++20 application for digital forensics: it erases files, folders and disk images,
recovers deleted files from images and directories, keeps cases with their evidence, and
writes an audit log. A core library (`src/src`), a bridge with the calls the front ends
make (`src/backend`), a desktop application (`src/gui`, Dear ImGui) and a command line
program (`src/backend/src/main.cpp`) use one another in this way:

    GUI views --AsyncTaskRunner--> worker thread --> API bridge --> core --> files
       ^                               |                |            |
       +-- flags, results, registry ---+                +--> AuditLogger (singleton)
    terminal, one-shot commands ----------------------> API bridge

### Components

| Component | State | Operations | What makes it right |
|---|---|---|---|
| AuditLogger (`logging/`) | entries, last hash; `audit_log.txt`, `audit_journal.jsonl` | log, save, load, verify, clear, all under one mutex | the chain verifies; no record is lost or invented over loads, races, damage |
| SecureFileEraser (`sanitization/`) | a descriptor, the identity captured from it, loop counters; the file system | eraseFile: check, open, capture, overwrite, sync, verify, truncate, unlink | a protected file is never touched; every pass reaches the medium; success means no name is left |
| SystemProtectionGuard, drive checks of `platform.hpp` | tables of protected paths; what the walk over the block devices found | isMainSystemDrive, isRootOrSystemPath, isProtected | all that carries the system is refused under every name, and nothing besides |
| EraseOperation, SecureFolderEraser | selection, confirmation | add, clear, confirm, preview, execute; eraseFolder | one protected item blocks the batch; success means that all is gone, and what was not overwritten is reported |
| ImageSanitizer, strategies, SanitizationVerifier | an image file | overwrite, sync, verify by path | success means that every cell holds the last pass |
| Command line; ViewFileEraser, ViewDriveSanitizer | prompt, job; path, boxes, dialog | menu, prompts, commands; buttons, background task | only what was confirmed is destroyed; success is all of it; the terminal ends with its input |
| UserAuthDB (`core/`), ViewLogin | records; `users.db`, its temporary copy; the clock; the session | authenticate, registerUser, changePassword, load, save; login, enrollment, logout | lockout over restarts; who was enrolled, or works at the window, is in the file |
| CaseManager (`core/`) | open case, evidence, custody; the workspace on disk | initialize, open, registerEvidence, saveMetadata | evidence is whole and has its hash; the catalog names what is there |
| SignatureScanner, FileCarver (`carving/`) | position in the image, matches, carved files, end of the last valid one | scan, carve, carveSingle | every header found once; nothing hidden but by a valid file; hashes are true |
| FormatValidator, ConfidenceScorer, FragmentReconstructor (`carving/`) | none | validate, evaluate, reconstruct | whole files are known with their length, cut ones are not taken for whole, pieces are rejoined |
| RecoveryEngine (`recovery/`) | report, recovered ranges | runRecovery | nothing is lost between listing, carving and filtering |
| DirectoryScanner (`recovery/`), ViewDirectoryRecovery | discovered items, selection | scanDirectory, recoverItems | what is listed lay in the directory; restoring overwrites nothing |
| FAT32, exFAT, NTFS analyzers (`filesystem/`) | boot sector, FAT, MFT | probe, listDirectory, findDeletedFiles, extractFile | damaged chains end; what is extracted is the file's own |
| DiskImageReader, PartitionDetector (`core/`) | handle, sector size, total | open, read, readSectors, detect | a read delivers what stands at the address; damaged entries hide no others |
| GUI views, AsyncTaskRunner, OperationTracker, registry (`gui/`) | runner, flags, result of each view; monitor; registry of files | buttons, tasks, close | the UI never blocks; results are those asked for; threads end before what they use |
| API bridge (`backend/`) | none of its own | one function per call of the front ends | every call leaves its record |
| Device detection, HDD and SSD sanitizers, reporting, hashing, platform, logger, drawing | none, or a table | reads of the operating system, formatting | not modelled, see section 6 |

### What is hard

- *Concurrency*: GUI workers beside the UI thread; logging threads beside a scan that
  reads and then loads the log; programs that change the directory in which a file is
  being erased, the image that is being overwritten, the folder whose numbers the user is
  typing, the directory that is being scanned, or the file evidence is taken from.
- *Crashes and restarts*: in the middle of a save of users, of the audit log, of a
  catalog, of an ingestion; right after an enrollment that opened the window.
- *Failures the code lets pass*: stream states after writes, a second sync, `remove_all`,
  a read in the middle of a scan; one of several targets that fails.
- *Data nobody vouches for*: cluster chains that loop, partition entries behind the
  image, end marks inside thumbnails, devices made of each other.
- *Boundaries*: headers across chunks, the end of the image, ranges that touch, reads in
  whole sectors, signed run offsets, the failure that locks an account, the end of the
  input at any prompt.

`PROJECT.json` lists 40 such hazards, each at its line; each has a property of a run
that would notice it go wrong.

## 2. The modules

| Module | Models | Abstractions |
|---|---|---|
| `AuditLedger` | the promise: a numbered list of facts that only grows at its end or returns to an earlier state | - |
| `AuditLogger` | `logging/audit_logger.cpp`, and the look-then-load of `DirectoryScanner` | SHA-256 is collision-free: a hash is the list of what was hashed. A file is the list of entries its parser finds; the losses of the text format and of the JSON reader are applied when written |
| `SecureFileEraser` | `eraseFile`, system call by system call, and other programs | a file is a few blocks with a cached content, a dirty mark and the number of overwrites that reached the medium |
| `EraseOperation` | `EraseOperation` and `SecureFolderEraser` | a file is erased by the contract that `SecureFileEraser` shows |
| `UserAuthDB` | accounts, save in steps, crash and restart, clock | a salted hash is its password |
| `Session` (extends it) | the login view, the session of `AppContext`, logout and restart | the window's one thread waits for every answer |
| `GuiTasks` | views, runners, workers, shared flags, monitor, registry, shutdown | what a task computes; progress and texts |
| `CaseManager` | workspaces and the ingestion of evidence | a hash is the content it was taken of |
| `SignatureScanner` | the chunked scan | an image is the set of headers at each offset |
| `FileCarver` (extends it) | carving of the matches, export, hash | the validator's verdict and length are free |
| `RecoveryEngine` (extends that) | `runRecovery`: listing, scan, carve, filter | an analyzer is what it may list |
| `FsVolume` (extends `DiskImageReader`) | what the three analyzers share: cells of an image, reads cut at its end | the content of a block is its address |
| `Fat32Analyzer`, `ExFatAnalyzer`, `NtfsAnalyzer` | probe, listing of living and deleted files, chains and runs, extraction | directory entries, entry sets and MFT records are records of the fields the code reads; dates and UTF-16 are left out. An MFT record is what the mended copy of it says; content in it is read from the image unmended (`Mended`) |
| `PartitionDetector` | MBR, protective MBR and GPT | counts wrap at `U32`, a small power of two |
| `DiskImageReader` | a reader that is opened, reopened, closed and read, of files, block and raw devices | addresses wrap at `U64`, the length given to `ReadFile` at `U32`, likewise; a byte is its address |
| `ImageAnalysis` (composes the five) | open, detect, probe, list, extract, in the order of `runRecoveryScan`; a medium without a volume is only read | one image, which does not change |
| `FormatValidator` | the length and verdict for each format; its loops over segments, chunks and boxes as the places one walk visits (`Walk`, a recursive function) | a file is a sequence of tokens: a header, a segment with its length, an end mark, other bytes |
| `ConfidenceScorer` (extends it) | points and tiers of each format | likewise |
| `FragmentReconstructor` (extends it) | carving of one file, orphan fragments, joining, as `--reconstruct` drives them | entropy in three steps |
| `ImageSanitizer` | `sanitizeImage` and `verifyImage`, chunk by chunk, beside another program | a cell is a chunk; entropy is that of the kind of data in it |
| `CommandLine` (extends it) | terminal and one-shot commands: prompts, jobs, exit codes | what only reads is its dialog |
| `EraserViews` (extends that) | the views that erase and sanitize, and their background task | cards of results and previews are left out |
| `DirectoryRecovery` | `DirectoryScanner`, its API, view and commands, beside the user's file manager | a path is a sequence of names, a name a stem with the numbers put behind it; a content is the path it stood at first |
| `SystemProtection` | `isMainSystemDrive` with the walk of `resolveBlockDeviceSlaves`, `isRootOrSystemPath`, `isProtected`, as built on Linux | a path is cut in pieces where the code cuts or compares |
| `MC*` | instances for TLC | - |
| `*Proofs` | proofs | - |

An action is a call where the code holds a lock over the call (the audit log) or works
on data that nobody else changes (an analyzer), and a system call or file operation
where others, a crash or a failure can come between (erasing, saving users, ingesting
evidence, overwriting an image). Guards are the code's conditions and the named bounds; a
history variable (marked so in its declaration) only records, and nothing but a bound
reads it. Names of definitions and variables are those of the code where TLA+ allows it.

*Audit log.* `entries`, `lastHash` are `entries_`, `last_hash_`; `disk` holds both files.
`Log`, `Save`, `Load` are whole methods. `ScanFindsEmpty` and `ScanLoads` are the two
calls of `scanSanitizedAuditRecords` between which another thread may log. `SaveFails`,
`Damage` and `Restart` are the environment.

*Erasing a file.* `pc` names the system call about to be made; `home` and `parent` are the
directory and the way to it; `Others` is what other programs do: rename, link, unlink,
create, resize, rewrite, move the parent. `SyncAgain` is the second sync after a failed
one, where the kernel may have dropped the dirty marks. `GiveUp` is any failing call.

*Erasing a batch.* The selection, the confirmation and `preview` before the first item;
then files, then folders: look at the folder (`Refuse`), list it (`Discover`, which may
fall short, or `DiscoverThrows`), erase each file, remove subfolders, remove the root and
look whether it is gone, which may fail as well.

*Accounts and session.* A call that changes something runs until its save is through;
`OpenTmp`, `WriteTmp`, `RenameTmp`, `CopyTmp` are the steps of the save with their
failures; `Exit` may come anywhere, `Start` loads. The window calls `HandleLogin` or
`HandleEnrollment` and waits; `Answered` begins the session.

*GUI.* `Click`, `StartMonitor`, `Run`, `Spawn` are the UI thread; `Store`, `Unflag`, `Show`,
`Register`, `FinishMonitor`, `Return`, or `Throw`, the worker; `Close` and
`DestroyMember` the end: the views go from the last that `main` made to the first, their
members from the last declared (`Declared`, from the headers) to the first, and the
runner joins its thread when its turn comes. A view with members behind the runner may
crash (`Crash`).

*Cases.* `HashSource`, `CopyBegins`, `CopyEnds`, `Compare`, `Rename`, `Push`, `Truncate`,
`Write`, `Account` are the steps of `registerEvidence`; sources change in between and the
program may be killed.

*Recovery.* `ReadChunk` or `ReadFails`, `MatchPosition` for each position up to
`ScanLimit`, `NextChunk`; then for every match `Skip`, `Reject` or `Carve` with any
verdict and length, a write that stops short, a hash that cannot be taken from the
file; then `Filter` for every carved file. `rejected` and `unread` are histories.

*Images.* `Open`, the detection, the probe at one partition, the listing (of living or of
deleted files) and the extraction are one action each, for they are pure reads of one
image; what is in them is computed by functions that follow the code's loops, guards
against endless chains (`ChainGuard`, `DirGuard`) included.

*Fragments.* `CarveSingle` is `carveSingle` of one match; the search and the joining are the two
loops of the command. What is in an area is said without the code: `JpegFile`, `PngFile`,
`PdfFile` and `ZipFile` are grammars of the formats, `CutOff` and `InTwo` say what is
missing of a file or where its two pieces lie, and `FragmentAssumption` that the areas given are
what they are said to be.

*Front ends.* `at` is the prompt the terminal waits at; each prompt is an action that
takes a line, or the "exit" that `readLine` makes of the end of the input. In the
window the same job is started from a view: `view` holds path, listing, boxes and the
dialog with the word typed, which go on changing while the job runs.

*Directories.* A request scans trash, volume and audit log in three steps, or restores
items one by one; `files`, `trash`, `log` change around it, and `typed`, the two paths
in the view, does too.

*System disk.* `ReadMount` takes a line of `/proc/mounts`, `Visit` is one call of the
walk, `Decide` the verdicts. `todo` holds the calls that wait: TLC takes them in every
order, the code in one.

## 3. The runs

All twelve runs pass; each property has a mutant of the code in `PROJECT.json` that breaks
it under the run's own configuration.

| Run | Shows | Bounds |
|---|---|---|
| `audit_log` | `ChainVerifies`: the log in memory verifies whatever file was loaded. `EntriesKept`: a racing scan drops nothing that was journalled. `LedgerSpec`: refinement of `AuditLedger` | one scanning thread, 3 entries in memory and in a file, 5 ledgers, 2 faults |
| `file_eraser` | `ProtectedUntouched`, `ReleasedOverwritten`, `GoneWhenReported` | 3 files, 2 names, 2 blocks, 2 steps of other programs, 1 failing call, 3 methods |
| `erase_operation` | `SuccessMeansGone`, `ContentsAccounted` | 5 files of which 2 are protected, a folder and a subfolder, 2 selections of each kind, 1 failing listing or removal |
| `user_auth` | `EnrolledSurvive`, `SessionBacked`, `LockoutHolds` | 2 users, 2 passwords, threshold 2, lock of 2 seconds, clock to 4, 1 mishap |
| `gui_tasks` | `UiNeverWaits`, `ResultsFresh`, `MembersOutliveTasks`, `RunnerFreed` (liveness) | 2 views with 4 and 12 members, 3 clicks, a registry of 1 |
| `case_manager` | `WholeEvidence`, `CatalogBacked`, `FailureLeavesNothing`, `StoredAsHashed` | 2 cases, 2 sources, 2 items, 1 change, 1 fault, 1 restart |
| `recovery` | `ScanExact`, `CarvedApart`, `NothingLost`, `HashesTrue`, `Terminates` (liveness) | images of 7 bytes with up to 2 headers out of 2 signatures, chunks of 2 with an overlap of 2, 3 listings, 1 fault |
| `image_analysis` | `VolumeFound`, `LivingFilesWhole`, `DeletedFilesBegin`, `NothingForeign`, `ReadsExact` | FAT32 volumes of five clusters with two files, and broken ones with anything in three links of the table; exFAT and NTFS volumes with fragmented, deleted, resident files and a fragmented MFT, resident content over the end of a sector of its record, files with two names, two streams or a hole; no table, MBR, GPT; media of three kinds with sectors of 1 to 4, 10 addresses and 8 lengths up to and over both widths |
| `fragments` | `WholeFilesKnown`, `CutFilesKnown`, `PiecesRejoined` | files of every format with what they may embed, what may follow, every cut, two pieces of every file they can be made of, with gaps of up to 2 clusters |
| `front_ends` | `ChosenOnly`, `SuccessTrue`, `EofLeaves` (liveness) | 2 jobs, 8 edits, a folder of 2 entries and a newcomer, images of none or 2 cells, 1 step of another program |
| `directory_recovery` | `KeptApart`, `ListedTrue` | 2 files of equal names, 5 directories of which one's name begins like another's, 2 trash slots, 1 erasure, 2 requests, 4 moves of the user |
| `system_protection` | `SystemDiskRefused`, `OthersAllowed`, `SystemPathsRefused` | 12 machines, 39 targets, every order of the walk |

Why the bounds are enough. Every action fires in the run of its module. Two entries and
a third are what it takes to reorder, to cut off and to continue a chain. An erase is
disturbed by a pair of steps (a rename away and a name put in its place, a link and an
unlink); three passes over two blocks show a pass merged with the next. Two users and
threshold 2 show a count that passes its threshold and a lock that expires before the
clock ends. Two clicks of one view and one of another show a runner that is busy and a
monitor that is shared. Seven bytes make three chunks, so that a header lies in, across
and behind an overlap, and a shorter last chunk. Five clusters hold two files of
two in every order beside a directory, three links every loop of up to three clusters,
and NTFS files have up to three runs, forwards and backwards. A file of
every format is given a thumbnail, archive or end mark to be misled by. Two jobs show
what the first leaves behind for the second, and two entries and a newcomer a number
that shifts. Two requests under equal names show a name that the first has taken.
The machines hold partitions, NVMe, LVM over LUKS, RAID, devices made of each other, a
sysfs or mounts that are not there; the proof of `SystemDiskRefused` covers the others.

`CHECK_DEADLOCK FALSE` stands where the system really stops: an erase is over
(`file_eraser`), the window is closed (`gui_tasks`), the program has exited
(`front_ends`), an analysis, a carving or a verdict is done (`image_analysis`,
`fragments`, `system_protection`), and the bounded clock, failures, items or moves are
used up (`user_auth`, `case_manager`, `directory_recovery`). `user_auth` and
`case_manager` use symmetry; neither checks liveness. In `recovery` the end is a step of
its own (`Finished`).

*Fairness.* `GuiTasks`: weak fairness of the UI thread's pending steps and of every
worker, because the scheduler runs threads that can run and a task is a loop over a
finite disk or directory; `Registered` is fair by itself, because a task registers
finitely many files; nothing is assumed of the user. `RecoveryEngine`: weak fairness of
the one sequential call; a read may fail but returns. `EraserViews`: weak fairness of the
terminal, which is one thread whose `readLine` returns at once when the input has
ended, the case `EofLeaves` is about; nothing is assumed of the window, the user or
other programs. The other specifications assume no fairness and check safety only.

## 4. The proofs

Proved for all sets of threads, operators, records, files, names, images, listings,
machines, media, users, views, cases, selections, jobs and edits, and for all bounds, from the
named assumptions on the constants that TLC evaluates in the runs. Each module proves an
inductive invariant, one step per action, and reads the properties off it.

**`AuditLoggerProofs`**: `TypeCorrect`, `ChainAlwaysVerifies`, `IdsAlwaysSequential`,
`EntriesAlwaysKept`, `ImplementsLedger`, and `SessionAlwaysJournalled` (no step but a failing save
takes an entry of this session from the journal), which no run checks besides. That loaded entries are numbered in order is not
inductive: numbers come from a file that may have been damaged. The invariant adds that
every hash, in memory and in every entry of every file however damaged, names a ledger
that was really held (`HashesInMemory`, `HashesOnDisk`) and that such ledgers are
numbered (`PastNumbered`). Lemma `ChainSpelled` shows that the hashes of a verified
chain spell out its entries; so a file that loads is a ledger of the past. The steps
along a chain are taken by a least counterexample, which exists because the library's
order of the naturals is well-founded.

**`SecureFileEraserProofs`**: `TypeCorrect`, `ProtectedAlwaysUntouched`, `GoneAlways`,
`ReleasedAlwaysOverwritten`. The
invariant follows the descriptor: it refers to a file once opened (`Opened`) and not to
the protected one once its resolved path was checked (`Resolved`); no ordinary name leads
to the protected file (`NamesOrdinary`); and a file counted to have no link has none and
gets none (`ReportedNameless`), because names are only moved, copied, or made for files
that nobody has open. Lemma `NoLinks` relates the count to the names. That what is
released was overwritten needs the loops: from the capture on, a captured block lies
within the file and has a layer on the medium for every finished pass (`LayersInv`), and
the blocks that the running pass has gone past are dirty, so that the sync adds theirs
(`PassesInv`).

**`RecoveryEngineProofs`**: `TypesCorrect`, `AlwaysScanExact`, `AlwaysCarvedApart`,
`AlwaysHashesTrue`, `AlwaysNothingLost`. `ScanInv` adds to `ScanExact` how far a chunk
reaches (`ScanProgress`); lemma `LimitBounds` shows that a position below the limit has
a whole header's length behind it in the buffer, or all the rest of the image, and
`MatchesWhole` that what is found there does not depend on the chunk. `CarveInv` says that
every carved file begins at a match gone past (`FromMatches`), that the end the carver
remembers is that of a valid file and no valid file ends behind it (`EndsKnown`), and
that every match gone past was dealt with (`PassedDealtWith`): what is skipped begins
behind the file whose end is remembered, as matches are in order, and so lies in it.
`Phases` and `FilterDone` carry this through the filter.

The same module proves `AlwaysKeptApart` and `AlwaysListedTrue` of `DirectoryRecovery`.
That a restored file overwrites nothing rests on lemma `FreeNameIsFree`: the names that
the search tries differ (`CandidatesDiffer`), and of one more than there are files one is
free (`OneIsFree`). `ScannerInv` adds what a running scan has found so far and that
nothing is shown meanwhile (`ScanSoFar`), and that each erasure of this process stands in
the log it reads (`ErasedLogged`), also when that log is first filled from the file.

And it proves `ReadsAlwaysExact` of `DiskImageReader`, for any media, sector
sizes, addresses and lengths. A raw device is the hard case (`DeviceReadExact`): the request is
rounded out to sectors, with sums that may wrap and a length that is cut to 32 bits, and what is
cut out of what came back must be what was asked for; no wrap and no cut can make a read succeed
wrongly, except that of the length itself when it is 4 GiB or more.

Last, `WholeFilesAlwaysKnown`, `CutFilesAlwaysKnown` and `PiecesAlwaysRejoined` of
`FragmentReconstructor`, for areas, clusters, gaps and files of any size. Assumed is
`FragmentAssumption`: an area said to begin with a whole file does so by the grammar of its format,
with thumbnails, updates and archives inside and anything behind it, subject to what
makes its end known (of a ZIP, no end record in it but its own tells where its directory
really is; of a PDF, no end mark follows that is not another file's). `WholeFilesKnown` excepts the
files that the validator is known to misread (`Misread`: a PDF in which another header stands, as
that of a JPEG picture, and a GIF with the byte of its end mark among its data; both are in the
areas of the run). A file that is
cut has no end mark behind the second cluster (a PDF or ZIP none at all), and none in its scan; of one in two pieces the
only end mark behind the first cluster is its own. What lies between and behind is free
otherwise. `WalkExists` shows that the equation of `Walk` has a solution, for steps only go
forward, and `WalkStops` that a walk which stays in a set stops in it, where no step is: so
the walk over segments stops at the scan and not in a thumbnail (`JpegWalk`), and that over
chunks at the end (`PngValid`). `WholeVerdict` and `CutVerdict` put validator and score together.
`CutNoneGood` says that a fragment of an area without end marks makes no good file with the
header: the one kind there is, a body of a JPEG, leaves the trial without an end, and the score
below 80 however well it validates. `InTwoGood` says that the file's own end is found, makes with the
header the file as it was, and is the one fragment that makes a good file. `FragmentInv` adds
to the properties only that the fragments found are those of the area.

**`ImageAnalysisProofs`**: `NothingForeignHolds` is about every image of any size that the
three analyzers may be given, damaged in any way: no file that is extracted is longer than
its entry says, and it holds nothing but readable blocks that its entry leads to. `AnalysisInv`
says that the table found, the volume, the listing and what was extracted all follow from
the image (`DiskAssumption`). The rest is about the loops of the analyzers, which have no
step of the specification to be carried by. A loop is written as a recursive function
(`Iterate`), for TLA+ the choice of a function with the equation; `CourseExists` shows by a
least counterexample that there is one, and `TurnByTurn` that what the start has and every
turn keeps, the end has. With it, every cluster of a chain lies in each set with the
first one that the allocation table does not lead out of (`Closed`), chains that run in
circles included; a run list gives runs, a record its attributes, and a piece adds readable
blocks of where it was read (`PieceStays`). `Fat32ExtractsItsOwn`, `ExFatExtractsItsOwn` and
`NtfsExtractsItsOwn` say so of the whole way from an entry to the bytes. The
assumptions `VolumeAssumption`, `Fat32Assumption` and `NtfsAssumption` are about the limits
in the code, `DiskAssumption` about the kinds of the fields on an image.

`VolumeFoundHolds`, `LivingFilesHold` and `DeletedFilesHold` are about every image in order, of
any size and with any number of files. `InOrder` says what that is, without the code: a table
of one partition or of none; files whose entries, chains, contiguous clusters, runs or records
spell out where their content stands (`StandsIn`: it is cut into pieces that follow one another
in the content, and anywhere on the image); of a deleted file any links may have been cleared;
an NTFS volume may hold any other files besides, such as `$Secure` and `$BadClus` of every
formatted volume, whose names are listed and of whose content nothing is said: the promise is
for files that are `plain` (all of the content in one stream without holes, described in one
record). Resident content is that of the mended record, and a block of it which the update
sequence stands for is excepted in `Begins`, because the code reads it from the disk unmended.
And all of it within the limits of the analyzers (`ChainGuard`, `DirGuard`, `MaxCluster`,
`MaxExtract`, `MaxRecords`, `MaxActive`, `MaxDeleted`, one cluster of exFAT directory). An image
marked `sound` is in order (`DiskAssumption`, which TLC evaluates for the images of the run);
nothing is assumed of the others. The argument has three parts, for each file system:

- what an extraction has after k pieces is the content up to the end of the k-th (`Upto`,
  `NextPiece`), so that a chain, or the runs a chain was split into (`Spells`), gives
  the content, and the beginning of a chain that was cleared gives its beginning
  (`Fat32ExtractInOrder`, `ExFatExtractInOrder`, `NtfsExtractInOrder`);
- what a listing has after k places are the files of the entries up to the k-th, in order and
  under their names (`SeenUpTo`, `Placed`; `Fat32ListInOrder`, `ExFatListInOrder`,
  `NtfsListInOrder`). Before this can be said, the walk over a root directory must have read
  its entries (`Fat32SlotsInOrder`), and the buffers of a run of the table of records
  must begin at records (`NtfsScanChunkInOrder`, `NtfsScanRunInOrder`);
- the volume that was recognised has the places its boot sector says (`Fat32ProbeInOrder` and
  the like; for NTFS also the runs of its table of records).

What is known here depends on how far a loop is, so `CourseInExists` and `TurnByTurnIn` carry a
different set for every turn. `Fat32ReadsRightly`, `ExFatReadsRightly` and `NtfsReadsRightly` put
the parts together, `ProbedInOrder` and `PartitionsBeginThere` the detection; `AnalysisInv` adds
that the volume was probed at the start of a partition that was detected.

**`DestructionProofs`**: `SuccessAlwaysMeansGone` and `ContentsAlwaysAccounted` for the
batch; `ChosenAlways` and `SuccessAlwaysTrue` for the terminal, the commands and the views.
`BatchInv` says that as long as no error was noted, a selected file is erased or still to
do, and a folder gone through is gone, or stayed and could not be looked at. `AccountInv`
says of a folder that is being erased that every file with data in it is still to be
overwritten, or was reported, or is missing from the listing. `FrontInv` joins what is chosen to what is destroyed: the targets
are those meant in the listing that was shown, not in the folder as it is now
(`TargetsMeant`); only they are destroyed, and only beside an answer (`DestroyedMeant`,
`Answered`); a running job has dealt with all but those to do (`Progress`); the image
opened by a job is one and the same while it is written (`OneImage`), holds the last
pass up to the cell reached (`Writing`), and to its end when success is reported
(`Written`, `Reported`).

The same module proves, of `SystemProtection`, `SystemPathsAlwaysRefused`, from what is known of a verdict
when it is given (`VerdictInv`: the canonical target, and the answers of the checks on
it), for every link and working directory; and `SystemDiskAlwaysRefused`, for every machine that
`WorldsAssumption` admits, devices made of each other in circles included. What carries
the system is stated without the walk, as the least set with the mounted devices in it
that is closed under "made of". The invariant `WalkInv` says of the names visited that
all they reach is visited or waits; when nothing waits, they are such a closed set
(`Settled`), and what was settled for one mount stays so while the next is walked, for
`out` only grows. A verdict is given only then (`AnswerInv`), so the least set lies in
what is refused. The other way round, `OthersAlwaysAllowed`: `OthersInv` says that the walk
comes upon nothing but the devices of that least set, the directories they lie in and
the names the mounts are given by (`Walkable`), and that nothing else is put out; so a
device is refused only if it is one of them, or is asked about by, or lies at, a path that
goes on from such a name (`Spells`). This rests on how names are given, `NamesAssumption`:
a partition's name gives the name of its disk, no device file is a link, and a link that
stands for the source of a system mount leads to a device. Nothing in the code sees to
that; the kernel and udev do, and on a machine where it does not hold the walk may well
take in a disk that it should not. TLC evaluates the assumption on the twelve machines.
The exception is the code's own, which compares prefixes of paths as text: a volume
`/dev/mapper/vg-root2` is refused when the system is mounted from `/dev/mapper/vg-root`.

**`GuiTasksProofs`**: `UiNeverWaitsHolds`, `ResultsFreshHolds`,
`MembersOutliveTasksHolds`. A click tests a flag of the view, the wait would be for the
thread of its runner, and these are not the same thing: the invariant says what ties
them, that a runner is marked busy exactly while its thread has something left
(`RunnerTrue`) and that a task is started on a free one only (`StartsFree`). The volume
task a thread executes is the one asked for last (`LastAsked`), so what it stores is
what is shown for; after the end nothing is started (`GoneAtTheEnd`). That no task needs a
member that is gone follows from the order of declaration: in the views of directories
the runner is the first member to go (`RunnerLast`), and where it is gone its thread is
through (`JoinedFirst`). The three classes that declare more behind it are the exception
(`Unshielded`) and a finding.

**`CaseManagerProofs`**: `WholeEvidenceHolds`, `CatalogBackedHolds`,
`FailureLeavesNothingHolds`, `StoredAsHashedHolds`. `CallInv` says that a running
ingestion has touched nothing but its temporary copy until the rename, and what
it has read and hashed until then; `ItemInv` and `ListBacked` relate the list in memory
to what lies in the directory, and the catalog is a list that was once in memory.

**`SessionProofs`**: `LockoutAlwaysHolds`, `EnrolledAlwaysSurvive` for the account store,
and `SessionImplementsSpec`: the window with its session implements the store, each of
its steps a step of the store or none, so that the two hold of it as well;
`SessionAlwaysBacked` then adds the session. `SaveInv` says what the temporary copy and
the file hold at each step of a save, `EnrolledInv` that who was answered is in the
file or in the save under way, and `CountInv` that the counts of failures in memory and
in the file are both ahead of the failures answered, so that a kill loses none.

Only model-checked: liveness (`RunnerFreed`, `Terminates`, `EofLeaves`), which is beyond this
prover; and, in the run `fragments`, that the grammars describe the files it is made of. Every
safety invariant and action property that a run checks is also proved.

## 5. What the code does not do as said

`PROJECT.json` "findings" lists them with lines; they were met while modelling, and the
models keep the code's behaviour. The most telling:

- A second session breaks the chain of the journal, and an erasure through the API
  writes over the records of the sessions before.
- A file that grows late is released unwritten; a name moved over the target just
  before the unlink is the one removed; a protected file in a folder is deleted with it.
- A short write or failed rename replaces the accounts by a part of them.
- An erasure of a folder that fails is called a success if the folder cannot be looked at
  afterwards, and what a failed listing leaves out is on the medium still (`SuccessMeansGone`,
  `ContentsAccounted` and `SuccessTrue` name these cases).
- Evidence of the same name is overwritten.
- On a machine whose root is mounted from `/dev/mapper/...`, the physical disk below is
  not found by the walk (`SystemDiskRefused` leaves such machines out by `Legible`).
- The terminal repeats two of its prompts for ever once the input has ended
  (`EofLeaves` excepts them).
- The image is synced and verified by name, whatever lies there by then.
- Resident NTFS content that reaches over the last word of a 512-byte sector of its record
  comes out with the update sequence number in that place.
- A sparse run of NTFS gives the content of another; a cluster that cannot be read whole
  shifts what follows; sector numbers wrap in 64 bits; a read of 4 GiB or more from a raw
  device succeeds with the remainder.
- A JPEG picture in a PDF ends the search for the end of the PDF, which is then PARTIAL, or VALID
  and cut at an end mark before the picture.
- A fragment that follows its header without a gap is not joined; a GIF ends at its first
  byte 0x3B; an MP3 or MP4 file can never reach the tier VALID.
- The terminal prints thirty entries of a folder and takes the numbers of the others as well.
- A path edited after a scan moves the check of the destination.

Where a property of a run makes an exception for one of these, its comment says so.

## 6. Not modelled, and why

- *Windows branches* of the erasers and of `platform.hpp` (handles in place of
  descriptors, drive letters, disk extents): the POSIX build is modelled.
- *Device detection* (`drive_detector`, `storage_device_detector`,
  `portable_device_detector`), flushing and elevation: reads of `/sys`, mount tables and system
  calls into records, with no state and no order that matters. Deleting from and copying
  from portable devices exists on Windows only, and nothing calls it.
- *EraseVerification*: nothing calls `verifyOverwrittenFile`; the other function looks at
  a path once more, and an API call that finds something there says it failed (`Erased`).
- *HDD and SSD sanitizers*: they answer with a text for a kind of drive and write nothing.
- *Reporting*, the CSV and JSON exports, printing of the terminal, fzf and the three
  tools: formatting without state.
- *GUI drawing*, theme, dialogs and embedded fonts: what the views start in the background
  follows the protocol of `GuiTasks`; what two of them ask before is in `EraserViews`.
- *Digests*: idealised as collision-free wherever one is taken.
- *Bytes*: headers, entries and records are records of their fields; date conversion,
  UTF-16 and checksums are left out. The validators and scorers run over tokens.
- *API bridge*: the copying of results between records and the listing of drives. The
  save behind each erasure is `Save` of `AuditLogger`.
- *RecoveryEngine*: the evidence hashes, the output of listed files, the audit entry.
  *CaseManager*: `saveReport`, `addRecoveredArtifact` and queries. *UserAuthDB*: `clear`,
  which only tests call. *Erasing folders*: symbolic links inside. *DirectoryRecovery*: what a
  copy that fails part way leaves behind, other programs that write to the output folder, the
  moment between an unlink and its record, and the records of folders.
- The carver of `FileCarver` takes any verdict, and `RecoveryEngine` any listing: the
  composition with the modules that compute them is left out because its states would
  multiply, and because what is shown for any verdict holds for the computed one.

## 7. What could follow

An atomic account store and an atomic ingestion
as abstract specifications that `UserAuthDB` and `CaseManager` implement while no mishap
goes unnoticed.
