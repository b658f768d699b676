-------------------------- MODULE SecureFileEraser --------------------------
(***************************************************************************)
(* One call of SecureFileEraser::eraseFile (POSIX build) of                *)
(* src/src/sanitization/secure_file_eraser.cpp, system call by system      *)
(* call, beside other programs that use the same directory: they rename,   *)
(* link, unlink, create, save and grow files, and move directories.        *)
(*                                                                         *)
(* A file is a sequence of blocks (the chunks of the overwrite loop).  A   *)
(* block has a content in the page cache and a count of the times it was   *)
(* overwritten on the medium, which is what flushing a dirty block does.   *)
(* The kernel may flush earlier than it is asked to: that only adds to the *)
(* count, and is left out.  The names of interest are those of one         *)
(* directory, home; the path given is parent/Target, and parent leads to   *)
(* home, to home through a symbolic link, or to a protected directory.     *)
(***************************************************************************)
EXTENDS Naturals, Sequences, FiniteSets

CONSTANTS
  Files,         \* inodes
  SysFile,       \* the one that Target names in the protected directory
  Names,         \* file names
  Target,        \* the one to erase
  Nothing,       \* what an unused name leads to
  Symlink,       \* a name that is a symbolic link
  Methods,       \* sanitization methods in use
  MaxBlocks,     \* bound on the blocks of a file
  MaxMeddles,    \* bound on the steps of other programs
  MaxFaults      \* bound on failing system calls

ASSUME FilesAssumption ==
  /\ IsFiniteSet(Names)
  /\ Target \in Names
  /\ SysFile \in Files
  /\ Nothing \notin Files
  /\ Symlink \notin Files \cup {Nothing}

ASSUME BoundAssumption ==
  /\ Methods \subseteq {"NIST_800_88_CLEAR", "DOD_5220_22_M", "PSEUDORANDOM_1_PASS", "ZERO_FILL"}
  /\ {MaxBlocks, MaxMeddles, MaxFaults} \subseteq Nat

Contents == {"data", "other", "zeros", "ones", "random"}
Block == [cache : Contents, dirty : BOOLEAN, layers : Nat, captured : BOOLEAN]
Data == [cache |-> "data", dirty |-> FALSE, layers |-> 0, captured |-> FALSE]
Hole == [Data EXCEPT !.cache = "zeros"]

ZeroMethods == {"NIST_800_88_CLEAR", "ZERO_FILL"}

VARIABLES
  home,          \* what the names of the directory lead to
  parent,        \* where the parent directory of the path leads
  blocks,        \* the files
  pc,            \* the call is about to make this system call
  method,        \* its arguments and local variables: method,
  file,          \*   the inode that fd refers to,
  size,          \*   fileSize,
  before,        \*   preWipeSampleHash,
  pass, pos,     \*   loop counters of overwritePayload
  released,      \* history: the blocks that its ftruncate released
  removed,       \* history: what its unlinkat removed a name of
  excuses,       \* history: the kernel "lost" blocks it could not write, the
                 \*   links were left "uncounted" after the unlinkat
  meddles, faults

locals == <<method, file, size, before, pass, pos>>
history == <<released, removed, excuses>>
world == <<home, parent, blocks>>
vars == <<world, pc, locals, history, meddles, faults>>

getPassCount(m) == IF m = "DOD_5220_22_M" THEN 3 ELSE 1

(* What overwritePayload writes in pass p. *)
Pattern(m, p) ==
  IF m = "DOD_5220_22_M"
  THEN CASE p = 1 -> "zeros" [] p = 2 -> "ones" [] OTHER -> "random"
  ELSE IF m = "PSEUDORANDOM_1_PASS" THEN "random" ELSE "zeros"

(* st_nlink *)
Links(f) == Cardinality({n \in Names : home[n] = f}) + IF f = SysFile THEN 1 ELSE 0

(* What the path given leads to, and whether isProtected objects to it.    *)
AtPath == IF parent = "system" THEN SysFile ELSE home[Target]
PathProtected == parent = "system"

Init ==
  /\ home \in [Names -> (Files \ {SysFile}) \cup {Nothing, Symlink}]
  /\ parent \in {"home", "link"}
  /\ blocks \in [Files -> {[i \in 1..n |-> Data] : n \in 0..MaxBlocks}]
  /\ blocks[SysFile] = <<Data>>
  /\ pc = "check"
  /\ method \in Methods
  /\ file = Nothing
  /\ size = 0 /\ before = Nothing /\ pass = 1 /\ pos = 0
  /\ released = {} /\ removed = {} /\ excuses = {}
  /\ meddles = 0 /\ faults = 0

At(step) == pc = step
Goto(step) == pc' = step
Fail == pc' = "failed"
Fault == faults < MaxFaults /\ faults' = faults + 1

-----------------------------------------------------------------------------
(* isProtected on the path as given, symbolic links resolved. *)
Check ==
  /\ At("check")
  /\ IF PathProtected THEN Fail ELSE Goto("open")
  /\ UNCHANGED <<world, locals, history, meddles, faults>>

(* open with O_NOFOLLOW: only a regular file will do. *)
Open ==
  /\ At("open")
  /\ IF AtPath \in Files
     THEN Goto("capture") /\ file' = AtPath
     ELSE Fail /\ UNCHANGED file
  /\ UNCHANGED <<world, method, size, before, pass, pos, history, meddles, faults>>

(* captureIdentityFromFd, and the check for more than one link. *)
Capture ==
  /\ At("capture")
  /\ IF Links(file) > 1
     THEN Fail /\ UNCHANGED <<blocks, size>>
     ELSE /\ Goto("resolve")
          /\ size' = Len(blocks[file])
          /\ blocks' = [blocks EXCEPT ![file] = [i \in DOMAIN @ |-> [@[i] EXCEPT !.captured = TRUE]]]
  /\ UNCHANGED <<home, parent, method, file, before, pass, pos, history, meddles, faults>>

(* Mutant: the protection check is not repeated on the resolved path. *)
ResolveUnchecked ==
  /\ At("resolve")
  /\ Goto(IF size > 0 THEN "prehash" ELSE "truncate")
  /\ UNCHANGED <<world, locals, history, meddles, faults>>

(* isProtected on the path that /proc/self/fd gives for the descriptor.    *)
(* An empty file is taken as verified at once.                             *)
Resolve ==
  /\ At("resolve")
  /\ IF file = SysFile THEN Fail ELSE Goto(IF size > 0 THEN "prehash" ELSE "truncate")
  /\ UNCHANGED <<world, locals, history, meddles, faults>>

(* The hash of the first chunk; a failing or short read is let pass.       *)
PreHash ==
  /\ At("prehash")
  /\ Goto("overwrite")
  /\ \/ /\ before' = IF blocks[file] = <<>> THEN Nothing ELSE blocks[file][1].cache
        /\ UNCHANGED faults
     \/ Fault /\ UNCHANGED before
  /\ UNCHANGED <<world, method, file, size, pass, pos, history, meddles>>

(* write of one chunk; a file that was cut short meanwhile grows again.    *)
Overwritten(bs, i, pattern) ==
  [j \in 1..(IF i > Len(bs) THEN i ELSE Len(bs)) |->
     IF j = i
     THEN [(IF i > Len(bs) THEN Hole ELSE bs[i]) EXCEPT !.cache = pattern, !.dirty = TRUE]
     ELSE IF j > Len(bs) THEN Hole ELSE bs[j]]

Overwrite ==
  /\ At("overwrite")
  /\ blocks' = [blocks EXCEPT ![file] = Overwritten(@, pos + 1, Pattern(method, pass))]
  /\ pos' = pos + 1
  /\ Goto(IF pos + 1 < size THEN "overwrite" ELSE "sync")
  /\ UNCHANGED <<home, parent, method, file, size, before, pass, history, meddles, faults>>

Flushed(bs) ==
  [i \in DOMAIN bs |->
     IF bs[i].dirty THEN [bs[i] EXCEPT !.dirty = FALSE, !.layers = @ + 1] ELSE bs[i]]
Forgotten(bs) == [i \in DOMAIN bs |-> [bs[i] EXCEPT !.dirty = FALSE]]

NextPass ==
  IF pass < getPassCount(method)
  THEN Goto("overwrite") /\ pass' = pass + 1 /\ pos' = 0
  ELSE Goto("stat") /\ UNCHANGED <<pass, pos>>

(* Mutant: the next pass begins without a sync. *)
SyncSkipped ==
  /\ At("sync")
  /\ NextPass
  /\ UNCHANGED <<world, method, file, size, before, history, meddles, faults>>

(* fdatasync *)
Sync ==
  /\ At("sync")
  /\ blocks' = [blocks EXCEPT ![file] = Flushed(@)]
  /\ NextPass
  /\ UNCHANGED <<home, parent, method, file, size, before, history, meddles, faults>>

(* fdatasync fails and fsync, tried instead, succeeds: the blocks are      *)
(* written at last, or the kernel has reported their loss already and      *)
(* takes them for clean.                                                   *)
SyncAgain ==
  /\ At("sync")
  /\ Fault
  /\ \/ blocks' = [blocks EXCEPT ![file] = Flushed(@)] /\ UNCHANGED excuses
     \/ blocks' = [blocks EXCEPT ![file] = Forgotten(@)] /\ excuses' = excuses \cup {"lost"}
  /\ NextPass
  /\ UNCHANGED <<home, parent, method, file, size, before, released, removed, meddles>>

(* verifyHandle, first what fstat tells: size and links. *)
VerifyStat ==
  /\ At("stat")
  /\ IF Len(blocks[file]) # size \/ Links(file) > 1 THEN Fail ELSE Goto("readback")
  /\ UNCHANGED <<world, locals, history, meddles, faults>>

(* Then the contents: zeros, to within the 0.01% that the code allows, or  *)
(* not the first chunk of before.  The entropy of what is no zeros is a    *)
(* matter of chance in a short file, so it may be found too low.           *)
VerifyReadback ==
  /\ At("readback")
  /\ LET read == SubSeq(blocks[file], 1, size)
     IN IF Len(blocks[file]) < size
        THEN Fail
        ELSE IF method \in ZeroMethods
        THEN IF \A i \in DOMAIN read : read[i].cache = "zeros" THEN Goto("truncate") ELSE Fail
        ELSE Fail \/ (read[1].cache # before /\ Goto("truncate"))
  /\ UNCHANGED <<world, locals, history, meddles, faults>>

(* ftruncate; the sync that follows is made for good measure. *)
Truncate ==
  /\ At("truncate")
  /\ released' = {blocks[file][i] : i \in DOMAIN blocks[file]}
  /\ blocks' = [blocks EXCEPT ![file] = <<>>]
  /\ Goto("match")
  /\ UNCHANGED <<home, parent, locals, removed, excuses, meddles, faults>>

(* secureUnlink: TargetIdentity::matchesPath ... *)
MatchPath ==
  /\ At("match")
  /\ IF AtPath = file /\ Links(file) = 1 THEN Goto("entry") ELSE Fail
  /\ UNCHANGED <<world, locals, history, meddles, faults>>

(* ... the parent directory opened with O_NOFOLLOW, and fstatat in it ...  *)
MatchEntry ==
  /\ At("entry")
  /\ IF parent # "link" /\ AtPath = file /\ Links(file) = 1 THEN Goto("unlink") ELSE Fail
  /\ UNCHANGED <<world, locals, history, meddles, faults>>

(* ... unlinkat, in the directory that was opened ... *)
Unlink ==
  /\ At("unlink")
  /\ IF home[Target] = Nothing
     THEN Fail /\ UNCHANGED <<home, removed>>
     ELSE /\ Goto("recount")
          /\ removed' = removed \cup {home[Target]}
          /\ home' = [home EXCEPT ![Target] = Nothing]
  /\ UNCHANGED <<parent, blocks, locals, released, excuses, meddles, faults>>

(* Mutant: the links are not counted again. *)
RecountSkipped ==
  /\ At("recount")
  /\ Goto("verified")
  /\ UNCHANGED <<world, locals, history, meddles, faults>>

(* ... and the links of the descriptor's file counted again; an fstat that *)
(* fails is let pass.                                                      *)
Recount ==
  /\ At("recount")
  /\ \/ /\ IF Links(file) # 0 THEN Fail ELSE Goto("verified")
        /\ UNCHANGED <<excuses, faults>>
     \/ /\ Fault
        /\ Goto("verified")
        /\ excuses' = excuses \cup {"uncounted"}
  /\ UNCHANGED <<world, locals, released, removed, meddles>>

(* A system call fails, or the random generator does: the call gives up.   *)
Fallible == {"open", "capture", "resolve", "overwrite", "sync", "stat", "readback",
             "truncate", "match", "entry", "unlink"}
GiveUp ==
  /\ pc \in Fallible
  /\ Fault
  /\ Fail
  /\ UNCHANGED <<world, locals, history, meddles>>

eraseFile ==
  \/ Check \/ Open \/ Capture \/ Resolve \/ PreHash \/ Overwrite
  \/ Sync \/ SyncAgain \/ VerifyStat \/ VerifyReadback \/ Truncate
  \/ MatchPath \/ MatchEntry \/ Unlink \/ Recount \/ GiveUp

-----------------------------------------------------------------------------
(* What other programs do meanwhile. *)
Meddle ==
  /\ meddles < MaxMeddles
  /\ meddles' = meddles + 1
  /\ UNCHANGED <<pc, locals, history, faults>>

Rename(a, b) ==
  /\ Meddle
  /\ home[a] # Nothing /\ home[a] # home[b]
  /\ home' = [home EXCEPT ![a] = Nothing, ![b] = home[a]]
  /\ UNCHANGED <<parent, blocks>>

LinkName(a, b) ==
  /\ Meddle
  /\ home[a] \in Files /\ home[b] = Nothing
  /\ home' = [home EXCEPT ![b] = home[a]]
  /\ UNCHANGED <<parent, blocks>>

UnlinkName(a) ==
  /\ Meddle
  /\ home[a] # Nothing
  /\ home' = [home EXCEPT ![a] = Nothing]
  /\ UNCHANGED <<parent, blocks>>

Create(a, f) ==
  /\ Meddle
  /\ home[a] = Nothing
  /\ Links(f) = 0 /\ f # file
  /\ home' = [home EXCEPT ![a] = f]
  /\ blocks' = [blocks EXCEPT ![f] = <<Data>>]
  /\ UNCHANGED parent

MoveParent(where) ==
  /\ Meddle
  /\ parent # where
  /\ parent' = where
  /\ UNCHANGED <<home, blocks>>

Grow(f) ==
  /\ Meddle
  /\ Len(blocks[f]) < MaxBlocks
  /\ blocks' = [blocks EXCEPT ![f] = Append(@, [Data EXCEPT !.dirty = TRUE])]
  /\ UNCHANGED <<home, parent>>

Shrink(f) ==
  /\ Meddle
  /\ blocks[f] # <<>>
  /\ blocks' = [blocks EXCEPT ![f] = SubSeq(@, 1, Len(@) - 1)]
  /\ UNCHANGED <<home, parent>>

Rewrite(f, i, content) ==
  /\ Meddle
  /\ i \in DOMAIN blocks[f]
  /\ blocks' = [blocks EXCEPT ![f][i].cache = content, ![f][i].dirty = TRUE]
  /\ UNCHANGED <<home, parent>>

Others ==
  \/ \E a, b \in Names : Rename(a, b) \/ LinkName(a, b)
  \/ \E a \in Names : UnlinkName(a)
  \/ \E a \in Names, f \in Files \ {SysFile} : Create(a, f)
  \/ \E where \in {"home", "link", "system"} : MoveParent(where)
  \/ \E f \in Files \ {SysFile} :
       \/ Grow(f) \/ Shrink(f)
       \/ \E i \in 1..MaxBlocks, content \in {"data", "other"} : Rewrite(f, i, content)

Next == eraseFile \/ Others

Spec == Init /\ [][Next]_vars
-----------------------------------------------------------------------------
(* Types. *)
TypeOK ==
  /\ home \in [Names -> Files \cup {Nothing, Symlink}]
  /\ parent \in {"home", "link", "system"}
  /\ blocks \in [Files -> Seq(Block)]
  /\ pc \in Fallible \cup {"check", "prehash", "recount", "failed", "verified"}
  /\ method \in Methods
  /\ file \in Files \cup {Nothing}
  /\ size \in Nat /\ pass \in Nat /\ pos \in Nat
  /\ before \in Contents \cup {Nothing}
  /\ released \subseteq Block
  /\ removed \subseteq Files \cup {Symlink}
  /\ excuses \subseteq {"lost", "uncounted"}
  /\ meddles \in Nat /\ faults \in Nat

(* The file of a protected directory is neither written, cut nor unlinked, *)
(* although the path was checked before it was opened and may lead         *)
(* somewhere else by then.                                                 *)
ProtectedUntouched ==
  /\ SysFile \notin removed
  /\ Len(blocks[SysFile]) = 1
  /\ blocks[SysFile][1] \in {Data, [Data EXCEPT !.captured = TRUE]}

(* What eraseFile lets go of, whether or not it succeeds in the end, was   *)
(* overwritten on the medium once for every pass of the method: no pass is *)
(* merged with another in the cache and no block is passed over, even when *)
(* other programs cut the file short or write to it in between.  The one   *)
(* exception is a kernel that forgets the blocks it could not write.       *)
ReleasedOverwritten ==
  \A b \in released : b.captured /\ "lost" \notin excuses => b.layers >= getPassCount(method)

(* A file reported as erased has no name left anywhere, although names can *)
(* be added, moved and replaced up to the unlinkat itself.  The one        *)
(* exception is an fstat that fails after it.                              *)
GoneWhenReported == pc = "verified" /\ "uncounted" \notin excuses => Links(file) = 0

=============================================================================
