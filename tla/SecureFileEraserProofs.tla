----------------------- MODULE SecureFileEraserProofs -----------------------
(***************************************************************************)
(* One erase for every set of files and names and all bounds: it stays     *)
(* away from the protected file, and a file that it reports as erased has  *)
(* no name left.                                                           *)
(***************************************************************************)
EXTENDS SecureFileEraser, FiniteSetTheorems, SequenceTheorems, TLAPS

(***************************************************************************)
(* The inductive invariant.  The descriptor refers to a file from open on, *)
(* and to one that is not protected once its resolved path was checked.    *)
(* No ordinary name ever leads to the protected file, and once the links   *)
(* were counted none leads to the erased one: names are only moved, copied *)
(* and made for files without a name that nobody has open.                 *)
(***************************************************************************)
Opened == pc \notin {"check", "open", "failed"} => file \in Files
Resolved == pc \notin {"check", "open", "capture", "resolve", "failed"} => file # SysFile
NamesOrdinary == \A n \in Names : home[n] # SysFile
Nameless(f) == f # SysFile /\ \A n \in Names : home[n] # f
ReportedNameless == pc = "verified" /\ "uncounted" \notin excuses => Nameless(file)

IInv ==
  /\ TypeOK
  /\ Opened
  /\ Resolved
  /\ NamesOrdinary
  /\ ProtectedUntouched
  /\ ReportedNameless

-----------------------------------------------------------------------------
(* No links are counted of a file exactly when no name leads to it. *)
LEMMA NoLinks ==
  ASSUME NEW h, NEW f
  PROVE  Cardinality({n \in Names : h[n] = f}) + (IF f = SysFile THEN 1 ELSE 0) = 0
           <=> f # SysFile /\ \A n \in Names : h[n] # f
<1> DEFINE S == {n \in Names : h[n] = f}
<1>1. IsFiniteSet(S) /\ Cardinality(S) \in Nat
  <2>1. IsFiniteSet(Names) /\ S \in SUBSET Names
    BY FilesAssumption
  <2> QED
    BY <2>1, FS_Subset, FS_CardinalityType
<1>2. Cardinality(S) = 0 <=> S = {}
  BY <1>1, FS_EmptySet
<1> HIDE DEF S
<1>3. Cardinality(S) + (IF f = SysFile THEN 1 ELSE 0) = 0 <=> f # SysFile /\ S = {}
  BY <1>1, <1>2
<1> QED
  BY <1>3 DEF S

(* What the parts of a file are made of. *)
LEMMA BlockTypes ==
  /\ Data \in Block /\ Hole \in Block
  /\ \A c \in Contents, b \in Block : [b EXCEPT !.cache = c, !.dirty = TRUE] \in Block
  /\ \A b \in Block : [b EXCEPT !.dirty = FALSE, !.layers = @ + 1] \in Block
  /\ \A b \in Block : [b EXCEPT !.dirty = FALSE] \in Block
  /\ \A b \in Block : [b EXCEPT !.captured = TRUE] \in Block
  /\ [Data EXCEPT !.dirty = TRUE] \in Block
<1>1. Data \in Block /\ Hole \in Block /\ [Data EXCEPT !.dirty = TRUE] \in Block
  BY DEF Block, Data, Hole, Contents
<1>2. ASSUME NEW b \in Block, NEW c \in Contents
      PROVE  [b EXCEPT !.cache = c, !.dirty = TRUE] \in Block
  BY DEF Block
<1>3. ASSUME NEW b \in Block
      PROVE  [b EXCEPT !.dirty = FALSE, !.layers = @ + 1] \in Block
  <2>1. b.layers + 1 \in Nat
    BY DEF Block
  <2>2. \A n \in Nat : [b EXCEPT !.dirty = FALSE, !.layers = n] \in Block
    BY DEF Block
  <2> QED
    BY <2>1, <2>2
<1>4. ASSUME NEW b \in Block
      PROVE  [b EXCEPT !.dirty = FALSE] \in Block /\ [b EXCEPT !.captured = TRUE] \in Block
  BY DEF Block
<1> QED
  BY <1>1, <1>2, <1>3, <1>4

LEMMA SeqOfBlocks ==
  ASSUME NEW n \in Nat, NEW s \in [1..n -> Block]
  PROVE  s \in Seq(Block)
OBVIOUS

(* What overwriting, flushing and capturing make of a file is a file. *)
LEMMA OverwrittenType ==
  ASSUME NEW bs \in Seq(Block), NEW i \in Nat \ {0}, NEW pattern \in Contents
  PROVE  Overwritten(bs, i, pattern) \in Seq(Block)
<1> DEFINE n == IF i > Len(bs) THEN i ELSE Len(bs)
<1>1. n \in Nat /\ \A k \in 1..Len(bs) : bs[k] \in Block
  OBVIOUS
<1>0. Hole \in Block
  BY BlockTypes
<1>2. ASSUME NEW j \in 1..n
      PROVE  (IF j = i
              THEN [(IF i > Len(bs) THEN Hole ELSE bs[i]) EXCEPT !.cache = pattern, !.dirty = TRUE]
              ELSE IF j > Len(bs) THEN Hole ELSE bs[j]) \in Block
  <2>1. CASE j = i
    <3>1. (IF i > Len(bs) THEN Hole ELSE bs[i]) \in Block
      BY <1>0, <1>1
    <3> QED
      BY <2>1, <3>1, BlockTypes
  <2>2. CASE j # i
    BY <1>0, <1>1, <2>2
  <2> QED
    BY <2>1, <2>2
<1> HIDE DEF n
<1>3. [j \in 1..n |-> IF j = i
                      THEN [(IF i > Len(bs) THEN Hole ELSE bs[i]) EXCEPT !.cache = pattern, !.dirty = TRUE]
                      ELSE IF j > Len(bs) THEN Hole ELSE bs[j]] \in Seq(Block)
  BY <1>1, <1>2, SeqOfBlocks
<1> QED
  BY <1>3 DEF Overwritten, n

LEMMA FlushedType ==
  ASSUME NEW bs \in Seq(Block)
  PROVE  /\ Flushed(bs) \in Seq(Block)
         /\ Forgotten(bs) \in Seq(Block)
         /\ [i \in DOMAIN bs |-> [bs[i] EXCEPT !.captured = TRUE]] \in Seq(Block)
<1>1. Len(bs) \in Nat /\ DOMAIN bs = 1..Len(bs) /\ \A i \in 1..Len(bs) : bs[i] \in Block
  OBVIOUS
<1>2. \A i \in 1..Len(bs) : (IF bs[i].dirty THEN [bs[i] EXCEPT !.dirty = FALSE, !.layers = @ + 1]
                             ELSE bs[i]) \in Block
  BY <1>1, BlockTypes
<1>3. \A i \in 1..Len(bs) : [bs[i] EXCEPT !.dirty = FALSE] \in Block
  BY <1>1, BlockTypes
<1>4. \A i \in 1..Len(bs) : [bs[i] EXCEPT !.captured = TRUE] \in Block
  BY <1>1, BlockTypes
<1>5. Flushed(bs) \in Seq(Block)
  BY <1>1, <1>2, SeqOfBlocks DEF Flushed
<1>6. Forgotten(bs) \in Seq(Block)
  BY <1>1, <1>3, SeqOfBlocks DEF Forgotten
<1>7. [i \in DOMAIN bs |-> [bs[i] EXCEPT !.captured = TRUE]] \in Seq(Block)
  BY <1>1, <1>4, SeqOfBlocks
<1> QED
  BY <1>5, <1>6, <1>7

LEMMA PatternType == \A m, p : Pattern(m, p) \in Contents
BY DEF Pattern, Contents

-----------------------------------------------------------------------------
LEMMA InitIInv == Init => IInv
<1> SUFFICES ASSUME Init PROVE IInv
  OBVIOUS
<1> USE FilesAssumption, BoundAssumption
<1>1. blocks \in [Files -> Seq(Block)]
  <2>1. ASSUME NEW n \in 0..MaxBlocks PROVE [i \in 1..n |-> Data] \in Seq(Block)
    <3>1. n \in Nat
      BY BoundAssumption
    <3>2. Data \in Block
      BY BlockTypes
    <3> QED
      BY <3>1, <3>2, SeqOfBlocks
  <2>2. blocks \in [Files -> {[i \in 1..n |-> Data] : n \in 0..MaxBlocks}]
    BY DEF Init
  <2>3. {[i \in 1..n |-> Data] : n \in 0..MaxBlocks} \subseteq Seq(Block)
    BY <2>1
  <2> QED
    BY <2>2, <2>3
<1>2. TypeOK
  BY <1>1 DEF Init, TypeOK, Fallible, Contents
<1>3. Opened /\ Resolved /\ ReportedNameless
  BY DEF Init, Opened, Resolved, ReportedNameless
<1>4. NamesOrdinary
  BY DEF Init, NamesOrdinary
<1>5. ProtectedUntouched
  <2>1. Len(blocks[SysFile]) = 1 /\ blocks[SysFile][1] = Data
    BY DEF Init
  <2> QED
    BY <2>1 DEF Init, ProtectedUntouched
<1> QED
  BY <1>2, <1>3, <1>4, <1>5 DEF IInv

(* Steps that leave names and contents alone. *)
Looking ==
  \/ Check \/ Open \/ Resolve \/ PreHash \/ VerifyStat \/ VerifyReadback
  \/ MatchPath \/ MatchEntry \/ Recount \/ GiveUp

LEMMA LookingIInv == IInv /\ Looking => IInv'
<1> SUFFICES ASSUME IInv, Looking PROVE IInv'
  OBVIOUS
<1> USE DEF At, Goto, Fail, Fault, world, locals, history
<1>1. UNCHANGED world
  BY DEF Looking, Check, Open, Resolve, PreHash, VerifyStat, VerifyReadback, MatchPath,
         MatchEntry, Recount, GiveUp
<1>2. TypeOK'
  <2>1. CASE Check
    BY <2>1 DEF IInv, TypeOK, Check, Fallible
  <2>2. CASE Open
    BY <2>2 DEF IInv, TypeOK, Open, Fallible
  <2>3. CASE Resolve
    BY <2>3 DEF IInv, TypeOK, Resolve, Fallible
  <2>4. CASE PreHash
    <3>1. file \in Files
      BY <2>4 DEF PreHash, IInv, Opened
    <3>2. before' \in Contents \cup {Nothing}
      <4>1. CASE UNCHANGED before
        BY <4>1 DEF IInv, TypeOK
      <4>2. CASE blocks[file] = <<>> /\ before' = Nothing
        BY <4>2
      <4>3. CASE blocks[file] # <<>> /\ before' = blocks[file][1].cache
        <5>1. blocks[file] \in Seq(Block)
          BY <3>1 DEF IInv, TypeOK
        <5>2. blocks[file][1] \in Block
          BY <4>3, <5>1
        <5> QED
          BY <4>3, <5>2 DEF Block
      <4> QED
        BY <2>4, <4>1, <4>2, <4>3 DEF PreHash
    <3> QED
      BY <2>4, <3>2 DEF IInv, TypeOK, PreHash, Fallible
  <2>5. CASE VerifyStat
    BY <2>5 DEF IInv, TypeOK, VerifyStat, Fallible
  <2>6. CASE VerifyReadback
    BY <2>6 DEF IInv, TypeOK, VerifyReadback, Fallible
  <2>7. CASE MatchPath
    BY <2>7 DEF IInv, TypeOK, MatchPath, Fallible
  <2>8. CASE MatchEntry
    BY <2>8 DEF IInv, TypeOK, MatchEntry, Fallible
  <2>9. CASE Recount
    <3>1. excuses' \subseteq {"lost", "uncounted"}
      BY <2>9 DEF IInv, TypeOK, Recount
    <3>2. faults' \in Nat
      BY <2>9 DEF IInv, TypeOK, Recount
    <3>3. pc' \in {"failed", "verified"}
      BY <2>9 DEF Recount
    <3> QED
      BY <1>1, <2>9, <3>1, <3>2, <3>3 DEF IInv, TypeOK, Recount
  <2>10. CASE GiveUp
    BY <2>10 DEF IInv, TypeOK, GiveUp, Fallible
  <2> QED
    BY <2>1, <2>2, <2>3, <2>4, <2>5, <2>6, <2>7, <2>8, <2>9, <2>10 DEF Looking
<1>3. Opened'
  BY FilesAssumption DEF IInv, Opened, Looking, Check, Open, Resolve, PreHash, VerifyStat,
         VerifyReadback, MatchPath, MatchEntry, Recount, GiveUp, Fallible
<1>4. Resolved'
  BY DEF IInv, Resolved, Looking, Check, Open, Resolve, PreHash, VerifyStat,
         VerifyReadback, MatchPath, MatchEntry, Recount, GiveUp, Fallible
<1>5. NamesOrdinary' /\ ProtectedUntouched'
  <2>1. UNCHANGED removed
    BY DEF Looking, Check, Open, Resolve, PreHash, VerifyStat, VerifyReadback, MatchPath,
           MatchEntry, Recount, GiveUp
  <2> QED
    BY <1>1, <2>1 DEF IInv, NamesOrdinary, ProtectedUntouched
<1>6. ReportedNameless'
  <2>1. CASE Recount
    <3>1. Links(file) = 0 => Nameless(file)
      BY NoLinks DEF Links, Nameless
    <3> QED
      BY <1>1, <2>1, <3>1 DEF Recount, ReportedNameless, Nameless
  <2>2. CASE ~ Recount
    <3>1. pc' # "verified"
      BY <2>2 DEF Looking, Check, Open, Resolve, PreHash, VerifyStat, VerifyReadback, MatchPath,
             MatchEntry, GiveUp
    <3> QED
      BY <3>1 DEF ReportedNameless
  <2> QED
    BY <2>1, <2>2
<1> QED
  BY <1>2, <1>3, <1>4, <1>5, <1>6 DEF IInv

(* Steps on the contents of the open file: when it can still be the        *)
(* protected one, they do no more than look at it.                         *)
Contenting == Capture \/ Overwrite \/ Sync \/ SyncAgain \/ Truncate

LEMMA ContentingIInv == IInv /\ Contenting => IInv'
<1> SUFFICES ASSUME IInv, Contenting PROVE IInv'
  OBVIOUS
<1> USE DEF At, Goto, Fail, Fault, history
<1>1. file \in Files /\ blocks[file] \in Seq(Block)
  BY DEF IInv, TypeOK, Opened, Contenting, Capture, Overwrite, Sync, SyncAgain, Truncate
<1>2. UNCHANGED <<home, parent, file, removed>> /\ pc' # "verified"
  BY DEF Contenting, Capture, Overwrite, Sync, SyncAgain, Truncate, NextPass, locals
<1>3. TypeOK'
  <2>1. CASE Capture
    <3>1. blocks' \in [Files -> Seq(Block)]
      BY <1>1, <2>1, FlushedType DEF IInv, TypeOK, Capture
    <3>2. size' \in Nat
      BY <1>1, <2>1 DEF IInv, TypeOK, Capture
    <3> QED
      BY <2>1, <3>1, <3>2 DEF IInv, TypeOK, Capture, Fallible
  <2>2. CASE Overwrite
    <3>1. Overwritten(blocks[file], pos + 1, Pattern(method, pass)) \in Seq(Block)
      <4>1. pos + 1 \in Nat \ {0}
        BY DEF IInv, TypeOK
      <4> QED
        BY <1>1, <4>1, OverwrittenType, PatternType
    <3>2. blocks' \in [Files -> Seq(Block)]
      BY <1>1, <2>2, <3>1 DEF IInv, TypeOK, Overwrite
    <3> QED
      BY <2>2, <3>2 DEF IInv, TypeOK, Overwrite, Fallible
  <2>3. CASE Sync
    <3>1. blocks' \in [Files -> Seq(Block)]
      BY <1>1, <2>3, FlushedType DEF IInv, TypeOK, Sync
    <3> QED
      BY <2>3, <3>1 DEF IInv, TypeOK, Sync, NextPass, Fallible
  <2>4. CASE SyncAgain
    <3>1. blocks' \in [Files -> Seq(Block)]
      BY <1>1, <2>4, FlushedType DEF IInv, TypeOK, SyncAgain
    <3>2. excuses' \subseteq {"lost", "uncounted"}
      BY <2>4 DEF IInv, TypeOK, SyncAgain
    <3>3. faults' \in Nat /\ pass' \in Nat /\ pos' \in Nat
      BY <2>4 DEF IInv, TypeOK, SyncAgain, NextPass
    <3>4. pc' \in Fallible
      BY <2>4 DEF SyncAgain, NextPass, Fallible
    <3> QED
      BY <1>2, <2>4, <3>1, <3>2, <3>3, <3>4 DEF IInv, TypeOK, SyncAgain
  <2>5. CASE Truncate
    <3>1. blocks' \in [Files -> Seq(Block)]
      BY <1>1, <2>5 DEF IInv, TypeOK, Truncate
    <3>2. released' \subseteq Block
      BY <1>1, <2>5 DEF Truncate
    <3> QED
      BY <2>5, <3>1, <3>2 DEF IInv, TypeOK, Truncate, locals, Fallible
  <2> QED
    BY <2>1, <2>2, <2>3, <2>4, <2>5 DEF Contenting
<1>4. Opened' /\ Resolved'
  <2>1. Opened'
    BY <1>1, <1>2 DEF Opened
  <2>2. Resolved'
    BY <1>2 DEF IInv, Resolved, Contenting, Capture, Overwrite, Sync, SyncAgain, Truncate, NextPass
  <2> QED
    BY <2>1, <2>2
<1>5. NamesOrdinary' /\ ReportedNameless'
  BY <1>2 DEF IInv, NamesOrdinary, ReportedNameless
<1>6. ProtectedUntouched'
  <2>1. CASE file # SysFile
    <3>1. blocks'[SysFile] = blocks[SysFile]
      BY <2>1, FilesAssumption
      DEF IInv, TypeOK, Contenting, Capture, Overwrite, Sync, SyncAgain, Truncate
    <3> QED
      BY <1>2, <3>1 DEF IInv, ProtectedUntouched
  <2>2. CASE file = SysFile
    <3>1. Capture
      BY <2>2 DEF IInv, Resolved, Contenting, Overwrite, Sync, SyncAgain, Truncate
    <3>2. blocks[SysFile] \in Seq(Block) /\ Len(blocks[SysFile]) = 1
      BY <1>1, <2>2 DEF IInv, ProtectedUntouched
    <3>3. CASE UNCHANGED blocks
      BY <1>2, <3>3 DEF IInv, ProtectedUntouched
    <3>4. CASE blocks' = [blocks EXCEPT ![file] =
                            [i \in DOMAIN @ |-> [@[i] EXCEPT !.captured = TRUE]]]
      <4>1. blocks'[SysFile] = [i \in 1..1 |-> [blocks[SysFile][i] EXCEPT !.captured = TRUE]]
        BY <1>1, <2>2, <3>2, <3>4 DEF IInv, TypeOK
      <4>2. Len(blocks'[SysFile]) = 1
        BY <4>1
      <4>3. blocks'[SysFile][1] = [blocks[SysFile][1] EXCEPT !.captured = TRUE]
        BY <4>1
      <4>4. blocks'[SysFile][1] = [Data EXCEPT !.captured = TRUE]
        BY <4>3 DEF IInv, ProtectedUntouched, Data
      <4> QED
        BY <1>2, <4>2, <4>4 DEF IInv, ProtectedUntouched
    <3> QED
      BY <3>1, <3>3, <3>4 DEF Capture
  <2> QED
    BY <2>1, <2>2
<1> QED
  BY <1>3, <1>4, <1>5, <1>6 DEF IInv

LEMMA UnlinkIInv == IInv /\ Unlink => IInv'
<1> SUFFICES ASSUME IInv, Unlink PROVE IInv'
  OBVIOUS
<1> USE DEF At, Goto, Fail, locals
<1> USE FilesAssumption
<1>1. home[Target] \in Files \cup {Nothing, Symlink} /\ home[Target] # SysFile
  BY DEF IInv, TypeOK, NamesOrdinary
<1>2. TypeOK'
  BY <1>1 DEF IInv, TypeOK, Unlink, Fallible
<1>3. Opened' /\ Resolved' /\ ReportedNameless'
  BY DEF IInv, Opened, Resolved, ReportedNameless, Unlink
<1>4. NamesOrdinary'
  BY DEF IInv, TypeOK, NamesOrdinary, Unlink
<1>5. ProtectedUntouched'
  BY <1>1 DEF IInv, ProtectedUntouched, Unlink
<1> QED
  BY <1>2, <1>3, <1>4, <1>5 DEF IInv
-----------------------------------------------------------------------------
(* Other programs.  A file they make is not the one the descriptor refers  *)
(* to, and a name they move or copy was there before.                      *)
LEMMA NamesIInv ==
  ASSUME IInv, Meddle,
         \/ \E a, b \in Names : Rename(a, b) \/ LinkName(a, b)
         \/ \E a \in Names : UnlinkName(a)
         \/ \E where \in {"home", "link", "system"} : MoveParent(where)
  PROVE  IInv'
<1> USE DEF locals, history
<1>1. UNCHANGED <<blocks, pc, method, file, size, before, pass, pos, released, removed, excuses, faults>>
  BY DEF Meddle, Rename, LinkName, UnlinkName, MoveParent
<1>2. meddles' \in Nat
  BY DEF Meddle, IInv, TypeOK
<1>3. parent' \in {"home", "link", "system"}
  BY DEF Rename, LinkName, UnlinkName, MoveParent, IInv, TypeOK
<1> DEFINE Shuffled == /\ home' \in [Names -> Files \cup {Nothing, Symlink}]
                       /\ \A n \in Names : home'[n] = Nothing \/ \E m \in Names : home'[n] = home[m]
<1>4. Shuffled
  <2>1. ASSUME UNCHANGED home
        PROVE  Shuffled
    BY <2>1 DEF IInv, TypeOK
  <2>2. ASSUME NEW a \in Names, NEW b \in Names, Rename(a, b)
        PROVE  Shuffled
    BY <2>2 DEF Rename, IInv, TypeOK
  <2>3. ASSUME NEW a \in Names, NEW b \in Names, LinkName(a, b)
        PROVE  Shuffled
    BY <2>3 DEF LinkName, IInv, TypeOK
  <2>4. ASSUME NEW a \in Names, UnlinkName(a)
        PROVE  Shuffled
    BY <2>4 DEF UnlinkName, IInv, TypeOK
  <2>5. ASSUME NEW where \in {"home", "link", "system"}, MoveParent(where)
        PROVE  Shuffled
    BY <2>1, <2>5 DEF MoveParent
  <2> HIDE DEF Shuffled
  <2> QED
    BY <2>2, <2>3, <2>4, <2>5, Zenon
<1>5. TypeOK'
  BY <1>1, <1>2, <1>3, <1>4 DEF IInv, TypeOK
<1>6. Opened' /\ Resolved' /\ ProtectedUntouched'
  BY <1>1 DEF IInv, Opened, Resolved, ProtectedUntouched
<1>7. NamesOrdinary'
  BY <1>4, FilesAssumption DEF IInv, NamesOrdinary
<1>8. ReportedNameless'
  <2>1. SUFFICES ASSUME pc = "verified", "uncounted" \notin excuses
                 PROVE  Nameless(file)'
    BY <1>1 DEF ReportedNameless
  <2>2. Nameless(file) /\ file \in Files
    BY <2>1 DEF IInv, ReportedNameless, Opened
  <2> QED
    BY <1>1, <1>4, <2>2, FilesAssumption DEF Nameless
<1> QED
  BY <1>5, <1>6, <1>7, <1>8 DEF IInv
(* A name made for a file that had none leads to no file that is open. *)
LEMMA CreateIInv ==
  ASSUME IInv, NEW a \in Names, NEW f \in Files \ {SysFile}, Create(a, f)
  PROVE  IInv'
<1> USE DEF locals, history, Meddle, Create
<1>1. UNCHANGED <<parent, pc, method, file, size, before, pass, pos, released, removed, excuses, faults>>
  OBVIOUS
<1>2. home' \in [Names -> Files \cup {Nothing, Symlink}]
  BY DEF IInv, TypeOK
<1>3. blocks' \in [Files -> Seq(Block)]
  <2>1. Data \in Block
    BY BlockTypes
  <2> QED
    BY <2>1 DEF IInv, TypeOK
<1>4. meddles' \in Nat
  BY DEF IInv, TypeOK
<1>5. TypeOK'
  BY <1>1, <1>2, <1>3, <1>4 DEF IInv, TypeOK
<1>6. Opened' /\ Resolved'
  BY <1>1 DEF IInv, Opened, Resolved
<1>7. \A n \in Names : home'[n] \in {home[n], f}
  BY DEF IInv, TypeOK
<1>8. NamesOrdinary'
  BY <1>7 DEF IInv, NamesOrdinary
<1>9. ProtectedUntouched'
  <2>1. blocks'[SysFile] = blocks[SysFile]
    BY FilesAssumption DEF IInv, TypeOK
  <2> QED
    BY <1>1, <2>1 DEF IInv, ProtectedUntouched
<1>10. ReportedNameless'
  BY <1>1, <1>7 DEF IInv, ReportedNameless, Nameless
<1> QED
  BY <1>5, <1>6, <1>8, <1>9, <1>10 DEF IInv

(* Other programs write to ordinary files only. *)
LEMMA WritersIInv ==
  ASSUME IInv, NEW f \in Files \ {SysFile},
         \/ Grow(f) \/ Shrink(f)
         \/ \E i \in 1..MaxBlocks, content \in {"data", "other"} : Rewrite(f, i, content)
  PROVE  IInv'
<1> USE DEF locals, history
<1>1. UNCHANGED <<home, parent, pc, method, file, size, before, pass, pos, released, removed, excuses, faults>>
  BY DEF Meddle, Grow, Shrink, Rewrite
<1>2. meddles' \in Nat
  <2>1. meddles' = meddles + 1
    BY DEF Meddle, Grow, Shrink, Rewrite
  <2> QED
    BY <2>1 DEF IInv, TypeOK
<1>3. blocks[f] \in Seq(Block)
  BY DEF IInv, TypeOK
<1>4. blocks' \in [Files -> Seq(Block)]
  <2>1. CASE Grow(f)
    <3>1. [Data EXCEPT !.dirty = TRUE] \in Block
      BY BlockTypes
    <3>2. Append(blocks[f], [Data EXCEPT !.dirty = TRUE]) \in Seq(Block)
      BY <1>3, <3>1, AppendProperties
    <3>3. blocks' = [blocks EXCEPT ![f] = Append(blocks[f], [Data EXCEPT !.dirty = TRUE])]
      BY <2>1 DEF Grow
    <3> HIDE DEF Block
    <3> QED
      BY <3>2, <3>3 DEF IInv, TypeOK
  <2>2. CASE Shrink(f)
    <3>1. SubSeq(blocks[f], 1, Len(blocks[f]) - 1) \in Seq(Block)
      BY <1>3
    <3> QED
      BY <2>2, <3>1 DEF Shrink, IInv, TypeOK
  <2>3. ASSUME NEW i \in 1..MaxBlocks, NEW content \in {"data", "other"}, Rewrite(f, i, content)
        PROVE  blocks' \in [Files -> Seq(Block)]
    <3>1. blocks[f][i] \in Block /\ content \in Contents
      BY <1>3, <2>3 DEF Rewrite, Contents
    <3>2. [blocks[f][i] EXCEPT !.cache = content, !.dirty = TRUE] \in Block
      BY <3>1, BlockTypes
    <3>3. i \in 1..Len(blocks[f])
      BY <2>3 DEF Rewrite
    <3>4. blocks' = [blocks EXCEPT ![f] = [blocks[f] EXCEPT
                       ![i] = [blocks[f][i] EXCEPT !.cache = content, !.dirty = TRUE]]]
      BY <2>3 DEF Rewrite
    <3>5. [blocks[f] EXCEPT ![i] = [blocks[f][i] EXCEPT !.cache = content, !.dirty = TRUE]] \in Seq(Block)
      BY <1>3, <3>2, <3>3, ExceptSeq
    <3> QED
      BY <3>4, <3>5 DEF IInv, TypeOK
  <2> QED
    BY <2>1, <2>2, <2>3
<1>5. blocks'[SysFile] = blocks[SysFile]
  BY FilesAssumption DEF Grow, Shrink, Rewrite, IInv, TypeOK
<1>6. TypeOK'
  BY <1>1, <1>2, <1>4 DEF IInv, TypeOK
<1>7. Opened' /\ Resolved' /\ NamesOrdinary' /\ ReportedNameless'
  BY <1>1 DEF IInv, Opened, Resolved, NamesOrdinary, ReportedNameless, Nameless
<1>8. ProtectedUntouched'
  BY <1>1, <1>5 DEF IInv, ProtectedUntouched
<1> QED
  BY <1>6, <1>7, <1>8 DEF IInv

-----------------------------------------------------------------------------
LEMMA NextIInv == IInv /\ [Next]_vars => IInv'
<1> SUFFICES ASSUME IInv, [Next]_vars PROVE IInv'
  OBVIOUS
<1>1. CASE eraseFile
  BY <1>1, LookingIInv, ContentingIInv, UnlinkIInv DEF eraseFile, Looking, Contenting
<1>2. CASE Others
  <2>1. CASE \E a, b \in Names : Rename(a, b) \/ LinkName(a, b)
    BY <2>1, NamesIInv DEF Rename, LinkName
  <2>2. CASE \E a \in Names : UnlinkName(a)
    BY <2>2, NamesIInv DEF UnlinkName
  <2>3. CASE \E a \in Names, f \in Files \ {SysFile} : Create(a, f)
    BY <2>3, CreateIInv
  <2>4. CASE \E where \in {"home", "link", "system"} : MoveParent(where)
    BY <2>4, NamesIInv DEF MoveParent
  <2>5. CASE \E f \in Files \ {SysFile} :
               \/ Grow(f) \/ Shrink(f)
               \/ \E i \in 1..MaxBlocks, content \in {"data", "other"} : Rewrite(f, i, content)
    BY <2>5, WritersIInv
  <2> QED
    BY <1>2, <2>1, <2>2, <2>3, <2>4, <2>5 DEF Others
<1>3. CASE UNCHANGED vars
  BY <1>3 DEF vars, world, locals, history, IInv, TypeOK, Opened, Resolved, NamesOrdinary,
              ProtectedUntouched, ReportedNameless, Nameless
<1> QED
  BY <1>1, <1>2, <1>3 DEF Next

LEMMA AlwaysIInv == Spec => []IInv
BY InitIInv, NextIInv, PTL DEF Spec

(* The state keeps its types. *)
THEOREM TypeCorrect == Spec => []TypeOK
<1>1. IInv => TypeOK
  BY DEF IInv
<1> QED
  BY <1>1, AlwaysIInv, PTL

(* eraseFile neither writes nor cuts nor unlinks the file of a protected   *)
(* directory, wherever the path is made to lead while it runs.             *)
THEOREM ProtectedAlwaysUntouched == Spec => []ProtectedUntouched
<1>1. IInv => ProtectedUntouched
  BY DEF IInv
<1> QED
  BY <1>1, AlwaysIInv, PTL

(* Once eraseFile reports success the file has no name, and never gets one *)
(* again, whatever other programs rename, link and create.                 *)
THEOREM GoneAlways == Spec => []GoneWhenReported
<1>1. IInv => GoneWhenReported
  <2>1. SUFFICES ASSUME IInv, pc = "verified", "uncounted" \notin excuses
                 PROVE  Links(file) = 0
    BY DEF GoneWhenReported
  <2> QED
    BY <2>1, NoLinks DEF IInv, ReportedNameless, Nameless, Links
<1> QED
  BY <1>1, AlwaysIInv, PTL

-----------------------------------------------------------------------------
(***************************************************************************)
(* How often the blocks were overwritten.  From the capture on, a block    *)
(* that the capture saw lies within fileSize and was written to the medium *)
(* in every pass that is finished; the blocks that the running pass has    *)
(* reached are dirty in the cache, so that its sync adds a layer to each.  *)
(* What other programs add is not captured, what they write is dirty, and  *)
(* what they cut off is let go of by them.                                 *)
(***************************************************************************)
Working == {"resolve", "prehash", "overwrite", "sync", "stat", "readback", "truncate"}
Finished == IF pc \in {"stat", "readback", "truncate"} THEN getPassCount(method) ELSE pass - 1
Reached == IF pc \in {"overwrite", "sync"} THEN pos ELSE 0
Due(b, i) == b.captured => i <= size /\ b.layers >= Finished /\ (i <= Reached => b.dirty)
AllDue(bs) == \A i \in 1..Len(bs) : Due(bs[i], i)
PassesInv ==
  /\ pass \in 1..getPassCount(method)
  /\ pc \in {"check", "open", "capture", "resolve", "prehash"} => pass = 1 /\ pos = 0
  /\ pc = "sync" => size <= pos
LayersInv == pc \in Working /\ "lost" \notin excuses => AllDue(blocks[file])

OverwrittenInv ==
  /\ PassesInv
  /\ LayersInv
  /\ ReleasedOverwritten

LEMMA PassCount == \A m : getPassCount(m) \in Nat /\ getPassCount(m) >= 1
BY DEF getPassCount

LEMMA InitOverwrittenInv == Init => OverwrittenInv
<1> SUFFICES ASSUME Init PROVE OverwrittenInv
  OBVIOUS
<1>1. PassesInv
  BY PassCount DEF Init, PassesInv
<1>2. LayersInv /\ ReleasedOverwritten
  BY DEF Init, LayersInv, Working, ReleasedOverwritten
<1> QED
  BY <1>1, <1>2 DEF OverwrittenInv

(* A file of which nothing changed is as due as it was, and less is asked  *)
(* of it when no more passes are finished and none is under way.           *)
LEMMA StillDue ==
  ASSUME IInv, LayersInv, pc \in Working,
         UNCHANGED <<blocks, file, size>>, excuses \subseteq excuses',
         Finished' = Finished \/ size = 0,
         Finished' \in Nat, Finished \in Nat,
         Reached' = Reached \/ Reached' = 0
  PROVE  LayersInv'
<1> SUFFICES ASSUME "lost" \notin excuses'
             PROVE  AllDue(blocks[file])'
  BY DEF LayersInv
<1>1. AllDue(blocks[file])
  BY DEF LayersInv
<1>2. file \in Files /\ blocks[file] \in Seq(Block)
  BY DEF IInv, TypeOK, Opened, Working
<1>3. ASSUME NEW i \in 1..Len(blocks[file]), blocks[file][i].captured
      PROVE  i <= size /\ blocks[file][i].layers >= Finished' /\ (i <= Reached' => blocks[file][i].dirty)
  <2>1. i <= size /\ blocks[file][i].layers >= Finished /\ (i <= Reached => blocks[file][i].dirty)
    BY <1>1, <1>3 DEF AllDue, Due
  <2>2. i \in Nat /\ i # 0 /\ size \in Nat
    BY <1>2 DEF IInv, TypeOK
  <2>3. Finished' = Finished
    BY <2>1, <2>2
  <2> QED
    BY <2>1, <2>2, <2>3
<1> QED
  BY <1>3 DEF AllDue, Due

LEMMA LookingOverwritten == IInv /\ OverwrittenInv /\ Looking => OverwrittenInv'
<1> SUFFICES ASSUME IInv, OverwrittenInv, Looking PROVE OverwrittenInv'
  OBVIOUS
<1> USE DEF At, Goto, Fail, Fault, world, locals, history
<1>1. UNCHANGED <<blocks, size, pass, pos, method, released>> /\ excuses \subseteq excuses'
  BY DEF Looking, Check, Open, Resolve, PreHash, VerifyStat, VerifyReadback, MatchPath,
         MatchEntry, Recount, GiveUp
<1>2. PassesInv'
  <2>1. pc' # "sync"
    BY DEF Looking, Check, Open, Resolve, PreHash, VerifyStat, VerifyReadback, MatchPath,
           MatchEntry, Recount, GiveUp
  <2>2. pc' \in {"check", "open", "capture", "resolve", "prehash"}
          => pc \in {"check", "open", "capture", "resolve", "prehash"}
    BY DEF Looking, Check, Open, Resolve, PreHash, VerifyStat, VerifyReadback, MatchPath,
           MatchEntry, Recount, GiveUp
  <2> QED
    BY <1>1, <2>1, <2>2 DEF OverwrittenInv, PassesInv
<1>3. ReleasedOverwritten'
  BY <1>1 DEF OverwrittenInv, ReleasedOverwritten
<1>4. LayersInv'
  <2>1. CASE pc' \notin Working
    BY <2>1 DEF LayersInv
  <2>2. CASE pc' \in Working
    <3>1. Resolve \/ PreHash \/ VerifyStat \/ VerifyReadback
      BY <2>2 DEF Working, Looking, Check, Open, MatchPath, MatchEntry, Recount, GiveUp
    <3>2. pc \in Working /\ UNCHANGED file
      BY <3>1 DEF Working, Resolve, PreHash, VerifyStat, VerifyReadback
    <3>3. Finished' \in Nat /\ Finished \in Nat
      BY <1>1, PassCount DEF Finished, OverwrittenInv, PassesInv
    <3>4. Finished' = Finished \/ size = 0
      BY <1>1, <2>2, <3>1
      DEF Resolve, PreHash, VerifyStat, VerifyReadback, Working, Finished, IInv, TypeOK
    <3>5. Reached' = Reached \/ Reached' = 0
      BY <1>1, <2>2, <3>1
      DEF Resolve, PreHash, VerifyStat, VerifyReadback, Working, Reached, OverwrittenInv, PassesInv
    <3> QED
      BY <1>1, <3>2, <3>3, <3>4, <3>5, StillDue DEF OverwrittenInv
  <2> QED
    BY <2>1, <2>2
<1> QED
  BY <1>2, <1>3, <1>4 DEF OverwrittenInv

(* The capture sees every block, and fileSize counts them. *)
LEMMA CaptureOverwritten == IInv /\ OverwrittenInv /\ Capture => OverwrittenInv'
<1> SUFFICES ASSUME IInv, OverwrittenInv, Capture PROVE OverwrittenInv'
  OBVIOUS
<1> USE DEF At, Goto, Fail, history
<1>1. UNCHANGED <<file, pass, pos, method, released, excuses>> /\ pc = "capture" /\ pc' \in {"failed", "resolve"}
  BY DEF Capture
<1>2. PassesInv' /\ ReleasedOverwritten'
  BY <1>1 DEF OverwrittenInv, PassesInv, ReleasedOverwritten
<1>3. LayersInv'
  <2>1. SUFFICES ASSUME pc' = "resolve" PROVE AllDue(blocks[file])'
    BY <1>1 DEF LayersInv, Working
  <2>2. file \in Files /\ blocks[file] \in Seq(Block)
    BY <1>1 DEF IInv, TypeOK, Opened
  <2>3. size' = Len(blocks[file])
    BY <2>1 DEF Capture
  <2>4. blocks'[file] = [i \in DOMAIN blocks[file] |-> [blocks[file][i] EXCEPT !.captured = TRUE]]
    BY <2>1, <2>2 DEF Capture, IInv, TypeOK
  <2>5. /\ Len(blocks'[file]) = Len(blocks[file])
        /\ \A i \in 1..Len(blocks[file]) : blocks'[file][i] = [blocks[file][i] EXCEPT !.captured = TRUE]
    BY <2>2, <2>4
  <2>6. Finished' = 0 /\ Reached' = 0
    BY <1>1, <2>1 DEF Finished, Reached, OverwrittenInv, PassesInv
  <2>7. ASSUME NEW i \in 1..Len(blocks[file])
        PROVE  blocks'[file][i].layers >= 0 /\ i <= size' /\ ~ (i <= 0)
    <3>1. blocks[file][i] \in Block
      BY <2>2
    <3>2. blocks'[file][i].layers = blocks[file][i].layers
      BY <2>5, <3>1 DEF Block
    <3> QED
      BY <2>2, <2>3, <3>1, <3>2 DEF Block
  <2> QED
    BY <1>1, <2>5, <2>6, <2>7 DEF AllDue, Due
<1> QED
  BY <1>2, <1>3 DEF OverwrittenInv

(* A chunk that is written makes its block dirty; a file that was cut      *)
(* short grows by blocks that the capture never saw.                       *)
LEMMA OverwriteOverwritten == IInv /\ OverwrittenInv /\ Overwrite => OverwrittenInv'
<1> SUFFICES ASSUME IInv, OverwrittenInv, Overwrite PROVE OverwrittenInv'
  OBVIOUS
<1> USE DEF At, Goto, history
<1>1. /\ UNCHANGED <<file, size, pass, method, released, excuses>>
      /\ pc = "overwrite" /\ pos' = pos + 1
      /\ pc' = IF pos + 1 < size THEN "overwrite" ELSE "sync"
  BY DEF Overwrite
<1>2. size \in Nat /\ pos \in Nat /\ pass \in Nat
  BY DEF IInv, TypeOK
<1>3. PassesInv' /\ ReleasedOverwritten'
  BY <1>1, <1>2 DEF OverwrittenInv, PassesInv, ReleasedOverwritten
<1>4. LayersInv'
  <2>1. SUFFICES ASSUME "lost" \notin excuses PROVE AllDue(blocks[file])'
    BY <1>1 DEF LayersInv
  <2> DEFINE bs == blocks[file]
             pattern == Pattern(method, pass)
  <2>2. file \in Files /\ bs \in Seq(Block)
    BY <1>1 DEF IInv, TypeOK, Opened
  <2>3. AllDue(bs)
    BY <1>1, <2>1 DEF OverwrittenInv, LayersInv, Working
  <2>4. blocks'[file] = Overwritten(bs, pos + 1, pattern)
    BY <2>2 DEF Overwrite, IInv, TypeOK
  <2> HIDE DEF bs, pattern
  <2>5. Finished' = Finished /\ Reached' = pos + 1 /\ Reached = pos
    BY <1>1 DEF Finished, Reached
  <2> DEFINE n == IF pos + 1 > Len(bs) THEN pos + 1 ELSE Len(bs)
  <2>6. Len(bs) \in Nat /\ n \in Nat /\ \A i \in 1..Len(bs) : bs[i] \in Block
    BY <1>2, <2>2
  <2>7. Len(blocks'[file]) = n
    BY <2>4, <2>6 DEF Overwritten
  <2>8. ASSUME NEW i \in 1..n
        PROVE  Due(blocks[file][i], i)'
    <3>1. blocks'[file][i] =
            IF i = pos + 1
            THEN [(IF pos + 1 > Len(bs) THEN Hole ELSE bs[pos + 1]) EXCEPT !.cache = pattern, !.dirty = TRUE]
            ELSE IF i > Len(bs) THEN Hole ELSE bs[i]
      BY <2>4, <2>6 DEF Overwritten
    <3>2. Hole.captured = FALSE /\ [Hole EXCEPT !.cache = pattern, !.dirty = TRUE].captured = FALSE
      BY DEF Hole, Data
    <3>3. CASE i > Len(bs)
      <4>1. blocks'[file][i].captured = FALSE
        BY <1>2, <2>6, <3>1, <3>2, <3>3
      <4> QED
        BY <1>1, <4>1 DEF Due
    <3>4. CASE i <= Len(bs)
      <4>1. i \in 1..Len(bs) /\ bs[i] \in Block /\ Due(bs[i], i)
        BY <2>3, <2>6, <3>4 DEF AllDue
      <4>2. /\ i = pos + 1 => blocks'[file][i] = [bs[i] EXCEPT !.cache = pattern, !.dirty = TRUE]
            /\ i # pos + 1 => blocks'[file][i] = bs[i]
        <5>1. ~ (i > Len(bs))
          BY <2>6, <3>4
        <5>2. CASE i = pos + 1
          BY <3>1, <5>1, <5>2
        <5>3. CASE i # pos + 1
          BY <3>1, <5>1, <5>3
        <5> QED
          BY <5>2, <5>3
      <4>3. /\ blocks'[file][i].captured = bs[i].captured
            /\ blocks'[file][i].layers = bs[i].layers
            /\ i = pos + 1 => blocks'[file][i].dirty
            /\ i # pos + 1 => blocks'[file][i].dirty = bs[i].dirty
        <5>1. CASE i = pos + 1
          <6>1. bs[i] \in Block /\ blocks'[file][i] = [bs[i] EXCEPT !.cache = pattern, !.dirty = TRUE]
            BY <4>1, <4>2, <5>1
          <6>2. /\ blocks'[file][i].captured = bs[i].captured
                /\ blocks'[file][i].layers = bs[i].layers
                /\ blocks'[file][i].dirty
            BY <6>1 DEF Block
          <6> QED
            BY <5>1, <6>2
        <5>2. CASE i # pos + 1
          BY <4>2, <5>2
        <5> QED
          BY <5>1, <5>2
      <4>4. i <= pos + 1 /\ i # pos + 1 => i <= pos
        BY <1>2, <2>6
      <4>5. ASSUME bs[i].captured
            PROVE  i <= size /\ bs[i].layers >= Finished /\ (i <= pos + 1 => blocks'[file][i].dirty)
        BY <2>5, <4>1, <4>3, <4>4, <4>5 DEF Due
      <4> QED
        BY <1>1, <2>5, <4>3, <4>5 DEF Due
    <3> QED
      BY <2>6, <3>3, <3>4
  <2> QED
    BY <1>1, <2>7, <2>8 DEF AllDue
<1> QED
  BY <1>3, <1>4 DEF OverwrittenInv

LEMMA FlushedBlocks ==
  ASSUME NEW bs \in Seq(Block)
  PROVE  /\ Len(Flushed(bs)) = Len(bs)
         /\ \A i \in 1..Len(bs) :
              /\ Flushed(bs)[i].captured = bs[i].captured
              /\ bs[i].dirty => Flushed(bs)[i].layers = bs[i].layers + 1
<1>1. Len(bs) \in Nat /\ DOMAIN bs = 1..Len(bs) /\ \A i \in 1..Len(bs) : bs[i] \in Block
  OBVIOUS
<1>2. Flushed(bs) = [i \in 1..Len(bs) |->
                       IF bs[i].dirty THEN [bs[i] EXCEPT !.dirty = FALSE, !.layers = bs[i].layers + 1]
                       ELSE bs[i]]
  BY <1>1 DEF Flushed
<1>3. ASSUME NEW b \in Block
      PROVE  LET flushed == [b EXCEPT !.dirty = FALSE, !.layers = b.layers + 1]
             IN flushed.captured = b.captured /\ flushed.layers = b.layers + 1
  BY DEF Block
<1>4. ASSUME NEW i \in 1..Len(bs)
      PROVE  /\ Flushed(bs)[i].captured = bs[i].captured
             /\ bs[i].dirty => Flushed(bs)[i].layers = bs[i].layers + 1
  <2>1. bs[i] \in Block
    BY <1>1
  <2>2. CASE bs[i].dirty
    <3>1. Flushed(bs)[i] = [bs[i] EXCEPT !.dirty = FALSE, !.layers = bs[i].layers + 1]
      BY <1>2, <2>2
    <3> QED
      BY <1>3, <2>1, <3>1
  <2>3. CASE ~ bs[i].dirty
    BY <1>2, <2>3
  <2> QED
    BY <2>2, <2>3
<1>5. Len(Flushed(bs)) = Len(bs)
  <2>1. DOMAIN Flushed(bs) = 1..Len(bs) /\ Flushed(bs) \in Seq(Block)
    BY <1>1, <1>2, FlushedType
  <2> QED
    BY <1>1, <2>1
<1> QED
  BY <1>4, <1>5

(* A sync that reaches the medium adds the pass to every block that is due.*)
LEMMA FlushedOverwritten ==
  ASSUME IInv, OverwrittenInv, pc = "sync", NextPass,
         UNCHANGED <<file, size, method, released>>, excuses' = excuses,
         blocks' = [blocks EXCEPT ![file] = Flushed(@)]
  PROVE  OverwrittenInv'
<1> USE DEF Goto
<1>0. UNCHANGED <<file, size>>
  OBVIOUS
<1>1. /\ size \in Nat /\ pos \in Nat /\ pass \in Nat /\ size <= pos
      /\ pass \in 1..getPassCount(method) /\ getPassCount(method) \in Nat
  BY PassCount DEF IInv, TypeOK, OverwrittenInv, PassesInv
<1>2. /\ pc' \in {"overwrite", "stat"}
      /\ pc' = "overwrite" => pass < getPassCount(method) /\ pass' = pass + 1 /\ pos' = 0
      /\ pc' = "stat" => pass' = pass /\ pass = getPassCount(method)
  BY <1>1 DEF NextPass
<1>3. PassesInv' /\ ReleasedOverwritten'
  BY <1>1, <1>2 DEF OverwrittenInv, PassesInv, ReleasedOverwritten
<1>4. LayersInv'
  <2>1. SUFFICES ASSUME "lost" \notin excuses PROVE AllDue(blocks[file])'
    BY DEF LayersInv
  <2> DEFINE bs == blocks[file]
  <2>2. file \in Files /\ bs \in Seq(Block)
    BY DEF IInv, TypeOK, Opened
  <2>3. AllDue(bs)
    BY <2>1 DEF OverwrittenInv, LayersInv, Working
  <2>4. blocks'[file] = Flushed(bs)
    BY <2>2 DEF IInv, TypeOK
  <2> HIDE DEF bs
  <2>5. Finished' = pass /\ Reached' = 0 /\ Finished = pass - 1 /\ Reached = pos
    BY <1>1, <1>2 DEF Finished, Reached
  <2>6. Len(bs) \in Nat /\ Len(blocks'[file]) = Len(bs)
    BY <2>2, <2>4, FlushedBlocks
  <2>7. ASSUME NEW i \in 1..Len(bs)
        PROVE  Due(blocks[file][i], i)'
    <3>1. bs[i] \in Block /\ Due(bs[i], i)
      BY <2>2, <2>3 DEF AllDue
    <3>2. /\ blocks'[file][i].captured = bs[i].captured
          /\ bs[i].dirty => blocks'[file][i].layers = bs[i].layers + 1
      BY <2>2, <2>4, FlushedBlocks
    <3>3. ASSUME bs[i].captured
          PROVE  i <= size /\ blocks'[file][i].layers >= pass
      <4>1. i <= size /\ bs[i].layers >= pass - 1 /\ (i <= pos => bs[i].dirty)
        BY <2>5, <3>1, <3>3 DEF Due
      <4>2. bs[i].layers \in Nat /\ i \in Nat
        BY <2>6, <3>1 DEF Block
      <4>3. bs[i].dirty
        BY <1>1, <4>1, <4>2
      <4>4. blocks'[file][i].layers = bs[i].layers + 1
        BY <3>2, <4>3
      <4>5. bs[i].layers + 1 >= pass
        BY <1>1, <4>1, <4>2
      <4> QED
        BY <4>1, <4>4, <4>5
    <3>4. ~ (i <= 0)
      BY <2>6
    <3> QED
      BY <1>0, <2>5, <3>2, <3>3, <3>4 DEF Due
  <2> QED
    BY <1>0, <2>6, <2>7 DEF AllDue
<1> QED
  BY <1>3, <1>4 DEF OverwrittenInv

LEMMA SyncOverwritten == IInv /\ OverwrittenInv /\ (Sync \/ SyncAgain) => OverwrittenInv'
<1> SUFFICES ASSUME IInv, OverwrittenInv, Sync \/ SyncAgain PROVE OverwrittenInv'
  OBVIOUS
<1> USE DEF At, Goto, history
<1>1. /\ pc = "sync" /\ NextPass /\ UNCHANGED <<file, size, method, released>>
      /\ \/ blocks' = [blocks EXCEPT ![file] = Flushed(@)] /\ excuses' = excuses
         \/ excuses' = excuses \cup {"lost"}
  BY DEF Sync, SyncAgain
<1>2. CASE blocks' = [blocks EXCEPT ![file] = Flushed(@)] /\ excuses' = excuses
  BY <1>1, <1>2, FlushedOverwritten
<1>3. CASE excuses' = excuses \cup {"lost"}
  <2>1. LayersInv' /\ ReleasedOverwritten'
    BY <1>1, <1>3 DEF LayersInv, ReleasedOverwritten, OverwrittenInv
  <2>2. /\ pass \in 1..getPassCount(method) /\ getPassCount(method) \in Nat
        /\ \/ pass < getPassCount(method) /\ pass' = pass + 1 /\ pc' = "overwrite"
           \/ pass' = pass /\ pc' = "stat"
    BY <1>1, PassCount DEF OverwrittenInv, PassesInv, NextPass
  <2>3. PassesInv'
    BY <1>1, <2>2 DEF PassesInv
  <2> QED
    BY <2>1, <2>3 DEF OverwrittenInv
<1> QED
  BY <1>1, <1>2, <1>3

(* What ftruncate lets go of has had all the passes. *)
LEMMA TruncateOverwritten == IInv /\ OverwrittenInv /\ Truncate => OverwrittenInv'
<1> SUFFICES ASSUME IInv, OverwrittenInv, Truncate PROVE OverwrittenInv'
  OBVIOUS
<1> USE DEF At, Goto, locals
<1>1. /\ UNCHANGED <<file, size, pass, pos, method, excuses>> /\ pc = "truncate" /\ pc' = "match"
      /\ released' = {blocks[file][i] : i \in DOMAIN blocks[file]}
  BY DEF Truncate
<1>2. PassesInv' /\ LayersInv'
  BY <1>1 DEF OverwrittenInv, PassesInv, LayersInv, Working
<1>3. ReleasedOverwritten'
  <2>1. SUFFICES ASSUME "lost" \notin excuses, NEW b \in released', b.captured
                 PROVE  b.layers >= getPassCount(method)
    BY <1>1 DEF ReleasedOverwritten
  <2>2. blocks[file] \in Seq(Block)
    BY <1>1 DEF IInv, TypeOK, Opened
  <2>3. PICK i \in 1..Len(blocks[file]) : b = blocks[file][i]
    BY <1>1, <2>2
  <2>4. Due(b, i)
    BY <1>1, <2>1, <2>3 DEF OverwrittenInv, LayersInv, Working, AllDue
  <2>5. Finished = getPassCount(method)
    BY <1>1 DEF Finished
  <2> QED
    BY <2>1, <2>4, <2>5 DEF Due
<1> QED
  BY <1>2, <1>3 DEF OverwrittenInv

(* Other programs add blocks that no capture saw, and writing to one that  *)
(* it saw only makes it dirty.                                             *)
LEMMA WritersOverwritten ==
  ASSUME IInv, OverwrittenInv, NEW f \in Files,
         \/ Grow(f) \/ Shrink(f)
         \/ \E i \in 1..MaxBlocks, content \in {"data", "other"} : Rewrite(f, i, content)
  PROVE  OverwrittenInv'
<1> USE DEF locals, history
<1>1. UNCHANGED <<pc, file, size, pass, pos, method, released, excuses>>
  BY DEF Meddle, Grow, Shrink, Rewrite
<1>2. PassesInv' /\ ReleasedOverwritten'
  BY <1>1 DEF OverwrittenInv, PassesInv, ReleasedOverwritten
<1>3. LayersInv'
  <2>1. SUFFICES ASSUME pc \in Working, "lost" \notin excuses PROVE AllDue(blocks[file])'
    BY <1>1 DEF LayersInv
  <2>2. file \in Files /\ blocks[file] \in Seq(Block) /\ AllDue(blocks[file])
    BY <2>1 DEF IInv, TypeOK, Opened, Working, OverwrittenInv, LayersInv
  <2>3. CASE f # file
    <3>1. blocks'[file] = blocks[file]
      BY <2>2, <2>3 DEF Grow, Shrink, Rewrite, IInv, TypeOK
    <3> QED
      BY <1>1, <2>2, <3>1 DEF AllDue, Due, Finished, Reached
  <2>4. CASE f = file
    <3> DEFINE bs == blocks[file]
    <3>1. CASE Grow(f)
      <4>1. blocks'[file] = Append(bs, [Data EXCEPT !.dirty = TRUE])
        BY <2>2, <2>4, <3>1 DEF Grow, IInv, TypeOK
      <4>2. /\ Len(blocks'[file]) = Len(bs) + 1 /\ Len(bs) \in Nat
            /\ \A i \in 1..Len(bs) : blocks'[file][i] = bs[i]
            /\ blocks'[file][Len(bs) + 1] = [Data EXCEPT !.dirty = TRUE]
        BY <2>2, <4>1
      <4>3. ~ blocks'[file][Len(bs) + 1].captured
        BY <4>2 DEF Data
      <4>4. \A i \in 1..(Len(bs) + 1) : i \in 1..Len(bs) \/ i = Len(bs) + 1
        <5>1. \A n \in Nat : \A i \in 1..(n + 1) : i \in 1..n \/ i = n + 1
          OBVIOUS
        <5>2. Len(bs) \in Nat
          BY <4>2
        <5> QED
          BY <5>1, <5>2
      <4>5. ASSUME NEW i \in 1..(Len(bs) + 1), blocks'[file][i].captured
            PROVE  i <= size /\ blocks'[file][i].layers >= Finished /\ (i <= Reached => blocks'[file][i].dirty)
        <5>1. i \in 1..Len(bs)
          BY <4>3, <4>4, <4>5
        <5>2. blocks'[file][i] = bs[i]
          BY <4>2, <5>1
        <5> QED
          BY <2>2, <4>5, <5>1, <5>2 DEF AllDue, Due
      <4> QED
        BY <1>1, <4>2, <4>5 DEF AllDue, Due, Finished, Reached
    <3>2. CASE Shrink(f)
      <4>1. blocks'[file] = SubSeq(bs, 1, Len(bs) - 1) /\ bs # <<>>
        BY <2>2, <2>4, <3>2 DEF Shrink, IInv, TypeOK
      <4>2. /\ Len(blocks'[file]) = Len(bs) - 1 /\ Len(bs) \in Nat
            /\ \A i \in 1..(Len(bs) - 1) : blocks'[file][i] = bs[i]
        BY <2>2, <4>1
      <4>3. \A i \in 1..(Len(bs) - 1) : i \in 1..Len(bs)
        BY <4>2
      <4> QED
        BY <1>1, <2>2, <4>2, <4>3 DEF AllDue, Due, Finished, Reached
    <3>3. ASSUME NEW k \in 1..MaxBlocks, NEW content \in {"data", "other"}, Rewrite(f, k, content)
          PROVE  AllDue(blocks[file])'
      <4>1. k \in 1..Len(bs) /\ bs[k] \in Block
        BY <2>2, <2>4, <3>3 DEF Rewrite
      <4>2. blocks' = [blocks EXCEPT ![f] = [blocks[f] EXCEPT
                         ![k] = [blocks[f][k] EXCEPT !.cache = content, !.dirty = TRUE]]]
        BY <3>3 DEF Rewrite
      <4>3. blocks'[file] = [bs EXCEPT ![k] = [bs[k] EXCEPT !.cache = content, !.dirty = TRUE]]
        BY <2>2, <2>4, <4>2 DEF IInv, TypeOK
      <4>4. /\ Len(blocks'[file]) = Len(bs)
            /\ \A i \in 1..Len(bs) : blocks'[file][i] =
                 IF i = k THEN [bs[k] EXCEPT !.cache = content, !.dirty = TRUE] ELSE bs[i]
        BY <2>2, <4>1, <4>3
      <4>5. ASSUME NEW i \in 1..Len(bs)
            PROVE  /\ blocks'[file][i].captured = bs[i].captured
                   /\ blocks'[file][i].layers = bs[i].layers
                   /\ bs[i].dirty => blocks'[file][i].dirty
        BY <2>2, <4>1, <4>4 DEF Block
      <4> QED
        BY <1>1, <2>2, <4>4, <4>5 DEF AllDue, Due, Finished, Reached
    <3> QED
      BY <2>4, <3>1, <3>2, <3>3
  <2> QED
    BY <2>3, <2>4
<1> QED
  BY <1>2, <1>3 DEF OverwrittenInv

(* A step that leaves the call and the blocks of its file alone. *)
LEMMA ElsewhereOverwritten ==
  ASSUME IInv, OverwrittenInv,
         UNCHANGED <<file, size, pass, pos, method, released, excuses>>,
         \/ pc' = pc /\ blocks'[file] = blocks[file]
         \/ pc' \in {"recount", "failed"}
  PROVE  OverwrittenInv'
<1>1. PassesInv' /\ ReleasedOverwritten'
  BY DEF OverwrittenInv, PassesInv, ReleasedOverwritten
<1>2. LayersInv'
  BY DEF OverwrittenInv, LayersInv, Working, AllDue, Due, Finished, Reached
<1> QED
  BY <1>1, <1>2 DEF OverwrittenInv

LEMMA NextOverwritten == IInv /\ OverwrittenInv /\ [Next]_vars => OverwrittenInv'
<1> SUFFICES ASSUME IInv, OverwrittenInv, [Next]_vars PROVE OverwrittenInv'
  OBVIOUS
<1>1. CASE eraseFile
  <2>1. CASE Unlink
    BY <2>1, ElsewhereOverwritten DEF Unlink, At, Goto, Fail, locals
  <2> QED
    BY <1>1, <2>1, LookingOverwritten, CaptureOverwritten, OverwriteOverwritten, SyncOverwritten,
       TruncateOverwritten DEF eraseFile, Looking
<1>2. CASE Others
  <2>1. ASSUME Meddle, blocks'[file] = blocks[file]
        PROVE  OverwrittenInv'
    BY <2>1, ElsewhereOverwritten DEF Meddle, locals, history
  <2>2. CASE \E a, b \in Names : Rename(a, b) \/ LinkName(a, b)
    BY <2>1, <2>2 DEF Rename, LinkName
  <2>3. CASE \E a \in Names : UnlinkName(a)
    BY <2>1, <2>3 DEF UnlinkName
  <2>4. ASSUME NEW a \in Names, NEW f \in Files \ {SysFile}, Create(a, f)
        PROVE  OverwrittenInv'
    <3>1. Meddle /\ f # file /\ blocks' = [blocks EXCEPT ![f] = <<Data>>]
      BY <2>4 DEF Create
    <3> QED
      BY <2>1, <3>1 DEF IInv, TypeOK
  <2>5. CASE \E where \in {"home", "link", "system"} : MoveParent(where)
    BY <2>1, <2>5 DEF MoveParent
  <2>6. CASE \E f \in Files \ {SysFile} :
               \/ Grow(f) \/ Shrink(f)
               \/ \E i \in 1..MaxBlocks, content \in {"data", "other"} : Rewrite(f, i, content)
    BY <2>6, WritersOverwritten
  <2> QED
    BY <1>2, <2>2, <2>3, <2>4, <2>5, <2>6 DEF Others
<1>3. CASE UNCHANGED vars
  BY <1>3, ElsewhereOverwritten DEF vars, world, locals, history
<1> QED
  BY <1>1, <1>2, <1>3 DEF Next

(* What eraseFile lets go of was written to the medium once for every pass *)
(* of the method, whether or not the call succeeds, whatever other         *)
(* programs write to the file or cut off it meanwhile, unless the kernel   *)
(* forgot blocks that it could not write.                                  *)
THEOREM ReleasedAlwaysOverwritten == Spec => []ReleasedOverwritten
<1>1. OverwrittenInv => ReleasedOverwritten
  BY DEF OverwrittenInv
<1> QED
  BY <1>1, AlwaysIInv, InitOverwrittenInv, NextOverwritten, PTL DEF Spec
=============================================================================
