------------------------- MODULE DestructionProofs -------------------------
(***************************************************************************)
(* What the programs destroy, for any folder and entries, any lines typed  *)
(* and boxes ticked, any images and any number of jobs and edits: proof    *)
(* that only what the user confirmed is destroyed (ChosenOnly) and that a  *)
(* job called a success has destroyed all of it (SuccessTrue), in the      *)
(* terminal, on the command line and in the window; and that a batch       *)
(* erasure that reports success is one (SuccessMeansGone).                 *)
(*                                                                         *)
(* The argument of the first two is FrontInv.  Before the answer nothing   *)
(* is destroyed (NothingYet); the targets are what the line or the boxes   *)
(* mean in the listing that was shown (TargetsMeant), and neither changes  *)
(* after the answer, so that what is destroyed is what was meant           *)
(* (DestroyedMeant).  As long as no target failed those gone through are   *)
(* gone (Progress), and the image opened holds the running pass up to the  *)
(* place of the next write, whatever happens to its name (Writing).        *)
(*                                                                         *)
(* And what they refuse to: the walk over the block devices misses none     *)
(* that carries the system, whatever the devices of the machine are made    *)
(* of, in circles too (SystemDiskRefused), and takes in nothing but these    *)
(* and what they lie in (OthersAllowed); and what exists inside a directory   *)
(* of the system is refused by any name (SystemPathsRefused).              *)
(***************************************************************************)
EXTENDS EraserViews, EraseOperation, SystemProtection, FiniteSetTheorems,
        NaturalsInduction, WellFoundedInduction, TLAPS

(* The numbers of a finite set can be brought in order.                    *)
LEMMA InOrderExists ==
  ASSUME NEW S \in SUBSET Nat, IsFiniteSet(S)
  PROVE  /\ Cardinality(S) \in Nat
         /\ InOrder(S) \in [1..Cardinality(S) -> S]
<1> DEFINE below(n) == {m \in S : m < n}
           rank == [n \in S |-> Cardinality(below(n)) + 1]
           k == Cardinality(S)
<1>1. k \in Nat
  BY FS_CardinalityType
<1>2. ASSUME NEW n \in S
      PROVE  IsFiniteSet(below(n)) /\ Cardinality(below(n)) \in Nat /\ Cardinality(below(n)) < k
  <2>1. below(n) \in SUBSET S /\ n \notin below(n)
    BY <1>2
  <2>2. below(n) # S
    BY <2>1
  <2> QED
    BY <1>1, <2>1, <2>2, FS_Subset, FS_CardinalityType
<1>3. rank \in [S -> 1..k]
  <2>1. \A n \in S : Cardinality(below(n)) + 1 \in 1..k
    BY <1>1, <1>2
  <2> QED
    BY <2>1
<1>4. ASSUME NEW m \in S, NEW n \in S, m < n PROVE rank[m] < rank[n]
  <2>1. below(m) \in SUBSET below(n) /\ m \in below(n) /\ m \notin below(m)
    <3>1. m \in Nat /\ n \in Nat /\ S \subseteq Nat
      OBVIOUS
    <3>2. \A x \in Nat : x < m => x < n
      BY <1>4, <3>1
    <3>3. ~ (m < m)
      BY <3>1
    <3> QED
      BY <1>4, <3>1, <3>2, <3>3
  <2>2. Cardinality(below(m)) <= Cardinality(below(n)) /\ Cardinality(below(m)) # Cardinality(below(n))
    <3>1. below(m) # below(n) /\ IsFiniteSet(below(n))
      BY <1>2, <2>1
    <3> HIDE DEF below
    <3> QED
      BY <2>1, <3>1, FS_Subset
  <2>3. Cardinality(below(m)) \in Nat /\ Cardinality(below(n)) \in Nat
    BY <1>2
  <2>4. rank[m] = Cardinality(below(m)) + 1 /\ rank[n] = Cardinality(below(n)) + 1
    OBVIOUS
  <2> HIDE DEF rank, below
  <2> QED
    BY <2>2, <2>3, <2>4
<1>5. rank \in Injection(S, 1..k)
  <2>1. \A m \in S, n \in S : rank[m] = rank[n] => m = n
    <3> HIDE DEF rank
    <3> SUFFICES ASSUME NEW m \in S, NEW n \in S, m # n PROVE rank[m] # rank[n]
      OBVIOUS
    <3>1. rank[m] \in 1..k /\ rank[n] \in 1..k
      BY <1>3
    <3>2. CASE m < n
      BY <3>1, <3>2, <1>1, <1>4
    <3>3. CASE n < m
      BY <3>1, <3>3, <1>1, <1>4
    <3>4. m \in Nat /\ n \in Nat
      OBVIOUS
    <3> QED
      BY <3>2, <3>3, <3>4
  <2> QED
    <3> HIDE DEF rank
    <3> QED
      BY <1>3, <2>1 DEF Injection, IsInjective
<1>6. rank \in Surjection(S, 1..k)
  <2>1. IsFiniteSet(1..k) /\ Cardinality(1..k) = k
    BY <1>1, FS_Interval
  <2> QED
    BY <1>5, <2>1, FS_Injection
<1> DEFINE order == [i \in 1..k |-> CHOOSE n \in S : rank[n] = i]
<1>7. ASSUME NEW i \in 1..k PROVE order[i] \in S /\ rank[order[i]] = i
  <2>1. \E n \in S : rank[n] = i
    BY <1>6 DEF Surjection
  <2> QED
    BY <2>1
<1>8. order \in [1..k -> S]
  BY <1>7
<1>9. \A i, j \in DOMAIN order : i < j => order[i] < order[j]
  <2> SUFFICES ASSUME NEW i \in 1..k, NEW j \in 1..k, i < j PROVE order[i] < order[j]
    BY <1>8
  <2>1. order[i] \in Nat /\ order[j] \in Nat
    BY <1>7
  <2>2. order[i] # order[j]
    <3> HIDE DEF rank, order
    <3>1. i # j
      BY <1>1
    <3> QED
      BY <1>7, <3>1
  <2>3. ~ (order[j] < order[i])
    <3> SUFFICES ASSUME order[j] < order[i] PROVE FALSE
      OBVIOUS
    <3> HIDE DEF rank, order
    <3>1. rank[order[j]] < rank[order[i]]
      BY <1>4, <1>7
    <3>2. rank[order[j]] = j /\ rank[order[i]] = i
      BY <1>7
    <3> QED
      BY <1>1, <3>1, <3>2
  <2> HIDE DEF order
  <2> QED
    BY <2>1, <2>2, <2>3
<1> QED
  <2> HIDE DEF order
  <2>1. \E f \in [1..k -> S] : \A i, j \in DOMAIN f : i < j => f[i] < f[j]
    BY <1>8, <1>9
  <2> QED
    BY <1>1, <2>1 DEF InOrder


(* What is picked out of a list is a sequence of what stood at the places. *)
LEMMA PickedIsSeq ==
  ASSUME NEW list, NEW S \in SUBSET Nat, IsFiniteSet(S),
         NEW T, \A n \in S : list[n] \in T
  PROVE  /\ Picked(list, S) \in Seq(T)
         /\ \A i \in DOMAIN Picked(list, S) : \E n \in S : Picked(list, S)[i] = list[n]
         /\ S # {} => Len(Picked(list, S)) >= 1
<1> DEFINE k == Cardinality(S)
<1>1. k \in Nat /\ InOrder(S) \in [1..k -> S]
  BY InOrderExists
<1>2. Picked(list, S) = [i \in 1..k |-> list[InOrder(S)[i]]]
  BY DEF Picked
<1>3. S # {} => k >= 1
  BY <1>1, FS_EmptySet
<1> HIDE DEF k
<1>4. \A i \in 1..k : InOrder(S)[i] \in S
  BY <1>1
<1>5. Picked(list, S) \in [1..k -> T]
  BY <1>2, <1>4
<1>6. Picked(list, S) \in Seq(T) /\ Len(Picked(list, S)) = k
  BY <1>1, <1>5
<1> QED
  BY <1>2, <1>3, <1>4, <1>6

(* A finite set made into a sequence loses nothing. *)
LEMMA SetToSeqAll ==
  ASSUME NEW S, IsFiniteSet(S)
  PROVE  /\ SetToSeq(S) \in Seq(S)
         /\ \A x \in S : \E i \in DOMAIN SetToSeq(S) : SetToSeq(S)[i] = x
<1> DEFINE k == Cardinality(S)
           s == SetToSeq(S)
<1>1. k \in Nat /\ ExistsBijection(1..k, S)
  BY FS_CardinalityType
<1>2. s \in [1..k -> S] /\ IsInjective(s)
  <2>1. \E f \in [1..k -> S] : IsInjective(f)
    BY <1>1 DEF ExistsBijection, Bijection, Injection
  <2> QED
    BY <2>1 DEF SetToSeq
<1>3. s \in Surjection(1..k, S)
  <2>1. s \in Injection(1..k, S)
    BY <1>2 DEF Injection
  <2>2. IsFiniteSet(1..k) /\ Cardinality(1..k) = k
    BY <1>1, FS_Interval
  <2> HIDE DEF s
  <2> QED
    BY <2>1, <2>2, FS_Injection
<1> HIDE DEF k
<1>4. s \in Seq(S) /\ DOMAIN s = 1..k
  BY <1>1, <1>2
<1> QED
  BY <1>3, <1>4 DEF Surjection
-----------------------------------------------------------------------------
Items == Range(Entries) \cup {Newcomer}
Places == Paths \cup {Newcomer}
Lines == [word : Words \cup {"none"}, ranges : Seq(Nat \X Nat)]
Reports == [verified : BOOLEAN, passes : Nat,
            record : {"none", "BLOCKED", "IO_ERROR", "SUCCESS", "FAILED"}]
Runs == [phase : {"idle", "open", "write", "verify", "done"}, strategy : Strategies,
         size : Nat, fd : 1..2, pass : Nat, pos : Nat, pre : Seq(Contents), report : Reports]
Options == {"none", "erase", "sanitize", "carve", "recover", "inspect"}
JobRecords == [option : Options, target : Places, listing : Seq(Items), line : Lines,
               targets : Seq(Places), next : Nat, strategy : Strategies,
               answer : {"", "DESTROY", "--confirm"}, beside : Places, ok : BOOLEAN,
               unseen : SUBSET Places]
Answers == [text : {"", "DESTROY", "destroy"}, beside : Places]
Views == [kind : {"none", "erase", "sanitize"}, path : Places, folder : BOOLEAN,
          listing : Seq(Items), ticked : SUBSET Nat, whole : BOOLEAN, protected : BOOLEAN,
          strategy : Strategies, modal : BOOLEAN, word : Answers]

(* What the terminal asks before anything is destroyed, and the window that *)
(* has not started a task.                                                  *)
Asking == {"proceed", "selection", "standard", "confirm"}
Before == {"menu", "option", "command", "path", "output", "window"} \cup Asking
Working == {"erase", "sanitize"}
After == {"pause", "off"}

RunTypeOK == cells \in [1..2 -> Seq(Contents)] /\ named \in 1..2 /\ run \in Runs

ViewsTypeOK ==
  /\ RunTypeOK
  /\ present \subseteq Places /\ destroyed \subseteq Places
  /\ at \in Before \cup Working \cup After
  /\ job \in JobRecords /\ view \in Views

(***************************************************************************)
(* The sanitization: how far the image opened holds the running pass.      *)
(***************************************************************************)
Filled(n, pass) == \A i \in 1..n : cells[run.fd][i] = FillPassBuffer(run.strategy, pass)
AllFilled ==
  /\ run.size <= Len(cells[run.fd])
  /\ Filled(run.size, TotalPasses(run.strategy))
  /\ run.report.passes = TotalPasses(run.strategy)

Writing ==
  run.phase = "write" =>
    /\ run.pass \in 1..TotalPasses(run.strategy) /\ run.report.passes = run.pass - 1
    /\ run.pos <= run.size /\ run.pos <= Len(cells[run.fd])
    /\ Filled(run.pos, run.pass)
Written == run.phase = "verify" => AllFilled
Reported ==
  /\ run.phase # "done" => ~ run.report.verified
  /\ run.phase = "open" => run.pos = 0 /\ run.report.passes = 0
  /\ run.report.verified => AllFilled /\ run.report.record = "SUCCESS"
RunInv == Writing /\ Written /\ Reported

(***************************************************************************)
(* The dialog: nothing is done before the answer, which was given beside   *)
(* the target, and the targets are those the answer was about.             *)
(***************************************************************************)
NothingYet == at \in Before => job.answer = "" /\ destroyed = {} /\ run = Idle

Answered ==
  /\ at \in Working \/ destroyed # {} => job.answer # ""
  /\ job.answer # "" => job.beside = job.target /\ job.option \in Working
  /\ at \in Working => job.option = at

OptionsKept ==
  /\ at \in {"path", "output", "proceed", "selection"} => job.line = NoLine /\ job.next = 1
  /\ at \in {"proceed", "selection"} => job.option = "erase"
  /\ at \in {"standard", "confirm"} => job.option \in Working
  /\ at \in Asking /\ job.option = "sanitize" => job.line = NoLine

(* The image is being overwritten only for a job that is about it.         *)
OneImage ==
  /\ run.phase # "idle" => at = "sanitize" \/ at \in After
  /\ run.phase \in {"open", "write", "verify"} => at = "sanitize" /\ job.target = Image
  /\ run.phase \in {"open", "write", "verify"} \/ run.report.verified => run.strategy = job.strategy

Meant(path) ==
  IF Whole THEN path = job.target
  ELSE \E n \in AskedFor : n > 0 /\ path = job.listing[n] /\ path # Folder
TargetsMeant ==
  at \in Asking \cup Working =>
    /\ \A i \in DOMAIN job.targets : Meant(job.targets[i])
    /\ at \in Asking => job.next = 1
    /\ job.next \in DOMAIN job.targets
    /\ at = "sanitize" => Whole

DestroyedMeant == \A f \in destroyed : Meant(f) \/ (Whole /\ job.target = Folder)

(* As long as nothing failed, what was gone through is destroyed, or was    *)
(* not to be seen.                                                         *)
Progress ==
  /\ at = "erase" /\ job.ok =>
       \A i \in 1..(job.next - 1) : job.targets[i] \in destroyed \cup job.unseen
  /\ at \in After /\ job.answer # "" /\ job.ok =>
       IF job.option = "erase" THEN Range(job.targets) \subseteq destroyed \cup job.unseen
       ELSE run.report.verified

ViewInv ==
  /\ view.ticked \subseteq DOMAIN view.listing
  /\ view.modal /\ view.word.text # "" => view.word.beside = view.path

FrontInv ==
  /\ ViewsTypeOK /\ RunInv /\ NothingYet /\ Answered /\ OptionsKept /\ OneImage
  /\ TargetsMeant /\ DestroyedMeant /\ Progress /\ ViewInv

-----------------------------------------------------------------------------
(* No entry is the folder.                                                 *)
LEMMA FolderApart == Folder \notin Items /\ Image \in Places /\ Missing \in Places
<1> DEFINE six == <<Folder, Image, System, Device, Missing, Newcomer>>
<1>1. IsInjective(six) /\ Range(Entries) \cap {Folder, Image, System, Device, Missing} = {}
  BY CommandLineAssumption
<1>2. DOMAIN six = 1..6 /\ six[1] = Folder /\ six[6] = Newcomer
  OBVIOUS
<1>3. Newcomer # Folder
  <2> HIDE DEF six
  <2> QED
    BY <1>1, <1>2 DEF IsInjective
<1> QED
  BY <1>1, <1>3 DEF Items, Places, Paths

(* Facts about sequences and numbers.                                      *)
LEMMA SeqFacts ==
  ASSUME NEW T, NEW s \in Seq(T)
  PROVE  /\ DOMAIN s = 1..Len(s) /\ Len(s) \in Nat
         /\ \A i \in DOMAIN s : s[i] \in T
OBVIOUS

LEMMA NextIn ==
  ASSUME NEW k \in Nat, NEW n \in 1..k, n # k
  PROVE  n + 1 \in 1..k
OBVIOUS

LEMMA NoneBefore == 1..(1 - 1) = {}
<1>1. 1 - 1 = 0
  OBVIOUS
<1>2. 1..0 = {}
  OBVIOUS
<1> QED
  BY <1>1, <1>2, Zenon

LEMMA OneIsSeq ==
  ASSUME NEW T, NEW x \in T
  PROVE  <<x>> \in Seq(T) /\ DOMAIN <<x>> = {1} /\ <<x>>[1] = x
<1>1. <<x>> \in Seq(T)
  OBVIOUS
<1>2. DOMAIN <<x>> = 1..1
  OBVIOUS
<1> QED
  BY <1>1, <1>2

LEMMA NothingInEmpty == Range(<<>>) = {}
<1>1. <<>> \in Seq({}) /\ Len(<<>>) = 0
  OBVIOUS
<1>2. DOMAIN <<>> = {}
  BY <1>1
<1> QED
  BY <1>2 DEF Range

(* What a job, a run and a report start with.                              *)
LEMMA StartTypes == /\ NoJob \in JobRecords /\ Idle \in Runs /\ NoReport \in Reports
                    /\ NoLine \in Lines
<1>1. NoLine \in Lines
  <2>1. <<>> \in Seq(Nat \X Nat)
    OBVIOUS
  <2> QED
    BY <2>1 DEF NoLine, Lines
<1>2. NoReport \in Reports
  <2>1. 0 \in Nat /\ FALSE \in BOOLEAN
    OBVIOUS
  <2> QED
    BY <2>1 DEF NoReport, Reports
<1>3. Idle \in Runs
  BY <1>2 DEF Idle, Runs, Strategies
<1>4. NoJob \in JobRecords
  <2>1. /\ <<>> \in Seq(Items) /\ <<>> \in Seq(Places) /\ 1 \in Nat /\ TRUE \in BOOLEAN
        /\ "clear" \in Strategies /\ {} \in SUBSET Places
    BY DEF Strategies
  <2>2. "" \in {"", "DESTROY", "--confirm"}
    OBVIOUS
  <2> QED
    BY <1>1, <2>1, <2>2, FolderApart DEF NoJob, JobRecords, Options
<1> QED
  BY <1>1, <1>2, <1>3, <1>4

(* The entries in the folder are entries. *)
LEMMA ListingType == Listing \in Seq(Items)
<1> DEFINE names == Append(Entries, Newcomer)
           here == {i \in DOMAIN names : names[i] \in present}
<1>1. Entries \in Seq(Items)
  BY CommandLineAssumption DEF Items, Range
<1>2. names \in Seq(Items) /\ DOMAIN names = 1..Len(names) /\ Len(names) \in Nat
  BY <1>1 DEF Items
<1>3. \A n \in here : names[n] \in Items
  BY <1>2
<1>4. here \in SUBSET Nat /\ IsFiniteSet(here)
  <2>1. here \in SUBSET (1..Len(names)) /\ IsFiniteSet(1..Len(names))
    BY <1>2, FS_Interval
  <2> QED
    BY <1>2, <2>1, FS_Subset
<1> HIDE DEF here
<1>5. Picked(names, here) \in Seq(Items)
  BY <1>3, <1>4, PickedIsSeq
<1> QED
  BY <1>5 DEF Listing, here

(* Every number asked for names a target of its own. *)
LEMMA TargetsPicked ==
  ASSUME NEW listing \in Seq(Items), NEW place \in Places,
         NEW numbers \in SUBSET (0..Len(listing)), ~ (numbers \subseteq {0})
  PROVE  /\ Targets(numbers, place, listing) \in Seq(Places)
         /\ 1 \in DOMAIN Targets(numbers, place, listing)
         /\ \A i \in DOMAIN Targets(numbers, place, listing) :
              \E n \in numbers : /\ n > 0 /\ listing[n] # Folder
                                 /\ Targets(numbers, place, listing)[i] = listing[n]
<1> DEFINE some == numbers \ {0}
           picked == Picked(listing, some)
<1>1. Targets(numbers, place, listing) = picked
  BY DEF Targets
<1>2. some \in SUBSET Nat /\ some # {} /\ \A n \in some : n \in 1..Len(listing)
  BY SeqFacts
<1>3. IsFiniteSet(some)
  <2>1. IsFiniteSet(1..Len(listing)) /\ some \in SUBSET (1..Len(listing))
    BY <1>2, FS_Interval
  <2> QED
    BY <2>1, FS_Subset
<1>4. \A n \in some : listing[n] \in Items /\ listing[n] \in Places /\ listing[n] # Folder
  BY <1>2, FolderApart DEF Items, Places, Paths
<1> HIDE DEF some
<1>5. /\ picked \in Seq(Places) /\ Len(picked) >= 1
      /\ \A i \in DOMAIN picked : \E n \in some : picked[i] = listing[n]
  <2>1. some \in SUBSET Nat /\ some # {} /\ \A n \in some : listing[n] \in Places
    BY <1>2, <1>4
  <2>2. /\ Picked(listing, some) \in Seq(Places)
        /\ \A i \in DOMAIN Picked(listing, some) : \E n \in some : Picked(listing, some)[i] = listing[n]
        /\ some # {} => Len(Picked(listing, some)) >= 1
    BY ONLY <1>3, <2>1, PickedIsSeq
  <2> QED
    BY <2>1, <2>2, Zenon
<1>6. 1 \in DOMAIN picked
  BY <1>5
<1> HIDE DEF picked
<1> QED
  BY <1>1, <1>2, <1>4, <1>5, <1>6 DEF some

-----------------------------------------------------------------------------
(* The steps of a sanitization.                                            *)
GoesOn == run'.strategy = run.strategy /\ run'.phase \in {"open", "write", "verify", "done"}

(* A pass writes contents of a cell.                                       *)
LEMMA FillType ==
  ASSUME NEW s \in Strategies, NEW pass \in 1..TotalPasses(s)
  PROVE  FillPassBuffer(s, pass) \in Contents
<1>1. CASE s = "clear"
  BY <1>1 DEF FillPassBuffer, Contents
<1>2. CASE s = "random"
  BY <1>2 DEF FillPassBuffer, Contents
<1>3. CASE s = "dod"
  <2>1. pass \in {1, 2, 3}
    BY <1>3 DEF TotalPasses
  <2> QED
    BY <1>3, <2>1 DEF FillPassBuffer, Contents
<1> QED
  BY <1>1, <1>2, <1>3 DEF Strategies

(* A run that ends without a verified report leaves nothing to show.       *)
LEMMA RunEnds ==
  ASSUME RunTypeOK, RunInv, UNCHANGED <<cells, named>>,
         NEW report \in Reports, ~ report.verified, Ended(report)
  PROVE  RunTypeOK' /\ RunInv' /\ GoesOn
<1>1. run' \in Runs /\ run'.phase = "done" /\ run'.report = report /\ run'.strategy = run.strategy
  BY DEF Ended, RunTypeOK, Runs
<1> QED
  BY <1>1 DEF RunTypeOK, RunInv, Writing, Written, Reported, GoesOn

(* The first pass starts at the first cell of the image opened.            *)
LEMMA OpenImageRun ==
  ASSUME RunTypeOK, RunInv, OpenImage
  PROVE  RunTypeOK' /\ RunInv' /\ GoesOn
<1>1. CASE Ended([NoReport EXCEPT !.record = "IO_ERROR"])
  <2>1. /\ [NoReport EXCEPT !.record = "IO_ERROR"] \in Reports
        /\ ~ [NoReport EXCEPT !.record = "IO_ERROR"].verified
    BY DEF NoReport, Reports
  <2> QED
    BY <1>1, <2>1, RunEnds DEF OpenImage
<1>2. CASE run' = [run EXCEPT !.phase = "write", !.fd = named, !.pass = 1]
  <2>1. /\ run' \in Runs /\ run'.phase = "write" /\ run'.fd = named /\ run'.pass = 1
        /\ run'.pos = run.pos /\ run'.size = run.size /\ run'.strategy = run.strategy
        /\ run'.report = run.report
    BY <1>2 DEF RunTypeOK, Runs
  <2>2. run.pos = 0 /\ run.report.passes = 0 /\ ~ run.report.verified
    BY DEF OpenImage, RunInv, Reported
  <2>3. run.size \in Nat /\ Len(cells[named]) \in Nat /\ 1 \in 1..TotalPasses(run.strategy)
    BY DEF RunTypeOK, Runs, TotalPasses
  <2>4. UNCHANGED <<cells, named>>
    BY DEF OpenImage
  <2>5. Writing'
    BY <2>1, <2>2, <2>3, <2>4 DEF Writing, Filled
  <2> QED
    BY <2>1, <2>2, <2>4, <2>5 DEF RunTypeOK, RunInv, Written, Reported, GoesOn
<1> QED
  BY <1>1, <1>2 DEF OpenImage

(* A write puts one more cell behind those that hold the pass.             *)
LEMMA WriteCellRun ==
  ASSUME RunTypeOK, RunInv, WriteCell
  PROVE  RunTypeOK' /\ RunInv' /\ GoesOn
<1>1. CASE Ended(run.report) /\ UNCHANGED cells
  <2>1. run.report \in Reports /\ ~ run.report.verified
    BY DEF RunTypeOK, Runs, RunInv, Reported, WriteCell
  <2> QED
    BY <1>1, <2>1, RunEnds DEF WriteCell
<1> DEFINE cell == FillPassBuffer(run.strategy, run.pass)
           file == cells[run.fd]
<1>2. CASE /\ cells' = [cells EXCEPT ![run.fd] = Overwritten(@, run.pos, cell)]
           /\ run' = [run EXCEPT !.pos = @ + 1]
  <2>1. /\ run.phase = "write" /\ run.pass \in 1..TotalPasses(run.strategy)
        /\ run.report.passes = run.pass - 1 /\ run.pos < run.size /\ run.pos <= Len(file)
        /\ Filled(run.pos, run.pass) /\ ~ run.report.verified /\ named' = named
    BY DEF WriteCell, RunInv, Writing, Reported
  <2>2. /\ run.pos \in Nat /\ run.size \in Nat /\ run.fd \in 1..2 /\ run.pass \in Nat
        /\ run.strategy \in Strategies /\ run.report \in Reports
    BY DEF RunTypeOK, Runs
  <2>3. cell \in Contents
    BY <2>1, <2>2, FillType
  <2>4. file \in Seq(Contents) /\ Len(file) \in Nat
    BY <2>2 DEF RunTypeOK
  <2> HIDE DEF cell, file
  <2>5. /\ Overwritten(file, run.pos, cell) \in Seq(Contents)
        /\ run.pos + 1 <= Len(Overwritten(file, run.pos, cell))
        /\ Overwritten(file, run.pos, cell)[run.pos + 1] = cell
        /\ \A i \in 1..run.pos : Overwritten(file, run.pos, cell)[i] = file[i]
    <3>1. CASE run.pos < Len(file)
      BY <2>2, <2>3, <2>4, <3>1 DEF Overwritten
    <3>2. CASE run.pos = Len(file)
      BY <2>2, <2>3, <2>4, <3>2 DEF Overwritten
    <3> QED
      BY <2>1, <2>2, <2>4, <3>1, <3>2 DEF file
  <2>6. /\ cells' \in [1..2 -> Seq(Contents)] /\ cells'[run.fd] = Overwritten(file, run.pos, cell)
    BY <1>2, <2>2, <2>5 DEF RunTypeOK, file
  <2>7. /\ run' \in Runs /\ run'.pos = run.pos + 1 /\ run'.phase = "write"
        /\ run'.fd = run.fd /\ run'.size = run.size /\ run'.pass = run.pass
        /\ run'.strategy = run.strategy /\ run'.report = run.report
    <3>1. run \in Runs /\ run.pos + 1 \in Nat
      BY <2>2 DEF RunTypeOK
    <3>2. run' = [run EXCEPT !.pos = run.pos + 1]
      BY <1>2
    <3> QED
      BY <2>1, <3>1, <3>2 DEF Runs
  <2>8. \A i \in 1..(run.pos + 1) : cells'[run.fd][i] = cell
    <3> SUFFICES ASSUME NEW i \in 1..(run.pos + 1)
                 PROVE  cells'[run.fd][i] = cell
      OBVIOUS
    <3>1. CASE i = run.pos + 1
      BY <2>5, <2>6, <3>1
    <3>2. CASE i \in 1..run.pos
      BY <2>1, <2>5, <2>6, <3>2 DEF Filled, file, cell
    <3> QED
      BY <2>2, <3>1, <3>2
  <2>9. Writing'
    BY <2>1, <2>2, <2>5, <2>6, <2>7, <2>8 DEF Writing, Filled, cell
  <2> QED
    BY <2>1, <2>6, <2>7, <2>9 DEF RunTypeOK, RunInv, Written, Reported, GoesOn
<1> QED
  BY <1>1, <1>2 DEF WriteCell

(* A pass ends when it has reached the size taken before; the last one is  *)
(* left for the verification.                                              *)
LEMMA EndPassRun ==
  ASSUME RunTypeOK, RunInv, EndPass
  PROVE  RunTypeOK' /\ RunInv' /\ GoesOn
<1>1. CASE Ended(run.report)
  <2>1. run.report \in Reports /\ ~ run.report.verified
    BY DEF RunTypeOK, Runs, RunInv, Reported, EndPass
  <2> QED
    BY <1>1, <2>1, RunEnds DEF EndPass
<1> DEFINE last == run.pass = TotalPasses(run.strategy)
<1>2. CASE run' = [run EXCEPT !.report.passes = @ + 1, !.pos = 0, !.pass = @ + 1,
                              !.phase = IF last THEN "verify" ELSE @]
  <2>1. /\ run.phase = "write" /\ run.pass \in 1..TotalPasses(run.strategy)
        /\ run.report.passes = run.pass - 1 /\ run.pos = run.size /\ run.pos <= Len(cells[run.fd])
        /\ Filled(run.pos, run.pass) /\ ~ run.report.verified /\ UNCHANGED <<cells, named>>
    BY DEF EndPass, RunInv, Writing, Reported
  <2>2. /\ run.pos \in Nat /\ run.pass \in Nat /\ run.report \in Reports
        /\ TotalPasses(run.strategy) \in Nat /\ run.fd \in 1..2 /\ run.report.passes \in Nat
    BY DEF RunTypeOK, Runs, Reports, TotalPasses
  <2>3. /\ run' \in Runs /\ run'.pos = 0 /\ run'.pass = run.pass + 1
        /\ run'.phase = IF last THEN "verify" ELSE "write"
        /\ run'.fd = run.fd /\ run'.size = run.size /\ run'.strategy = run.strategy
        /\ run'.report = [run.report EXCEPT !.passes = @ + 1]
    <3> DEFINE phase == IF last THEN "verify" ELSE run.phase
               report == [run.report EXCEPT !.passes = @ + 1]
    <3>1. phase \in {"write", "verify"} /\ phase = IF last THEN "verify" ELSE "write"
      BY <2>1
    <3>2. report \in Reports
      BY <2>2 DEF Reports
    <3>3. run' = [run EXCEPT !.report = report, !.pos = 0, !.pass = run.pass + 1, !.phase = phase]
      BY <1>2
    <3>4. run \in Runs /\ run.pass + 1 \in Nat
      BY <2>2 DEF RunTypeOK
    <3> HIDE DEF phase, last
    <3>5. /\ run' \in Runs /\ run'.pos = 0 /\ run'.pass = run.pass + 1 /\ run'.phase = phase
          /\ run'.fd = run.fd /\ run'.size = run.size /\ run'.strategy = run.strategy
          /\ run'.report = report
      <4> HIDE DEF report
      <4> QED
        BY <2>2, <3>1, <3>2, <3>3, <3>4 DEF Runs
    <3> QED
      BY <3>1, <3>5
  <2>4. run'.report.passes = run.pass /\ ~ run'.report.verified
    BY <2>1, <2>2, <2>3 DEF Reports
  <2>5. Len(cells[run.fd]) \in Nat
    BY <2>2 DEF RunTypeOK
  <2>6. CASE last
    BY <2>1, <2>3, <2>4, <2>6 DEF RunTypeOK, RunInv, Writing, Written, Reported, AllFilled, Filled, GoesOn
  <2>7. CASE ~ last
    BY <2>1, <2>2, <2>3, <2>4, <2>5, <2>7 DEF RunTypeOK, RunInv, Writing, Written, Reported, Filled, GoesOn
  <2> QED
    BY <2>6, <2>7
<1> QED
  BY <1>1, <1>2 DEF EndPass

(* Whatever the verification finds at the name, the image opened holds the *)
(* last pass.                                                              *)
LEMMA VerifyRun ==
  ASSUME RunTypeOK, RunInv, Verify
  PROVE  RunTypeOK' /\ RunInv' /\ GoesOn
<1> DEFINE verified == VerifyImage(cells[named], run.strategy, run.pre)
           report == [run.report EXCEPT !.verified = verified,
                        !.record = IF verified THEN "SUCCESS" ELSE "FAILED"]
<1>1. AllFilled /\ run.report \in Reports /\ UNCHANGED <<cells, named>> /\ Ended(report)
  BY DEF Verify, RunInv, Written, RunTypeOK, Runs
<1>2. verified \in BOOLEAN
  BY DEF VerifyImage, High
<1> HIDE DEF verified
<1>3. /\ report \in Reports /\ report.passes = run.report.passes
      /\ report.verified => report.record = "SUCCESS"
  BY <1>1, <1>2 DEF Reports
<1> HIDE DEF report
<1>4. CASE ~ report.verified
  BY <1>1, <1>3, <1>4, RunEnds
<1>5. CASE report.verified
  <2>1. /\ run' \in Runs /\ run'.phase = "done" /\ run'.report = report
        /\ run'.strategy = run.strategy /\ run'.fd = run.fd /\ run'.size = run.size
    BY <1>1, <1>3 DEF Ended, RunTypeOK, Runs
  <2>2. AllFilled'
    BY <1>1, <1>3, <2>1 DEF AllFilled, Filled
  <2>3. run'.report.record = "SUCCESS"
    BY <1>3, <1>5, <2>1
  <2> QED
    BY <1>1, <2>3, <2>1, <2>2 DEF RunTypeOK, RunInv, Writing, Written, Reported, GoesOn
<1> QED
  BY <1>4, <1>5

(* So every step of a run keeps what is known of the image opened.         *)
LEMMA SanitizeRun ==
  ASSUME RunTypeOK, RunInv, SanitizeStep
  PROVE  RunTypeOK' /\ RunInv' /\ GoesOn
BY OpenImageRun, WriteCellRun, EndPassRun, VerifyRun DEF SanitizeStep

(* Nor is that lost when a run is discarded, begun or left alone.          *)
LEMMA IdleRun ==
  ASSUME RunTypeOK, run' = Idle, UNCHANGED <<cells, named>>
  PROVE  RunTypeOK' /\ RunInv'
BY StartTypes DEF RunTypeOK, RunInv, Writing, Written, Reported, Idle, NoReport

LEMMA BeginRun ==
  ASSUME RunTypeOK, RunInv, NEW s \in Strategies, NEW regular \in BOOLEAN, Begin(s, regular, FALSE)
  PROVE  /\ RunTypeOK' /\ RunInv'
         /\ \/ run'.phase = "done" /\ ~ run'.report.verified
            \/ run'.phase = "open" /\ run'.strategy = s /\ regular
<1> DEFINE size == Len(cells[named])
<1>1. size \in Nat /\ cells[named] \in Seq(Contents) /\ UNCHANGED <<cells, named>>
  BY DEF RunTypeOK, Begin
<1>2. CASE ~ regular \/ size = 0
  <2>1. [NoReport EXCEPT !.record = NoReport.record] = NoReport
    BY DEF NoReport
  <2>2. Ended(NoReport)
    BY <1>2, <2>1 DEF Begin
  <2>3. ~ NoReport.verified
    BY DEF NoReport
  <2>4. run'.phase = "done" /\ run'.report = NoReport
    BY <2>2 DEF Ended, RunTypeOK, Runs
  <2> QED
    BY <1>1, <2>2, <2>3, <2>4, StartTypes, RunEnds
<1>3. CASE regular /\ size # 0
  <2>1. run' = [Idle EXCEPT !.phase = "open", !.strategy = s, !.size = size, !.pre = cells[named]]
    BY <1>3 DEF Begin
  <2> HIDE DEF size
  <2>2. /\ run' \in Runs /\ run'.phase = "open" /\ run'.strategy = s
        /\ run'.pos = 0 /\ run'.report = NoReport
    BY <1>1, <2>1, StartTypes DEF Idle, Runs
  <2> QED
    BY <1>1, <1>3, <2>2 DEF RunTypeOK, RunInv, Writing, Written, Reported, NoReport
<1> QED
  BY <1>2, <1>3

LEMMA KeptRun ==
  ASSUME RunTypeOK, RunInv, UNCHANGED <<cells, named, run>>
  PROVE  RunTypeOK' /\ RunInv'
BY DEF RunTypeOK, RunInv, Writing, Written, Reported, AllFilled, Filled

(* Another program moves the name, or writes behind all that is there.     *)
LEMMA MeddleRun ==
  ASSUME RunTypeOK, RunInv, Meddle
  PROVE  RunTypeOK' /\ RunInv'
<1>1. CASE named' = 2 /\ UNCHANGED cells
  BY <1>1 DEF Meddle, RunTypeOK, RunInv, Writing, Written, Reported, AllFilled, Filled
<1>2. CASE cells' = [cells EXCEPT ![named] = Append(@, Text)] /\ UNCHANGED named
  <2>1. run' = run /\ Text \in Contents /\ run.phase # "done" /\ ~ run.report.verified
    BY DEF Meddle, Contents, RunInv, Reported
  <2>2. /\ run.fd \in 1..2 /\ named \in 1..2 /\ run.pos \in Nat /\ run.size \in Nat
        /\ cells[named] \in Seq(Contents) /\ cells[run.fd] \in Seq(Contents)
    BY DEF RunTypeOK, Runs
  <2>3. cells' \in [1..2 -> Seq(Contents)]
    BY <1>2, <2>1, <2>2 DEF RunTypeOK
  <2>4. /\ Len(cells[run.fd]) \in Nat /\ Len(cells[run.fd]) <= Len(cells'[run.fd])
        /\ Len(cells'[run.fd]) \in Nat
        /\ \A i \in 1..Len(cells[run.fd]) : cells'[run.fd][i] = cells[run.fd][i]
    <3>1. CASE run.fd = named
      <4>1. cells'[run.fd] = Append(cells[run.fd], Text)
        BY <1>2, <2>2, <3>1 DEF RunTypeOK
      <4> QED
        BY <2>1, <2>2, <4>1
    <3>2. CASE run.fd # named
      BY <1>2, <2>2, <3>2 DEF RunTypeOK
    <3> QED
      BY <3>1, <3>2
  <2>5. ASSUME NEW n \in Nat, n <= Len(cells[run.fd]), NEW pass, Filled(n, pass)
        PROVE  \A i \in 1..n : cells'[run.fd][i] = FillPassBuffer(run.strategy, pass)
    BY <2>4, <2>5 DEF Filled
  <2>6. Writing'
    BY <2>1, <2>2, <2>4, <2>5 DEF RunInv, Writing, Filled
  <2>7. Written'
    BY <2>1, <2>2, <2>4, <2>5 DEF RunInv, Written, AllFilled, Filled
  <2> QED
    BY <1>2, <2>1, <2>3, <2>6, <2>7 DEF RunTypeOK, RunInv, Reported
<1> QED
  BY <1>1, <1>2 DEF Meddle

-----------------------------------------------------------------------------
(* The dialog.  Before the answer there is little to keep.                 *)
LEMMA AskStep ==
  ASSUME FrontInv, at \in Before, at' \in Before \cup After, job' \in JobRecords, job'.answer = "",
         UNCHANGED <<cells, named, run, present, destroyed, view>>, OptionsKept', TargetsMeant'
  PROVE  FrontInv'
<1>1. RunTypeOK' /\ RunInv'
  BY KeptRun DEF FrontInv, ViewsTypeOK
<1>2. destroyed = {} /\ run = Idle /\ at' \notin Working
  BY DEF FrontInv, NothingYet, Before, Asking, After, Working
<1>3. ViewsTypeOK' /\ ViewInv'
  BY <1>1 DEF FrontInv, ViewsTypeOK, ViewInv
<1>4. NothingYet' /\ Answered' /\ DestroyedMeant'
  BY <1>2 DEF NothingYet, Answered, DestroyedMeant
<1>5. OneImage'
  BY <1>2 DEF OneImage, Idle, NoReport
<1>6. Progress'
  BY <1>2 DEF Progress, Working
<1> QED
  BY <1>1, <1>3, <1>4, <1>5, <1>6 DEF FrontInv

(* Nor is there when the job is given up, or never was one.                *)
LEMMA LeaveStep ==
  ASSUME FrontInv, at \in Before, at' \in After, UNCHANGED job,
         UNCHANGED <<cells, named, run, present, destroyed, view>>
  PROVE  FrontInv'
<1>1. OptionsKept' /\ TargetsMeant'
  BY DEF OptionsKept, TargetsMeant, After, Asking, Working
<1>2. job' \in JobRecords /\ job'.answer = ""
  BY DEF FrontInv, ViewsTypeOK, NothingYet
<1> QED
  BY <1>1, <1>2, AskStep

(* The window is edited, the pending prompt is asked again, or what nothing *)
(* depends on changes.                                                     *)
LEMMA EditStep ==
  ASSUME FrontInv, present' \subseteq Places, view' \in Views, ViewInv',
         UNCHANGED <<cells, named, run, at, job, destroyed>>
  PROVE  FrontInv'
<1>1. RunTypeOK' /\ RunInv'
  BY KeptRun DEF FrontInv, ViewsTypeOK
<1>2. ViewsTypeOK' /\ NothingYet' /\ Answered' /\ OptionsKept'
  BY <1>1 DEF FrontInv, ViewsTypeOK, NothingYet, Answered, OptionsKept
<1>3. OneImage' /\ Progress'
  BY DEF FrontInv, OneImage, Progress
<1>4. Whole' = Whole /\ AskedFor' = AskedFor
  BY DEF Whole, AskedFor
<1>5. TargetsMeant' /\ DestroyedMeant'
  BY <1>4 DEF FrontInv, TargetsMeant, DestroyedMeant, Meant
<1> QED
  BY <1>1, <1>2, <1>3, <1>5 DEF FrontInv

LEMMA KeptStep ==
  ASSUME FrontInv, present' \subseteq Places,
         UNCHANGED <<cells, named, run, at, job, destroyed, view>>
  PROVE  FrontInv'
<1>1. view' \in Views /\ ViewInv'
  BY DEF FrontInv, ViewsTypeOK, ViewInv
<1> QED
  BY <1>1, EditStep

(* The prompts, one by one, until the answer.                              *)
LEMMA MenuStep ==
  ASSUME FrontInv, Menu \/ Resume, UNCHANGED view
  PROVE  FrontInv'
<1> USE DEF imageVars
<1>1. ASSUME NEW where \in After, at \in Before, Go(where) PROVE FrontInv'
  BY <1>1, LeaveStep DEF Go
<1>2. ASSUME NEW option \in Options, job' = [NoJob EXCEPT !.option = option],
             at \in Before, at' \in {"path", "pause"}, UNCHANGED <<imageVars, present, destroyed>>
      PROVE  FrontInv'
  <2>1. /\ job' \in JobRecords /\ job'.answer = "" /\ job'.line = NoLine /\ job'.next = 1
    BY <1>2, StartTypes DEF NoJob, JobRecords
  <2>2. OptionsKept' /\ TargetsMeant'
    BY <1>2, <2>1 DEF OptionsKept, TargetsMeant, Asking, Working
  <2> QED
    BY <1>2, <2>1, <2>2, AskStep DEF Before, After
<1>3. CASE Menu
  <2>1. PICK choice \in {"erase", "sanitize", "carve", "recover", "inspect",
                         "detect", "benchmark", "e", "exit", "?"} :
          CASE choice = "exit" -> Go("off")
            [] choice \in {"detect", "benchmark", "e", "?"} -> Go("pause")
            [] OTHER -> /\ jobs < MaxJobs /\ jobs' = jobs + 1
                        /\ at' = "path"
                        /\ job' = [NoJob EXCEPT !.option = choice]
                        /\ UNCHANGED <<imageVars, present, ended, code, destroyed>>
    BY <1>3 DEF Menu, ReadLine
  <2>2. at \in Before
    BY <1>3 DEF Menu, Before
  <2>3. CASE choice = "exit"
    <3>1. Go("off")
      BY <2>1, <2>3
    <3> QED
      BY <1>1, <2>2, <3>1 DEF After
  <2>4. CASE choice \in {"detect", "benchmark", "e", "?"}
    <3>1. Go("pause")
      BY <2>1, <2>4
    <3> QED
      BY <1>1, <2>2, <3>1 DEF After
  <2>5. CASE choice \in {"erase", "sanitize", "carve", "recover", "inspect"}
    <3>1. /\ at' = "path" /\ job' = [NoJob EXCEPT !.option = choice]
          /\ UNCHANGED <<imageVars, present, destroyed>>
      BY <2>1, <2>5
    <3> QED
      BY <1>2, <2>2, <2>5, <3>1 DEF Options
  <2> QED
    BY <2>3, <2>4, <2>5
<1>4. CASE Resume
  BY <1>2, <1>4 DEF Resume, Before, Options
<1> QED
  BY <1>3, <1>4

LEMMA PathStep ==
  ASSUME FrontInv, AskPath, UNCHANGED view
  PROVE  FrontInv'
<1> USE DEF imageVars
<1>1. ASSUME Go("pause") PROVE FrontInv'
  BY <1>1, LeaveStep DEF AskPath, Go, Before, After
<1>2. ASSUME NEW path \in SelectPath, Allowed(job.option, path),
             Choose(CASE job.option = "erase" -> "proceed"
                      [] job.option = "sanitize" -> "standard"
                      [] OTHER -> "output", path)
      PROVE  FrontInv'
  <2>1. /\ at = "path" /\ job \in JobRecords /\ job.answer = "" /\ path \in Places
        /\ job.line = NoLine /\ job.next = 1
    BY <1>2 DEF AskPath, FrontInv, ViewsTypeOK, NothingYet, OptionsKept, Allowed, Before
  <2>2. job' = [job EXCEPT !.target = path, !.targets = <<path>>]
    BY <1>2 DEF Choose
  <2>3. <<path>> \in Seq(Places) /\ DOMAIN <<path>> = {1} /\ <<path>>[1] = path
    BY <2>1, OneIsSeq
  <2>4. /\ job' \in JobRecords /\ job'.answer = "" /\ job'.line = NoLine /\ job'.next = 1
        /\ job'.option = job.option /\ job'.target = path /\ job'.targets = <<path>>
    BY <2>1, <2>2, <2>3 DEF JobRecords
  <2>5. /\ at' \in {"proceed", "standard", "output"}
        /\ at' = "proceed" => job.option = "erase"
        /\ at' = "standard" => job.option = "sanitize"
    BY <1>2 DEF Choose
  <2>6. OptionsKept'
    BY <2>4, <2>5 DEF OptionsKept, Working, Asking
  <2>7. Whole'
    <3>1. NoLine.word = "none"
      BY DEF NoLine
    <3>2. job'.line.word = "none"
      BY <2>4, <3>1
    <3> QED
      BY <3>2 DEF Whole
  <2>8. TargetsMeant'
    BY <2>3, <2>4, <2>5, <2>7 DEF TargetsMeant, Meant
  <2> QED
    BY <1>2, <2>1, <2>4, <2>5, <2>6, <2>8, AskStep DEF Choose, Before, Asking
<1> QED
  BY <1>1, <1>2 DEF AskPath

LEMMA OutputStep ==
  ASSUME FrontInv, AskOutput, UNCHANGED view
  PROVE  FrontInv'
<1> USE DEF imageVars
<1>1. ASSUME Go("pause") PROVE FrontInv'
  BY <1>1, LeaveStep DEF AskOutput, Go, Before, After
<1>2. ASSUME at' \in {"path", "pause"}, job' = [job EXCEPT !.option = "carve"],
             UNCHANGED <<imageVars, present, ended, code, jobs, destroyed>>
      PROVE  FrontInv'
  <2>1. at = "output" /\ job \in JobRecords /\ job.answer = "" /\ job.line = NoLine /\ job.next = 1
    BY DEF AskOutput, FrontInv, ViewsTypeOK, NothingYet, OptionsKept, Before
  <2>2. job' \in JobRecords /\ job'.answer = "" /\ job'.line = NoLine /\ job'.next = 1
    BY <1>2, <2>1 DEF JobRecords, Options
  <2>3. OptionsKept' /\ TargetsMeant'
    BY <1>2, <2>2 DEF OptionsKept, TargetsMeant, Asking, Working
  <2> QED
    BY <1>2, <2>1, <2>2, <2>3, AskStep DEF Before, After
<1> QED
  BY <1>1, <1>2 DEF AskOutput

(* What the line means does not depend on the rest of the job.             *)
LEMMA SameMeaning ==
  ASSUME job'.line = job.line, job'.listing = job.listing, job'.target = job.target
  PROVE  /\ Whole' = Whole /\ AskedFor' = AskedFor
         /\ \A path : Meant(path) => Meant(path)'
<1>1. Whole' = Whole /\ AskedFor' = AskedFor
  BY DEF Whole, AskedFor
<1> QED
  BY <1>1 DEF Meant

(* Without a line the target is meant as a whole.                          *)
LEMMA NoLineWhole == job'.line = NoLine => Whole'
<1>1. NoLine.word = "none"
  BY DEF NoLine
<1> SUFFICES ASSUME job'.line = NoLine PROVE Whole'
  OBVIOUS
<1>2. job'.line.word = "none"
  BY <1>1
<1> QED
  BY <1>2 DEF Whole

LEMMA NoLineWholeNow == job.line = NoLine => Whole
<1>1. NoLine.word = "none"
  BY DEF NoLine
<1> SUFFICES ASSUME job.line = NoLine PROVE Whole
  OBVIOUS
<1>2. job.line.word = "none"
  BY <1>1
<1> QED
  BY <1>2 DEF Whole

LEMMA ProceedStep ==
  ASSUME FrontInv, Proceed, UNCHANGED view
  PROVE  FrontInv'
<1> USE DEF imageVars
<1>1. /\ at = "proceed" /\ job \in JobRecords /\ job.answer = "" /\ job.option = "erase"
      /\ job.line = NoLine /\ job.next = 1 /\ job.next \in DOMAIN job.targets
      /\ \A i \in DOMAIN job.targets : Meant(job.targets[i])
  BY DEF Proceed, FrontInv, ViewsTypeOK, NothingYet, OptionsKept, TargetsMeant, Before, Asking
<1>2. CASE Go("pause")
  BY <1>1, <1>2, LeaveStep DEF Go, Before, Asking, After
<1>3. CASE Go("standard")
  <2>1. at' = "standard" /\ job' = job /\ UNCHANGED <<cells, named, run, present, destroyed>>
    BY <1>3 DEF Go
  <2>2. OptionsKept'
    BY <1>1, <2>1 DEF OptionsKept, Working, Asking
  <2>3. TargetsMeant'
    BY <1>1, <2>1, SameMeaning DEF TargetsMeant
  <2> QED
    BY <1>1, <2>1, <2>2, <2>3, AskStep DEF Before, Asking
<1>4. CASE /\ at' = "selection" /\ job' = [job EXCEPT !.listing = Listing]
           /\ UNCHANGED <<imageVars, present, ended, code, jobs, destroyed>>
  <2>1. /\ job' \in JobRecords /\ job'.answer = "" /\ job'.option = "erase"
        /\ job'.line = NoLine /\ job'.next = 1 /\ job'.targets = job.targets
        /\ job'.target = job.target
    BY <1>1, <1>4, ListingType DEF JobRecords
  <2>2. OptionsKept'
    BY <1>4, <2>1 DEF OptionsKept
  <2>3. TargetsMeant'
    <3>1. Whole /\ Whole'
      BY <1>1, <2>1, NoLineWhole, NoLineWholeNow
    <3>2. \A i \in DOMAIN job.targets : job.targets[i] = job.target
      BY <1>1, <3>1 DEF Meant
    <3> QED
      BY <1>1, <1>4, <2>1, <3>1, <3>2 DEF TargetsMeant, Meant
  <2> QED
    BY <1>1, <1>4, <2>1, <2>2, <2>3, AskStep DEF Before, Asking
<1> QED
  BY <1>2, <1>3, <1>4 DEF Proceed

(* The numbers of a line are those it asks for.                            *)
NumbersMeant(numbers, line, max) ==
  /\ numbers \in SUBSET (0..max)
  /\ numbers # {} =>
       \/ line.word \in {"", "0"} /\ numbers = {0}
       \/ line.word = "all" /\ numbers = IF max = 0 THEN {0} ELSE 1..max
       \/ line.word = "list" /\ numbers = Asked(line)
       \/ line.word = "list" /\ Asked(line) = {} /\ numbers = {0}

LEMMA ParseMeant ==
  ASSUME NEW line, NEW max \in Nat
  PROVE  NumbersMeant(ParseItemSelection(line, max), line, max)
<1> DEFINE numbers == ParseItemSelection(line, max)
<1>1. numbers = CASE line.word \in {"", "0"} -> {0}
                  [] line.word = "all" -> IF max = 0 THEN {0} ELSE 1..max
                  [] line.word = "list" -> (CASE Asked(line) = {} -> {0}
                                              [] Asked(line) # {} /\ Asked(line) \subseteq 0..max -> Asked(line)
                                              [] OTHER -> {})
                  [] OTHER -> {}
  BY DEF ParseItemSelection
<1> SUFFICES NumbersMeant(numbers, line, max)
  BY DEF numbers
<1> HIDE DEF numbers
<1>2. CASE line.word \in {"", "0"}
  <2>1. numbers = {0}
    BY <1>1, <1>2
  <2>2. numbers \in SUBSET (0..max)
    BY <2>1
  <2>3. line.word \in {"", "0"} /\ numbers = {0}
    BY <1>2, <2>1
  <2> QED
    BY <2>2, <2>3, Zenon DEF NumbersMeant
<1>3. CASE line.word = "all"
  <2>1. numbers = IF max = 0 THEN {0} ELSE 1..max
    BY <1>1, <1>3
  <2>2. numbers \in SUBSET (0..max)
    BY <2>1
  <2> QED
    BY <1>3, <2>1, <2>2 DEF NumbersMeant
<1>4. CASE line.word = "list"
  <2>1. numbers = CASE Asked(line) = {} -> {0}
                    [] Asked(line) # {} /\ Asked(line) \subseteq 0..max -> Asked(line)
                    [] OTHER -> {}
    BY <1>1, <1>4
  <2>2. CASE Asked(line) = {}
    <3>1. numbers = {0}
      BY <2>1, <2>2
    <3> QED
      BY <1>4, <2>2, <3>1 DEF NumbersMeant
  <2>3. CASE Asked(line) # {} /\ Asked(line) \subseteq 0..max
    <3>1. numbers = Asked(line)
      BY <2>1, <2>3
    <3> QED
      BY <1>4, <2>3, <3>1 DEF NumbersMeant
  <2>4. CASE Asked(line) # {} /\ ~ (Asked(line) \subseteq 0..max)
    <3>1. numbers = {}
      BY <2>1, <2>4
    <3> QED
      BY <3>1 DEF NumbersMeant
  <2> QED
    BY <2>2, <2>3, <2>4
<1>5. CASE line.word \notin {"", "0", "all", "list"}
  <2>1. numbers = {}
    BY <1>1, <1>5
  <2> QED
    BY <2>1 DEF NumbersMeant
<1> QED
  BY <1>2, <1>3, <1>4, <1>5

(* The entries of a folder that become targets are those the line names,   *)
(* as the listing showed them.                                             *)
LEMMA SelectionStep ==
  ASSUME FrontInv, AskSelection, UNCHANGED view
  PROVE  FrontInv'
<1> USE DEF imageVars
<1>1. /\ at = "selection" /\ job \in JobRecords /\ job.answer = "" /\ job.option = "erase"
      /\ job.next = 1
  BY DEF AskSelection, FrontInv, ViewsTypeOK, NothingYet, OptionsKept, Before, Asking
<1> DEFINE typed == IF ended THEN {[word |-> "exit", ranges |-> <<>>]} ELSE Selections
           max == Len(job.listing)
<1>2. PICK line \in typed :
        LET numbers == ParseItemSelection(line, max)
        IN  CASE line.word = "q" -> Go("pause")
              [] line.word # "q" /\ numbers = {} -> UNCHANGED vars
              [] OTHER -> /\ at' = "standard"
                          /\ job' = [job EXCEPT !.line = line,
                                       !.targets = Targets(numbers, job.target, job.listing)]
                          /\ UNCHANGED <<imageVars, present, ended, code, jobs, destroyed>>
  BY DEF AskSelection
<1> DEFINE numbers == ParseItemSelection(line, max)
<1>3. job.listing \in Seq(Items) /\ max \in Nat /\ DOMAIN job.listing = 1..max /\ job.target \in Places
  <2>1. job.listing \in Seq(Items) /\ job.target \in Places
    BY <1>1 DEF JobRecords
  <2> QED
    BY <2>1
<1>4. CASE line.word = "q"
  <2>1. Go("pause")
    BY <1>2, <1>4
  <2> QED
    BY <1>1, <2>1, LeaveStep DEF Go, Before, Asking, After
<1>5. CASE line.word # "q" /\ numbers = {}
  <2>1. UNCHANGED vars
    BY <1>2, <1>5
  <2>2. present' \subseteq Places
    BY <2>1 DEF vars, dialogVars, FrontInv, ViewsTypeOK
  <2> QED
    BY <2>1, <2>2, KeptStep DEF vars, dialogVars
<1>6. CASE line.word # "q" /\ numbers # {}
  <2>1. /\ at' = "standard"
        /\ job' = [job EXCEPT !.line = line, !.targets = Targets(numbers, job.target, job.listing)]
        /\ UNCHANGED <<imageVars, present, destroyed>>
    BY <1>2, <1>6
  <2> HIDE DEF numbers
  <2>2. /\ numbers \in SUBSET (0..max)
        /\ \/ line.word \in {"", "0"} /\ numbers = {0}
           \/ line.word = "all" /\ numbers = IF max = 0 THEN {0} ELSE 1..max
           \/ line.word = "list" /\ numbers = Asked(line)
           \/ line.word = "list" /\ Asked(line) = {} /\ numbers = {0}
    <3> HIDE DEF max, typed
    <3>1. NumbersMeant(ParseItemSelection(line, max), line, max)
      BY <1>3, ParseMeant
    <3>2. NumbersMeant(numbers, line, max)
      BY <3>1 DEF numbers
    <3> QED
      BY <1>6, <3>2 DEF NumbersMeant
  <2>3. line \in Lines
    <3>1. ~ ended
      <4>1. [word |-> "exit", ranges |-> <<>>].word = "exit"
        OBVIOUS
      <4> QED
        BY <2>2, <4>1
    <3> QED
      BY <3>1, CommandLineAssumption DEF Lines
  <2> HIDE DEF typed
  <2> DEFINE targets == Targets(numbers, job.target, job.listing)
  <2>4. CASE numbers \subseteq {0}
    <3>1. targets = <<job.target>>
      BY <2>4 DEF Targets
    <3>2. targets \in Seq(Places) /\ DOMAIN targets = {1} /\ targets[1] = job.target
      BY <1>3, <3>1, OneIsSeq
    <3> HIDE DEF targets
    <3>3. /\ job' \in JobRecords /\ job'.answer = "" /\ job'.option = "erase" /\ job'.next = 1
          /\ job'.line = line /\ job'.targets = targets /\ job'.target = job.target
          /\ job'.listing = job.listing
      BY <1>1, <2>1, <2>3, <3>2 DEF JobRecords, targets
    <3>4. AskedFor' = IF line.word = "all" THEN 1..max ELSE Asked(line)
      BY <1>3, <3>3 DEF AskedFor
    <3> HIDE DEF max
    <3>5. line.word \in {"", "0"} \/ AskedFor' \subseteq {0}
      <4>1. CASE line.word = "all" /\ numbers = IF max = 0 THEN {0} ELSE 1..max
        <5>1. max = 0
          <6> SUFFICES ASSUME max # 0 PROVE FALSE
            OBVIOUS
          <6>1. max \in numbers
            BY <1>3, <4>1
          <6> QED
            BY <2>4, <6>1
        <5> QED
          BY <3>4, <4>1, <5>1
      <4>2. CASE line.word = "list" /\ (numbers = Asked(line) \/ Asked(line) = {})
        <5>1. AskedFor' = Asked(line)
          BY <3>4, <4>2
        <5> QED
          BY <2>4, <4>2, <5>1
      <4> QED
        BY <2>2, <4>1, <4>2
    <3>6. Whole'
      BY <3>3, <3>5 DEF Whole
    <3>7. OptionsKept'
      BY <2>1, <3>3 DEF OptionsKept, Asking, Working
    <3>8. TargetsMeant'
      BY <2>1, <3>2, <3>3, <3>6 DEF TargetsMeant, Meant
    <3> QED
      BY <1>1, <2>1, <3>3, <3>7, <3>8, AskStep DEF Before, Asking
  <2>5. CASE ~ (numbers \subseteq {0})
    <3>1. /\ targets \in Seq(Places) /\ 1 \in DOMAIN targets
          /\ \A i \in DOMAIN targets :
               \E n \in numbers : n > 0 /\ job.listing[n] # Folder /\ targets[i] = job.listing[n]
      <4> HIDE DEF max
      <4>1. numbers \in SUBSET (0..Len(job.listing))
        BY <2>2 DEF max
      <4> QED
        BY <1>3, <2>5, <4>1, TargetsPicked
    <3> HIDE DEF targets
    <3>2. /\ job' \in JobRecords /\ job'.answer = "" /\ job'.option = "erase" /\ job'.next = 1
          /\ job'.line = line /\ job'.targets = targets /\ job'.target = job.target
          /\ job'.listing = job.listing
      BY <1>1, <2>1, <2>3, <3>1 DEF JobRecords, targets
    <3>3. AskedFor' = IF line.word = "all" THEN 1..max ELSE Asked(line)
      BY <1>3, <3>2 DEF AskedFor
    <3> HIDE DEF max
    <3>4. line.word \in {"all", "list"} /\ numbers = AskedFor'
      BY <1>3, <2>2, <2>5, <3>3
    <3>5. ~ Whole'
      BY <2>5, <3>2, <3>4 DEF Whole
    <3>6. OptionsKept'
      BY <2>1, <3>2 DEF OptionsKept, Asking, Working
    <3>7. TargetsMeant'
      <4>1. ASSUME NEW i \in DOMAIN targets
            PROVE  \E n \in AskedFor' : n > 0 /\ targets[i] = job'.listing[n] /\ targets[i] # Folder
        <5>1. PICK n \in numbers : n > 0 /\ job.listing[n] # Folder /\ targets[i] = job.listing[n]
          BY <3>1
        <5> QED
          BY <3>2, <3>4, <5>1
      <4> QED
        BY <2>1, <3>1, <3>2, <3>5, <4>1 DEF TargetsMeant, Meant
    <3> QED
      BY <1>1, <2>1, <3>2, <3>6, <3>7, AskStep DEF Before, Asking
  <2> QED
    BY <2>4, <2>5
<1> QED
  BY <1>4, <1>5, <1>6

LEMMA StandardStep ==
  ASSUME FrontInv, AskStandard, UNCHANGED view
  PROVE  FrontInv'
<1> USE DEF imageVars
<1>1. /\ at = "standard" /\ job \in JobRecords /\ job.answer = "" /\ job.option \in Working
      /\ TargetsMeant /\ job.next = 1
  BY DEF AskStandard, FrontInv, ViewsTypeOK, NothingYet, OptionsKept, TargetsMeant, Before, Asking
<1>2. PICK line \in Strategies \cup {"q", "?", "exit"} :
        CASE line = "q" -> Go("pause")
          [] line \in {"?", "exit"} -> UNCHANGED vars
          [] OTHER -> /\ at' = "confirm" /\ job' = [job EXCEPT !.strategy = line]
                      /\ UNCHANGED <<imageVars, present, ended, code, jobs, destroyed>>
  BY DEF AskStandard, ReadLine
<1>3. CASE line = "q"
  <2>1. Go("pause")
    BY <1>2, <1>3
  <2> QED
    BY <1>1, <2>1, LeaveStep DEF Go, Before, Asking, After
<1>4. CASE line \in {"?", "exit"}
  <2>1. UNCHANGED vars
    BY <1>2, <1>4
  <2>2. present' \subseteq Places
    BY <2>1 DEF vars, dialogVars, FrontInv, ViewsTypeOK
  <2> QED
    BY <2>1, <2>2, KeptStep DEF vars, dialogVars
<1>5. CASE line \in Strategies
  <2>1. /\ at' = "confirm" /\ job' = [job EXCEPT !.strategy = line]
        /\ UNCHANGED <<imageVars, present, destroyed>>
    BY <1>2, <1>5 DEF Strategies
  <2>2. /\ job' \in JobRecords /\ job'.answer = "" /\ job'.next = 1
        /\ job'.option = job.option /\ job'.line = job.line /\ job'.listing = job.listing
        /\ job'.target = job.target /\ job'.targets = job.targets
    BY <1>1, <1>5, <2>1 DEF JobRecords
  <2>3. OptionsKept'
    BY <1>1, <2>1, <2>2 DEF FrontInv, OptionsKept, Asking
  <2>4. TargetsMeant'
    BY <1>1, <2>1, <2>2, SameMeaning DEF TargetsMeant, Asking
  <2> QED
    BY <1>1, <2>1, <2>2, <2>3, <2>4, AskStep DEF Before, Asking
<1> QED
  BY <1>2, <1>3, <1>4, <1>5

(* An answer given beside the target starts the work.  A task without       *)
(* targets is over at once.                                                *)
LEMMA StartStep ==
  ASSUME FrontInv, job' \in JobRecords, job'.answer # "", job'.beside = job'.target,
         job'.next = 1, job'.option \in Working,
         \/ at' = job'.option
         \/ at' = "pause" /\ job'.option = "erase" /\ job'.targets = <<>>,
         destroyed' = {}, run' = Idle, UNCHANGED <<cells, named, present>>,
         view' \in Views, ViewInv', TargetsMeant'
  PROVE  FrontInv'
<1>1. RunTypeOK' /\ RunInv'
  BY IdleRun DEF FrontInv, ViewsTypeOK
<1>2. at' \in {"erase", "sanitize", "pause"} /\ run'.phase = "idle" /\ ~ run'.report.verified
  BY DEF Working, Idle, NoReport
<1>3. ViewsTypeOK'
  BY <1>1, <1>2 DEF FrontInv, ViewsTypeOK, Working, After
<1>4. NothingYet' /\ Answered' /\ OptionsKept' /\ DestroyedMeant' /\ OneImage'
  BY <1>2 DEF NothingYet, Answered, OptionsKept, DestroyedMeant, OneImage, Before, Asking, Working
<1>5. Progress'
  <2>1. 1..(job'.next - 1) = {}
    BY NoneBefore, Zenon
  <2>2. job'.targets = <<>> => Range(job'.targets) = {}
    BY NothingInEmpty, Zenon
  <2>3. CASE at' = job'.option
    BY <2>1, <2>3 DEF Progress, After, Working
  <2>4. CASE at' = "pause" /\ job'.option = "erase" /\ job'.targets = <<>>
    <3>1. Range(job'.targets) \subseteq destroyed'
      BY <2>2, <2>4
    <3> QED
      BY <2>4, <3>1 DEF Progress
  <2> QED
    BY <2>3, <2>4
<1> QED
  BY <1>1, <1>3, <1>4, <1>5 DEF FrontInv

(* The two answers that start the work: the word typed, and --confirm.     *)
LEMMA ConfirmStep ==
  ASSUME FrontInv, AskConfirmation, UNCHANGED view
  PROVE  FrontInv'
<1> USE DEF imageVars
<1>1. /\ at = "confirm" /\ job \in JobRecords /\ job.answer = "" /\ job.option \in Working
      /\ TargetsMeant /\ job.next = 1 /\ destroyed = {} /\ run = Idle
      /\ view \in Views /\ ViewInv /\ (job.option = "sanitize" => job.line = NoLine)
  BY DEF AskConfirmation, FrontInv, ViewsTypeOK, NothingYet, OptionsKept, TargetsMeant, Before, Asking
<1>2. CASE Go("pause")
  BY <1>1, <1>2, LeaveStep DEF Go, Before, Asking, After
<1>3. CASE /\ at' = IF job.option = "sanitize" THEN "sanitize" ELSE "erase"
           /\ job' = [job EXCEPT !.answer = "DESTROY", !.beside = job.target]
           /\ UNCHANGED <<imageVars, present, ended, code, jobs, destroyed>>
  <2>1. /\ job' \in JobRecords /\ job'.answer = "DESTROY" /\ job'.next = 1
        /\ job'.option = job.option /\ job'.line = job.line /\ job'.listing = job.listing
        /\ job'.target = job.target /\ job'.targets = job.targets /\ job'.beside = job'.target
    BY <1>1, <1>3 DEF JobRecords
  <2>2. at' = job'.option
    BY <1>1, <1>3, <2>1 DEF Working
  <2>3. ViewInv'
    BY <1>1 DEF ViewInv
  <2>4. at' = "sanitize" => Whole'
    BY <1>1, <2>1, <2>2, NoLineWhole
  <2>5. TargetsMeant'
    BY <1>1, <2>1, <2>2, <2>4, SameMeaning DEF TargetsMeant, Asking, Working
  <2> QED
    BY <1>1, <1>3, <2>1, <2>2, <2>3, <2>5, StartStep
<1>4. PICK line \in ReadLine({"DESTROY", "destroy"}) :
        IF line # "DESTROY" THEN Go("pause")
        ELSE /\ at' = IF job.option = "sanitize" THEN "sanitize" ELSE "erase"
             /\ job' = [job EXCEPT !.answer = line, !.beside = job.target]
             /\ UNCHANGED <<imageVars, present, ended, code, jobs, destroyed>>
  BY DEF AskConfirmation
<1> QED
  BY <1>2, <1>3, <1>4

LEMMA CommandStep ==
  ASSUME FrontInv, Command, UNCHANGED view
  PROVE  FrontInv'
<1> USE DEF imageVars
<1>1. at = "command" /\ destroyed = {} /\ run = Idle /\ view \in Views /\ ViewInv
  BY DEF Command, FrontInv, ViewsTypeOK, NothingYet, Before
<1>2. ASSUME NEW codes, Exit(codes) PROVE FrontInv'
  BY <1>1, <1>2, LeaveStep DEF Exit, Before, After
<1>3. ASSUME NEW cmd \in {"erase", "sanitize"}, NEW path \in Paths, NEW s \in Strategies,
             Destroy(cmd, path, s)
      PROVE  FrontInv'
  <2>1. path \in Places /\ <<path>> \in Seq(Places) /\ DOMAIN <<path>> = {1} /\ <<path>>[1] = path
    BY OneIsSeq DEF Places
  <2>2. job' = [NoJob EXCEPT !.option = cmd, !.target = path, !.targets = <<path>>,
                             !.strategy = s, !.answer = "--confirm", !.beside = path]
    BY <1>3 DEF Destroy
  <2>3. NoJob \in JobRecords /\ NoJob.line = NoLine /\ NoJob.next = 1
    BY StartTypes DEF NoJob
  <2>4. /\ job' \in JobRecords /\ job'.answer = "--confirm" /\ job'.beside = job'.target
        /\ job'.next = 1 /\ job'.option = cmd /\ job'.line = NoLine /\ job'.target = path
        /\ job'.targets = <<path>>
    BY <2>1, <2>2, <2>3 DEF JobRecords, Options
  <2>5. at' = cmd /\ UNCHANGED <<cells, named, present>> /\ destroyed' = {} /\ run' = Idle
    BY <1>1, <1>3 DEF Destroy
  <2>6. ViewInv'
    BY <1>1 DEF ViewInv
  <2>7. TargetsMeant'
    BY <2>1, <2>4, <2>5, NoLineWhole DEF TargetsMeant, Meant
  <2> QED
    BY <1>1, <1>3, <2>4, <2>5, <2>6, <2>7, StartStep DEF Working
<1> QED
  BY <1>2, <1>3 DEF Command

-----------------------------------------------------------------------------
(* The work.  It goes on with the job that was confirmed, which is only     *)
(* ticked off.                                                             *)
SameJob ==
  /\ job' \in JobRecords
  /\ job'.option = job.option /\ job'.target = job.target /\ job'.listing = job.listing
  /\ job'.line = job.line /\ job'.targets = job.targets /\ job'.strategy = job.strategy
  /\ job'.answer = job.answer /\ job'.beside = job.beside

LEMMA WorkStep ==
  ASSUME FrontInv, at \in Working, at' \in {at} \cup After, SameJob,
         present' \subseteq Places, destroyed' \subseteq Places, UNCHANGED view,
         RunTypeOK', RunInv', OneImage', TargetsMeant', DestroyedMeant', Progress'
  PROVE  FrontInv'
<1>1. job.answer # "" /\ job.beside = job.target /\ job.option = at /\ view \in Views /\ ViewInv
  BY DEF FrontInv, ViewsTypeOK, Answered
<1>2. at' \in Working \cup After /\ at' \notin Before /\ at' \notin Asking
  BY DEF Working, After, Before, Asking
<1>3. ViewsTypeOK' /\ ViewInv'
  BY <1>1, <1>2 DEF SameJob, ViewsTypeOK, ViewInv
<1>4. Answered'
  BY <1>1 DEF SameJob, Answered, Working, After
<1>5. NothingYet' /\ OptionsKept'
  BY <1>2 DEF NothingYet, OptionsKept, Before, Asking
<1> QED
  BY <1>3, <1>4, <1>5 DEF FrontInv

(* What goes with a path is that path, or lies in the folder.              *)
LEMMA ErasedType ==
  ASSUME NEW path \in Places, present \subseteq Places, NEW done \in Erased(path)
  PROVE  /\ done.ok \in BOOLEAN /\ done.gone \subseteq Places /\ done.unseen \subseteq Places
         /\ done.gone \subseteq {path} \/ path = Folder
         /\ done.ok => path \in done.gone \cup done.unseen
<1> DEFINE inside == present \cap (Range(Entries) \cup {Newcomer})
           Outcome(ok, gone, lost) == [ok |-> ok, gone |-> gone, unseen |-> lost]
           Goal == /\ done.ok \in BOOLEAN /\ done.gone \subseteq Places /\ done.unseen \subseteq Places
                   /\ done.gone \subseteq {path} \/ path = Folder
                   /\ done.ok => path \in done.gone \cup done.unseen
<1>1. inside \subseteq Places
  OBVIOUS
<1>2. CASE done = Outcome(FALSE, {}, {})
  BY <1>2
<1>3. CASE path # Folder
  <2>1. done \in {Outcome(TRUE, {path}, {}), Outcome(FALSE, {path}, {}), Outcome(FALSE, {}, {})}
    BY <1>3 DEF Erased
  <2>2. CASE done = Outcome(TRUE, {path}, {})
    BY <2>2
  <2>3. CASE done = Outcome(FALSE, {path}, {})
    BY <2>3
  <2> QED
    BY <1>2, <2>1, <2>2, <2>3
<1>4. CASE path = Folder /\ done # Outcome(FALSE, {}, {})
  <2>1. \/ done = Outcome(TRUE, {path} \cup inside, {})
        \/ \E gone \in SUBSET inside : done = Outcome(FALSE, gone, {})
        \/ \E gone \in SUBSET inside : done = Outcome(TRUE, gone, {path})
    BY <1>4 DEF Erased
  <2> HIDE DEF inside
  <2>2. CASE done = Outcome(TRUE, {path} \cup inside, {})
    BY <1>1, <1>4, <2>2
  <2>3. ASSUME NEW gone \in SUBSET inside, done = Outcome(FALSE, gone, {}) PROVE Goal
    BY <1>1, <1>4, <2>3
  <2>4. ASSUME NEW gone \in SUBSET inside, done = Outcome(TRUE, gone, {path}) PROVE Goal
    BY <1>1, <1>4, <2>4
  <2> QED
    BY <2>1, <2>2, <2>3, <2>4
<1> QED
  BY <1>2, <1>3, <1>4

(* One more target is gone through.                                        *)
LEMMA EraseStep ==
  ASSUME FrontInv, EraseNext, UNCHANGED view
  PROVE  FrontInv'
<1> USE DEF imageVars
<1> DEFINE n == job.next
           path == job.targets[n]
<1>1. /\ at = "erase" /\ job \in JobRecords /\ n \in DOMAIN job.targets
      /\ present \subseteq Places /\ destroyed \subseteq Places
      /\ job.answer # "" /\ job.option = "erase" /\ run.phase = "idle"
      /\ \A i \in DOMAIN job.targets : Meant(job.targets[i])
  BY DEF EraseNext, FrontInv, ViewsTypeOK, Answered, OneImage, TargetsMeant, Working, After
<1>2. /\ job.targets \in Seq(Places) /\ n \in Nat /\ DOMAIN job.targets = 1..Len(job.targets)
      /\ Len(job.targets) \in Nat /\ path \in Places /\ job.ok \in BOOLEAN /\ Meant(path)
  <2>1. job.targets \in Seq(Places) /\ n \in Nat /\ job.ok \in BOOLEAN
    BY <1>1 DEF JobRecords
  <2>2. Meant(path)
    BY <1>1, Zenon
  <2>3. DOMAIN job.targets = 1..Len(job.targets) /\ Len(job.targets) \in Nat /\ path \in Places
    BY <1>1, <2>1, SeqFacts, Zenon
  <2> QED
    BY <2>1, <2>2, <2>3
<1>3. PICK done \in Erased(path) :
        LET ok == AllSucceeded(job.ok, done.ok)
        IN  /\ present' = present \ done.gone
            /\ destroyed' = destroyed \cup done.gone
            /\ job' = [job EXCEPT !.next = job.next + 1, !.ok = ok,
                                 !.unseen = job.unseen \cup done.unseen]
            /\ IF job.next = Len(job.targets) THEN Finish(ok) ELSE UNCHANGED <<at, ended, code, jobs>>
  BY DEF EraseNext
<1> DEFINE ok == AllSucceeded(job.ok, done.ok)
<1>4. /\ done.ok \in BOOLEAN /\ done.gone \subseteq Places /\ done.unseen \subseteq Places
      /\ done.gone \subseteq {path} \/ path = Folder
      /\ done.ok => path \in done.gone \cup done.unseen
  BY <1>1, <1>2, <1>3, ErasedType
<1>5. ok \in BOOLEAN /\ (ok => job.ok /\ done.ok)
  BY <1>2, <1>4 DEF AllSucceeded
<1> HIDE DEF ok
<1>6. SameJob /\ job'.next = n + 1 /\ job'.ok = ok /\ job'.unseen = job.unseen \cup done.unseen
  <2>1. /\ job' = [job EXCEPT !.next = job.next + 1, !.ok = ok, !.unseen = job.unseen \cup done.unseen]
        /\ n + 1 \in Nat
    BY <1>2, <1>3 DEF ok
  <2>2. job.unseen \cup done.unseen \in SUBSET Places
    BY <1>1, <1>4 DEF JobRecords
  <2> QED
    BY <1>1, <1>5, <2>1, <2>2 DEF SameJob, JobRecords
<1>7. \/ at' = "erase" /\ n # Len(job.targets)
      \/ at' \in After /\ n = Len(job.targets)
  <2>1. CASE n = Len(job.targets)
    <3>1. Finish(ok)
      BY <1>3, <2>1 DEF ok
    <3> QED
      BY <2>1, <3>1 DEF Finish, After
  <2>2. CASE n # Len(job.targets)
    <3>1. at' = at
      BY <1>3, <2>2
    <3> QED
      BY <1>1, <2>2, <3>1
  <2> QED
    BY <2>1, <2>2
<1>8. RunTypeOK' /\ RunInv' /\ run' = run
  BY KeptRun DEF FrontInv, ViewsTypeOK, EraseNext
<1>9. OneImage'
  BY <1>1, <1>6, <1>8 DEF FrontInv, OneImage, SameJob
<1>10. TargetsMeant'
  <2>1. CASE at' = "erase" /\ n # Len(job.targets)
    <3>1. n + 1 \in DOMAIN job.targets
      <4> HIDE DEF n
      <4>1. n \in 1..Len(job.targets) /\ n # Len(job.targets)
        BY <1>1, <1>2, <2>1, Zenon
      <4> QED
        BY <1>2, <4>1, NextIn, Zenon
    <3> QED
      BY <1>1, <1>6, <2>1, <3>1, SameMeaning DEF TargetsMeant, SameJob, Asking
  <2>2. CASE at' \in After
    BY <2>2 DEF TargetsMeant, After, Asking, Working
  <2> QED
    BY <1>7, <2>1, <2>2
<1>11. DestroyedMeant'
  <2>1. Whole' = Whole /\ job'.target = job.target /\ \A f : Meant(f) => Meant(f)'
    BY <1>6, SameMeaning DEF SameJob
  <2> SUFFICES ASSUME NEW f \in destroyed' PROVE Meant(f)' \/ (Whole' /\ job'.target = Folder)
    BY DEF DestroyedMeant
  <2>2. CASE f \in destroyed
    BY <2>1, <2>2 DEF FrontInv, DestroyedMeant
  <2>3. CASE f \in done.gone /\ path # Folder
    <3>1. f = path
      BY <1>4, <2>3
    <3> QED
      BY <1>2, <2>1, <3>1
  <2>4. CASE path = Folder
    <3>1. Whole /\ job.target = Folder
      BY <1>2, <2>4 DEF Meant
    <3> QED
      BY <2>1, <3>1
  <2> QED
    BY <1>3, <2>2, <2>3, <2>4
<1>12. Progress'
  <2> DEFINE passed == destroyed' \cup job'.unseen
  <2>1. ASSUME ok PROVE \A i \in 1..n : job.targets[i] \in passed
    <3> SUFFICES ASSUME NEW i \in 1..n PROVE job.targets[i] \in passed
      OBVIOUS
    <3>1. CASE i = n
      BY <1>3, <1>4, <1>5, <1>6, <2>1, <3>1
    <3>2. CASE i \in 1..(n - 1)
      BY <1>1, <1>3, <1>5, <1>6, <2>1, <3>2 DEF FrontInv, Progress
    <3> QED
      BY <1>2, <3>1, <3>2
  <2>2. CASE at' = "erase"
    <3>1. \A i \in 1..(job'.next - 1) : i \in 1..n
      BY <1>2, <1>6
    <3> QED
      BY <1>6, <2>1, <2>2, <3>1 DEF Progress, SameJob, After
  <2>3. CASE at' \in After /\ n = Len(job.targets)
    <3>1. ok => Range(job.targets) \subseteq passed
      BY <1>2, <2>1, <2>3 DEF Range
    <3> QED
      BY <1>1, <1>6, <2>3, <3>1 DEF Progress, SameJob, After
  <2> QED
    BY <1>7, <2>2, <2>3 DEF After
<1> QED
  BY <1>1, <1>3, <1>4, <1>6, <1>7, <1>8, <1>9, <1>10, <1>11, <1>12, WorkStep DEF Working

(* An image is refused, or its run begins; the run goes on, and its        *)
(* verdict becomes that of the job.                                        *)
LEMMA StartSanitizingStep ==
  ASSUME FrontInv, StartSanitizing, UNCHANGED view
  PROVE  FrontInv'
<1> USE DEF imageVars
<1>1. /\ at = "sanitize" /\ job \in JobRecords /\ run.phase = "idle" /\ job.answer # ""
      /\ TargetsMeant /\ DestroyedMeant /\ OneImage /\ present' = present /\ destroyed' = destroyed
      /\ present \subseteq Places /\ destroyed \subseteq Places /\ RunTypeOK /\ RunInv
      /\ job.strategy \in Strategies
  BY DEF StartSanitizing, FrontInv, ViewsTypeOK, Answered, Working, JobRecords
<1>2. CASE Finish(FALSE) /\ job' = [job EXCEPT !.ok = FALSE] /\ UNCHANGED imageVars
  <2>1. SameJob /\ job'.ok = FALSE
    BY <1>1, <1>2 DEF SameJob, JobRecords
  <2>2. at' \in After
    BY <1>2 DEF Finish, After
  <2>3. RunTypeOK' /\ RunInv' /\ run' = run
    BY <1>1, <1>2, KeptRun
  <2>4. OneImage'
    BY <1>1, <2>1, <2>2, <2>3 DEF OneImage, SameJob
  <2>5. TargetsMeant'
    BY <2>2 DEF TargetsMeant, After, Asking, Working
  <2>6. DestroyedMeant'
    <3>1. Whole' = Whole /\ job'.target = job.target /\ \A f : Meant(f) => Meant(f)'
      BY <2>1, SameMeaning DEF SameJob
    <3> QED
      BY <1>1, <3>1 DEF DestroyedMeant
  <2>7. Progress'
    BY <2>1, <2>2 DEF Progress, After
  <2> QED
    BY <1>1, <2>1, <2>2, <2>3, <2>4, <2>5, <2>6, <2>7, WorkStep DEF Working
<1>3. CASE Begin(job.strategy, job.target = Image, FALSE) /\ UNCHANGED <<at, job>>
  <2>1. /\ RunTypeOK' /\ RunInv'
        /\ \/ run'.phase = "done" /\ ~ run'.report.verified
           \/ run'.phase = "open" /\ run'.strategy = job.strategy /\ job.target = Image
    BY <1>1, <1>3, BeginRun
  <2>2. OneImage'
    BY <1>1, <1>3, <2>1 DEF OneImage
  <2>3. TargetsMeant' /\ DestroyedMeant'
    BY <1>1, <1>3, SameMeaning DEF TargetsMeant, DestroyedMeant
  <2>4. Progress'
    BY <1>1, <1>3 DEF Progress, After
  <2>5. SameJob
    BY <1>1, <1>3 DEF SameJob
  <2> QED
    BY <1>1, <1>3, <2>1, <2>2, <2>3, <2>4, <2>5, WorkStep DEF Working
<1> QED
  BY <1>2, <1>3 DEF StartSanitizing

LEMMA SanitizingStep ==
  ASSUME FrontInv, Sanitizing, UNCHANGED view
  PROVE  FrontInv'
<1>1. /\ at = "sanitize" /\ job \in JobRecords /\ UNCHANGED <<present, at, job>>
      /\ destroyed' = (IF cells' # cells THEN destroyed \cup {Image} ELSE destroyed)
      /\ TargetsMeant /\ DestroyedMeant /\ OneImage /\ SanitizeStep
      /\ present \subseteq Places /\ destroyed \subseteq Places /\ RunTypeOK /\ RunInv
  BY DEF Sanitizing, FrontInv, ViewsTypeOK
<1>2. run.phase \in {"open", "write", "verify"}
  BY <1>1 DEF SanitizeStep, OpenImage, WriteCell, EndPass, Verify
<1>3. job.target = Image /\ run.strategy = job.strategy /\ Whole
  BY <1>1, <1>2 DEF OneImage, TargetsMeant, Working
<1>4. RunTypeOK' /\ RunInv' /\ GoesOn
  BY <1>1, SanitizeRun
<1>5. OneImage'
  BY <1>1, <1>3, <1>4 DEF OneImage, GoesOn
<1>6. Whole' = Whole /\ \A f : Meant(f) => Meant(f)'
  BY <1>1, SameMeaning
<1>7. TargetsMeant'
  BY <1>1, <1>6 DEF TargetsMeant
<1>8. DestroyedMeant'
  <2>1. Meant(Image)'
    BY <1>1, <1>3, <1>6 DEF Meant
  <2> QED
    BY <1>1, <1>6, <2>1 DEF DestroyedMeant
<1>9. Progress'
  BY <1>1 DEF Progress, After
<1>10. SameJob
  BY <1>1 DEF SameJob
<1>11. destroyed' \subseteq Places
  BY <1>1, FolderApart
<1> QED
  BY <1>1, <1>4, <1>5, <1>7, <1>8, <1>9, <1>10, <1>11, WorkStep DEF Working

LEMMA EndSanitizingStep ==
  ASSUME FrontInv, EndSanitizing, UNCHANGED view
  PROVE  FrontInv'
<1> USE DEF imageVars
<1>1. /\ at = "sanitize" /\ job \in JobRecords /\ job.option = "sanitize"
      /\ DestroyedMeant /\ OneImage /\ present \subseteq Places /\ destroyed \subseteq Places
      /\ run.phase = "done" /\ Finish(run.report.verified)
      /\ job' = [job EXCEPT !.ok = run.report.verified]
      /\ UNCHANGED <<cells, named, run, present, destroyed>>
  BY DEF EndSanitizing, FrontInv, ViewsTypeOK, Answered, Working
<1>2. run.report.verified \in BOOLEAN
  BY DEF FrontInv, ViewsTypeOK, RunTypeOK, Runs, Reports
<1>3. SameJob /\ job'.ok = run.report.verified
  BY <1>1, <1>2 DEF SameJob, JobRecords
<1>4. at' \in After
  BY <1>1 DEF Finish, After
<1>5. RunTypeOK' /\ RunInv'
  BY <1>1, KeptRun DEF FrontInv, ViewsTypeOK
<1>6. OneImage'
  BY <1>1, <1>3, <1>4 DEF OneImage, SameJob
<1>7. TargetsMeant'
  BY <1>4 DEF TargetsMeant, After, Asking, Working
<1>8. DestroyedMeant'
  BY <1>1, <1>3, SameMeaning DEF DestroyedMeant, SameJob
<1>9. Progress'
  BY <1>1, <1>3, <1>4 DEF Progress, SameJob, After
<1> QED
  BY <1>1, <1>3, <1>4, <1>5, <1>6, <1>7, <1>8, <1>9, WorkStep DEF Working

(* After the pause the job and the run are forgotten.                      *)
LEMMA PauseStep ==
  ASSUME FrontInv, Pause, UNCHANGED view
  PROVE  FrontInv'
<1> USE DEF imageVars
<1>1. /\ at' \in {"menu", "off"} /\ job' = NoJob /\ destroyed' = {} /\ run' = Idle
      /\ UNCHANGED <<cells, named, present>> /\ view \in Views /\ ViewInv
      /\ present \subseteq Places /\ RunTypeOK
  BY DEF Pause, FrontInv, ViewsTypeOK
<1>2. job' \in JobRecords /\ job'.answer = "" /\ run'.phase = "idle" /\ ~ run'.report.verified
  BY <1>1, StartTypes DEF NoJob, Idle, NoReport
<1>3. RunTypeOK' /\ RunInv'
  BY <1>1, IdleRun
<1>4. ViewsTypeOK' /\ ViewInv'
  BY <1>1, <1>2, <1>3 DEF ViewsTypeOK, ViewInv, Before, After
<1>5. NothingYet' /\ Answered' /\ OptionsKept' /\ OneImage'
  BY <1>1, <1>2 DEF NothingYet, Answered, OptionsKept, OneImage, Asking, Working
<1>6. TargetsMeant' /\ DestroyedMeant' /\ Progress'
  BY <1>1, <1>2 DEF TargetsMeant, DestroyedMeant, Progress, Asking, Working
<1> QED
  BY <1>3, <1>4, <1>5, <1>6 DEF FrontInv

(* What another program does to the image changes nothing of the job.      *)
LEMMA MeddleStep ==
  ASSUME FrontInv, Meddle, UNCHANGED dialogVars, UNCHANGED view
  PROVE  FrontInv'
<1>1. /\ run' = run /\ run.phase \in {"open", "write", "verify"} /\ ~ run.report.verified
      /\ at = "sanitize" /\ UNCHANGED <<at, job, present, destroyed>>
  BY DEF Meddle, dialogVars, FrontInv, OneImage, RunInv, Reported
<1>2. RunTypeOK' /\ RunInv'
  BY MeddleRun DEF FrontInv, ViewsTypeOK
<1>3. OneImage'
  BY <1>1 DEF FrontInv, OneImage
<1>4. TargetsMeant' /\ DestroyedMeant'
  BY <1>1, SameMeaning DEF FrontInv, TargetsMeant, DestroyedMeant
<1>5. Progress'
  BY <1>1 DEF Progress, After
<1>6. SameJob /\ present' \subseteq Places /\ destroyed' \subseteq Places
  BY <1>1 DEF SameJob, FrontInv, ViewsTypeOK
<1> QED
  BY <1>1, <1>2, <1>3, <1>4, <1>5, <1>6, WorkStep DEF Working

-----------------------------------------------------------------------------
(* The window.                                                             *)
LEMMA WindowEdits ==
  ASSUME FrontInv,
         \/ SelectTarget \/ InspectDirectory \/ SelectDevice \/ SelectStandard
         \/ OpenModal \/ TypeWord \/ Cancel
  PROVE  FrontInv'
<1>1. view \in Views /\ ViewInv /\ present \subseteq Places
  BY DEF FrontInv, ViewsTypeOK
<1>2. ASSUME NEW v, Edit(v), v \in Views, v.ticked \subseteq DOMAIN v.listing,
             v.modal /\ v.word.text # "" => v.word.beside = v.path
      PROVE  FrontInv'
  <2>1. view' = v /\ UNCHANGED vars
    BY <1>2 DEF Edit
  <2>2. view' \in Views /\ ViewInv'
    BY <1>2, <2>1 DEF ViewInv
  <2>3. UNCHANGED <<cells, named, run, at, job, destroyed>> /\ present' \subseteq Places
    BY <1>1, <2>1 DEF vars, imageVars, dialogVars
  <2> QED
    BY <2>2, <2>3, EditStep
<1>3. /\ view.ticked \subseteq DOMAIN view.listing
      /\ view.modal /\ view.word.text # "" => view.word.beside = view.path
  BY <1>1 DEF ViewInv
<1>4. CASE SelectTarget
  <2>1. PICK path \in Paths :
          LET there == path \in present
              listing == IF there /\ path = Folder THEN Listing ELSE <<>>
          IN  Edit([view EXCEPT !.path = path, !.folder = there /\ path = Folder,
                      !.listing = listing, !.ticked = DOMAIN listing,
                      !.protected = there /\ Protected(path)])
    BY <1>4 DEF SelectTarget
  <2> DEFINE listing == IF path \in present /\ path = Folder THEN Listing ELSE <<>>
             folder == path \in present /\ path = Folder
             protected == path \in present /\ Protected(path)
             v == [view EXCEPT !.path = path, !.folder = folder, !.listing = listing,
                     !.ticked = DOMAIN listing, !.protected = protected]
  <2>2. Edit(v)
    BY <2>1
  <2>3. listing \in Seq(Items)
    <3>1. <<>> \in Seq(Items)
      OBVIOUS
    <3> QED
      BY <3>1, ListingType
  <2>4. folder \in BOOLEAN /\ protected \in BOOLEAN /\ path \in Places /\ ~ view.modal
    BY <1>4 DEF SelectTarget, Behind, Protected, Places
  <2> HIDE DEF listing, folder, protected
  <2>5. DOMAIN listing \subseteq Nat
    BY <2>3, SeqFacts
  <2>6. v \in Views /\ v.ticked = DOMAIN listing /\ v.listing = listing /\ v.modal = view.modal
    BY <1>1, <2>3, <2>4, <2>5 DEF Views
  <2> HIDE DEF v
  <2> QED
    BY <1>2, <2>2, <2>4, <2>6
<1>5. CASE InspectDirectory
  <2>1. ~ view.modal
    BY <1>5 DEF InspectDirectory, Behind
  <2>2. CASE Edit([view EXCEPT !.whole = ~ view.whole])
    BY <1>1, <1>2, <1>3, <2>1, <2>2 DEF Views
  <2>3. ASSUME NEW ticked \in SUBSET DOMAIN view.listing, Edit([view EXCEPT !.ticked = ticked])
        PROVE  FrontInv'
    <3> DEFINE v == [view EXCEPT !.ticked = ticked]
    <3>1. ticked \subseteq Nat
      BY <1>1, SeqFacts DEF Views
    <3>2. v \in Views /\ v.ticked = ticked /\ v.listing = view.listing /\ v.modal = view.modal
      BY <1>1, <3>1 DEF Views
    <3>3. Edit(v)
      BY <2>3
    <3> HIDE DEF v
    <3> QED
      BY <1>2, <2>1, <3>2, <3>3
  <2> QED
    BY <1>5, <2>2, <2>3 DEF InspectDirectory
<1>6. CASE SelectDevice
  <2>1. PICK path \in Paths \ Range(Entries), picked \in BOOLEAN :
          Edit([view EXCEPT !.path = path,
                  !.protected = IF picked THEN Protected(path) ELSE view.protected])
    BY <1>6 DEF SelectDevice
  <2> DEFINE protected == IF picked THEN Protected(path) ELSE view.protected
             v == [view EXCEPT !.path = path, !.protected = protected]
  <2>2. Edit(v) /\ ~ view.modal /\ path \in Places
    BY <1>6, <2>1 DEF SelectDevice, Behind, Places
  <2>3. protected \in BOOLEAN
    BY <1>1 DEF Protected, Views
  <2> HIDE DEF protected
  <2>4. v \in Views /\ v.ticked = view.ticked /\ v.listing = view.listing /\ v.modal = view.modal
    BY <1>1, <2>2, <2>3 DEF Views
  <2> HIDE DEF v
  <2> QED
    BY <1>2, <1>3, <2>2, <2>4
<1>7. CASE SelectStandard
  <2>1. PICK s \in Strategies : Edit([view EXCEPT !.strategy = s])
    BY <1>7 DEF SelectStandard
  <2> DEFINE v == [view EXCEPT !.strategy = s]
  <2>2. v \in Views /\ v.ticked = view.ticked /\ v.listing = view.listing /\ v.modal = view.modal
    BY <1>1 DEF Views
  <2>3. Edit(v) /\ ~ view.modal
    BY <1>7, <2>1 DEF SelectStandard, Behind
  <2> HIDE DEF v
  <2> QED
    BY <1>2, <1>3, <2>2, <2>3
<1>8. CASE OpenModal
  <2> DEFINE v == [view EXCEPT !.modal = TRUE, !.word = NoWord]
  <2>1. NoWord \in Answers /\ NoWord.text = ""
    BY FolderApart DEF NoWord, Answers
  <2>2. v \in Views /\ v.ticked = view.ticked /\ v.listing = view.listing /\ v.word = NoWord
    BY <1>1, <2>1 DEF Views
  <2>3. Edit(v)
    BY <1>8 DEF OpenModal
  <2> HIDE DEF v
  <2> QED
    BY <1>2, <1>3, <2>1, <2>2, <2>3
<1>9. CASE TypeWord
  <2>1. PICK w \in {"DESTROY", "destroy"} : Edit([view EXCEPT !.word = [text |-> w, beside |-> view.path]])
    BY <1>9 DEF TypeWord
  <2> DEFINE word == [text |-> w, beside |-> view.path]
             v == [view EXCEPT !.word = word]
  <2>2. word \in Answers /\ word.beside = view.path
    BY <1>1 DEF Answers, Views
  <2>3. Edit(v)
    BY <2>1
  <2> HIDE DEF word
  <2>4. /\ v \in Views /\ v.ticked = view.ticked /\ v.listing = view.listing /\ v.word = word
        /\ v.path = view.path
    BY <1>1, <2>2 DEF Views
  <2> HIDE DEF v
  <2> QED
    BY <1>2, <1>3, <2>2, <2>3, <2>4
<1>10. CASE Cancel
  <2> DEFINE v == [view EXCEPT !.modal = FALSE]
  <2>1. v \in Views /\ v.ticked = view.ticked /\ v.listing = view.listing /\ ~ v.modal
    BY <1>1 DEF Views
  <2>2. Edit(v)
    BY <1>10 DEF Cancel
  <2> HIDE DEF v
  <2> QED
    BY <1>2, <1>3, <2>1, <2>2
<1> QED
  BY <1>4, <1>5, <1>6, <1>7, <1>8, <1>9, <1>10

(* The boxes ticked are what the line of such a task asks for.             *)
LEMMA TickedAsked ==
  ASSUME NEW ticked \in SUBSET Nat, IsFiniteSet(ticked)
  PROVE  /\ [word |-> "list", ranges |-> SetToSeq({<<i, i>> : i \in ticked})] \in Lines
         /\ Asked([word |-> "list", ranges |-> SetToSeq({<<i, i>> : i \in ticked})]) = ticked
<1> DEFINE pairs == {<<i, i>> : i \in ticked}
           ranges == SetToSeq(pairs)
           line == [word |-> "list", ranges |-> ranges]
<1>1. IsFiniteSet(pairs)
  <2> DEFINE pair == [i \in ticked |-> <<i, i>>]
  <2>1. pair \in Surjection(ticked, pairs)
    BY DEF Surjection
  <2> HIDE DEF pair, pairs
  <2> QED
    BY <2>1, FS_Surjection
<1>2. ranges \in Seq(pairs) /\ \A r \in pairs : \E k \in DOMAIN ranges : ranges[k] = r
  <2> HIDE DEF pairs
  <2> QED
    BY <1>1, SetToSeqAll
<1> HIDE DEF ranges
<1>3. pairs \subseteq Nat \X Nat
  OBVIOUS
<1>4. ranges \in Seq(Nat \X Nat) /\ \A k \in DOMAIN ranges : ranges[k] \in pairs
  <2> HIDE DEF pairs
  <2> QED
    BY <1>2, <1>3, SeqFacts
<1>5. line \in Lines /\ line.ranges = ranges
  BY <1>4 DEF Lines, Words
<1>6. ASSUME NEW i \in ticked PROVE Span(<<i, i>>) = {i}
  BY DEF Span
<1>7. Asked(line) \subseteq ticked
  <2> SUFFICES ASSUME NEW k \in DOMAIN ranges PROVE Span(ranges[k]) \subseteq ticked
    BY <1>5 DEF Asked
  <2>1. PICK i \in ticked : ranges[k] = <<i, i>>
    BY <1>4
  <2> QED
    BY <1>6, <2>1
<1>8. ticked \subseteq Asked(line)
  <2> SUFFICES ASSUME NEW i \in ticked PROVE i \in Asked(line)
    OBVIOUS
  <2>1. <<i, i>> \in pairs
    OBVIOUS
  <2>2. PICK k \in DOMAIN ranges : ranges[k] = <<i, i>>
    BY <1>2, <2>1
  <2>3. i \in Span(ranges[k])
    BY <1>6, <2>2
  <2> QED
    BY <1>5, <2>3 DEF Asked
<1> HIDE DEF line
<1> QED
  BY <1>5, <1>7, <1>8 DEF line, ranges

(* What the button starts is about the path and the boxes of that moment.  *)
LEMMA PressStep ==
  ASSUME FrontInv, NEW targets \in Seq(Places), NEW line \in Lines, NEW strategy \in Strategies,
         Press(targets, line, strategy), view.kind \in Working,
         \/ at' = view.kind
         \/ at' = "pause" /\ view.kind = "erase" /\ targets = <<>>,
         TargetsMeant'
  PROVE  FrontInv'
<1> USE DEF imageVars
<1>1. /\ view \in Views /\ ViewInv /\ view.modal /\ view.word.text = "DESTROY"
      /\ view' = [view EXCEPT !.modal = FALSE]
      /\ destroyed' = {} /\ run' = Idle /\ UNCHANGED <<cells, named, present>>
  BY DEF Press, FrontInv, ViewsTypeOK
<1>2. job' = [NoJob EXCEPT !.option = view.kind, !.target = view.path,
               !.listing = view.listing, !.line = line, !.targets = targets,
               !.strategy = strategy, !.answer = view.word.text, !.beside = view.word.beside]
  BY DEF Press
<1>3. /\ view.path \in Places /\ view.listing \in Seq(Items) /\ view.word.beside = view.path
      /\ view.word.text = "DESTROY"
  BY <1>1 DEF Views, ViewInv
<1>4. /\ job' \in JobRecords /\ job'.answer = "DESTROY" /\ job'.beside = job'.target
      /\ job'.next = 1 /\ job'.option = view.kind /\ job'.targets = targets
  <2>1. NoJob \in JobRecords /\ NoJob.next = 1 /\ view.kind \in Options
    BY StartTypes DEF NoJob, Working, Options
  <2> QED
    BY <1>2, <1>3, <2>1 DEF JobRecords
<1>5. view' \in Views /\ ViewInv'
  <2>1. /\ view' \in Views /\ view'.ticked = view.ticked /\ view'.listing = view.listing
        /\ ~ view'.modal
    BY <1>1 DEF Views
  <2> QED
    BY <1>1, <2>1 DEF ViewInv
<1> QED
  BY <1>1, <1>4, <1>5, StartStep

LEMMA PressSanitizeStep ==
  ASSUME FrontInv, PressSanitize
  PROVE  FrontInv'
<1>1. /\ Press(<<view.path>>, NoLine, view.strategy) /\ view.kind = "sanitize" /\ at' = "sanitize"
      /\ view \in Views
  BY DEF PressSanitize, FrontInv, ViewsTypeOK
<1>2. view.path \in Places /\ view.strategy \in Strategies /\ NoLine \in Lines
  BY <1>1, StartTypes DEF Views
<1>3. /\ <<view.path>> \in Seq(Places) /\ DOMAIN <<view.path>> = {1}
      /\ <<view.path>>[1] = view.path
  BY <1>2, OneIsSeq
<1>4. /\ job'.line = NoLine /\ job'.target = view.path /\ job'.targets = <<view.path>>
      /\ job'.next = 1
  <2>1. NoJob \in JobRecords /\ NoJob.next = 1
    BY StartTypes DEF NoJob
  <2> QED
    BY <1>1, <2>1 DEF Press, JobRecords
<1>5. Whole'
  BY <1>4, NoLineWhole
<1>6. TargetsMeant'
  BY <1>1, <1>3, <1>4, <1>5 DEF TargetsMeant, Meant, Asking
<1> QED
  BY <1>1, <1>2, <1>3, <1>6, PressStep DEF Working

LEMMA PressEraseStep ==
  ASSUME FrontInv, PressErase
  PROVE  FrontInv'
<1> DEFINE boxed == view.folder /\ ~ view.whole
           list == [word |-> "list", ranges |-> SetToSeq({<<i, i>> : i \in view.ticked})]
           line == IF boxed THEN list ELSE NoLine
           targets == EraseTargets
<1>1. /\ Press(targets, line, "clear") /\ view.kind = "erase" /\ view \in Views /\ ViewInv
      /\ at' = IF targets = <<>> THEN "pause" ELSE "erase"
  BY DEF PressErase, FrontInv, ViewsTypeOK
<1>2. /\ view.path \in Places /\ view.listing \in Seq(Items)
      /\ view.ticked \in SUBSET DOMAIN view.listing /\ "clear" \in Strategies
  BY <1>1 DEF Views, ViewInv, Strategies
<1>3. /\ DOMAIN view.listing = 1..Len(view.listing) /\ Len(view.listing) \in Nat
      /\ view.ticked \in SUBSET (0..Len(view.listing)) /\ view.ticked \in SUBSET Nat
      /\ IsFiniteSet(view.ticked)
  <2>1. DOMAIN view.listing = 1..Len(view.listing) /\ Len(view.listing) \in Nat
    BY <1>2, SeqFacts
  <2>2. view.ticked \in SUBSET (1..Len(view.listing)) /\ IsFiniteSet(1..Len(view.listing))
    <3>1. view.ticked \in SUBSET (1..Len(view.listing))
      BY <1>2, <2>1, Zenon
    <3>2. IsFiniteSet(1..Len(view.listing))
      BY <2>1, FS_Interval
    <3> QED
      BY <3>1, <3>2, Zenon
  <2>3. IsFiniteSet(view.ticked)
    BY <2>2, FS_Subset
  <2> QED
    BY <2>1, <2>2, <2>3
<1>4. list \in Lines /\ Asked(list) = view.ticked /\ list.word = "list"
  <2>1. list.word = "list"
    OBVIOUS
  <2> QED
    BY <1>3, <2>1, TickedAsked
<1> HIDE DEF list
<1>5. line \in Lines
  BY <1>4, StartTypes
<1>6. /\ job'.line = line /\ job'.target = view.path /\ job'.targets = targets
      /\ job'.next = 1 /\ job'.listing = view.listing
  <2>1. NoJob \in JobRecords /\ NoJob.next = 1
    BY StartTypes DEF NoJob
  <2> HIDE DEF line, targets
  <2> QED
    BY <1>1, <2>1 DEF Press, JobRecords
<1>7. ASSUME targets \in Seq(Places), TargetsMeant' PROVE FrontInv'
  <2> HIDE DEF line, targets
  <2> QED
    BY <1>1, <1>2, <1>5, <1>7, PressStep DEF Working
<1>8. CASE ~ boxed
  <2>1. targets = <<view.path>> /\ line = NoLine
    BY <1>8 DEF EraseTargets
  <2> HIDE DEF line, targets
  <2>2. targets \in Seq(Places) /\ DOMAIN targets = {1} /\ targets[1] = view.path
    BY <1>2, <2>1, OneIsSeq
  <2>3. Whole'
    BY <1>6, <2>1, NoLineWhole
  <2>4. TargetsMeant'
    BY <1>1, <1>6, <2>2, <2>3 DEF TargetsMeant, Meant, Asking
  <2> QED
    BY <1>7, <2>2, <2>4
<1>9. CASE boxed /\ view.ticked = {}
  <2>1. targets = <<>>
    BY <1>9 DEF EraseTargets, Ticked
  <2>2. <<>> \in Seq(Places)
    OBVIOUS
  <2>3. at' = "pause"
    BY <1>1, <2>1
  <2>4. TargetsMeant'
    BY <2>3 DEF TargetsMeant, Asking, Working
  <2> QED
    BY <1>7, <2>1, <2>2, <2>4
<1>10. CASE boxed /\ view.ticked # {}
  <2>1. ~ (view.ticked \subseteq {0})
    BY <1>2, <1>3, <1>10
  <2>2. targets = Targets(view.ticked, view.path, view.listing) /\ line = list
    BY <1>10 DEF EraseTargets, Ticked
  <2> HIDE DEF line, targets
  <2>3. /\ targets \in Seq(Places) /\ 1 \in DOMAIN targets
        /\ \A i \in DOMAIN targets :
             \E n \in view.ticked :
               n > 0 /\ view.listing[n] # Folder /\ targets[i] = view.listing[n]
    <3> DEFINE picks == Targets(view.ticked, view.path, view.listing)
    <3>1. /\ picks \in Seq(Places) /\ 1 \in DOMAIN picks
          /\ \A i \in DOMAIN picks :
               \E n \in view.ticked :
                 n > 0 /\ view.listing[n] # Folder /\ picks[i] = view.listing[n]
      BY <1>2, <1>3, <2>1, TargetsPicked, Zenon
    <3> HIDE DEF picks
    <3> QED
      BY <2>2, <3>1, Zenon DEF picks
  <2>4. job'.line.word = "list" /\ AskedFor' = view.ticked
    <3>1. job'.line = list
      BY <1>6, <2>2
    <3>2. job'.line.word = "list" /\ Asked(job'.line) = view.ticked
      BY <1>4, <3>1
    <3> QED
      BY <3>2 DEF AskedFor
  <2>5. ~ Whole'
    BY <2>1, <2>4 DEF Whole
  <2>6. at' # "sanitize" /\ at' \notin Asking
    BY <1>1 DEF Asking
  <2>7. ASSUME NEW i \in DOMAIN targets
        PROVE  \E n \in AskedFor' : n > 0 /\ targets[i] = job'.listing[n] /\ targets[i] # Folder
    BY <1>6, <2>3, <2>4
  <2>8. TargetsMeant'
    BY <1>6, <2>3, <2>5, <2>6, <2>7 DEF TargetsMeant, Meant
  <2> QED
    BY <1>7, <2>3, <2>8
<1> QED
  BY <1>8, <1>9, <1>10

-----------------------------------------------------------------------------
(* FrontInv is inductive.                                                  *)
LEMMA InitFrontInv == ASSUME ViewsInit PROVE FrontInv
<1>1. /\ at \in {"menu", "option", "command", "window"} /\ job = NoJob /\ destroyed = {}
      /\ ImageInit /\ present = {Folder, Image, System, Device} \cup Range(Entries)
      /\ \E kind \in {"none", "erase", "sanitize"} : view = EmptyView(kind)
  BY DEF ViewsInit, Init
<1>2. /\ run = Idle /\ run.phase = "idle" /\ ~ run.report.verified
      /\ job.answer = "" /\ NoJob \in JobRecords
  BY <1>1, StartTypes DEF ImageInit, Idle, NoReport, NoJob
<1>3. RunTypeOK
  <2>1. PICK c \in FirstImages : cells = <<c, OtherImage>>
    BY <1>1 DEF ImageInit
  <2>2. c \in Seq(Contents) /\ OtherImage \in Seq(Contents)
    BY ImagesAssumption
  <2>3. cells \in [1..2 -> Seq(Contents)]
    BY <2>1, <2>2, SMT
  <2>4. named \in 1..2
    BY <1>1 DEF ImageInit
  <2>5. run \in Runs
    BY <1>2, StartTypes, Zenon
  <2> QED
    BY <2>3, <2>4, <2>5 DEF RunTypeOK
<1>4. RunInv
  BY <1>2 DEF RunInv, Writing, Written, Reported
<1>5. view \in Views /\ ViewInv
  <2>1. PICK kind \in {"none", "erase", "sanitize"} : view = EmptyView(kind)
    BY <1>1
  <2>2. NoWord \in Answers /\ <<>> \in Seq(Items) /\ "clear" \in Strategies
    BY FolderApart DEF NoWord, Answers, Strategies
  <2>3. view \in Views /\ view.ticked = {} /\ view.modal = FALSE
    BY <2>1, <2>2, FolderApart DEF EmptyView, Views
  <2> QED
    BY <2>3 DEF ViewInv
<1>6. ViewsTypeOK
  BY <1>1, <1>2, <1>3, <1>5 DEF ViewsTypeOK, Before, Places, Paths
<1>7. NothingYet /\ Answered /\ OptionsKept /\ OneImage
  BY <1>1, <1>2 DEF NothingYet, Answered, OptionsKept, OneImage, Asking, Working
<1>8. TargetsMeant /\ DestroyedMeant /\ Progress
  BY <1>1, <1>2 DEF TargetsMeant, DestroyedMeant, Progress, Asking, Working, After
<1> QED
  BY <1>4, <1>5, <1>6, <1>7, <1>8 DEF FrontInv

LEMMA NextFrontInv == ASSUME FrontInv, [Next]_allVars PROVE FrontInv'
<1>1. ASSUME EraseNext \/ StartSanitizing \/ Sanitizing \/ EndSanitizing, UNCHANGED view
      PROVE  FrontInv'
  BY <1>1, EraseStep, StartSanitizingStep, SanitizingStep, EndSanitizingStep
<1>2. CASE Window
  <2>1. CASE Work /\ UNCHANGED <<view, edits>>
    BY <1>1, <2>1 DEF Work
  <2> QED
    BY <1>2, <2>1, WindowEdits, PressEraseStep, PressSanitizeStep DEF Window
<1>3. CASE Terminal
  <2>1. Program /\ UNCHANGED view
    BY <1>3 DEF Terminal
  <2> QED
    BY <1>1, <2>1, MenuStep, PauseStep, PathStep, OutputStep, ProceedStep, SelectionStep,
       StandardStep, ConfirmStep, CommandStep DEF Program
<1>4. CASE Around
  <2>1. UNCHANGED view
    BY <1>4 DEF Around
  <2>2. present \subseteq Places
    BY DEF FrontInv, ViewsTypeOK
  <2>3. CASE EndInput
    BY <2>1, <2>2, <2>3, KeptStep DEF EndInput, imageVars
  <2>4. CASE Appear
    BY <2>1, <2>2, <2>4, KeptStep DEF Appear, imageVars, Places
  <2>5. CASE Meddle /\ UNCHANGED dialogVars
    BY <2>1, <2>5, MeddleStep
  <2> QED
    BY <1>4, <2>3, <2>4, <2>5 DEF Around
<1>5. CASE UNCHANGED allVars
  <2>1. present \subseteq Places
    BY DEF FrontInv, ViewsTypeOK
  <2> QED
    BY <1>5, <2>1, KeptStep DEF allVars, vars, imageVars, dialogVars
<1> QED
  BY <1>2, <1>3, <1>4, <1>5 DEF Next

(* The invariant of the front ends holds in every state.                   *)
THEOREM FrontInvariant == Spec => []FrontInv
BY InitFrontInv, NextFrontInv, PTL DEF Spec

(* In every state, what this job destroyed was confirmed: the word was     *)
(* given while that target was shown, and of a folder only the entries     *)
(* named, as the listing had shown them, are gone.                         *)
THEOREM ChosenAlways == Spec => []ChosenOnly
<1>1. ASSUME FrontInv PROVE ChosenOnly
  <2> SUFFICES ASSUME destroyed # {}
               PROVE  /\ job.answer \in {"DESTROY", "--confirm"} /\ job.beside = job.target
                      /\ \A f \in destroyed :
                           IF Whole THEN f = job.target \/ job.target = Folder
                           ELSE \E n \in AskedFor : n > 0 /\ f = job.listing[n]
    BY DEF ChosenOnly
  <2>1. job.answer \in {"", "DESTROY", "--confirm"}
    BY <1>1 DEF FrontInv, ViewsTypeOK, JobRecords
  <2>2. job.answer # "" /\ job.beside = job.target
    BY <1>1 DEF FrontInv, Answered
  <2> QED
    BY <1>1, <2>1, <2>2 DEF FrontInv, DestroyedMeant, Meant
<1> QED
  BY <1>1, FrontInvariant, PTL

(* In every state, a job that is over and called a success has destroyed   *)
(* all its targets, but for a folder that could not be looked at, or has    *)
(* left the last pass in every cell of the image.                          *)
THEOREM SuccessAlwaysTrue == Spec => []SuccessTrue
<1>1. ASSUME FrontInv PROVE SuccessTrue
  <2> SUFFICES ASSUME at \in After, job.answer # "", job.ok
               PROVE  IF job.option = "erase" THEN Range(job.targets) \subseteq destroyed \cup job.unseen
                      ELSE /\ run.report.record = "SUCCESS"
                           /\ run.report.passes = TotalPasses(job.strategy)
                           /\ \A i \in 1..run.size :
                                cells[run.fd][i] = FillPassBuffer(job.strategy, TotalPasses(job.strategy))
    BY DEF SuccessTrue, After
  <2>1. CASE job.option = "erase"
    BY <1>1, <2>1 DEF FrontInv, Progress
  <2>2. CASE job.option # "erase"
    <3>1. run.report.verified
      BY <1>1, <2>2 DEF FrontInv, Progress
    <3>2. AllFilled /\ run.report.record = "SUCCESS" /\ run.strategy = job.strategy
      BY <1>1, <3>1 DEF FrontInv, RunInv, Reported, OneImage
    <3> QED
      BY <2>2, <3>2 DEF AllFilled, Filled
  <2> QED
    BY <2>1, <2>2
<1> QED
  BY <1>1, FrontInvariant, PTL
-----------------------------------------------------------------------------
(***************************************************************************)
(* A batch erasure, for every set of files, every protected part of them,  *)
(* and every selection.                                                    *)
(***************************************************************************)
Fates == {"absent", "data", "spoiled", "erased", "deleted"}

BatchTypeOK ==
  /\ files \in [Files -> Fates]
  /\ root \in BOOLEAN
  /\ selected_files \in Seq(Loose)
  /\ pc \in {"idle", "files", "shred", "root"}
  /\ pc # "idle" => todoFiles \in Seq(Loose)
  /\ errors \in BOOLEAN
  /\ unseen \in BOOLEAN

(***************************************************************************)
(* The inductive invariant.  As long as no error was noted, a file that    *)
(* was selected is erased or still to do, and the folder, if it was        *)
(* selected, is gone, out of sight or still to do.  It carries over because nothing      *)
(* brings an erased file or the folder back: a second call for the same    *)
(* file does not come back verified, remove_all leaves what is not there   *)
(* as it is, and other programs make files only where there was none.      *)
(***************************************************************************)
Running == pc # "idle" /\ ~ errors
ToDo(f) == \E j \in DOMAIN todoFiles : todoFiles[j] = f
FilesDone ==
  Running => \A i \in DOMAIN selected_files :
               files[selected_files[i]] = "erased" \/ ToDo(selected_files[i])
FoldersDone == Running /\ selected_folders # <<>> => ~ root \/ unseen \/ todoFolders # <<>>

BatchInv ==
  /\ BatchTypeOK
  /\ FilesDone
  /\ FoldersDone

LEMMA InitBatchInv == BatchInit => BatchInv
<1> SUFFICES ASSUME BatchInit PROVE BatchInv
  OBVIOUS
<1>1. files \in [Files -> Fates]
  BY DEF BatchInit, Fates
<1>2. selected_files \in Seq(Loose)
  BY DEF BatchInit
<1>3. root \in BOOLEAN /\ errors \in BOOLEAN /\ unseen \in BOOLEAN /\ pc = "idle"
  BY DEF BatchInit
<1> QED
  BY <1>1, <1>2, <1>3 DEF BatchInv, BatchTypeOK, FilesDone, FoldersDone, Running

(* The lists of a run as they were, and the erased files as erased. *)
LEMMA NothingUndone ==
  ASSUME BatchInv, files' \in [Files -> Fates],
         \A f \in Files : files[f] = "erased" => files'[f] = "erased",
         UNCHANGED <<selected_files, todoFiles>>,
         pc \in {"files", "shred", "root"}, pc' \in {"files", "shred", "root"},
         errors' \in BOOLEAN, errors => errors', root' \in BOOLEAN, unseen' \in BOOLEAN, FoldersDone'
  PROVE  BatchInv'
<1>1. BatchTypeOK'
  BY DEF BatchInv, BatchTypeOK
<1>2. FilesDone'
  <2> SUFFICES ASSUME Running', NEW i \in DOMAIN selected_files
               PROVE  files'[selected_files[i]] = "erased" \/ ToDo(selected_files[i])
    BY DEF FilesDone, ToDo
  <2>1. Running
    BY DEF Running
  <2>2. selected_files[i] \in Files
    BY DEF BatchInv, BatchTypeOK, Files
  <2> QED
    BY <2>1, <2>2 DEF BatchInv, FilesDone
<1> QED
  BY <1>1, <1>2 DEF BatchInv

(* A step of other programs, or one that runs no batch. *)
LEMMA SelectionBatchInv ==
  ASSUME BatchInv,
         \/ \E f \in Loose : addFile(f)
         \/ addFolder \/ clearSelection \/ confirm \/ unconfirm
  PROVE  BatchInv'
<1>1. pc = "idle" /\ UNCHANGED <<disk, pc, loops, accounts>>
  BY DEF addFile, addFolder, clearSelection, confirm, unconfirm
<1>2. selected_files' \in Seq(Loose)
  <2>1. ASSUME NEW f \in Loose, addFile(f) PROVE selected_files' \in Seq(Loose)
    BY <2>1 DEF addFile, BatchInv, BatchTypeOK
  <2>2. CASE addFolder \/ clearSelection \/ confirm \/ unconfirm
    <3>1. selected_files' = selected_files \/ selected_files' = <<>>
      BY <2>2 DEF addFolder, clearSelection, confirm, unconfirm
    <3>2. <<>> \in Seq(Loose)
      OBVIOUS
    <3> QED
      BY <3>1, <3>2 DEF BatchInv, BatchTypeOK
  <2> QED
    BY <2>1, <2>2
<1>3. pc' = "idle" /\ files' = files /\ root' = root /\ errors' = errors /\ unseen' = unseen
  BY <1>1 DEF disk, loops, accounts
<1>4. BatchTypeOK'
  BY <1>2, <1>3 DEF BatchInv, BatchTypeOK
<1> QED
  BY <1>3, <1>4 DEF BatchInv, FilesDone, FoldersDone, Running

LEMMA executeBatchInv == BatchInv /\ execute => BatchInv'
<1> SUFFICES ASSUME BatchInv, execute PROVE BatchInv'
  OBVIOUS
<1> USE DEF execute, disk, selection, loops
<1>1. CASE UNCHANGED <<pc, loops, unseen>>
  BY <1>1 DEF BatchInv, BatchTypeOK, FilesDone, FoldersDone, Running
<1>2. CASE ~ UNCHANGED <<pc, loops, unseen>>
  <2>1. /\ pc' = "files" /\ todoFiles' = selected_files /\ todoFolders' = selected_folders
        /\ errors' = FALSE /\ unseen' = FALSE
        /\ UNCHANGED <<files, root, selected_files, selected_folders>>
    BY <1>2
  <2>2. BatchTypeOK' /\ FoldersDone'
    BY <2>1 DEF BatchInv, BatchTypeOK, FoldersDone
  <2>3. FilesDone'
    BY <2>1 DEF FilesDone, ToDo
  <2> QED
    BY <2>2, <2>3 DEF BatchInv
<1> QED
  BY <1>1, <1>2

(* The file at the head of the list is erased, or an error is noted. *)
LEMMA FileLoopBatchInv == BatchInv /\ FileLoop => BatchInv'
<1> SUFFICES ASSUME BatchInv, FileLoop PROVE BatchInv'
  OBVIOUS
<1> DEFINE head == Head(todoFiles)
<1>1. /\ pc = "files" /\ pc' = "files" /\ todoFiles # <<>> /\ todoFiles' = Tail(todoFiles)
      /\ UNCHANGED <<root, selected_files, selected_folders, todoFolders, unseen>>
      /\ \/ FileErased(head) /\ UNCHANGED errors
         \/ FileNotErased(head) /\ errors' = TRUE
  BY DEF FileLoop, selection, accounts
<1>2. todoFiles \in Seq(Loose) /\ head \in Loose /\ head \in Files
  BY <1>1 DEF BatchInv, BatchTypeOK, Files
<1> HIDE DEF head
<1>3. files' \in [Files -> Fates]
  <2>1. files' = files \/ \E fate \in Fates : files' = [files EXCEPT ![head] = fate]
    BY <1>1 DEF FileErased, FileNotErased, Fates
  <2> QED
    BY <1>2, <2>1 DEF BatchInv, BatchTypeOK
<1>4. BatchTypeOK'
  <2>1. todoFiles' \in Seq(Loose)
    BY <1>1, <1>2
  <2>2. errors' \in BOOLEAN
    <3>1. errors' = errors \/ errors' = TRUE
      BY <1>1
    <3> QED
      BY <3>1 DEF BatchInv, BatchTypeOK
  <2> QED
    BY <1>1, <1>3, <2>1, <2>2 DEF BatchInv, BatchTypeOK
<1>5. FilesDone'
  <2> SUFFICES ASSUME Running', NEW i \in DOMAIN selected_files
               PROVE  files'[selected_files[i]] = "erased" \/ ToDo(selected_files[i])'
    BY <1>1 DEF FilesDone
  <2> DEFINE f == selected_files[i]
  <2>1. Running /\ files' = [files EXCEPT ![head] = "erased"]
    BY <1>1 DEF Running, FileErased
  <2>2. f \in Files
    BY DEF BatchInv, BatchTypeOK, Files
  <2>3. CASE files[f] = "erased"
    BY <1>2, <2>1, <2>2, <2>3 DEF BatchInv, BatchTypeOK
  <2>4. CASE f = head
    BY <1>2, <2>1, <2>4 DEF BatchInv, BatchTypeOK
  <2>5. CASE files[f] # "erased" /\ f # head
    <3>1. PICK j \in DOMAIN todoFiles : todoFiles[j] = f
      BY <2>1, <2>5 DEF BatchInv, FilesDone, ToDo
    <3>2. j # 1
      BY <1>2, <2>5, <3>1 DEF head
    <3>3. j - 1 \in DOMAIN Tail(todoFiles) /\ Tail(todoFiles)[j - 1] = f
      BY <1>2, <3>1, <3>2
    <3>4. \E k \in DOMAIN todoFiles' : todoFiles'[k] = f
      BY <1>1, <3>3
    <3> QED
      BY <1>1, <3>4 DEF ToDo
  <2> QED
    BY <2>3, <2>4, <2>5
<1>6. FoldersDone'
  BY <1>1 DEF BatchInv, FoldersDone, Running
<1> QED
  BY <1>4, <1>5, <1>6 DEF BatchInv

(* What remove_all leaves of the files: erased ones are not there to be    *)
(* removed.                                                                *)
LEMMA RemoveAllKeeps ==
  ASSUME files \in [Files -> Fates], NEW fs, RemoveAll(fs)
  PROVE  /\ files' \in [Files -> Fates]
         /\ \A f \in Files : files[f] = "erased" => files'[f] = "erased"
BY DEF RemoveAll, Present, Fates

(* The folder is gone once it was dealt with without an error. *)
LEMMA FolderBatchInv ==
  ASSUME BatchInv, Refuse \/ Discover \/ Shred \/ RemoveSubfolders \/ RemoveRoot
  PROVE  BatchInv'
<1> USE DEF disk, selection, loops, accounts
<1>1. /\ UNCHANGED <<selected_files, selected_folders, todoFiles>>
      /\ pc \in {"files", "shred", "root"} /\ pc' \in {"files", "shred", "root"}
  BY DEF Refuse, Discover, Shred, RemoveSubfolders, RemoveRoot
<1>2. files' \in [Files -> Fates] /\ \A f \in Files : files[f] = "erased" => files'[f] = "erased"
  <2>1. files \in [Files -> Fates]
    BY DEF BatchInv, BatchTypeOK
  <2>2. CASE Refuse \/ Discover
    BY <2>1, <2>2 DEF Refuse, Discover
  <2>3. CASE Shred
    BY <2>1, <2>3 DEF Shred, FileErased, FileNotErased, Fates, Present
  <2>4. CASE RemoveSubfolders \/ RemoveRoot
    BY <2>1, <2>4, RemoveAllKeeps DEF RemoveSubfolders, RemoveRoot
  <2> QED
    BY <2>2, <2>3, <2>4
<1>3. errors' \in BOOLEAN /\ (errors => errors') /\ root' \in BOOLEAN /\ unseen' \in BOOLEAN
  BY DEF Refuse, Discover, Shred, RemoveSubfolders, RemoveRoot, BatchInv, BatchTypeOK
<1>4. FoldersDone'
  <2>1. CASE RemoveRoot
    BY <2>1 DEF RemoveRoot, FoldersDone, Running
  <2>2. CASE Refuse \/ Discover \/ Shred \/ RemoveSubfolders
    BY <1>1, <2>2 DEF Refuse, Discover, Shred, RemoveSubfolders, BatchInv, FoldersDone, Running
  <2> QED
    BY <2>1, <2>2
<1> QED
  BY <1>1, <1>2, <1>3, <1>4, NothingUndone

LEMMA CreateBatchInv ==
  ASSUME BatchInv, NEW f \in Files, Create(f)
  PROVE  BatchInv'
<1> USE DEF selection, loops, Create
<1>1. files' \in [Files -> Fates] /\ \A g \in Files : files[g] = "erased" => files'[g] = "erased"
  BY DEF BatchInv, BatchTypeOK, Fates
<1>2. BatchTypeOK' /\ FoldersDone'
  BY <1>1 DEF BatchInv, BatchTypeOK, FoldersDone, Running
<1>3. FilesDone'
  <2>1. \A i \in DOMAIN selected_files : selected_files[i] \in Files
    BY DEF BatchInv, BatchTypeOK, Files
  <2> QED
    BY <1>1, <2>1 DEF BatchInv, FilesDone, Running, ToDo
<1> QED
  BY <1>2, <1>3 DEF BatchInv

LEMMA NextBatchInv == BatchInv /\ [BatchNext]_batchVars => BatchInv'
<1> SUFFICES ASSUME BatchInv, [BatchNext]_batchVars PROVE BatchInv'
  OBVIOUS
<1>1. CASE \/ \E f \in Loose : addFile(f)
           \/ addFolder \/ clearSelection \/ confirm \/ unconfirm
  BY <1>1, SelectionBatchInv
<1>2. CASE Operation
  <2>1. CASE Report
    BY <2>1 DEF Report, disk, selection, loops, accounts, BatchInv, BatchTypeOK, FilesDone, FoldersDone, Running
  <2>2. CASE DiscoverThrows
    BY <2>2 DEF DiscoverThrows, disk, selection, loops, accounts, BatchInv, BatchTypeOK, FilesDone, FoldersDone, Running
  <2> QED
    BY <1>2, <2>1, <2>2, executeBatchInv, FileLoopBatchInv, FolderBatchInv DEF Operation
<1>3. CASE \E f \in Files : Create(f)
  BY <1>3, CreateBatchInv
<1>4. CASE UNCHANGED batchVars
  BY <1>4 DEF batchVars, disk, selection, loops, accounts, BatchInv, BatchTypeOK, FilesDone, FoldersDone, Running, ToDo
<1> QED
  BY <1>1, <1>2, <1>3, <1>4 DEF BatchNext

(* The invariant of a batch holds in every state. *)
THEOREM BatchInvariant == BatchSpec => []BatchInv
BY InitBatchInv, NextBatchInv, PTL DEF BatchSpec

(* When execute reports success every selected file was erased and every   *)
(* selected folder is gone, whatever failed, was selected twice or came    *)
(* into the folder on the way, but for a folder that stayed and could not  *)
(* be looked at.                                                           *)
THEOREM SuccessAlwaysMeansGone == BatchSpec => []SuccessMeansGone
<1>1. BatchInv => SuccessMeansGone
  BY DEF BatchInv, SuccessMeansGone, FilesDone, FoldersDone, Running, ToDo
<1> QED
  BY <1>1, BatchInvariant, PTL

(***************************************************************************)
(* The contents of the folder.  From the listing to the removal every file *)
(* with data in the folder is still to be overwritten, or was reported, or *)
(* is missing from the listing; nothing is removed before the first of     *)
(* these sets is empty.                                                    *)
(***************************************************************************)
InFolder == InRoot \cup InSub
HeldAccounted == pc \in {"shred", "root"} =>
  \A f \in InFolder : Present(f) => f \in found \cup unverified \cup unlisted
AllTried == pc = "root" => found = {}
AccountInv == ContentsAccounted /\ HeldAccounted /\ AllTried

(* Files that are selected by themselves are none of the folder's.         *)
LEMMA LooseApart ==
  ASSUME BatchInv, NEW f \in InFolder
  PROVE  f \in Files /\ (pc = "files" /\ todoFiles # <<>> => Head(todoFiles) # f)
BY FilesAssumption DEF InFolder, Files, BatchInv, BatchTypeOK

(* What remove_all takes away was accounted for before. *)
LEMMA RemovalAccounted ==
  ASSUME BatchInv, AccountInv, pc \in {"shred", "root"}, found = {}, NEW fs,
         RemoveAll(fs), UNCHANGED <<found, unverified, unlisted>>, pc' \in {"root", "files"}
  PROVE  AccountInv'
<1>1. \A f \in InFolder : files'[f] = files[f] \/ (files'[f] = "deleted" /\ Present(f))
  BY LooseApart DEF RemoveAll
<1>2. \A f \in InFolder : Present(f)' => Present(f)
  BY <1>1 DEF Present
<1>3. ContentsAccounted'
  BY <1>1 DEF AccountInv, ContentsAccounted, HeldAccounted, InFolder
<1>4. HeldAccounted'
  BY <1>2 DEF AccountInv, HeldAccounted
<1> QED
  BY <1>3, <1>4 DEF AccountInv, AllTried

LEMMA NextAccountInv == BatchInv /\ AccountInv /\ [BatchNext]_batchVars => AccountInv'
<1> SUFFICES ASSUME BatchInv, AccountInv, [BatchNext]_batchVars PROVE AccountInv'
  OBVIOUS
<1> USE DEF disk, selection, loops, accounts
<1>1. CASE \/ \E f \in Loose : addFile(f)
           \/ addFolder \/ clearSelection \/ confirm \/ unconfirm
           \/ Refuse \/ DiscoverThrows \/ Report \/ UNCHANGED batchVars
  <2>1. UNCHANGED <<files, found, unverified, unlisted>> /\ (pc' = pc \/ pc' \in {"idle", "files"})
    BY <1>1 DEF addFile, addFolder, clearSelection, confirm, unconfirm, Refuse, DiscoverThrows, Report, batchVars
  <2> QED
    BY <2>1 DEF AccountInv, ContentsAccounted, HeldAccounted, AllTried, Present
<1>2. CASE execute
  <2>1. UNCHANGED <<files, found, unverified, unlisted>> /\ (pc' = pc \/ pc' = "files")
    BY <1>2 DEF execute
  <2> QED
    BY <2>1 DEF AccountInv, ContentsAccounted, HeldAccounted, AllTried, Present
<1>3. CASE FileLoop
  <2>1. \A f \in InFolder : files'[f] = files[f]
    BY <1>3, LooseApart DEF FileLoop, FileErased, FileNotErased, BatchInv, BatchTypeOK
  <2>2. UNCHANGED <<unverified, unlisted>> /\ pc' = "files"
    BY <1>3 DEF FileLoop
  <2> QED
    BY <2>1, <2>2 DEF AccountInv, ContentsAccounted, HeldAccounted, AllTried, InFolder
<1>4. CASE Discover
  <2>1. PICK missed \in SUBSET Held : /\ found' = Held \ missed
                                     /\ unverified' = unverified \ found'
                                     /\ unlisted' = (unlisted \ found') \cup missed
    BY <1>4 DEF Discover
  <2>2. files' = files /\ pc' = "shred"
    BY <1>4 DEF Discover
  <2>3. \A f \in InFolder : files[f] = "deleted" => f \notin found'
    BY <2>1 DEF Held, Present
  <2>4. ContentsAccounted'
    BY <2>1, <2>2, <2>3 DEF AccountInv, ContentsAccounted, InFolder
  <2>5. HeldAccounted'
    BY <2>1, <2>2 DEF HeldAccounted, Held, InFolder, Present
  <2> QED
    BY <2>2, <2>4, <2>5 DEF AccountInv, AllTried
<1>5. CASE Shred
  <2>1. PICK f \in found : /\ found' = found \ {f}
                           /\ \/ FileErased(f) /\ UNCHANGED unverified
                              \/ FileNotErased(f) /\ unverified' = unverified \cup {f}
    BY <1>5 DEF Shred
  <2>2. pc = "shred" /\ pc' = "shred" /\ unlisted' = unlisted
    BY <1>5 DEF Shred
  <2>3. \A g \in InFolder : g # f => files'[g] = files[g]
    BY <2>1, LooseApart DEF FileErased, FileNotErased, BatchInv, BatchTypeOK
  <2>4. f \in InFolder => files'[f] = "erased" \/ f \in unverified'
    BY <2>1, LooseApart DEF FileErased, FileNotErased, BatchInv, BatchTypeOK
  <2>5. unverified \subseteq unverified'
    BY <2>1
  <2>6. ContentsAccounted'
    BY <2>2, <2>3, <2>4, <2>5 DEF AccountInv, ContentsAccounted, InFolder
  <2>7. HeldAccounted'
    BY <2>1, <2>2, <2>3, <2>4, <2>5 DEF AccountInv, HeldAccounted, Present
  <2> QED
    BY <2>2, <2>6, <2>7 DEF AccountInv, AllTried
<1>6. CASE RemoveSubfolders
  <2>1. pc = "shred" /\ found = {} /\ pc' = "root" /\ UNCHANGED <<found, unverified, unlisted>>
    BY <1>6 DEF RemoveSubfolders
  <2>2. CASE RemoveAll(InSub)
    BY <2>1, <2>2, RemovalAccounted
  <2>3. CASE files' = files
    BY <2>1, <2>3 DEF AccountInv, ContentsAccounted, HeldAccounted, AllTried, Present
  <2> QED
    BY <1>6, <2>2, <2>3 DEF RemoveSubfolders
<1>7. CASE RemoveRoot
  <2>1. /\ pc = "root" /\ pc' = "files" /\ UNCHANGED <<found, unverified, unlisted>>
        /\ RemoveAll(InRoot \cup InSub)
    BY <1>7 DEF RemoveRoot
  <2>2. found = {}
    BY <2>1 DEF AccountInv, AllTried
  <2> QED
    BY <2>1, <2>2, RemovalAccounted
<1>8. ASSUME NEW f \in Files, Create(f) PROVE AccountInv'
  <2>1. /\ files[f] = "absent" /\ files' = [files EXCEPT ![f] = "data"]
        /\ UNCHANGED <<found, pc, unverified>>
        /\ unlisted' = IF pc \in {"shred", "root"} THEN unlisted \cup ({f} \ Loose) ELSE unlisted
    BY <1>8 DEF Create
  <2>2. \A g \in InFolder : g # f => files'[g] = files[g]
    BY <2>1, LooseApart DEF BatchInv, BatchTypeOK
  <2>3. f \in InFolder => files'[f] = "data" /\ f \notin Loose
    BY <2>1, FilesAssumption DEF InFolder, BatchInv, BatchTypeOK
  <2>4. ContentsAccounted'
    BY <2>1, <2>2, <2>3 DEF AccountInv, ContentsAccounted, InFolder
  <2>5. HeldAccounted'
    BY <2>1, <2>2, <2>3 DEF AccountInv, HeldAccounted, Present
  <2> QED
    BY <2>1, <2>4, <2>5 DEF AccountInv, AllTried
<1> QED
  BY <1>1, <1>2, <1>3, <1>4, <1>5, <1>6, <1>7, <1>8 DEF BatchNext, Operation

(* Every file of a folder that is deleted with its data on the medium was  *)
(* reported as not verified, or is missing from the listing, for folders   *)
(* with any files, any selections and any faults.                          *)
THEOREM ContentsAlwaysAccounted == BatchSpec => []ContentsAccounted
<1>1. BatchInit => AccountInv
  BY DEF BatchInit, AccountInv, ContentsAccounted, HeldAccounted, AllTried, Files
<1>2. BatchInv /\ BatchInv' /\ AccountInv /\ [BatchNext]_batchVars => AccountInv'
  BY NextAccountInv
<1>3. AccountInv => ContentsAccounted
  BY DEF AccountInv
<1> QED
  BY <1>1, <1>2, <1>3, BatchInvariant, PTL DEF BatchSpec
-----------------------------------------------------------------------------
(* The devices and directories of the system.  SystemDevices is the least set *)
(* with the mounted devices in it and all that its members are made of.  The   *)
(* names visited, once nothing is left to visit, are such a set: that is the  *)
(* whole argument.                                                           *)


(* A set of names that a walk that has ended leaves behind.                 *)
Settled(S) == \A n \in S : Reached(n) \subseteq S /\ Both(n) \subseteq out

Pending(m) == \E i \in DOMAIN lines : lines[i] = m
Taken(m) == \E S : Strip(m.dev) \in S /\ Settled(S)

WalkInv ==
  /\ world \in Worlds
  /\ lines \in Seq({world.mounts[i] : i \in DOMAIN world.mounts})
  /\ \A n \in visited : Reached(n) \subseteq visited \cup todo /\ Both(n) \subseteq out
  /\ \A i \in SystemLines :
       \/ Pending(world.mounts[i])
       \/ Strip(world.mounts[i].dev) \in visited \cup todo
       \/ Taken(world.mounts[i])

AnswerInv ==
  answer.given => /\ answer.platform = IsRootOrSystemPath
                  /\ ~world.readable \/ (todo = {} /\ lines = <<>>)

RefusalInv == WalkInv /\ AnswerInv

LEMMA RefusalBegins == ProtectionInit => RefusalInv
<1> SUFFICES ASSUME ProtectionInit PROVE RefusalInv
    OBVIOUS
<1>1. WalkInv
  <2>1. world \in Worlds /\ lines \in Seq({world.mounts[i] : i \in DOMAIN world.mounts})
        BY WorldsAssumption DEF ProtectionInit
  <2>2. \A i \in SystemLines : Pending(world.mounts[i])
        BY DEF ProtectionInit, SystemLines, Pending
  <2> QED BY <2>1, <2>2 DEF ProtectionInit, WalkInv
<1>2. AnswerInv
      BY DEF ProtectionInit, AnswerInv, NoAnswer
<1> QED BY <1>1, <1>2 DEF RefusalInv

(* What was settled stays so, for out only grows.                           *)
LEMMA StaysSettled ==
  ASSUME NEW S, Settled(S), world' = world, out \subseteq out'
  PROVE  Settled(S)'
<1>1. \A n \in S : Reached(n)' = Reached(n)
      BY DEF Reached, LinkedTo, Beneath
<1> QED BY <1>1 DEF Settled, Both

LEMMA StaysTaken ==
  ASSUME NEW m, Taken(m), world' = world, out \subseteq out'
  PROVE  Taken(m)'
<1>1. PICK S : Strip(m.dev) \in S /\ Settled(S)
      BY DEF Taken
<1>2. Settled(S)'
      BY <1>1, StaysSettled
<1> QED BY <1>1, <1>2 DEF Taken

LEMMA ReadMountKeeps ==
  ASSUME RefusalInv, ReadMount
  PROVE  RefusalInv'
<1> USE DEF RefusalInv, WalkInv
<1> DEFINE All == {world.mounts[i] : i \in DOMAIN world.mounts}
<1>0. world' = world /\ lines \in Seq(All) /\ lines # <<>> /\ lines' = Tail(lines)
      BY DEF ReadMount
<1>1. lines' \in Seq(All)
      BY <1>0
<1>2. \A m : Pending(m) => m = Head(lines) \/ Pending(m)'
  <2> SUFFICES ASSUME NEW m, Pending(m), m # Head(lines) PROVE Pending(m)'
      OBVIOUS
  <2>1. PICK i \in DOMAIN lines : lines[i] = m
        BY DEF Pending
  <2>2. i # 1 /\ i \in 1..Len(lines)
        BY <1>0, <2>1
  <2>3. i - 1 \in DOMAIN Tail(lines) /\ Tail(lines)[i - 1] = m
        BY <1>0, <2>1, <2>2
  <2> QED BY <1>0, <2>3 DEF Pending
<1>3. Settled(visited)
      BY DEF Settled, ReadMount
<1>4. out \subseteq out'
      BY DEF ReadMount
<1>5. AnswerInv'
      BY DEF ReadMount, AnswerInv
<1>6. \A n \in visited' : Reached(n)' \subseteq visited' \cup todo' /\ Both(n)' \subseteq out'
  <2>1. CASE Head(lines).at \in SystemMounts
        BY <2>1 DEF ReadMount
  <2>2. CASE Head(lines).at \notin SystemMounts
        BY <2>2, <1>0 DEF ReadMount, Reached, LinkedTo, Beneath, Both
  <2> QED BY <2>1, <2>2
<1>7. ASSUME NEW i \in SystemLines
      PROVE  \/ Pending(world.mounts[i])'
             \/ Strip(world.mounts[i].dev) \in visited' \cup todo'
             \/ Taken(world.mounts[i])'
  <2> DEFINE m == world.mounts[i]
  <2>1. CASE Pending(m)
    <3>1. CASE m = Head(lines)
      <4>1. m.at \in SystemMounts
            BY DEF SystemLines
      <4> QED BY <3>1, <4>1 DEF ReadMount
    <3>2. CASE m # Head(lines)
          BY <2>1, <3>2, <1>2, <1>0 DEF Pending
    <3> QED BY <3>1, <3>2
  <2>2. CASE Strip(m.dev) \in visited \cup todo
    <3>1. Strip(m.dev) \in visited
          BY <2>2 DEF ReadMount
    <3>2. Taken(m)
          BY <3>1, <1>3 DEF Taken
    <3>3. Taken(m)'
          BY <3>2, <1>0, <1>4, StaysTaken DEF Taken
    <3> QED BY <3>3, <1>0 DEF Taken
  <2>3. CASE Taken(m)
    <3>1. Taken(m)'
          BY <2>3, <1>0, <1>4, StaysTaken DEF Taken
    <3> QED BY <3>1, <1>0 DEF Taken
  <2> QED BY <2>1, <2>2, <2>3
<1>8. SystemLines' = SystemLines
      BY <1>0 DEF SystemLines
<1> QED BY <1>0, <1>1, <1>5, <1>6, <1>7, <1>8

LEMMA VisitKeeps ==
  ASSUME NEW name \in todo, RefusalInv, Visit(name)
  PROVE  RefusalInv'
<1> USE DEF RefusalInv, WalkInv
<1>0. /\ world' = world /\ lines' = lines
      /\ visited' = visited \cup {name}
      /\ out \subseteq out' /\ Both(name) \subseteq out'
      /\ visited' \cup todo' = visited \cup todo \cup Reached(name)
      BY DEF Visit
<1>1. \A n : Reached(n)' = Reached(n) /\ Both(n)' = Both(n)
      BY <1>0 DEF Reached, LinkedTo, Beneath, Both
<1>2. \A n \in visited' : Reached(n)' \subseteq visited' \cup todo' /\ Both(n)' \subseteq out'
      BY <1>0, <1>1
<1>3. AnswerInv'
      BY DEF Visit, AnswerInv
<1>4. SystemLines' = SystemLines /\ \A m : Pending(m)' = Pending(m)
      BY <1>0 DEF SystemLines, Pending
<1>5. ASSUME NEW i \in SystemLines
      PROVE  \/ Pending(world.mounts[i])'
             \/ Strip(world.mounts[i].dev) \in visited' \cup todo'
             \/ Taken(world.mounts[i])'
  <2> DEFINE m == world.mounts[i]
  <2>1. CASE Taken(m)
    <3>1. Taken(m)'
          BY <2>1, <1>0, StaysTaken DEF Taken
    <3> QED BY <3>1, <1>0 DEF Taken
  <2> QED BY <2>1, <1>0, <1>4 DEF Pending
<1> QED BY <1>0, <1>2, <1>3, <1>4, <1>5

(* Nothing but the answer changes: every part of the invariant goes over.    *)
LEMMA WalkInvKept ==
  ASSUME WalkInv, UNCHANGED <<world, lines, todo, visited, out>>
  PROVE  WalkInv'
<1>1. \A n : Reached(n)' = Reached(n) /\ Both(n)' = Both(n)
      BY DEF Reached, LinkedTo, Beneath, Both
<1>2. SystemLines' = SystemLines /\ \A m : Pending(m)' = Pending(m)
      BY DEF SystemLines, Pending
<1>3. ASSUME NEW m, Taken(m) PROVE Taken(m)'
      BY <1>3, StaysTaken
<1> QED BY <1>1, <1>2, <1>3 DEF WalkInv, Pending, Taken

LEMMA RefusalStep == RefusalInv /\ [ProtectionNext]_protectionVars => RefusalInv'
<1> SUFFICES ASSUME RefusalInv, [ProtectionNext]_protectionVars PROVE RefusalInv'
    OBVIOUS
<1>1. CASE ReadMount
      BY <1>1, ReadMountKeeps
<1>2. CASE \E name \in todo : Visit(name)
      BY <1>2, VisitKeeps
<1>3. CASE Decide
  <2>1. WalkInv'
        BY <1>3, WalkInvKept DEF RefusalInv, Decide
  <2>2. IsRootOrSystemPath' = IsRootOrSystemPath
        BY <1>3 DEF Decide, IsRootOrSystemPath, IsMainSystemDrive
  <2>3. AnswerInv'
        BY <1>3, <2>2 DEF Decide, AnswerInv, Answer
  <2> QED BY <2>1, <2>3 DEF RefusalInv
<1>4. CASE UNCHANGED protectionVars
  <2>1. WalkInv'
        BY <1>4, WalkInvKept DEF RefusalInv, protectionVars
  <2>2. IsRootOrSystemPath' = IsRootOrSystemPath
        BY <1>4 DEF protectionVars, IsRootOrSystemPath, IsMainSystemDrive
  <2>3. AnswerInv'
        BY <1>4, <2>2 DEF protectionVars, RefusalInv, AnswerInv
  <2> QED BY <2>1, <2>3 DEF RefusalInv
<1> QED BY <1>1, <1>2, <1>3, <1>4 DEF ProtectionNext

-----------------------------------------------------------------------------
(* When the walk has ended, out holds every device that carries the system.  *)
LEMMA AllTaken ==
  ASSUME WalkInv, todo = {}, lines = <<>>, Legible,
         NEW d \in SystemDevices
  PROVE  Both(d) \subseteq out
<1> DEFINE W == {n \in Devices : \E S : n \in S /\ Settled(S)}
<1>1. Mounted \subseteq W
  <2> SUFFICES ASSUME NEW x \in Mounted PROVE x \in W
      OBVIOUS
  <2>1. PICK i \in SystemLines : Canonical(world.mounts[i].dev) = Dev \o x
        BY DEF Mounted, SystemSources
  <2> DEFINE m == world.mounts[i]
  <2>2. x \in {Strip(m.dev)} \cup LinkedTo(Strip(m.dev))
        BY <2>1 DEF Legible, Mounted, SystemSources
  <2>3. ~Pending(m)
        BY DEF Pending
  <2>4. Settled(visited)
        BY DEF WalkInv, Settled
  <2>5. \E S : Strip(m.dev) \in S /\ Settled(S)
        BY <2>3, <2>4 DEF WalkInv, Taken
  <2>6. PICK S : Strip(m.dev) \in S /\ Settled(S)
        BY <2>5
  <2>7. x \in S
        BY <2>2, <2>6 DEF Settled, Reached
  <2> QED BY <2>6, <2>7 DEF Mounted
<1>2. ASSUME NEW x \in W PROVE MadeOf(x) \subseteq W
  <2>1. PICK S : x \in S /\ Settled(S)
        BY <1>2
  <2>2. x \in Devices /\ x \in world.sys /\ world \in Worlds
        BY <1>2 DEF Legible, WalkInv
  <2>3. world.slaves[x] \subseteq Devices \cap S
        BY <2>1, <2>2, WorldsAssumption DEF Devices, Settled, Reached, Beneath
  <2>4. ASSUME x \in DOMAIN world.disk PROVE world.disk[x] \in Devices \cap S
        BY <2>1, <2>2, <2>4, WorldsAssumption DEF Devices, Settled, Reached, Beneath
  <2> QED BY <2>1, <2>3, <2>4 DEF MadeOf
<1>3. W \in SUBSET Devices
      OBVIOUS
<1>4. d \in W
      BY <1>1, <1>2, <1>3 DEF SystemDevices
<1> QED BY <1>4 DEF Settled

LEMMA RefusalSafe == RefusalInv => SystemDiskRefused
<1> SUFFICES ASSUME RefusalInv, answer.given, Legible,
                    NEW d \in SystemDevices, NEW t \in Devices,
                    t = d \/ (t \in DOMAIN world.disk /\ world.disk[t] = d),
                    real = Dev \o t
             PROVE  answer.platform
    BY DEF SystemDiskRefused
<1>1. answer.platform = IsRootOrSystemPath
      BY DEF RefusalInv, AnswerInv
<1>2. IsMainSystemDrive(real)
  <2>1. CASE ~world.readable
        BY <2>1 DEF IsMainSystemDrive
  <2>2. CASE todo = {} /\ lines = <<>>
    <3>1. Both(d) \subseteq out
          BY <2>2, AllTaken DEF RefusalInv
    <3>2. CASE t = d
      <4>1. real \in out
            BY <3>1, <3>2 DEF Both
      <4> QED BY <4>1 DEF IsMainSystemDrive
    <3>3. CASE t \in DOMAIN world.disk /\ world.disk[t] = d
      <4>1. IsPrefix(Dev \o d, Dev \o t)
            BY <3>3, WorldsAssumption DEF RefusalInv, WalkInv, Dev
      <4>2. d \in out
            BY <3>1 DEF Both
      <4> QED BY <4>1, <4>2 DEF IsMainSystemDrive
    <3> QED BY <3>2, <3>3
  <2> QED BY <2>1, <2>2 DEF RefusalInv, AnswerInv
<1> QED BY <1>1, <1>2 DEF IsRootOrSystemPath

(* No device that carries the system, and no partition of one, gets past      *)
(* isRootOrSystemPath, whatever the devices are made of.                     *)
THEOREM SystemDiskAlwaysRefused == ProtectionSpec => []SystemDiskRefused
<1>1. ProtectionSpec => []RefusalInv
      BY RefusalBegins, RefusalStep, PTL DEF ProtectionSpec
<1> QED BY <1>1, RefusalSafe, PTL

-----------------------------------------------------------------------------
(* The verdicts are those of the three functions, given on the target and on  *)
(* the canonical path it has from the start: neither changes on the way.     *)
VerdictInv ==
  /\ real = Canonical(target)
  /\ answer.given => answer.platform = IsRootOrSystemPath /\ answer.guard = IsProtected

LEMMA SameVerdicts ==
  ASSUME UNCHANGED <<world, target, real, foundRootMount, out>>
  PROVE  /\ Canonical(target)' = Canonical(target)
         /\ IsMainSystemDrive(target)' = IsMainSystemDrive(target)
         /\ IsRootOrSystemPath' = IsRootOrSystemPath
         /\ IsProtected' = IsProtected
<1>1. Canonical(target)' = Canonical(target)
      BY DEF Canonical, Exists, Followed, Full
<1>2. /\ IsMainSystemDrive(target)' = IsMainSystemDrive(target)
      /\ IsRootOrSystemPath' = IsRootOrSystemPath
      BY DEF IsRootOrSystemPath, IsMainSystemDrive
<1>3. IsProtected' = IsProtected
      BY <1>2 DEF IsProtected
<1> QED BY <1>1, <1>2, <1>3

LEMMA VerdictStep == VerdictInv /\ [ProtectionNext]_protectionVars => VerdictInv'
<1> SUFFICES ASSUME VerdictInv, [ProtectionNext]_protectionVars PROVE VerdictInv'
    OBVIOUS
<1>1. CASE ReadMount \/ \E name \in todo : Visit(name)
  <2>1. UNCHANGED <<world, target, real, answer>> /\ ~answer.given
        BY <1>1 DEF ReadMount, Visit
  <2>2. Canonical(target)' = Canonical(target)
        BY <2>1 DEF Canonical, Exists, Followed, Full
  <2> QED BY <2>1, <2>2 DEF VerdictInv
<1>2. CASE Decide
  <2>1. /\ UNCHANGED <<world, target, real, foundRootMount, out>>
        /\ answer' = Answer(IsMainSystemDrive(target), IsRootOrSystemPath, IsProtected)
        BY <1>2 DEF Decide
  <2>2. answer'.platform = IsRootOrSystemPath /\ answer'.guard = IsProtected
        BY <2>1 DEF Answer
  <2> QED BY <2>1, <2>2, SameVerdicts DEF VerdictInv
<1>3. CASE UNCHANGED protectionVars
      BY <1>3, SameVerdicts DEF protectionVars, VerdictInv
<1> QED BY <1>1, <1>2, <1>3 DEF ProtectionNext

(* What exists inside a directory of the system is refused by the platform    *)
(* check and by the guard, through whatever link and from whatever working    *)
(* directory it is named, and whatever the walk over the devices found.      *)
THEOREM SystemPathsAlwaysRefused == ProtectionSpec => []SystemPathsRefused
<1>1. ProtectionInit => VerdictInv
      BY DEF ProtectionInit, VerdictInv, NoAnswer
<1>2. VerdictInv => SystemPathsRefused
  <2> SUFFICES ASSUME VerdictInv, answer.given, Exists(target),
                      NEW d \in LinuxProtected, Within(Followed(Full(target)), <<"/", d>>)
               PROVE  answer.platform /\ answer.guard
      BY DEF SystemPathsRefused
  <2>1. Within(real, <<"/", d>>)
        BY DEF VerdictInv, Canonical
  <2>2. IsRootOrSystemPath
        BY <2>1 DEF IsRootOrSystemPath
  <2>3. IsProtected
        BY <2>2 DEF IsProtected
  <2> QED BY <2>2, <2>3 DEF VerdictInv
<1> QED BY <1>1, <1>2, VerdictStep, PTL DEF ProtectionSpec

-----------------------------------------------------------------------------
(* What the walk may come upon: the devices that carry the system, the        *)
(* directories they lie in, and the names its mounts are made from.           *)
Lying == UNION {world.above[d] \ {<<"block">>} : d \in SystemDevices}
Sources == {Strip(m) : m \in SystemSources}
Walkable == SystemDevices \cup Lying \cup Sources

OthersInv ==
  /\ world \in Worlds /\ target \in AskedPaths
  /\ lines \in Seq({world.mounts[i] : i \in DOMAIN world.mounts})
  /\ todo \cup visited \subseteq Walkable
  /\ out \subseteq SystemNames \cup {Dev \o n : n \in Walkable}
  /\ \/ SystemSources = {} \/ foundRootMount
     \/ \E i \in DOMAIN lines : lines[i].at \in SystemMounts

(* What is mounted carries the system, and so does all it is made of.         *)
LEMMA SystemDevicesClosed ==
  ASSUME world \in Worlds
  PROVE  /\ SystemDevices \subseteq Devices /\ Mounted \subseteq SystemDevices
         /\ \A d \in SystemDevices : MadeOf(d) \subseteq SystemDevices
<1>1. SystemDevices \subseteq Devices /\ Mounted \subseteq SystemDevices
  BY DEF SystemDevices, Mounted
<1>2. ASSUME NEW d \in SystemDevices, NEW x \in MadeOf(d) PROVE x \in SystemDevices
  <2>1. d \in Devices
    BY <1>1
  <2>2. x \in Devices
    BY <2>1, WorldsAssumption DEF MadeOf, Devices
  <2>3. ASSUME NEW S \in SUBSET Devices, Mounted \subseteq S, \A e \in S : MadeOf(e) \subseteq S
        PROVE  x \in S
    <3>1. d \in S
      BY <2>3 DEF SystemDevices
    <3> QED
      BY <2>3, <3>1
  <2> QED
    BY <2>2, <2>3 DEF SystemDevices
<1> QED
  BY <1>1, <1>2

(* Sequences of which one begins with the other have the same pieces.         *)
LEMMA SamePieces ==
  ASSUME NEW s \in Seq(Pieces), NEW path \in Seq(Pieces), Len(s) <= Len(path),
         SubSeq(s, 1, Len(s)) = SubSeq(path, 1, Len(s))
  PROVE  \A k \in 1..Len(s) : path[k] = s[k]
<1> TAKE k \in 1..Len(s)
<1>1. SubSeq(s, 1, Len(s))[k] = s[k] /\ SubSeq(path, 1, Len(s))[k] = path[k]
  OBVIOUS
<1> QED
  BY <1>1

LEMMA StripIsSequence ==
  ASSUME NEW path \in Seq(Pieces)
  PROVE  Strip(path) \in Seq(Pieces)
<1>1. Drop(path, 3) \in Seq(Pieces) /\ Drop(path, 5) \in Seq(Pieces)
  BY DEF Drop
<1> QED
  BY <1>1 DEF Strip

(* The pieces of a path that goes on from another.                             *)
JoinOf(path, a, b) ==
  /\ Len(path) = Len(a) + Len(b)
  /\ \A k \in 1..Len(a) : path[k] = a[k]
  /\ \A k \in 1..Len(b) : path[Len(a) + k] = b[k]

LEMMA PiecesJoined ==
  ASSUME NEW S, NEW a \in Seq(S), NEW b \in Seq(S)
  PROVE  a \o b \in Seq(S) /\ JoinOf(a \o b, a, b)
<1>1. a \o b \in Seq(S) /\ Len(a \o b) = Len(a) + Len(b)
  OBVIOUS
<1>2. \A k \in 1..Len(a) : (a \o b)[k] = a[k]
  OBVIOUS
<1>3. \A k \in 1..Len(b) : (a \o b)[Len(a) + k] = b[k]
  OBVIOUS
<1> QED
  BY <1>1, <1>2, <1>3, Zenon DEF JoinOf

(* The pieces of a device file.                                              *)
LEMMA DeviceFile ==
  ASSUME NEW n \in Seq(Pieces)
  PROVE  /\ Dev \o n \in Seq(Pieces) /\ Len(Dev \o n) = 3 + Len(n) /\ Len(n) \in Nat
         /\ (Dev \o n)[1] = "/" /\ (Dev \o n)[2] = "dev" /\ (Dev \o n)[3] = "/"
         /\ \A k \in 1..Len(n) : (Dev \o n)[3 + k] = n[k]
<1>1. Dev \in Seq(Pieces) /\ Len(Dev) = 3 /\ Dev[1] = "/" /\ Dev[2] = "dev" /\ Dev[3] = "/"
  BY PiecesAssumption DEF Dev
<1> DEFINE file == Dev \o n
<1>2. /\ file \in Seq(Pieces) /\ Len(file) = Len(Dev) + Len(n)
      /\ \A k \in 1..Len(Dev) : file[k] = Dev[k]
      /\ \A k \in 1..Len(n) : file[Len(Dev) + k] = n[k]
  <2>1. file \in Seq(Pieces) /\ JoinOf(file, Dev, n)
    BY <1>1, PiecesJoined, Zenon
  <2> QED
    BY <2>1, Zenon DEF JoinOf
<1> HIDE DEF file
<1>3. 1 \in 1..Len(Dev) /\ 2 \in 1..Len(Dev) /\ 3 \in 1..Len(Dev) /\ Len(n) \in Nat
  BY <1>1
<1>4. file[1] = "/" /\ file[2] = "dev" /\ file[3] = "/"
  BY <1>1, <1>2, <1>3, Zenon
<1> QED
  BY <1>1, <1>2, <1>3, <1>4, Zenon DEF file

(* The name of a device is that of its device file.                          *)
LEMMA FileNameOfDevice ==
  ASSUME NEW d \in Seq(Pieces), \A k \in DOMAIN d : d[k] # "/"
  PROVE  FileName(Dev \o d) = d
<1> DEFINE path == Dev \o d
           I == {i \in 1..Len(path) : path[i] = "/"}
<1>1. /\ path \in Seq(Pieces) /\ Len(path) = 3 + Len(d) /\ Len(d) \in Nat
      /\ path[1] = "/" /\ path[2] = "dev" /\ path[3] = "/"
      /\ \A k \in 1..Len(d) : path[3 + k] = d[k]
  BY DeviceFile
<1>2. FileName(path) = SubSeq(path, (IF I # {} THEN Max(I) ELSE 0) + 1, Len(path))
  BY Zenon DEF FileName, Drop, SelectLastInSeq
<1> HIDE DEF path
<1>3. 3 \in I /\ \A i \in I : i <= 3
  <2>1. ASSUME NEW i \in 1..Len(path), i > 3 PROVE path[i] # "/"
    <3>1. i - 3 \in 1..Len(d) /\ 3 + (i - 3) = i /\ DOMAIN d = 1..Len(d)
      BY <1>1, <2>1
    <3> QED
      BY <1>1, <3>1
  <2> QED
    BY <1>1, <2>1
<1>4. I \subseteq Nat
  OBVIOUS
<1> HIDE DEF I
<1>5. Max(I) = 3
  <2>1. Max(I) \in I /\ \A y \in I : Max(I) >= y
    <3>1. \E x \in I : \A y \in I : x >= y
      BY <1>3, <1>4
    <3> QED
      BY <3>1, Zenon DEF Max
  <2> DEFINE last == Max(I)
  <2>2. last \in Nat /\ last <= 3 /\ last >= 3
    BY <1>3, <1>4, <2>1
  <2> HIDE DEF last
  <2>3. last = 3
    BY <2>2
  <2> QED
    BY <2>3, Zenon DEF last
<1>6. FileName(path) = SubSeq(path, 4, Len(path))
  BY <1>2, <1>3, <1>5
<1>7. SubSeq(path, 4, Len(path)) = d
  BY <1>1
<1> QED
  BY <1>6, <1>7 DEF path

(* From a device that carries the system the walk goes to such devices, and    *)
(* to the directory it lies in.                                              *)
LEMMA FromDevice ==
  ASSUME world \in Worlds, NEW d \in SystemDevices
  PROVE  Reached(d) \subseteq Walkable
<1>1. /\ d \in Devices /\ MadeOf(d) \subseteq SystemDevices
  BY SystemDevicesClosed
<1>2. LinkedTo(d) = {}
  <2>1. \A l \in DOMAIN world.links : ~Within(Dev \o d, l)
    BY <1>1, NamesAssumption DEF Devices
  <2>2. Within(Dev \o d, Dev \o d)
    BY DEF Within
  <2> QED
    BY <2>1, <2>2 DEF LinkedTo
<1>3. Guess(d) \subseteq SystemDevices
  <2>1. Guess(d) \subseteq {world.disk[p] : p \in {d} \cap DOMAIN world.disk}
    BY <1>1, NamesAssumption DEF Devices
  <2> QED
    BY <1>1, <2>1 DEF MadeOf
<1>4. d \in world.sys =>
        world.slaves[d] \subseteq SystemDevices /\ world.above[d] \ {<<"block">>, d} \subseteq Lying
  BY <1>1 DEF MadeOf, Lying
<1>5. Beneath(d) \subseteq SystemDevices \cup Lying
  BY <1>3, <1>4 DEF Beneath
<1> QED
  BY <1>2, <1>5 DEF Reached, Walkable

(* The directory such a device lies in is that of its disk, or the walk ends   *)
(* there.                                                                  *)
LEMMA FromDirectory ==
  ASSUME world \in Worlds, NEW a \in Lying
  PROVE  Reached(a) \subseteq Walkable
<1>1. PICK d \in SystemDevices : a \in world.above[d] /\ a # <<"block">>
  BY DEF Lying
<1>2. d \in Devices /\ MadeOf(d) \subseteq SystemDevices
  BY SystemDevicesClosed
<1>3. CASE a = d
  BY <1>3, FromDevice
<1>4. CASE a \in Devices /\ d \in DOMAIN world.disk /\ a = world.disk[d]
  <2>1. a \in SystemDevices
    BY <1>2, <1>4 DEF MadeOf
  <2> QED
    BY <2>1, FromDevice
<1>5. CASE a \notin Devices /\ Guess(a) = {} /\ Dev \o a \notin DOMAIN world.links
  <2>1. a \notin world.sys
    BY <1>5, NamesAssumption DEF Devices
  <2> QED
    BY <1>5, <2>1 DEF Reached, LinkedTo, Beneath
<1> QED
  <2>1. a = d \/ a \in world.above[d] \ {<<"block">>, d}
    BY <1>1
  <2>2. \A x \in world.above[d] \ {<<"block">>, d} :
          \/ x \in Devices /\ d \in DOMAIN world.disk /\ x = world.disk[d]
          \/ x \notin Devices /\ Guess(x) = {} /\ Dev \o x \notin DOMAIN world.links
    BY <1>2, NamesAssumption DEF Devices
  <2> QED
    BY <1>3, <1>4, <1>5, <2>1, <2>2

(* A source of a system mount is a device that carries the system, or is      *)
(* called by a link to one, or nothing is reached from it.                   *)
LEMMA FromSource ==
  ASSUME world \in Worlds, NEW n \in Sources
  PROVE  Reached(n) \subseteq Walkable
<1>1. PICK i \in DOMAIN world.mounts :
        world.mounts[i].at \in SystemMounts /\ n = Strip(world.mounts[i].dev)
  BY DEF Sources, SystemSources, SystemLines
<1> DEFINE m == world.mounts[i].dev
<1>2. /\ m \in Seq(Pieces) /\ m \in SystemSources
      /\ n \in Devices => m = Dev \o n
      /\ n \notin Devices => Guess(n) = {}
      /\ Dev \o n \in DOMAIN world.links =>
           /\ m = Dev \o n /\ \A l \in DOMAIN world.links : Within(m, l) => l = m
           /\ world.links[m] \in world.exists \cap {Dev \o d : d \in Devices}
  <2>1. m \in SystemSources
    BY <1>1 DEF SystemSources, SystemLines
  <2> QED
    BY <1>1, <2>1, NamesAssumption DEF Devices
<1> HIDE DEF m
<1>3. world.sys \subseteq Devices
  BY NamesAssumption DEF Devices
<1>4. CASE n \in Devices
  <2>1. n \in Seq(Pieces) /\ m = Dev \o n
    BY <1>2, <1>4, NamesAssumption DEF Devices
  <2>2. Full(m) = m
    BY <2>1 DEF Full, Dev
  <2>3. Followed(m) = m
    <3>1. \A l \in DOMAIN world.links : ~Within(m, l)
      BY <1>4, <2>1, NamesAssumption DEF Devices
    <3> QED
      BY <3>1 DEF Followed
  <2>4. Canonical(m) = Dev \o n
    BY <2>1, <2>2, <2>3 DEF Canonical
  <2>5. n \in SystemDevices
    BY <1>2, <1>4, <2>4, SystemDevicesClosed DEF Mounted
  <2> QED
    BY <2>5, FromDevice
<1>5. CASE n \notin Devices /\ Dev \o n \notin DOMAIN world.links
  BY <1>2, <1>3, <1>5 DEF Reached, LinkedTo, Beneath
<1>6. CASE n \notin Devices /\ Dev \o n \in DOMAIN world.links
  <2>1. PICK d \in Devices : world.links[m] = Dev \o d /\ world.links[m] \in world.exists
    BY <1>2, <1>6
  <2>2. d \in Seq(Pieces) /\ \A k \in DOMAIN d : d[k] # "/"
    BY NamesAssumption DEF Devices
  <2>3. m = Dev \o n /\ m \in DOMAIN world.links /\ n \in Seq(Pieces)
    BY <1>1, <1>2, <1>6, StripIsSequence DEF m
  <2>4. Canonical(m) = Dev \o d
    <3>1. Full(m) = m
      BY <2>3 DEF Full, Dev
    <3>2. {l \in DOMAIN world.links : Within(m, l)} = {m}
      BY <1>2, <1>6, <2>3 DEF Within
    <3>3. Followed(m) = world.links[m] \o Drop(m, Len(m))
      BY <3>2 DEF Followed
    <3>4. Drop(m, Len(m)) = <<>> /\ (Dev \o d) \o <<>> = Dev \o d
      BY <1>2, <2>2 DEF Drop, Dev
    <3>5. Followed(m) = Dev \o d /\ Exists(m)
      BY <2>1, <3>1, <3>3, <3>4 DEF Exists
    <3> QED
      BY <3>1, <3>5 DEF Canonical
  <2>5. d \in SystemDevices
    BY <1>2, <2>4, SystemDevicesClosed DEF Mounted
  <2>6. FileName(Dev \o d) = d
    BY <2>2, FileNameOfDevice
  <2>7. Reached(n) \subseteq {d}
    BY <1>2, <1>3, <1>6, <2>1, <2>3, <2>6 DEF Reached, LinkedTo, Beneath
  <2> QED
    BY <2>5, <2>7 DEF Walkable
<1> QED
  BY <1>4, <1>5, <1>6

(* All the walk can come upon leads to nothing else.                         *)
LEMMA WalkStays ==
  ASSUME world \in Worlds, NEW n \in Walkable
  PROVE  Reached(n) \subseteq Walkable
BY FromDevice, FromDirectory, FromSource, Zenon DEF Walkable

(* The names stay what they are.                                             *)
LEMMA SameNames ==
  ASSUME UNCHANGED world
  PROVE  /\ Walkable' = Walkable /\ SystemNames' = SystemNames
         /\ SystemSources' = SystemSources
<1>1. SystemSources' = SystemSources
  BY DEF SystemSources, SystemLines
<1>2. \A path : Canonical(path)' = Canonical(path)
  BY DEF Canonical, Exists, Followed, Full
<1>3. SystemDevices' = SystemDevices
  <2>1. Devices' = Devices /\ Mounted' = Mounted /\ \A d : MadeOf(d)' = MadeOf(d)
    BY <1>1, <1>2 DEF Devices, Mounted, MadeOf
  <2> QED
    BY <2>1 DEF SystemDevices
<1> QED
  BY <1>1, <1>3 DEF Walkable, Lying, Sources, SystemNames

(* What the walk comes upon are names of the system, sequences of pieces.       *)
LEMMA NamesAreSequences ==
  ASSUME world \in Worlds
  PROVE  Walkable \subseteq SystemNames \cap Seq(Pieces)
<1>1. Walkable \subseteq SystemNames
  BY DEF Walkable, Lying, Sources, SystemNames
<1>2. \A d \in SystemDevices : d \in Seq(Pieces)
  BY SystemDevicesClosed, NamesAssumption DEF Devices
<1>3. ASSUME NEW a \in Lying PROVE a \in Seq(Pieces)
  <2>1. PICK d \in SystemDevices : a \in world.above[d] /\ a # <<"block">>
    BY DEF Lying
  <2>2. a = d \/ a \in world.above[d] \ {<<"block">>, d}
    BY <2>1
  <2>3. d \in DOMAIN world.slaves
    BY SystemDevicesClosed DEF Devices
  <2>4. \A x \in world.above[d] \ {<<"block">>, d} : x \in Seq(Pieces)
    BY <2>3, NamesAssumption
  <2> QED
    BY <1>2, <2>2, <2>4
<1>4. ASSUME NEW n \in Sources PROVE n \in Seq(Pieces)
  <2>1. PICK m \in SystemSources : n = Strip(m)
    BY DEF Sources
  <2>2. m \in Seq(Pieces)
    BY NamesAssumption DEF SystemSources, SystemLines
  <2> QED
    BY <2>1, <2>2, StripIsSequence
<1> QED
  BY <1>1, <1>2, <1>3, <1>4 DEF Walkable

(* The invariant holds before the walk, and every step keeps it.             *)
LEMMA OthersBegin == ProtectionInit => OthersInv
<1> SUFFICES ASSUME ProtectionInit PROVE OthersInv
  OBVIOUS
<1>1. /\ world \in Worlds /\ target \in AskedPaths /\ lines = world.mounts
      /\ todo \cup visited = {} /\ out = {}
  BY DEF ProtectionInit
<1>2. lines \in Seq({world.mounts[i] : i \in DOMAIN world.mounts})
  BY <1>1, WorldsAssumption
<1>3. SystemSources = {} \/ \E i \in DOMAIN lines : lines[i].at \in SystemMounts
  BY <1>1 DEF SystemSources, SystemLines
<1> QED
  BY <1>1, <1>2, <1>3 DEF OthersInv

LEMMA ReadMountOthers ==
  ASSUME OthersInv, ReadMount
  PROVE  OthersInv'
<1> DEFINE All == {world.mounts[i] : i \in DOMAIN world.mounts}
           dev == Head(lines).dev
<1>1. /\ world \in Worlds /\ target \in AskedPaths /\ lines \in Seq(All)
      /\ todo \cup visited \subseteq Walkable
      /\ out \subseteq SystemNames \cup {Dev \o n : n \in Walkable}
      /\ \/ SystemSources = {} \/ foundRootMount
         \/ \E i \in DOMAIN lines : lines[i].at \in SystemMounts
  BY DEF OthersInv
<1>2. UNCHANGED <<world, target>> /\ lines # <<>> /\ lines' = Tail(lines)
  BY DEF ReadMount
<1>3. Head(lines) \in All /\ lines' \in Seq(All)
  BY <1>1, <1>2
<1>4. Walkable' = Walkable /\ SystemNames' = SystemNames /\ SystemSources' = SystemSources
  BY <1>2, SameNames
<1>5. CASE Head(lines).at \in SystemMounts
  <2>1. /\ foundRootMount' /\ out' = out \cup {dev, FileName(dev)}
        /\ todo' = {Strip(dev)} /\ visited' = {}
    BY <1>5 DEF ReadMount
  <2>2. dev \in SystemSources
    BY <1>3, <1>5 DEF SystemSources, SystemLines
  <2> HIDE DEF dev
  <2>3. Strip(dev) \in Walkable /\ {dev, FileName(dev)} \subseteq SystemNames
    BY <2>2 DEF Walkable, Sources, SystemNames
  <2> QED
    BY <1>1, <1>2, <1>3, <1>4, <2>1, <2>3 DEF OthersInv
<1>6. CASE Head(lines).at \notin SystemMounts
  <2>1. UNCHANGED <<foundRootMount, out, todo, visited>>
    BY <1>6 DEF ReadMount
  <2>2. ASSUME NEW i \in DOMAIN lines, lines[i].at \in SystemMounts
        PROVE  \E k \in DOMAIN lines' : lines'[k].at \in SystemMounts
    <3>1. i # 1 /\ i \in 1..Len(lines)
      BY <1>1, <1>2, <1>6, <2>2
    <3>2. i - 1 \in DOMAIN Tail(lines) /\ Tail(lines)[i - 1] = lines[i]
      BY <1>1, <1>2, <3>1
    <3> QED
      BY <1>2, <2>2, <3>2
  <2> QED
    BY <1>1, <1>2, <1>3, <1>4, <2>1, <2>2 DEF OthersInv
<1> QED
  BY <1>5, <1>6

LEMMA VisitOthers ==
  ASSUME OthersInv, NEW name \in todo, Visit(name)
  PROVE  OthersInv'
<1>1. /\ UNCHANGED <<world, target, lines, foundRootMount>>
      /\ visited' = visited \cup {name}
      /\ out' = out \cup UNION {Both(n) : n \in {name} \cup Reached(name)}
      /\ todo' \subseteq todo \cup Reached(name)
  BY DEF Visit
<1>2. Walkable' = Walkable /\ SystemNames' = SystemNames /\ SystemSources' = SystemSources
  BY <1>1, SameNames
<1>3. {name} \cup Reached(name) \subseteq Walkable
  BY WalkStays DEF OthersInv
<1>4. ASSUME NEW n \in Walkable PROVE Both(n) \subseteq SystemNames \cup {Dev \o x : x \in Walkable}
  BY NamesAreSequences, Zenon DEF OthersInv, Both
<1>5. todo' \cup visited' \subseteq Walkable
  BY <1>1, <1>3 DEF OthersInv
<1>6. out' \subseteq SystemNames \cup {Dev \o n : n \in Walkable}
  <2>1. UNION {Both(n) : n \in {name} \cup Reached(name)} \subseteq SystemNames \cup {Dev \o n : n \in Walkable}
    BY <1>3, <1>4
  <2>2. out \subseteq SystemNames \cup {Dev \o n : n \in Walkable}
    BY Zenon DEF OthersInv
  <2> QED
    BY <1>1, <2>1, <2>2
<1> QED
  BY <1>1, <1>2, <1>5, <1>6 DEF OthersInv

LEMMA OthersStep == OthersInv /\ [ProtectionNext]_protectionVars => OthersInv'
<1> SUFFICES ASSUME OthersInv, [ProtectionNext]_protectionVars PROVE OthersInv'
  OBVIOUS
<1>1. CASE ReadMount
  BY <1>1, ReadMountOthers
<1>2. CASE \E name \in todo : Visit(name)
  BY <1>2, VisitOthers
<1>3. CASE Decide \/ UNCHANGED protectionVars
  <2>1. UNCHANGED <<world, target, lines, foundRootMount, todo, visited, out>>
    BY <1>3 DEF Decide, protectionVars
  <2> QED
    BY <2>1, SameNames DEF OthersInv
<1> QED
  BY <1>1, <1>2, <1>3 DEF ProtectionNext

(* Of numbers there is a least.                                              *)
LEMMA LeastIsThere ==
  ASSUME NEW S \in SUBSET Nat, S # {}
  PROVE  \E s \in S : \A k \in S : s <= k
<1>1. PICK x \in S : \A y \in S : <<y, x>> \notin OpToRel(<, Nat)
  BY WFMin, NatLessThanWellFounded, Zenon
<1>2. ASSUME NEW y \in S PROVE ~ (y < x)
  BY <1>1, Zenon DEF OpToRel
<1> QED
  BY <1>2

(* What comes after the last "/" of a path has no "/" in it.                  *)
LEMMA FileNameIsFlat ==
  ASSUME NEW path \in Seq(Pieces)
  PROVE  /\ FileName(path) \in Seq(Pieces)
         /\ \A k \in DOMAIN FileName(path) : FileName(path)[k] # "/"
<1> DEFINE I == {i \in 1..Len(path) : path[i] = "/"}
           last == IF I # {} THEN Max(I) ELSE 0
<1>1. FileName(path) = SubSeq(path, last + 1, Len(path))
  BY Zenon DEF FileName, Drop, SelectLastInSeq
<1>2. last \in 0..Len(path) /\ \A i \in I : i <= last
  <2>1. CASE I = {}
    BY <2>1
  <2>2. CASE I # {}
    <3> DEFINE J == {Len(path) - i : i \in I}
    <3>1. J \in SUBSET Nat /\ J # {}
      BY <2>2
    <3>2. PICK j \in J : \A k \in J : j <= k
      <4> HIDE DEF J
      <4> QED
        BY <3>1, LeastIsThere
    <3>3. \E x \in I : \A y \in I : x >= y
      <4>1. PICK x \in I : j = Len(path) - x
        OBVIOUS
      <4>2. ASSUME NEW y \in I PROVE x >= y
        <5>1. j <= Len(path) - y
          BY <3>2
        <5> QED
          BY <4>1, <5>1
      <4> QED
        BY <4>2
    <3> HIDE DEF I
    <3>4. Max(I) \in I /\ \A y \in I : Max(I) >= y
      BY <3>3, Zenon DEF Max
    <3> QED
      BY <2>2, <3>4 DEF I
  <2> QED
    BY <2>1, <2>2
<1> HIDE DEF last
<1>3. SubSeq(path, last + 1, Len(path)) \in Seq(Pieces)
  BY <1>2
<1>4. ASSUME NEW k \in DOMAIN SubSeq(path, last + 1, Len(path))
      PROVE  SubSeq(path, last + 1, Len(path))[k] # "/"
  <2>1. /\ last + k \in 1..Len(path) /\ last + k > last
        /\ SubSeq(path, last + 1, Len(path))[k] = path[last + k]
    BY <1>2
  <2> QED
    BY <1>2, <2>1
<1> QED
  BY <1>1, <1>3, <1>4

(* No name that was put out, and no device file that has it, is one that a      *)
(* path which spells no name of the system goes on from.                     *)
LEMMA UnspelledNotOut ==
  ASSUME OthersInv, NEW path \in Seq(Pieces), ~Spells(path),
         \A i \in 2..Len(path) : path[i - 1] = "/" => path[i] # "/"
  PROVE  /\ path \notin out /\ FileName(path) \notin out
         /\ \A base \in out : ~IsPrefix(base, path) /\ ~IsPrefix(Dev \o base, path)
<1>1. \A base \in out : base \in SystemNames \/ \E n \in Walkable : base = Dev \o n
  BY DEF OthersInv
<1>2. \A n \in Walkable : n \in SystemNames /\ n \in Seq(Pieces)
  BY NamesAreSequences DEF OthersInv
<1>3. \A name \in SystemNames :
        FileName(path) # name /\ ~IsPrefix(name, path) /\ ~IsPrefix(Dev \o name, path)
  BY Zenon DEF Spells
<1>4. ASSUME NEW n \in Seq(Pieces) PROVE ~IsPrefix(Dev \o (Dev \o n), path)
  <2> SUFFICES ASSUME IsPrefix(Dev \o (Dev \o n), path) PROVE FALSE
    OBVIOUS
  <2> DEFINE s == Dev \o (Dev \o n)
  <2>1. s \in Seq(Pieces) /\ Len(s) >= 6 /\ s[3] = "/" /\ s[4] = "/"
    <3> DEFINE file == Dev \o n
    <3>1. file \in Seq(Pieces) /\ Len(file) >= 3 /\ file[1] = "/"
      BY DeviceFile
    <3> HIDE DEF file
    <3>2. Dev \o file \in Seq(Pieces) /\ Len(Dev \o file) >= 6
          /\ (Dev \o file)[3] = "/" /\ (Dev \o file)[4] = "/"
      <4>1. /\ Dev \o file \in Seq(Pieces) /\ Len(Dev \o file) = 3 + Len(file)
            /\ (Dev \o file)[3] = "/" /\ \A k \in 1..Len(file) : (Dev \o file)[3 + k] = file[k]
        BY <3>1, DeviceFile, Zenon
      <4>2. Len(file) \in Nat /\ 1 \in 1..Len(file) /\ 3 + 1 = 4
        BY <3>1
      <4>3. (Dev \o file)[4] = file[1]
        BY <4>1, <4>2
      <4> QED
        BY <3>1, <4>1, <4>2, <4>3
    <3> QED
      BY <3>2 DEF file
  <2> HIDE DEF s
  <2>2. Len(s) <= Len(path) /\ SubSeq(s, 1, Len(s)) = SubSeq(path, 1, Len(s))
    BY Zenon DEF IsPrefix, s
  <2>3. \A k \in 1..Len(s) : path[k] = s[k]
    BY <2>1, <2>2, SamePieces, Zenon
  <2>4. 4 \in 2..Len(path) /\ 4 - 1 = 3 /\ 3 \in 1..Len(s) /\ 4 \in 1..Len(s)
    BY <2>1, <2>2
  <2> QED
    BY <2>1, <2>3, <2>4
<1>5. ASSUME NEW base \in out PROVE ~IsPrefix(base, path) /\ ~IsPrefix(Dev \o base, path)
  BY <1>1, <1>2, <1>3, <1>4, Zenon
<1>6. IsPrefix(path, path)
  BY DEF IsPrefix
<1>7. FileName(path) \notin out
  <2>1. ASSUME NEW n \in Seq(Pieces) PROVE FileName(path) # Dev \o n
    <3>1. 1 \in DOMAIN (Dev \o n) /\ (Dev \o n)[1] = "/"
      BY DEF Dev
    <3> QED
      BY <3>1, FileNameIsFlat, Zenon
  <2> QED
    BY <1>1, <1>2, <1>3, <2>1, Zenon
<1> QED
  BY <1>5, <1>6, <1>7, Zenon

LEMMA OthersSafe == RefusalInv /\ OthersInv => OthersAllowed
<1> SUFFICES ASSUME RefusalInv, OthersInv, answer.given, world.readable, SystemSources # {},
                    NEW t \in Devices, real = Dev \o t, target # <<>>,
                    ~Spells(target), ~Spells(real)
             PROVE  ~answer.platform
  BY DEF OthersAllowed
<1>1. answer.platform = IsRootOrSystemPath /\ lines = <<>>
  BY DEF RefusalInv, AnswerInv
<1>2. foundRootMount
  BY <1>1 DEF OthersInv
<1>3. /\ t \in Seq(Pieces) /\ t # <<>> /\ t[1] \notin DevTrees
      /\ \A i \in DOMAIN t : t[i] # "/"
  BY NamesAssumption DEF OthersInv, Devices
<1>4. /\ real \in Seq(Pieces) /\ Len(real) = 3 + Len(t) /\ Len(t) \in Nat \ {0}
      /\ real[1] = "/" /\ real[2] = "dev" /\ real[3] = "/"
      /\ \A k \in 1..Len(t) : real[3 + k] = t[k]
  BY <1>3, DeviceFile
<1>5. \A i \in 2..Len(real) : real[i - 1] = "/" => real[i] # "/"
  <2>1. ASSUME NEW i \in 2..Len(real), i > 3 PROVE real[i] # "/"
    <3>1. i - 3 \in 1..Len(t) /\ 3 + (i - 3) = i /\ DOMAIN t = 1..Len(t)
      BY <1>3, <1>4, <2>1
    <3> QED
      BY <1>3, <1>4, <3>1
  <2>2. ASSUME NEW i \in 2..Len(real), ~(i > 3), real[i - 1] = "/" PROVE real[i] # "/"
    <3>1. i = 2 \/ i = 3
      BY <2>2
    <3> QED
      BY <1>4, <2>2, <3>1
  <2> QED
    BY <2>1, <2>2
<1>6. target \in Seq(Pieces) /\ \A i \in 2..Len(target) : target[i - 1] = "/" => target[i] # "/"
  BY PathsAssumption, Zenon DEF OthersInv
<1>7. /\ real \notin out /\ FileName(real) \notin out
      /\ \A base \in out : ~IsPrefix(base, real) /\ ~IsPrefix(Dev \o base, real)
  BY <1>4, <1>5, UnspelledNotOut, Zenon
<1>8. /\ target \notin out /\ FileName(target) \notin out
      /\ \A base \in out : ~IsPrefix(base, target) /\ ~IsPrefix(Dev \o base, target)
  BY <1>6, UnspelledNotOut, Zenon
<1>9. ~IsMainSystemDrive(target) /\ ~IsMainSystemDrive(real)
  <2>1. real # <<>>
    BY <1>4
  <2>2. FileName(IF target[1] = "/" THEN real ELSE target) \notin out
    BY <1>7, <1>8, Zenon
  <2>3. FileName(IF real[1] = "/" THEN real ELSE real) \notin out
    BY <1>7, Zenon
  <2>4. ~IsMainSystemDrive(target)
    BY <1>2, <1>8, <2>2, Zenon DEF IsMainSystemDrive
  <2>5. ~IsMainSystemDrive(real)
    BY <1>2, <1>7, <2>1, <2>3, Zenon DEF IsMainSystemDrive
  <2> QED
    BY <2>4, <2>5
<1>10. real \notin {Root, <<"/", "dev">>}
  BY <1>4 DEF Root
<1>11. ASSUME NEW d \in LinuxProtected PROVE ~Within(real, <<"/", d>>)
  <2> DEFINE s == <<"/", d>> \o Root
  <2>0. d \in Pieces /\ d # "dev"
    BY PiecesAssumption DEF LinuxProtected
  <2>1. s \in Seq(Pieces) /\ Len(s) = 3 /\ s[2] = d /\ d # "dev" /\ Len(<<"/", d>>) = 2
    <3> DEFINE dir == <<"/", d>>
    <3>1. dir \in Seq(Pieces) /\ Len(dir) = 2 /\ dir[2] = d
      BY <2>0, PiecesAssumption
    <3>2. Root \in Seq(Pieces) /\ Len(Root) = 1
      BY PiecesAssumption DEF Root
    <3> HIDE DEF dir
    <3>3. dir \o Root \in Seq(Pieces) /\ Len(dir \o Root) = 3 /\ (dir \o Root)[2] = d
      <4>1. /\ dir \o Root \in Seq(Pieces) /\ Len(dir \o Root) = Len(dir) + Len(Root)
            /\ \A k \in 1..Len(dir) : (dir \o Root)[k] = dir[k]
        <5>1. dir \o Root \in Seq(Pieces) /\ JoinOf(dir \o Root, dir, Root)
          BY <3>1, <3>2, PiecesJoined, Zenon
        <5> QED
          BY <5>1, Zenon DEF JoinOf
      <4>2. 2 \in 1..Len(dir) /\ Len(dir) + Len(Root) = 3
        BY <3>1, <3>2
      <4> QED
        BY <3>1, <4>1, <4>2, Zenon
    <3> QED
      BY <2>0, <3>1, <3>3 DEF dir
  <2> HIDE DEF s
  <2>2. ~IsPrefix(s, real)
    <3> SUFFICES ASSUME IsPrefix(s, real) PROVE FALSE
      OBVIOUS
    <3>1. \A k \in 1..Len(s) : real[k] = s[k]
      BY <1>4, <2>1, SamePieces, Zenon DEF IsPrefix
    <3> QED
      BY <1>4, <2>1, <3>1
  <2>3. real # <<"/", d>>
    <3>1. Len(real) # 2
      BY <1>4
    <3> QED
      BY <2>1, <3>1, Zenon
  <2> QED
    BY <2>2, <2>3, Zenon DEF Within, s
<1>12. ASSUME NEW d \in DevTrees PROVE ~IsPrefix(Dev \o <<d>>, real)
  <2> DEFINE s == Dev \o <<d>>
  <2>1. s \in Seq(Pieces) /\ Len(s) = 4 /\ s[4] = d
    <3> DEFINE last == <<d>>
    <3>1. last \in Seq(Pieces) /\ Len(last) = 1 /\ last[1] = d /\ 3 + 1 = 4 /\ 1 \in 1..1
      BY PiecesAssumption
    <3> HIDE DEF last
    <3>2. /\ Dev \o last \in Seq(Pieces) /\ Len(Dev \o last) = 3 + Len(last)
          /\ \A k \in 1..Len(last) : (Dev \o last)[3 + k] = last[k]
      BY <3>1, DeviceFile, Zenon
    <3>3. Dev \o last \in Seq(Pieces) /\ Len(Dev \o last) = 4 /\ (Dev \o last)[4] = d
      BY <3>1, <3>2
    <3> QED
      BY <3>3 DEF last
  <2> HIDE DEF s
  <2>2. ~IsPrefix(s, real)
    <3> SUFFICES ASSUME IsPrefix(s, real) PROVE FALSE
      OBVIOUS
    <3>1. \A k \in 1..Len(s) : real[k] = s[k]
      BY <1>4, <2>1, SamePieces, Zenon DEF IsPrefix
    <3>2. real[4] = t[1]
      <4>1. 1 \in 1..Len(t) /\ 3 + 1 = 4
        BY <1>4
      <4> QED
        BY <1>4, <4>1
    <3>3. real[4] = d
      <4>1. 4 \in 1..Len(s)
        BY <2>1
      <4> QED
        BY <2>1, <3>1, <4>1
    <3> QED
      BY <1>3, <3>2, <3>3
  <2> QED
    BY <2>2 DEF s
<1> QED
  BY <1>1, <1>9, <1>10, <1>11, <1>12, Zenon DEF IsRootOrSystemPath

(* A device that carries nothing of the system, asked about by a path that    *)
(* goes on from no name of it, is not refused: the walk takes in no more than   *)
(* the devices that carry the system and what these lie in.                  *)
THEOREM OthersAlwaysAllowed == ProtectionSpec => []OthersAllowed
<1>1. ProtectionSpec => []RefusalInv
  BY RefusalBegins, RefusalStep, PTL DEF ProtectionSpec
<1>2. ProtectionSpec => []OthersInv
  BY OthersBegin, OthersStep, PTL DEF ProtectionSpec
<1> QED
  BY <1>1, <1>2, OthersSafe, PTL
=============================================================================
