--------------------------- MODULE ImageSanitizer ---------------------------
(***************************************************************************)
(* Overwriting a disk image: ImageSanitizer::sanitizeImage with the         *)
(* strategies and SanitizationVerifier::verifyImage.                        *)
(*                                                                         *)
(* A cell stands for a chunk of 64 KB, a hash for the content it was taken *)
(* of.  The image is opened by its name several times: for the first hash, *)
(* for the passes, for each sync and to be verified.  Meanwhile another    *)
(* program may move another image to the name, or append to it.            *)
(***************************************************************************)
EXTENDS Naturals, Sequences, SequencesExt

CONSTANTS
  FirstImages,   \* contents of the image
  OtherImage,    \* the image that may be moved to its name
  SampleCells,   \* how much of it the entropy is measured on
  MaxMeddling    \* bound on the steps of the other program

(* Data of low and of high entropy, and what the passes write.              *)
Text == "text"
Packed == "packed"
Zero == "zero"
Ones == "ones"
Random == "random"
Contents == {Text, Packed, Zero, Ones, Random}

ASSUME ImagesAssumption ==
  /\ FirstImages \subseteq Seq(Contents) /\ OtherImage \in Seq(Contents)
  /\ {SampleCells, MaxMeddling} \subseteq Nat

VARIABLES
  cells,      \* contents of the two images, by inode
  named,      \* the inode that the name leads to
  run,        \* the sanitization: phase, strategy, size, inode held, ...
  meddling    \* steps of the other program

imageVars == <<cells, named, run, meddling>>

Strategies == {"clear", "dod", "random"}

TotalPasses(s) == IF s = "dod" THEN 3 ELSE 1

FillPassBuffer(s, pass) ==
  CASE s = "clear" -> Zero
    [] s = "dod" -> <<Zero, Ones, Random>>[pass]
    [] s = "random" -> Random

(* The report, with the status of the record in the audit log.              *)
NoReport == [verified |-> FALSE, passes |-> 0, record |-> "none"]

Idle == [phase |-> "idle", strategy |-> "clear", size |-> 0, fd |-> 1,
         pass |-> 0, pos |-> 0, pre |-> <<>>, report |-> NoReport]

ImageInit ==
  /\ \E c \in FirstImages : cells = <<c, OtherImage>>
  /\ named = 1 /\ run = Idle /\ meddling = 0

Ended(report) == run' = [run EXCEPT !.phase = "done", !.report = report]

(* The checks, the hash before, and the size that all passes go by.         *)
Begin(strategy, regular, protected) ==
  /\ run.phase = "idle"
  /\ LET size == Len(cells[named])
     IN  IF protected \/ ~regular \/ size = 0
         THEN Ended([NoReport EXCEPT !.record = IF protected THEN "BLOCKED" ELSE @])
         ELSE run' = [Idle EXCEPT !.phase = "open", !.strategy = strategy,
                                  !.size = size, !.pre = cells[named]]
  /\ UNCHANGED <<cells, named, meddling>>

OpenImage ==
  /\ run.phase = "open"
  /\ \/ run' = [run EXCEPT !.phase = "write", !.fd = named, !.pass = 1]
     \/ Ended([NoReport EXCEPT !.record = "IO_ERROR"])
  /\ UNCHANGED <<cells, named, meddling>>

Overwritten(file, pos, cell) ==
  IF pos < Len(file) THEN [file EXCEPT ![pos + 1] = cell] ELSE Append(file, cell)

(* Mutant: a failed write is taken for the end of the pass.                 *)
WriteCellGoesOn ==
  /\ run.phase = "write" /\ run.pos < run.size
  /\ \/ /\ cells' = [cells EXCEPT ![run.fd] =
                       Overwritten(@, run.pos, FillPassBuffer(run.strategy, run.pass))]
        /\ run' = [run EXCEPT !.pos = @ + 1]
     \/ run' = [run EXCEPT !.pos = run.size] /\ UNCHANGED cells
  /\ UNCHANGED <<named, meddling>>

(* A write that fails, like a flush or a sync that does, ends the run with  *)
(* no record in the audit log.                                             *)
WriteCell ==
  /\ run.phase = "write" /\ run.pos < run.size
  /\ \/ /\ cells' = [cells EXCEPT ![run.fd] =
                       Overwritten(@, run.pos, FillPassBuffer(run.strategy, run.pass))]
        /\ run' = [run EXCEPT !.pos = @ + 1]
     \/ /\ Ended(run.report)
        /\ UNCHANGED cells
  /\ UNCHANGED <<named, meddling>>

(* The sync opens the name anew, and does without when that fails.          *)
EndPass ==
  /\ run.phase = "write" /\ run.pos = run.size
  /\ \/ run' = [run EXCEPT !.report.passes = @ + 1, !.pos = 0,
                  !.pass = @ + 1,
                  !.phase = IF run.pass = TotalPasses(run.strategy) THEN "verify" ELSE @]
     \/ Ended(run.report)
  /\ UNCHANGED <<cells, named, meddling>>

High(sample) == \A i \in DOMAIN sample : sample[i] \in {Packed, Random}

(* What is at the name now.  The measure is the whole file for zeros, its   *)
(* first megabyte for random data.                                         *)
VerifyImage(file, strategy, pre) ==
  CASE file = <<>> -> TRUE
    [] file # <<>> /\ file = pre -> FALSE
    [] OTHER -> IF strategy = "clear"
                THEN \A i \in DOMAIN file : file[i] = Zero
                ELSE High(SubSeq(file, 1, IF Len(file) < SampleCells THEN Len(file)
                                          ELSE SampleCells))

Verify ==
  /\ run.phase = "verify"
  /\ LET verified == VerifyImage(cells[named], run.strategy, run.pre)
     IN  Ended([run.report EXCEPT !.verified = verified,
                  !.record = IF verified THEN "SUCCESS" ELSE "FAILED"])
  /\ UNCHANGED <<cells, named, meddling>>

SanitizeStep == OpenImage \/ WriteCell \/ EndPass \/ Verify

(* Another program, while the image is being sanitized.                     *)
Meddle ==
  /\ run.phase \in {"open", "write", "verify"} /\ meddling < MaxMeddling
  /\ meddling' = meddling + 1
  /\ \/ named = 1 /\ named' = 2 /\ UNCHANGED cells
     \/ cells' = [cells EXCEPT ![named] = Append(@, Text)] /\ UNCHANGED named
  /\ UNCHANGED run

=============================================================================
