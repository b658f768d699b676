--------------------------- MODULE RecoveryEngine ---------------------------
(***************************************************************************)
(* The recovery of an image: RecoveryEngine::runRecovery of                *)
(* src/src/recovery/recovery_engine.cpp.  The files that a file system     *)
(* analyzer lists are extracted, active ones first; then the whole image   *)
(* is carved, and what was carved at an offset that an extracted file is   *)
(* said to cover is left out of the report.                                *)
(*                                                                         *)
(* The analyzers are represented by what they may list.  What is written   *)
(* of the listed files, which nothing reads again, the hashes of the image *)
(* before and after, and the audit entry are left out.                     *)
(***************************************************************************)
EXTENDS FileCarver, FiniteSets, Functions

CONSTANTS
  Listings,      \* what a file system analyzer may list
  MaxHeaders     \* bound on the offsets with a header

Listed == [byte_offset : Offsets, file_size : 1..Size]

ASSUME ListingAssumption ==
  /\ Listings \subseteq Seq(Listed)
  /\ MaxHeaders \in Nat /\ MaxFaults \in Nat

VARIABLES
  pc,            \* "files", "scan", "carve", "filter" or "done"
  listing,       \* the files listed
  done,          \* how many of them have been dealt with
  recoveredRanges,
  filtered,      \* how many of the carved files have been looked at again
  raw_carved_files

report == <<listing, done, recoveredRanges, filtered, raw_carved_files>>
vars == <<headers, scanner, carver, faults, pc, report>>

Init ==
  /\ headers \in Images
  /\ Cardinality({o \in Offsets : headers[o] # {}}) <= MaxHeaders
  /\ ScanInit /\ CarveInit
  /\ pc = "files"
  /\ listing \in Listings
  /\ done = 0
  /\ recoveredRanges = <<>>
  /\ filtered = 0 /\ raw_carved_files = <<>>

(* One listed file; nothing may be extracted of it, and then it is only    *)
(* reported.                                                               *)
RecoverFile ==
  /\ pc = "files" /\ done < Len(listing)
  /\ done' = done + 1
  /\ LET f == listing[done + 1]
     IN \/ recoveredRanges' =
             Append(recoveredRanges, [first |-> f.byte_offset, second |-> f.file_size])
        \/ UNCHANGED recoveredRanges
  /\ UNCHANGED <<headers, scanner, carver, faults, pc, listing, filtered, raw_carved_files>>

BeginScan ==
  /\ pc = "files" /\ done = Len(listing)
  /\ pc' = "scan"
  /\ UNCHANGED <<headers, scanner, carver, faults, report>>

ScanStep ==
  /\ pc = "scan"
  /\ Scan
  /\ UNCHANGED <<carver, faults, pc, report>>

BeginCarve ==
  /\ pc = "scan" /\ scan = "done"
  /\ pc' = "carve"
  /\ UNCHANGED <<headers, scanner, carver, faults, report>>

CarveStep ==
  /\ pc = "carve"
  /\ CarveNext
  /\ UNCHANGED <<headers, scanner, pc, report>>

(* Mutant: a file at the end of a range counts as covered by it. *)
CoversEnd(o) ==
  \E r \in Range(recoveredRanges) :
    r.first # 0 /\ o >= r.first /\ o <= r.first + r.second

(* A range that begins at 0 is that of a file without clusters. *)
AlreadyRecovered(o) ==
  \E r \in Range(recoveredRanges) :
    r.first # 0 /\ o >= r.first /\ o < r.first + r.second

BeginFilter ==
  /\ pc = "carve" /\ next > Len(matches)
  /\ pc' = "filter"
  /\ UNCHANGED <<headers, scanner, carver, faults, report>>

Filter ==
  /\ pc = "filter" /\ filtered < Len(carvedFiles)
  /\ LET carved == carvedFiles[filtered + 1]
     IN raw_carved_files' = IF AlreadyRecovered(carved.offset) THEN raw_carved_files
                            ELSE Append(raw_carved_files, carved)
  /\ filtered' = filtered + 1
  /\ UNCHANGED <<headers, scanner, carver, faults, pc, listing, done, recoveredRanges>>

Finish ==
  /\ pc = "filter" /\ filtered = Len(carvedFiles)
  /\ pc' = "done"
  /\ UNCHANGED <<headers, scanner, carver, faults, report>>

Finished == pc = "done" /\ UNCHANGED vars

Next ==
  \/ RecoverFile \/ BeginScan \/ ScanStep \/ BeginCarve \/ CarveStep
  \/ BeginFilter \/ Filter \/ Finish \/ Finished

Spec == Init /\ [][Next]_vars /\ WF_vars(Next)

-----------------------------------------------------------------------------
TypeOK ==
  /\ ScanTypeOK /\ CarveTypeOK
  /\ pc \in {"files", "scan", "carve", "filter", "done"}
  /\ listing \in Seq(Listed)
  /\ done \in 0..Len(listing)
  /\ recoveredRanges \in Seq([first : Offsets, second : 1..Size])
  /\ filtered \in 0..Len(carvedFiles)
  /\ raw_carved_files \in Seq(Carved)

(* What becomes of the headers.  In the part of the image that was         *)
(* searched every header was no file of its kind, or lies in a valid       *)
(* carved file, or is the start of a carved file that is reported or that  *)
(* lies where a listed file was recovered: none is lost between the scan,  *)
(* the carver and the filter of the engine.                                *)
NothingLost ==
  pc = "done" =>
    \A o \in Offsets : o < Searched /\ headers[o] # {} =>
      \/ o \in rejected
      \/ \E c \in Range(carvedFiles) :
           c.isValid /\ c.offset < o /\ o < c.offset + c.length
      \/ \E c \in Range(raw_carved_files) : c.offset = o
      \/ \E r \in Range(recoveredRanges) : r.first <= o /\ o < r.first + r.second

(* The hash of a carved file that is reported as exported is that of what  *)
(* lies in the output directory, also when the end of it was never         *)
(* written; unless it could not be read again to its end.                  *)
HashesTrue ==
  \A c \in Range(carvedFiles) :
    c.state # "EXPORT_FAILED" /\ c.offset \notin unread => c.sha256 = exported[c.offset]

(* A recovery comes to its end, unreadable sectors or not. *)
Terminates == <>(pc = "done")
=============================================================================
