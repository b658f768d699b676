----------------------------- MODULE FileCarver -----------------------------
(***************************************************************************)
(* Carving: FileCarver::carve and carveSingle of                           *)
(* src/src/carving/file_carver.cpp, over the matches of the scanner.       *)
(*                                                                         *)
(* The verdict of the format validator is not derived from the bytes.      *)
(* Each of the validators of format_validator.cpp that says VALID or       *)
(* PARTIAL gives a length between 1 and that of the window, so that the    *)
(* bound by the next header, or by 4096 bytes, is not met by a file that   *)
(* is kept.  Contents are ranges of the image.  There is an output         *)
(* directory.                                                              *)
(***************************************************************************)
EXTENDS SignatureScanner

CONSTANTS
  NoContent,     \* nothing, or no file
  MaxFaults      \* bound on failing reads and writes outside the scan

VARIABLES
  next,          \* the match that is carved next
  lastCarvedEndOffset,
  carvedFiles,
  exported,      \* what lies in the output directory under each offset
  rejected,      \* history: the offsets of matches that were no files
  unread,        \* history: the offsets of files exported and not, or not all, read again
  faults

carver == <<next, lastCarvedEndOffset, carvedFiles, exported, rejected, unread>>

Content == [from : Offsets, length : 0..Size]
Carved == [offset : Offsets, length : 1..Size, isValid : BOOLEAN,
           state : {"VALID", "PARTIAL", "EXPORT_FAILED"}, sha256 : Content]

CarveInit ==
  /\ next = 1 /\ lastCarvedEndOffset = 0
  /\ carvedFiles = <<>>
  /\ exported = [o \in Offsets |-> NoContent]
  /\ rejected = {} /\ unread = {}
  /\ faults = 0

Fault == faults < MaxFaults /\ faults' = faults + 1

Window(m) == Lesser(Size - m.offset, Signatures[m.signature].max)

(* Mutant: no header is skipped. *)
NeverInside(m) == FALSE

(* Does the match lie in a valid file that was carved before? *)
Inside(m) == m.offset < lastCarvedEndOffset

Skip ==
  /\ next \in DOMAIN matches
  /\ Inside(matches[next])
  /\ next' = next + 1
  /\ UNCHANGED <<lastCarvedEndOffset, carvedFiles, exported, rejected, unread, faults>>

(* Too little is left of the image, it cannot be read, or what is there is *)
(* not a file of its format.                                               *)
Reject ==
  /\ next \in DOMAIN matches
  /\ LET m == matches[next]
     IN /\ ~Inside(m)
        /\ rejected' = rejected \cup {m.offset}
  /\ next' = next + 1
  /\ UNCHANGED <<lastCarvedEndOffset, carvedFiles, exported, unread, faults>>

Keep(file) ==
  /\ carvedFiles' = Append(carvedFiles, file)
  /\ lastCarvedEndOffset' =
       IF file.isValid /\ file.offset + file.length > lastCarvedEndOffset
       THEN file.offset + file.length ELSE lastCarvedEndOffset

(* Mutant: the hash is that of the buffer and not of the file written. *)
HashOfBuffer(buffer, written) == buffer

HashOf(buffer, written) == written

(* A file of n bytes is found, written out, and read again for its hash.   *)
(* Writing stops short, which is noticed or, at the close that flushes the *)
(* last bytes, is not; a file of no bytes stands for one that could not be *)
(* opened.  A file that cannot be read again gets the hash of the buffer,  *)
(* and one that is read in part the hash of that part.                     *)
Carve(state, n) ==
  LET m == matches[next]
      buffer == [from |-> m.offset, length |-> n]
      file(s, hash) == [offset |-> m.offset, length |-> n, isValid |-> s = "VALID",
                        state |-> s, sha256 |-> hash]
      cut == [buffer EXCEPT !.length = n - 1]
      Exports(written) == exported' = [exported EXCEPT ![m.offset] = written]
  IN /\ ~Inside(m)
     /\ Signatures[m.signature].min <= Window(m) /\ n <= Window(m)
     /\ next' = next + 1
     /\ \/ /\ Exports(buffer)
           /\ Keep(file(state, HashOf(buffer, buffer)))
           /\ UNCHANGED <<unread, faults>>
        \/ /\ Fault
           /\ Exports(buffer)
           /\ Keep(file(state, buffer)) \/ Keep(file(state, cut))
           /\ unread' = unread \cup {m.offset}
        \/ /\ Fault
           /\ Exports(cut)
           /\ Keep(file(state, HashOf(buffer, cut))) \/ Keep(file("EXPORT_FAILED", buffer))
           /\ UNCHANGED unread
     /\ UNCHANGED rejected

CarveNext ==
  \/ Skip \/ Reject
  \/ /\ next \in DOMAIN matches
     /\ \E state \in {"VALID", "PARTIAL"}, n \in 1..Size : Carve(state, n)

-----------------------------------------------------------------------------
CarveTypeOK ==
  /\ next \in Nat \ {0}
  /\ lastCarvedEndOffset \in 0..Size
  /\ carvedFiles \in Seq(Carved)
  /\ exported \in [Offsets -> Content \cup {NoContent}]
  /\ rejected \subseteq Offsets /\ unread \subseteq Offsets
  /\ faults \in Nat

(* Carved files come in the order of their headers and lie in the image,   *)
(* and none begins in a valid one that was carved before it.               *)
CarvedApart ==
  /\ \A k \in DOMAIN carvedFiles : carvedFiles[k].offset + carvedFiles[k].length <= Size
  /\ \A j, k \in DOMAIN carvedFiles : j < k =>
       /\ carvedFiles[j].offset < carvedFiles[k].offset
       /\ carvedFiles[j].isValid =>
            carvedFiles[k].offset >= carvedFiles[j].offset + carvedFiles[j].length
=============================================================================
