-------------------------- MODULE SignatureScanner --------------------------
(***************************************************************************)
(* The search of an image for file headers: SignatureScanner::scan of      *)
(* src/src/carving/signature_scanner.cpp.  The image is read in chunks     *)
(* that overlap by the longest header, and every position of a chunk but   *)
(* those of the overlap is compared with the signature database, highest   *)
(* priority first.                                                         *)
(*                                                                         *)
(* The bytes of the image are abstracted to the headers that lie in it,    *)
(* each of them with all its bytes.                                        *)
(***************************************************************************)
EXTENDS Naturals, Sequences

CONSTANTS
  Size,          \* bytes of the image
  Chunk,         \* chunkSize
  MaxHeader,     \* maxHeaderSize
  Signatures     \* the database, sorted by priority: length of the header,
                 \*   minSize, and the lesser of maxReasonableSize and maxCarveSize

ASSUME ScanAssumption ==
  /\ Size \in Nat /\ Chunk \in Nat \ {0} /\ MaxHeader \in Nat
  /\ Signatures \in Seq([header : Nat \ {0}, min : Nat, max : Nat])
  /\ \A s \in DOMAIN Signatures : Signatures[s].header <= MaxHeader

Offsets == 0..(Size - 1)

VARIABLES
  headers,       \* the signatures whose header lies at each offset
  scan,          \* "read" a chunk, "match" its positions, or "done"
  currentOffset,
  bytesToRead,   \* of the chunk in the buffer
  i,             \* the position in the buffer that comes next
  matches

scanner == <<scan, currentOffset, bytesToRead, i, matches>>

Match == [offset : Offsets, signature : DOMAIN Signatures]

Images ==
  {h \in [Offsets -> SUBSET DOMAIN Signatures] :
     \A o \in Offsets : \A s \in h[o] : o + Signatures[s].header <= Size}

ScanInit ==
  /\ scan = IF Size = 0 THEN "done" ELSE "read"
  /\ currentOffset = 0 /\ bytesToRead = 0 /\ i = 0
  /\ matches = <<>>

Least(S) == CHOOSE s \in S : \A t \in S : s <= t
Lesser(a, b) == IF a < b THEN a ELSE b

ReadChunk ==
  /\ scan = "read"
  /\ bytesToRead' = Lesser(Chunk + MaxHeader, Size - currentOffset)
  /\ i' = 0
  /\ scan' = "match"
  /\ UNCHANGED <<currentOffset, matches>>

(* A chunk that cannot be read ends the scan. *)
ReadFails ==
  /\ scan = "read"
  /\ scan' = "done"
  /\ UNCHANGED <<currentOffset, bytesToRead, i, matches>>

(* matchHeader: the signatures that fit into what is left of the buffer. *)
MatchHeader(o, remaining) == {s \in headers[o] : Signatures[s].header <= remaining}

(* Mutant: every position of the buffer is compared, and none again. *)
WholeBuffer == bytesToRead

(* Mutant: the overlap is left for a next chunk even when there is none. *)
AlwaysOverlap == IF bytesToRead > MaxHeader THEN bytesToRead - MaxHeader ELSE 0

ScanLimit ==
  IF currentOffset + bytesToRead >= Size THEN bytesToRead ELSE bytesToRead - MaxHeader

MatchPosition ==
  /\ scan = "match" /\ i < ScanLimit
  /\ LET o == currentOffset + i
         matched == MatchHeader(o, bytesToRead - i)
     IN matches' = IF matched = {} THEN matches
                   ELSE Append(matches, [offset |-> o, signature |-> Least(matched)])
  /\ i' = i + 1
  /\ UNCHANGED <<scan, currentOffset, bytesToRead>>

NextChunk ==
  /\ scan = "match" /\ i >= ScanLimit
  /\ currentOffset' = currentOffset + ScanLimit
  /\ scan' = IF currentOffset' < Size THEN "read" ELSE "done"
  /\ i' = 0
  /\ UNCHANGED <<bytesToRead, matches>>

Scan == (ReadChunk \/ ReadFails \/ MatchPosition \/ NextChunk) /\ UNCHANGED headers

-----------------------------------------------------------------------------
ScanTypeOK ==
  /\ headers \in Images
  /\ scan \in {"read", "match", "done"}
  /\ currentOffset \in 0..Size
  /\ bytesToRead \in 0..Size
  /\ i \in 0..Size
  /\ matches \in Seq(Match)

(* How far the image has been searched. *)
Searched == currentOffset + i

(* The matches are the headers of the part of the image that was searched, *)
(* each found once and as its signature of highest priority, in the order  *)
(* of their offsets, wherever the borders between chunks fall.             *)
ScanExact ==
  /\ \A k \in DOMAIN matches :
       /\ matches[k].offset < Searched
       /\ headers[matches[k].offset] # {}
       /\ matches[k].signature = Least(headers[matches[k].offset])
  /\ \A j, k \in DOMAIN matches : j < k => matches[j].offset < matches[k].offset
  /\ \A o \in Offsets : o < Searched /\ headers[o] # {} =>
       \E k \in DOMAIN matches : matches[k].offset = o
=============================================================================
