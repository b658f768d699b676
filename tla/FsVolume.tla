------------------------------ MODULE FsVolume -------------------------------
(***************************************************************************)
(* What the file system analyzers of src/src/filesystem have in common:    *)
(* the image they read through a DiskImageReader and the pieces in which   *)
(* they extract a file.  Positions and sizes count blocks of 512 bytes; an *)
(* image has a size and a set of blocks that cannot be read.               *)
(***************************************************************************)
EXTENDS DiskImageReader, SequencesExt, FiniteSetsExt

CONSTANTS
  MaxExtract,   \* 100 MB: no more of one file is extracted
  MaxCluster,   \* 32 MB: no directory of larger clusters is read
  Bad           \* the mark of a bad cluster in an allocation table

ASSUME VolumeAssumption == MaxExtract \in Nat /\ MaxCluster \in Nat /\ Bad \in Nat

Eoc == Bad + 8           \* end of chain; an entry that cannot be read
EndMarks == Bad + 1      \* the first of the end marks

(* A loop of n turns from a; Step is given the state and the number of the    *)
(* turn.                                                                     *)
Iterate(n, a, Step(_, _)) ==
  LET x[k \in 0..n] == IF k = 0 THEN a ELSE Step(x[k - 1], k) IN x[n]

(* 1 << n                                                                    *)
Shifted(n) == Iterate(n, 1, LAMBDA x, k : 2 * x)

Readable(img, off, n) ==
  /\ off + n <= img.size
  /\ \A b \in img.bad : b \notin off..(off + n - 1)

Blocks(off, n) == [i \in 1..n |-> off + i - 1]

NoVolume == [valid |-> FALSE]

PowersOfTwo == {1, 2, 4, 8, 16, 32, 64, 128}

(* A loop that extracts: the blocks it has, how many are left to get, and    *)
(* whether it goes on.                                                      *)
Extraction(size) == [data |-> <<>>, left |-> Min({size, MaxExtract}), go |-> TRUE]

(* Mutant: the last piece is as long as the others.                          *)
PieceWhole(img, x, off, want) ==
  LET n == IF off + want > img.size THEN img.size - off ELSE want
  IN IF ~x.go \/ x.left = 0 THEN x
     ELSE IF n < 1 \/ ~Readable(img, off, n) THEN [x EXCEPT !.go = FALSE]
     ELSE [data |-> x.data \o Blocks(off, n), left |-> Max({0, x.left - n}), go |-> TRUE]

(* One piece: at most want blocks at off.  A piece that the image ends in is *)
(* read as far as it is there, and the loop goes on behind it.              *)
Piece(img, x, off, want) ==
  LET whole == Min({x.left, want})
      n == IF off + whole > img.size THEN img.size - off ELSE whole
  IN IF ~x.go \/ x.left = 0 THEN x
     ELSE IF n < Min({1, whole}) \/ ~Readable(img, off, n) THEN [x EXCEPT !.go = FALSE]
     ELSE [data |-> x.data \o Blocks(off, n), left |-> x.left - n, go |-> TRUE]

(* The entry of the allocation table for cluster c, in a table that starts at *)
(* fat; img.fat maps the entries that stand on the image.                    *)
TableEntry(img, fat, c) ==
  IF c \notin DOMAIN img.fat \/ ~Readable(img, fat + c \div 128, 1) THEN Eoc ELSE img.fat[c]

(* The slots of cluster c; a cluster that holds no directory ends at once.    *)
SlotsOf(img, c) == IF c \in DOMAIN img.dir THEN img.dir[c] ELSE <<>>

(* The content of a directory cluster of n slots, one a block, at off: what  *)
(* lies behind the end of the image reads as zeros, and a cluster that ends   *)
(* there and cannot be read leaves what the buffer held.  No slots end the    *)
(* walk.                                                                     *)
DirectorySlots(img, off, n, slots, held) ==
  LET inside == Min({n, img.size - off})
      buffer == IF Readable(img, off, inside) THEN slots ELSE held
  IN IF inside <= 0 \/ (inside = n /\ ~Readable(img, off, n)) THEN <<>>
     ELSE [i \in 1..n |-> IF i <= Len(buffer) /\ i <= inside
                            THEN buffer[i] ELSE [t |-> "end"]]
=============================================================================
