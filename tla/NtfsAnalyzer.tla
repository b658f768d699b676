---------------------------- MODULE NtfsAnalyzer -----------------------------
(***************************************************************************)
(* NTFSAnalyzer of src/src/filesystem/ntfs_analyzer.cpp.  img.mft maps the  *)
(* positions where file records stand to the records, as applyUsaFixup has  *)
(* mended the copy that is parsed: their flags and the sequence of their    *)
(* attributes, the run lists decoded from bytes to lengths and signed       *)
(* differences.                                                            *)
(***************************************************************************)
EXTENDS FsVolume

CONSTANTS
  ChunkRecords,   \* 64: records read at once
  MaxRecords,     \* 250000: records looked at
  MaxActive,      \* 2000: living files listed
  MaxDeleted,     \* 5000: deleted files listed
  RunSlack        \* 1024: clusters a run may end behind the volume

ASSUME NtfsAssumption ==
  /\ ChunkRecords \in Nat \ {0} /\ RunSlack \in Nat
  /\ MaxRecords \in Nat /\ MaxActive \in Nat \ {0} /\ MaxDeleted \in Nat \ {0}

(* The boot sectors, the runs and the file records.                           *)
NtfsBoots ==
  [signature : BOOLEAN, label : BOOLEAN, bps : Nat, spc : Nat, total : Nat, mft : Nat,
   recshift : Int]

RunHeaders == [valid : BOOLEAN, sparse : BOOLEAN, length : Nat, delta : Int]

NtfsAttributes ==
  [t : {"other"}, broken : BOOLEAN]
    \cup [t : {"name"}, resident : BOOLEAN, fits : BOOLEAN, broken : BOOLEAN, dos : BOOLEAN,
          name : STRING, size : Nat]
    \cup [t : {"data"}, resident : {TRUE}, fits : BOOLEAN, broken : BOOLEAN, size : Nat, at : Nat]
    \cup [t : {"data"}, resident : {FALSE}, fits : BOOLEAN, broken : BOOLEAN, size : Nat,
          list : Seq(RunHeaders)]

NtfsRecords ==
  [sig : {FALSE}] \cup [sig : {TRUE}, alloc : BOOLEAN, dir : BOOLEAN, attrs : Seq(NtfsAttributes)]

(* Mutant: differences without their sign.                                  *)
ParseRunlistUnsigned(list) ==
  LET up(h) == [h EXCEPT !.delta = IF @ < 0 THEN 8 + @ ELSE @]
      steps == FoldLeft(LAMBDA x, h : Append(x, up(h).delta + (IF x = <<>> THEN 0 ELSE Last(x))),
                        <<>>, list)
  IN [i \in 1..Len(list) |-> [start |-> steps[i], count |-> list[i].length]]

(* The runs of a list.  A difference left out, which marks a hole, counts as *)
(* zero; a run before the start of the volume is left out; a header that     *)
(* cannot be decoded ends the list.                                        *)
Decoded(x, h) ==
  LET lcn == x.lcn + (IF h.sparse THEN 0 ELSE h.delta)
  IN IF ~x.go \/ ~h.valid THEN [x EXCEPT !.go = FALSE]
     ELSE [lcn |-> lcn, go |-> TRUE,
           runs |-> IF lcn < 0 THEN x.runs
                    ELSE Append(x.runs, [start |-> lcn, count |-> h.length])]

ParseRunlist(list) ==
  Iterate(Len(list), [lcn |-> 0, runs |-> <<>>, go |-> TRUE],
          LAMBDA x, k : Decoded(x, list[k])).runs

(* The attributes of a record, up to one whose length leads nowhere.         *)
Walked(rec) ==
  LET broken == {i \in DOMAIN rec.attrs : rec.attrs[i].broken}
  IN SubSeq(rec.attrs, 1, Min(broken \cup {Len(rec.attrs) + 1}) - 1)

(* One attribute: a name other than a DOS name replaces one found before,    *)
(* and each $DATA attribute, the main one or not, replaces size and runs.    *)
Attribute(x, a) ==
  CASE a.t = "name" /\ a.resident /\ a.fits ->
         [x EXCEPT !.name = IF @ = "" \/ ~a.dos THEN a.name ELSE @,
                   !.size = IF @ = 0 THEN a.size ELSE @]
    [] a.t = "data" /\ a.resident /\ a.fits ->
         [x EXCEPT !.size = a.size, !.resident = a.size, !.at = a.at]
    [] a.t = "data" /\ ~a.resident ->
         [x EXCEPT !.size = a.size, !.runs = IF a.fits THEN ParseRunlist(a.list) ELSE @]
    [] OTHER -> x

Attributes(rec) ==
  LET attrs == Walked(rec)
  IN Iterate(Len(attrs), [name |-> "", size |-> 0, runs |-> <<>>, resident |-> 0, at |-> 0],
             LAMBDA x, k : Attribute(x, attrs[k]))

NtfsOffset(v, c) == v.part + c * v.size

RunsInVolume(v, runs) ==
  v.sectors > 0 =>
    \A i \in DOMAIN runs :
      /\ runs[i].start < v.sectors \div v.spc
      /\ runs[i].start + runs[i].count <= v.sectors \div v.spc + RunSlack

(* The file of the record at position p, number n of the table.             *)
NtfsRecord(v, rec, p, n) ==
  LET x == Attributes(rec)
      sound == IF x.runs # <<>> THEN RunsInVolume(v, x.runs)
               ELSE x.resident > 0 \/ x.size = 0
  IN [name |-> x.name, dir |-> rec.dir, size |-> x.size, runs |-> x.runs, number |-> n,
      at |-> IF x.runs = <<>> /\ x.resident > 0 THEN p + x.at ELSE 0,
      recoverable |-> sound,
      status |-> IF ~sound THEN "NOT_RECOVERABLE"
                 ELSE IF rec.alloc THEN "ALLOCATED" ELSE "DELETED_CANDIDATE"]

SumRuns(runs) == Iterate(Len(runs), 0, LAMBDA n, k : n + runs[k].count)

(* applyUsaFixup.  On the image the last word of each block of a record is   *)
(* the update sequence number, and the word itself stands in the update      *)
(* sequence array.  Block b with its word put back is a block that stands     *)
(* nowhere on the image, and is given a number behind its end.               *)
Mended(img, b) == img.size + b

NoRecord == [sig |-> FALSE]

RecordAt(img, p) == IF p \in DOMAIN img.mft THEN img.mft[p] ELSE NoRecord

(* What is taken for the clusters of a volume that does not say how many, for *)
(* those of a table that begins behind the end, and for the records of a       *)
(* table that is only guessed.                                               *)
UnknownClusters == 100000
UnknownTable == 10000
GuessedRecords == 50000

(* Where the table lies, from its own first record; the rest of the volume   *)
(* when that cannot be read or tells nothing.                               *)
InitMft(img, v) ==
  LET rec == RecordAt(img, v.mft)
      readable == Readable(img, v.mft, v.recsize) /\ rec.sig
      data == {i \in DOMAIN Walked(rec) : rec.attrs[i].t = "data"}
      own == IF readable /\ data # {} THEN <<rec.attrs[Min(data)]>> ELSE <<>>
      told == IF own # <<>> /\ ~own[1].resident /\ own[1].fits
                THEN ParseRunlist(own[1].list) ELSE <<>>
      most == IF v.sectors > 0 THEN v.sectors \div v.spc ELSE UnknownClusters
      rest == <<[start |-> v.lcn, count |-> IF v.lcn < most THEN most - v.lcn ELSE UnknownTable]>>
      runs == IF told # <<>> THEN told ELSE rest
      held == (SumRuns(runs) * v.size) \div v.recsize
      claimed == IF own # <<>> THEN own[1].size \div v.recsize ELSE 0
  IN IF ~readable THEN [runs |-> <<>>, total |-> 0]
     ELSE [runs |-> runs,
           total |-> IF claimed > 0 THEN claimed
                     ELSE IF told = <<>> THEN Min({held, GuessedRecords}) ELSE held]

(* One record of a chunk: the next number, whatever stands there.            *)
ScanRecord(img, v, deleted, x, p) ==
  LET rec == RecordAt(img, p)
      file == NtfsRecord(v, rec, p, x.index)
      out == IF rec.sig /\ rec.alloc # deleted /\ Attributes(rec).name # ""
               THEN Append(x.out, file) ELSE x.out
  IN IF x.stop THEN x
     ELSE IF v.records > 0 /\ x.index >= v.records
       THEN [x EXCEPT !.stop = TRUE]
       ELSE [index |-> x.index + 1, out |-> out,
             stop |-> Len(out) >= (IF deleted THEN MaxDeleted ELSE MaxActive)]

(* A run of the table, chunk by chunk; a chunk that cannot be read ends the   *)
(* run, and the numbers of its records are given to those of the next one.   *)
WholeRecords(v, n) == (n \div v.recsize) * v.recsize

ChunkOfRecords(img, v, deleted, x, from, n) ==
  Iterate(n \div v.recsize, x,
          LAMBDA y, k : ScanRecord(img, v, deleted, y, from + (k - 1) * v.recsize))

ScanChunk(img, v, deleted, s) ==
  LET want == WholeRecords(v, Min({ChunkRecords * v.recsize, s.left}))
      n == IF s.from + want > img.size THEN WholeRecords(v, img.size - s.from) ELSE want
  IN IF s.left <= 0 \/ s.x.stop THEN s
     ELSE IF (v.records > 0 /\ s.x.index >= v.records) \/ s.x.index >= MaxRecords
       THEN [s EXCEPT !.x = [index |-> @.index, out |-> @.out, stop |-> TRUE]]
     ELSE IF want = 0 \/ s.from >= img.size \/ n = 0 \/ ~Readable(img, s.from, n)
       THEN [s EXCEPT !.left = 0]
     ELSE [x |-> ChunkOfRecords(img, v, deleted, s.x, s.from, n),
           from |-> s.from + n, left |-> s.left - n]

ScanRun(img, v, deleted, x, run) ==
  Iterate(run.count * v.size,
          [x |-> x, from |-> NtfsOffset(v, run.start), left |-> run.count * v.size],
          LAMBDA s, k : ScanChunk(img, v, deleted, s)).x

NtfsList(img, v, deleted) ==
  Iterate(Len(v.runs), [index |-> 0, out |-> <<>>, stop |-> FALSE],
          LAMBDA x, k : ScanRun(img, v, deleted, x, v.runs[k])).out

NtfsProbe(img, part) ==
  LET b == img.boot
      size == b.bps * b.spc
      recsize == IF b.recshift < 0
                   THEN IF -b.recshift \in 9..16 THEN Shifted(-b.recshift - 9) ELSE 2
                   ELSE IF b.recshift * size \in 1..128 THEN b.recshift * size ELSE 2
      v == [valid |-> TRUE, fs |-> "ntfs", part |-> part, bps |-> b.bps, spc |-> b.spc,
            size |-> size, sectors |-> b.total, lcn |-> b.mft,
            mft |-> part + b.mft * size, recsize |-> recsize,
            runs |-> <<>>, records |-> 0]
      m == InitMft(img, v)
  IN IF \/ ~Readable(img, part, 1) \/ ~b.signature \/ ~b.label
        \/ b.bps \notin {1, 2, 4, 8} \/ b.spc = 0
     THEN NoVolume
     ELSE [v EXCEPT !.runs = m.runs, !.records = m.total]

(* A file's content, run by run, or the part of its record it stands in.  This *)
(* part is read from the image, as it is without the fixup.                  *)
NtfsExtract(img, v, r) ==
  IF r.size = 0 THEN <<>>
  ELSE IF r.runs # <<>>
    THEN Iterate(Len(r.runs), Extraction(r.size),
                 LAMBDA x, k : Piece(img, x, NtfsOffset(v, r.runs[k].start),
                                     r.runs[k].count * v.size)).data
  ELSE IF r.at > 0
    THEN Piece(img, Extraction(r.size), r.at, r.size).data
  ELSE [i \in 1..Min({r.size, MaxExtract}) |-> -1]
=============================================================================
