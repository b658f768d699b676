---------------------------- MODULE ExFatAnalyzer ----------------------------
(***************************************************************************)
(* ExFATAnalyzer of src/src/filesystem/exfat_analyzer.cpp.  A file is a set *)
(* of directory slots: the entry, its stream extension and its name.       *)
(***************************************************************************)
EXTENDS FsVolume

(* The boot sectors and the directory slots.                                 *)
ExFatBoots ==
  [signature : BOOLEAN, label : BOOLEAN, bpsShift : Nat, spcShift : Nat, fatOffset : Nat,
   heap : Nat, count : Nat, root : Nat]

ExFatEntries == [t : {"file"}, deleted : BOOLEAN, dir : BOOLEAN, secondary : Nat]

ExFatStreams == [t : {"stream"}, first : Nat, length : Nat, noFatChain : BOOLEAN]

ExFatSlots ==
  [t : {"end", "other"}] \cup [t : {"name"}, name : STRING] \cup ExFatEntries \cup ExFatStreams

ExFatProbe(img, part) ==
  LET b == img.boot
      bps == Shifted(b.bpsShift - 9)
      spc == Shifted(b.spcShift)
  IN IF \/ ~Readable(img, part, 1) \/ ~b.signature \/ ~b.label
        \/ b.bpsShift \notin 9..12
        \/ b.spcShift > 16 \/ b.bpsShift + b.spcShift > 25
     THEN NoVolume
     ELSE [valid |-> TRUE, fs |-> "exfat", part |-> part, bps |-> bps, spc |-> spc,
           size |-> bps * spc, clusters |-> b.count, fat |-> part + b.fatOffset * bps,
           root |-> Max({b.root, 2}), data |-> b.heap]

ExFatOffset(v, c) == v.part + (v.data + Max({c - 2, 0}) * v.spc) * v.bps

InHeap(v, c) == c >= 2 /\ c < 2 + v.clusters

ExFatNext(img, v, c) == IF ~InHeap(v, c) THEN Eoc ELSE TableEntry(img, v.fat, c)

ClusterCount(v, n) == (n + v.size - 1) \div v.size

(* The clusters of a file along the table, as many as its length calls for.  *)
ExFatFollow(img, v, x) ==
  LET next == ExFatNext(img, v, x.at)
  IN IF ~InHeap(v, x.at) THEN x
     ELSE [at |-> IF next >= Bad THEN 0 ELSE next, chain |-> Append(x.chain, x.at)]

ExFatChain(img, v, first, most) ==
  Iterate(most, [at |-> first, chain |-> <<>>], LAMBDA x, k : ExFatFollow(img, v, x)).chain

(* A chain as runs of clusters that follow each other.                      *)
Grow(runs, c) ==
  IF runs # <<>> /\ c = Last(runs).start + Last(runs).count
    THEN [runs EXCEPT ![Len(runs)].count = @ + 1]
    ELSE Append(runs, [start |-> c, count |-> 1])

RunsOf(chain) == Iterate(Len(chain), <<>>, LAMBDA runs, k : Grow(runs, chain[k]))

ExFatRecord(img, v, e, stream, name) ==
  LET need == ClusterCount(v, stream.length)
      chain == ExFatChain(img, v, stream.first, need)
      placed == stream.first >= 2
  IN [name |-> name, dir |-> e.dir, start |-> stream.first, size |-> stream.length,
      runs |-> IF ~placed THEN <<>>
               ELSE IF stream.noFatChain
                 THEN <<[start |-> stream.first, count |-> need]>>
                 ELSE RunsOf(chain),
      recoverable |-> IF placed
                        THEN stream.noFatChain \/ Len(chain) >= need \/ e.deleted
                        ELSE stream.length = 0,
      status |-> IF ~placed /\ stream.length > 0 THEN "NOT_RECOVERABLE"
                 ELSE IF e.deleted THEN "DELETED_CANDIDATE" ELSE "ALLOCATED"]

NameSlots(slots, i, n) == SelectSeq(SubSeq(slots, i + 2, i + n), LAMBDA s : s.t = "name")

(* The set at slot x.i.  A set of the other kind is stepped over by the count *)
(* its entry gives; a set that does not fit the cluster ends the listing.     *)
ExFatSet(img, v, slots, deleted, x) ==
  LET e == slots[x.i]
      beyond == Len(slots) + 1
      set == 1 + e.secondary
      file == ExFatRecord(img, v, e, slots[x.i + 1], NameSlots(slots, x.i, e.secondary))
  IN IF x.i >= beyond THEN x
     ELSE IF e.t # "file"
       THEN [x EXCEPT !.i = IF e.t = "end" /\ ~deleted THEN beyond ELSE @ + 1]
     ELSE IF e.deleted # deleted THEN [x EXCEPT !.i = @ + set]
     ELSE IF x.i + set > beyond THEN [x EXCEPT !.i = beyond]
     ELSE IF x.i + 1 >= beyond \/ slots[x.i + 1].t # "stream" THEN [x EXCEPT !.i = @ + 1]
     ELSE [i |-> x.i + set, out |-> Append(x.out, file)]

ExFatSets(img, v, slots, deleted) ==
  Iterate(Len(slots), [i |-> 1, out |-> <<>>],
          LAMBDA x, k : ExFatSet(img, v, slots, deleted, x)).out

(* Only the first cluster of the root directory is read.                    *)
ExFatList(img, v, deleted) ==
  IF v.size > MaxCluster THEN <<>>
  ELSE ExFatSets(img, v, DirectorySlots(img, ExFatOffset(v, v.root), v.size,
                                        SlotsOf(img, v.root), <<>>), deleted)

(* The clusters of a run are read until one cannot be; the next run goes on. *)
ExFatPiece(img, v, x, c) ==
  IF InHeap(v, c) THEN Piece(img, x, ExFatOffset(v, c), v.size) ELSE [x EXCEPT !.go = FALSE]

ExFatRun(img, v, x, run) ==
  [Iterate(run.count, x, LAMBDA y, k : ExFatPiece(img, v, y, run.start + k - 1))
   EXCEPT !.go = TRUE]

(* A file without runs is read as one that starts at its first cluster.       *)
RunsToRead(v, r) ==
  IF r.runs # <<>> THEN r.runs
  ELSE <<[start |-> r.start, count |-> ClusterCount(v, r.size)]>>

ExFatExtract(img, v, r) ==
  LET runs == RunsToRead(v, r)
  IN IF r.size = 0 \/ r.start < 2 THEN <<>>
     ELSE Iterate(Len(runs), Extraction(r.size),
                  LAMBDA x, k : ExFatRun(img, v, x, runs[k])).data
=============================================================================
