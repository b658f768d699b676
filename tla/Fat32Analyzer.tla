---------------------------- MODULE Fat32Analyzer ----------------------------
(***************************************************************************)
(* FAT32Analyzer of src/src/filesystem/fat32_analyzer.cpp.                 *)
(* img.boot is the boot sector, img.fat the allocation table and img.dir   *)
(* the directory entries of each cluster.                                  *)
(***************************************************************************)
EXTENDS FsVolume

CONSTANTS
  Fat32Clusters,  \* 65525: the least number of clusters without the FAT32 label
  DirGuard,       \* 1000: clusters of one directory
  ChainGuard      \* 100000: clusters of one file

ASSUME Fat32Assumption ==
  Fat32Clusters \in Nat /\ DirGuard \in Nat /\ ChainGuard \in Nat \ {0}

(* The boot sectors and the directory entries.                               *)
Fat32Boots ==
  [signature : BOOLEAN, label : BOOLEAN, bps : Nat, spc : Nat, reserved : Nat, fats : Nat,
   spf : Nat, total : Nat, root : Nat]

Fat32Files ==
  [t : {"file"}, name : STRING, deleted : BOOLEAN, dot : BOOLEAN, dir : BOOLEAN,
   start : Nat, size : Nat]

Fat32Entries == [t : {"end"}] \cup [t : {"lfn"}, part : Nat] \cup Fat32Files

Fat32Probe(img, part) ==
  LET b == img.boot
      total == IF b.total # 0 THEN b.total ELSE img.size \div b.bps
      system == (b.reserved + ((b.fats * b.spf) % U32)) % U32
      clusters == ((total - system) % U64) \div b.spc
  IN IF \/ ~Readable(img, part, 1) \/ ~b.signature
        \/ b.bps \notin {1, 2, 4, 8} \/ b.spc \notin PowersOfTwo
        \/ b.reserved = 0 \/ b.fats = 0 \/ b.spf = 0
        \/ ~b.label /\ clusters < Fat32Clusters
     THEN NoVolume
     ELSE [valid |-> TRUE, fs |-> "fat32", part |-> part, bps |-> b.bps, spc |-> b.spc,
           size |-> b.bps * b.spc, clusters |-> clusters,
           fat |-> part + b.reserved * b.bps,
           root |-> Max({b.root, 2}), data |-> b.reserved + b.fats * b.spf]

(* The start of the partition counts blocks of 512 bytes, but is multiplied  *)
(* by the sector size of the volume.                                       *)
Fat32Offset(v, c) == (v.part + v.data + Max({c - 2, 0}) * v.spc) * v.bps

Fat32Next(img, v, c) == IF c < 2 THEN Eoc ELSE TableEntry(img, v.fat, c)

(* A walk through a directory, cluster after cluster along its chain: the     *)
(* cluster it is at, what the buffer held, the slots met.                     *)
Fat32Walk(img, v, x) ==
  LET slots == DirectorySlots(img, Fat32Offset(v, x.at), v.size, SlotsOf(img, x.at), x.held)
  IN IF x.at < 2 \/ x.at >= EndMarks \/ slots = <<>> THEN [x EXCEPT !.at = Eoc]
     ELSE [at |-> Fat32Next(img, v, x.at), held |-> slots, slots |-> x.slots \o slots]

Fat32Slots(img, v) ==
  Iterate(DirGuard, [at |-> v.root, held |-> <<>>, slots |-> <<>>],
          LAMBDA x, k : Fat32Walk(img, v, x)).slots

(* The verdict on an entry's clusters, taken as if they were contiguous.     *)
Fat32Backed(img, v, e) ==
  LET off == Fat32Offset(v, e.start)
  IN IF e.start >= 2
       THEN /\ v.clusters > 0 => e.start < 2 + v.clusters
            /\ off <= img.size /\ img.size - off >= e.size
       ELSE e.size = 0

Fat32Record(img, v, e, lfn) ==
  LET backed == Fat32Backed(img, v, e)
  IN [name |-> IF lfn # <<>> THEN lfn ELSE <<e.name>>, dir |-> e.dir,
      start |-> e.start, size |-> e.size, recoverable |-> backed,
      status |-> IF ~backed THEN "NOT_RECOVERABLE"
                 ELSE IF e.deleted THEN "DELETED_CANDIDATE" ELSE "ALLOCATED",
      runs |-> IF e.start >= 2 /\ backed
                 THEN <<[start |-> e.start, count |-> (e.size + v.size - 1) \div v.size]>>
                 ELSE <<>>]

(* Mutant: the parts of a long name survive an entry that is not listed.     *)
Fat32SlotKeepsName(img, v, deleted, s, e) ==
  IF ~s.ended /\ e.t = "file" /\ e.deleted # deleted THEN s
  ELSE IF s.ended THEN s
  ELSE IF e.t = "end" THEN [s EXCEPT !.lfn = <<>>, !.ended = ~deleted]
  ELSE IF e.t = "lfn" THEN [s EXCEPT !.lfn = <<e.part>> \o @]
  ELSE [s EXCEPT !.lfn = <<>>, !.out = Append(@, Fat32Record(img, v, e, s.lfn))]

(* One slot of a directory.  The parts of a long name stand before its entry *)
(* in reverse; an end mark stops the listing of the living, not the search   *)
(* for the deleted.                                                        *)
Fat32Slot(img, v, deleted, s, e) ==
  CASE s.ended -> s
    [] ~s.ended /\ e.t = "end" -> [s EXCEPT !.lfn = <<>>, !.ended = ~deleted]
    [] ~s.ended /\ e.t = "lfn" -> [s EXCEPT !.lfn = <<e.part>> \o @]
    [] ~s.ended /\ e.t = "file" ->
         IF e.deleted # deleted \/ e.dot THEN [s EXCEPT !.lfn = <<>>]
         ELSE [s EXCEPT !.lfn = <<>>, !.out = Append(@, Fat32Record(img, v, e, s.lfn))]

Fat32List(img, v, deleted) ==
  LET slots == Fat32Slots(img, v)
  IN IF v.size > MaxCluster THEN <<>>
     ELSE Iterate(Len(slots), [lfn |-> <<>>, ended |-> FALSE, out |-> <<>>],
                  LAMBDA s, k : Fat32Slot(img, v, deleted, s, slots[k])).out

(* The clusters of a file: along the table, no more than its size calls for  *)
(* and one, so that a chain that loops or goes on ends.                     *)
Fat32Follow(img, v, x) ==
  LET next == Fat32Next(img, v, x.at)
  IN IF x.at < 2 \/ x.at >= EndMarks THEN x
     ELSE [at |-> IF next >= Bad THEN Eoc ELSE next, chain |-> Append(x.chain, x.at)]

Fat32Chain(img, v, start, most) ==
  Iterate(most, [at |-> start, chain |-> <<>>], LAMBDA x, k : Fat32Follow(img, v, x)).chain

MostClusters(v, size) == Min({(size + v.size - 1) \div v.size + 1, ChainGuard - 1})

Fat32Extract(img, v, r) ==
  LET chain == Fat32Chain(img, v, r.start, MostClusters(v, r.size))
  IN IF r.size = 0 \/ r.start < 2 THEN <<>>
     ELSE Iterate(Len(chain), Extraction(r.size),
                  LAMBDA x, k : Piece(img, x, Fat32Offset(v, chain[k]), v.size)).data
=============================================================================
