--------------------------- MODULE MCImageAnalysis ---------------------------
(***************************************************************************)
(* Small images: FAT32 volumes of five clusters with every chain for a file *)
(* and every allocation table for a broken one; exFAT and NTFS volumes with *)
(* fragmented, deleted and resident files; behind an MBR, a GPT or none;    *)
(* and media that are read as they are.                                    *)
(***************************************************************************)
EXTENDS ImageAnalysis

Disk(kind, part, size) ==
  [kind |-> kind, part |-> part, size |-> size, bad |-> {}, sound |-> TRUE]

MbrEntry(type, start, count) == [type |-> type, start |-> start, count |-> count]

(* A volume at block 0 has no table, one at 2 a GPT, one at 1 an MBR whose    *)
(* first entry is empty and whose partition ends behind the image.           *)
Tables(part) ==
  [mbr |-> [signature |-> TRUE,
            entries |-> CASE part = 0 -> <<>>
                          [] part = 1 -> <<MbrEntry(0, 0, 0), MbrEntry(7, 1, 90)>>
                          [] part = 2 -> <<MbrEntry(238, 1, 90)>>],
   gpt |-> [signature |-> part = 2, lba |-> 0, entrySize |-> 128,
            entries |-> IF part # 2 THEN <<>>
                        ELSE <<[type |-> 1, first |-> 5, last |-> 4],
                               [type |-> 1, first |-> 2, last |-> 60]>>]]

Chains(S, lengths) ==
  UNION {{s \in [1..n -> S] : \A i, j \in 1..n : s[i] = s[j] => i = j} : n \in lengths}

(* The blocks of clusters of cs blocks, cluster 0 at zero, up to a size.      *)
Content(chain, zero, cs, size) ==
  SubSeq(FlattenSeq([i \in DOMAIN chain |-> Blocks(zero + chain[i] * cs, cs)]), 1, size)

(* The allocation table of clusters 2 to 6 that holds these chains.           *)
LinkIn(chain, c) ==
  LET i == CHOOSE k \in DOMAIN chain : chain[k] = c
  IN IF i = Len(chain) THEN Eoc ELSE chain[i + 1]

Linkage(chains) ==
  [c \in 2..6 |-> LET own == {k \in DOMAIN chains : c \in ToSet(chains[k])}
                  IN IF own = {} THEN 0 ELSE LinkIn(chains[CHOOSE k \in own : TRUE], c)]

FileOf(name, slot, chain, blocks) ==
  [name |-> name, slot |-> slot, chain |-> chain, blocks |-> blocks]

(* Two files in the order of their entries, and which of them are deleted.    *)
Truth(a, delA, b, delB) ==
  [del \in BOOLEAN |-> (IF delA = del THEN <<a>> ELSE <<>>) \o (IF delB = del THEN <<b>> ELSE <<>>)]

FatBoot(bps) ==
  [signature |-> TRUE, bps |-> bps, spc |-> 2 \div bps, reserved |-> 1, fats |-> 1,
   spf |-> 1, label |-> TRUE, total |-> 12 \div bps, root |-> 2]

Entry(name, del, start, size) ==
  [t |-> "file", name |-> name, deleted |-> del, dot |-> FALSE, dir |-> FALSE,
   start |-> start, size |-> size]

Lfn(p) == [t |-> "lfn", part |-> p]

(* Two files, a under a long name or in a root of one cluster, either of them *)
(* deleted; the chain of a deleted file was cleared.                        *)
FatImages ==
  {LET data == 2 * bps
       zero == part + data - 4
       b == IF long THEN <<5>> ELSE chain
       sizeB == 2 * Len(b) - odd
       chains == <<IF long THEN <<2, 6>> ELSE <<2>>>>
                 \o (IF delA THEN <<>> ELSE <<<<3, 4>>>>) \o (IF delB THEN <<>> ELSE <<b>>)
       lfn == IF long THEN <<Lfn(2), Lfn(1)>> ELSE <<>>
       files == <<Entry("a", delA, 3, 4), Entry("b", delB, b[1], sizeB)>>
   IN Disk("fat32", part, part + data + 10) @@ Tables(part) @@
      [boot |-> FatBoot(bps), fat |-> Linkage(chains),
       dir |-> [c \in 2..6 |-> IF long /\ c = 2 THEN lfn ELSE files],
       root |-> IF long THEN <<2, 6>> ELSE <<2>>, entries |-> lfn \o files,
       truth |-> Truth(FileOf(IF long THEN <<1, 2>> ELSE <<"a">>, Len(lfn) + 1, <<3, 4>>,
                              Content(<<3, 4>>, zero, 2, 4)), delA,
                       FileOf(<<"b">>, Len(lfn) + 2, b, Content(b, zero, 2, sizeB)), delB)]
   : <<part, bps>> \in {<<0, 1>>, <<0, 2>>, <<1, 1>>, <<2, 1>>},
     chain \in Chains({5, 6}, 1..2), odd \in 0..1, long \in BOOLEAN, delA, delB \in BOOLEAN}

(* Two clusters of data whose table holds anything, an image that may be cut  *)
(* short, and a block that cannot be read.                                  *)
BrokenFatImages ==
  {[Disk("fat32", 0, 8 - cut) EXCEPT !.sound = FALSE, !.bad = bad] @@ Tables(0) @@
   [boot |-> FatBoot(1), fat |-> [c \in 2..9 |-> IF c < 5 THEN fat[c] ELSE Eoc],
    dir |-> [c \in 2..9 |-> <<Entry("b", del, start, size), [t |-> "end"]>>], truth |-> <<>>]
   : fat \in {f \in [2..4 -> {0, 2, 3, 4, 9, Bad, Eoc}] : f[2] \in {2, 3, Eoc}},
     cut \in {0, 1, 3}, bad \in {{}, {5}}, del \in BOOLEAN, start \in {0, 3, 4},
     size \in {1, 2, 5}}

ExFatFile(name, del, first, length, contiguous) ==
  <<[t |-> "file", deleted |-> del, dir |-> FALSE, secondary |-> 2],
    [t |-> "stream", first |-> first, length |-> length, noFatChain |-> contiguous],
    [t |-> "name", name |-> name]>>

ExFatName(name) == <<[t |-> "name", name |-> name]>>

(* Clusters of eight blocks; a is contiguous, b has a chain.                *)
ExFatImages ==
  {LET zero == part + 2 - 16
       size == 8 * Len(chain) - odd
   IN Disk("exfat", part, part + 42) @@ Tables(part) @@
      [boot |-> [signature |-> TRUE, label |-> TRUE, bpsShift |-> 9, spcShift |-> 3,
                 fatOffset |-> 1, heap |-> 2, count |-> 5, root |-> 2],
       fat |-> Linkage(<<<<2>>>> \o (IF cleared THEN <<>> ELSE <<chain>>)),
       dir |-> [c \in 2..6 |-> IF c # 2 THEN <<>>
                               ELSE ExFatFile("a", delA, 3, 9, TRUE)
                                    \o ExFatFile("b", delB, chain[1], size, FALSE)],
       truth |-> Truth(FileOf(ExFatName("a"), 1, <<3, 4>>, Content(<<3, 4>>, zero, 8, 9)), delA,
                       FileOf(ExFatName("b"), 4, chain, Content(chain, zero, 8, size)), delB)]
   : <<cleared, delB>> \in {<<TRUE, TRUE>>, <<FALSE, TRUE>>, <<FALSE, FALSE>>},
     chain \in Chains({5, 6}, 1..2), odd \in {0, 1, 7},
     delA \in BOOLEAN, part \in 0..2}

RunList(chain) ==
  [i \in DOMAIN chain |-> [valid |-> TRUE, sparse |-> FALSE, length |-> 1,
                           delta |-> chain[i] - (IF i = 1 THEN 0 ELSE chain[i - 1])]]

NameOf(name, dos) ==
  [t |-> "name", resident |-> TRUE, fits |-> TRUE, broken |-> FALSE, dos |-> dos,
   name |-> name, size |-> 0]

DataOf(chain, size) ==
  [t |-> "data", resident |-> FALSE, fits |-> TRUE, broken |-> FALSE, size |-> size,
   list |-> RunList(chain)]

Inside(at, size) ==
  [t |-> "data", resident |-> TRUE, fits |-> TRUE, broken |-> FALSE, size |-> size, at |-> at]

(* A stream of one hole.                                                    *)
Hole ==
  [DataOf(<<0>>, 2) EXCEPT !.list = <<[valid |-> TRUE, sparse |-> TRUE, length |-> 1, delta |-> 0]>>]

Rec(alloc, attrs) == [sig |-> TRUE, alloc |-> alloc, dir |-> FALSE, attrs |-> attrs]

InRunsOf(name, slot, chain, blocks) ==
  [name |-> name, slot |-> slot, blocks |-> blocks, plain |-> TRUE,
   runs |-> [k \in DOMAIN chain |-> [vcn |-> k - 1, start |-> chain[k], count |-> 1]]]

(* What the record at p, on an image of this size, holds of the file b:        *)
(* content that ends inside a sector of the record, that fills it, that crosses  *)
(* its end, or a stream beside another of one hole.                           *)
Residents(img, p) ==
  LET b(blocks) == InRunsOf("b", 2, <<>>, blocks)
      Held(attrs, file) == [attrs |-> attrs, file |-> file]
  IN <<Held(<<Inside(1, 1)>>, b(<<p + 1>>)),
       Held(<<Inside(1, 1)>>, b(<<Mended(img, p + 1)>>)),
       Held(<<Inside(0, 2)>>, b(<<Mended(img, p), p + 1>>)),
       Held(<<Inside(0, 1), Hole>>, [b(<<p>>) EXCEPT !.plain = FALSE])>>

(* Clusters and records of two blocks; the table lies in cluster 1 and, behind *)
(* other files, in clusters 4 and 5; a has runs and maybe another name, b       *)
(* stands in its record.                                                      *)
NtfsImages ==
  {LET size == 2 * Len(chain) - odd
       pos(c) == part + 2 * c
       whole == Disk("ntfs", part, part + 20)
       b == Residents(whole, pos(5))[kind]
   IN whole @@ Tables(part) @@
      [boot |-> [signature |-> TRUE, label |-> TRUE, bps |-> 1, spc |-> 2, total |-> 20,
                 mft |-> 1, recshift |-> -10],
       mft |-> pos(1) :> Rec(TRUE, <<NameOf("$MFT", FALSE), DataOf(<<1, 4, 5>>, 6)>>)
            @@ pos(4) :> Rec(~delA, names \o <<DataOf(chain, size)>>)
            @@ pos(5) :> Rec(~delB, <<NameOf("b", FALSE)>> \o b.attrs),
       truth |-> [del \in BOOLEAN |->
         (IF del THEN <<>>
          ELSE <<InRunsOf("$MFT", 0, <<1, 4, 5>>, Content(<<1, 4, 5>>, part, 2, 6))>>)
         \o Truth(InRunsOf("a", 1, chain, Content(chain, part, 2, size)), delA,
                  b.file, delB)[del]]]
   : chain \in Chains({2, 3, 7}, 1..3), odd \in 0..1, kind \in 1..4,
     names \in {<<NameOf("a", FALSE)>>, <<NameOf("A~1", TRUE), NameOf("a", FALSE)>>,
                <<NameOf("link", FALSE), NameOf("a", FALSE)>>},
     delA, delB \in BOOLEAN, part \in 0..2}

RawImage == [kind |-> "raw", size |-> 0, bad |-> {}, sound |-> FALSE]

SmallDisks == {RawImage} \cup FatImages \cup BrokenFatImages \cup ExFatImages \cup NtfsImages

SmallMedia ==
  {[kind |-> k, len |-> n, sector |-> s] : k \in {"file", "block", "device"}, n \in {5, 8}, s \in {2, 4}}
    \cup {[kind |-> "nopath", len |-> 0, sector |-> 1]}
=============================================================================
