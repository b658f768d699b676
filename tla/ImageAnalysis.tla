---------------------------- MODULE ImageAnalysis ----------------------------
(***************************************************************************)
(* The analysis of an image: it is opened and read, its partitions are      *)
(* detected, an analyzer is probed at the start of one, what it lists is     *)
(* extracted.  The image is one of Disks and does not change.             *)
(*                                                                         *)
(* The order of the calls is that of runRecoveryScan in api_bridge.cpp and  *)
(* of runRecovery in recovery_engine.cpp.                                  *)
(***************************************************************************)
EXTENDS Fat32Analyzer, ExFatAnalyzer, NtfsAnalyzer, PartitionDetector, FiniteSets

CONSTANT Disks

(* What stands on an image: tables of partitions, boot sectors, allocation     *)
(* tables, directories and file records, with any values.                     *)
Tabled(d) ==
  /\ d.mbr \in [signature : BOOLEAN,
                entries : Seq([type : Nat, start : Nat, count : Nat])]
  /\ d.gpt \in [signature : BOOLEAN, lba : Nat, entrySize : Nat,
                entries : Seq([type : Nat, first : Nat, last : Nat])]

Linking(d) == DOMAIN d.fat \subseteq Nat /\ d.fat \in [DOMAIN d.fat -> Nat]

Filed(d, Slots) == DOMAIN d.dir \subseteq Nat /\ d.dir \in [DOMAIN d.dir -> Seq(Slots)]

VARIABLES
  image,     \* the image analyzed
  table,     \* its partition table
  volume,    \* what the analyzer found at the partition
  listed,    \* the files listed, living ones or deleted ones
  deleted,   \* which of them
  output     \* what was extracted of each

analysis == <<table, volume, listed, deleted, output>>
analysisVars == <<image, readerVars, analysis>>

AnalysisInit ==
  /\ image \in Disks
  /\ medium \in IF image.kind = "raw" THEN Media ELSE {[kind |-> "file", len |-> image.size, sector |-> 1]}
  /\ ReaderInit
  /\ table = NoTable /\ volume = NoVolume
  /\ listed = <<>> /\ deleted = FALSE /\ output = <<>>

Open ==
  /\ image.kind # "raw" /\ reader.open = "none" /\ table = NoTable
  /\ OpenReader(medium, {1})
  /\ UNCHANGED <<image, analysis>>

(* A medium without a volume is only read.                                  *)
UseReader ==
  /\ image.kind = "raw" /\ ReaderNext
  /\ UNCHANGED <<image, analysis>>

Detect ==
  /\ image.kind # "raw" /\ reader.open # "none" /\ table = NoTable
  /\ table' = DetectPartitions(image)
  /\ UNCHANGED <<image, readerVars, volume, listed, deleted, output>>

(* The analyzers are asked in turn at the start of each partition.           *)
Probes(part) ==
  CASE image.kind = "ntfs" -> NtfsProbe(image, part)
    [] image.kind = "exfat" -> ExFatProbe(image, part)
    [] image.kind = "fat32" -> Fat32Probe(image, part)
    [] OTHER -> NoVolume

Probe ==
  /\ volume = NoVolume
  /\ \E i \in DOMAIN table.partitions : volume' = Probes(table.partitions[i].start)
  /\ UNCHANGED <<image, readerVars, table, listed, deleted, output>>

Listing(d) ==
  CASE image.kind = "ntfs" -> NtfsList(image, volume, d)
    [] image.kind = "exfat" -> ExFatList(image, volume, d)
    [] image.kind = "fat32" -> Fat32List(image, volume, d)

(* listDirectory or findDeletedFiles, and extractFile on all that is listed.  *)
List ==
  /\ volume.valid /\ output = <<>>
  /\ \E d \in BOOLEAN : deleted' = d /\ listed' = Listing(d)
  /\ UNCHANGED <<image, readerVars, table, volume, output>>

Extracted(r) ==
  CASE image.kind = "ntfs" -> NtfsExtract(image, volume, r)
    [] image.kind = "exfat" -> ExFatExtract(image, volume, r)
    [] image.kind = "fat32" -> Fat32Extract(image, volume, r)

Extract ==
  /\ listed # <<>> /\ output = <<>>
  /\ output' = [i \in DOMAIN listed |-> Extracted(listed[i])]
  /\ UNCHANGED <<image, readerVars, table, volume, listed, deleted>>

AnalysisNext == Open \/ UseReader \/ Detect \/ Probe \/ List \/ Extract

AnalysisSpec == AnalysisInit /\ [][AnalysisNext]_analysisVars
-----------------------------------------------------------------------------
(* Images in order, as a formatter and a driver leave them, within the limits   *)
(* of the analyzers.  Such an image says what was put on it: where its volume   *)
(* begins (part), and of the files, the deleted ones and the others in the      *)
(* order of their entries, what they are called, the blocks of their content,   *)
(* the clusters it stands in and the place of their entry.                      *)

(* The blocks stand on the image in pieces: where a piece begins, how many      *)
(* blocks of the content come before it, and how many it holds.                 *)
StandsIn(d, blocks, pieces) ==
  LET End(k) == IF k = 0 THEN 0 ELSE pieces[k].from + pieces[k].n
  IN /\ \A k \in DOMAIN pieces :
          /\ pieces[k].from = End(k - 1) /\ pieces[k].from < Len(blocks)
          /\ Readable(d, pieces[k].at, pieces[k].n)
          /\ \A o \in 0..(pieces[k].n - 1) :
               pieces[k].from + o < Len(blocks) =>
                 blocks[pieces[k].from + o + 1] = pieces[k].at + o
     /\ Len(blocks) <= End(Len(pieces))

(* Clusters of n blocks that begin at these places.                            *)
Clusters(at, n) == [k \in DOMAIN at |-> [at |-> at[k], from |-> (k - 1) * n, n |-> n]]

(* The allocation table at fat links the clusters of a chain; of a deleted file *)
(* it may have been cleared.                                                   *)
Chained(d, fat, chain, del) ==
  \A k \in DOMAIN chain :
    /\ chain[k] \in 2..(Bad - 1) /\ chain[k] \in DOMAIN d.fat
    /\ Readable(d, fat + chain[k] \div 128, 1)
    /\ \/ k < Len(chain) /\ d.fat[chain[k]] = chain[k + 1]
       \/ k = Len(chain) /\ d.fat[chain[k]] >= EndMarks
       \/ del /\ d.fat[chain[k]] = 0

(* The entries of the files are those at the places S.                         *)
Placed(files, S) ==
  /\ {files[j].slot : j \in DOMAIN files} = S
  /\ \A i, j \in DOMAIN files : i < j => files[i].slot < files[j].slot

(* A table of one partition, or of none.                                       *)
GptStarts(d) ==
  {d.gpt.entries[i].first :
     i \in {j \in DOMAIN d.gpt.entries : /\ d.gpt.entries[j].type # 0
                                        /\ d.gpt.entries[j].first <= d.gpt.entries[j].last
                                        /\ d.gpt.entries[j].first < d.size}}

MbrStarts(d) ==
  {d.mbr.entries[i].start :
     i \in {j \in DOMAIN d.mbr.entries : /\ d.mbr.entries[j].type # 0
                                        /\ d.mbr.entries[j].count > 0
                                        /\ d.mbr.entries[j].start < d.size}}

GptInOrder(d) ==
  /\ d.gpt.signature /\ Readable(d, 1, 1)
  /\ d.gpt.entrySize >= 128 /\ Len(d.gpt.entries) \in 1..256
  /\ Readable(d, d.gpt.lba, (Len(d.gpt.entries) * d.gpt.entrySize + 511) \div 512)

TableInOrder(d) ==
  /\ Readable(d, 0, 1)
  /\ \/ GptInOrder(d) /\ GptStarts(d) = {d.part}
     \/ ~d.gpt.signature /\ d.mbr.signature /\ ~Protective(d) /\ MbrStarts(d) = {d.part}
     \/ ~d.gpt.signature /\ MbrStarts(d) = {} /\ d.part = 0

(* The name of a FAT32 file: the parts before its entry from the last to the   *)
(* first, or what stands in the entry.                                        *)
Spelled(entries, p, name) ==
  \E n \in 0..(p - 1) :
    /\ \A q \in (p - n)..(p - 1) : entries[q].t = "lfn"
    /\ n < p - 1 => entries[p - n - 1].t # "lfn"
    /\ name = IF n = 0 THEN <<entries[p].name>> ELSE [j \in 1..n |-> entries[p - j].part]

Fat32At(d, c) ==
  LET b == d.boot
  IN d.part + (b.reserved + b.fats * b.spf + (c - 2) * b.spc) * b.bps

Fat32FileInOrder(d, f, del) ==
  LET b == d.boot
      e == d.entries[f.slot]
  IN /\ Spelled(d.entries, f.slot, f.name)
     /\ e.size = Len(f.blocks) /\ Len(f.chain) < ChainGuard
     /\ f.chain # <<>> => e.start = f.chain[1]
     /\ Chained(d, d.part + b.reserved * b.bps, f.chain, del)
     /\ StandsIn(d, f.blocks, Clusters([k \in DOMAIN f.chain |-> Fat32At(d, f.chain[k])],
                                       b.bps * b.spc))

(* The entries of the root directory stand in the clusters of d.root.  Sectors  *)
(* of several blocks are read at the wrong place behind another partition.      *)
Fat32InOrder(d) ==
  LET b == d.boot
      n == b.bps * b.spc
  IN /\ Readable(d, d.part, 1) /\ b.signature /\ b.label
     /\ b.bps \in {1, 2, 4, 8} /\ b.spc \in PowersOfTwo /\ n <= MaxCluster
     /\ b.reserved > 0 /\ b.fats > 0 /\ b.spf > 0 /\ (b.bps = 1 \/ d.part = 0)
     /\ Len(d.root) \in 1..DirGuard /\ d.root[1] = b.root
     /\ Chained(d, d.part + b.reserved * b.bps, d.root, FALSE)
     /\ Len(d.entries) <= Len(d.root) * n
     /\ \A p \in DOMAIN d.entries : d.entries[p].t # "end"
     /\ \A k \in DOMAIN d.root :
          /\ Readable(d, Fat32At(d, d.root[k]), n)
          /\ d.root[k] \in DOMAIN d.dir /\ Len(d.dir[d.root[k]]) <= n
          /\ \A o \in 1..n :
               /\ o <= Len(d.dir[d.root[k]]) <=> (k - 1) * n + o <= Len(d.entries)
               /\ (k - 1) * n + o <= Len(d.entries) =>
                    d.dir[d.root[k]][o] = d.entries[(k - 1) * n + o]
     /\ \A del \in BOOLEAN :
          /\ Placed(d.truth[del], {p \in DOMAIN d.entries :
                                     /\ d.entries[p].t = "file" /\ ~d.entries[p].dot
                                     /\ d.entries[p].deleted = del})
          /\ \A j \in DOMAIN d.truth[del] : Fat32FileInOrder(d, d.truth[del][j], del)

ExFatAt(d, c) ==
  LET b == d.boot
  IN d.part + (b.heap + (c - 2) * Shifted(b.spcShift)) * Shifted(b.bpsShift - 9)

(* The slots of a file stand together, the stream extension behind the entry.  *)
ExFatSetsInOrder(slots) ==
  \A p \in DOMAIN slots :
    /\ slots[p].t # "end"
    /\ slots[p].t = "file" =>
         /\ slots[p].secondary >= 1 /\ p + slots[p].secondary <= Len(slots)
         /\ slots[p + 1].t = "stream"
         /\ \A q \in (p + 1)..(p + slots[p].secondary) : slots[q].t # "file"

ExFatFileInOrder(d, slots, f, del) ==
  LET b == d.boot
      s == slots[f.slot + 1]
  IN /\ f.name = NameSlots(slots, f.slot, slots[f.slot].secondary)
     /\ s.length = Len(f.blocks)
     /\ f.chain # <<>> => s.first = f.chain[1]
     /\ \A k \in DOMAIN f.chain : f.chain[k] >= 2 /\ f.chain[k] < 2 + b.count
     /\ IF s.noFatChain THEN \A k \in DOMAIN f.chain : f.chain[k] = s.first + k - 1
        ELSE Chained(d, d.part + b.fatOffset * Shifted(b.bpsShift - 9), f.chain, del)
     /\ StandsIn(d, f.blocks, Clusters([k \in DOMAIN f.chain |-> ExFatAt(d, f.chain[k])],
                                       Shifted(b.bpsShift - 9) * Shifted(b.spcShift)))

(* The root directory stands in one cluster; of a larger one no more is read.   *)
ExFatInOrder(d) ==
  LET b == d.boot
      n == Shifted(b.bpsShift - 9) * Shifted(b.spcShift)
      slots == d.dir[b.root]
  IN /\ Readable(d, d.part, 1) /\ b.signature /\ b.label
     /\ b.bpsShift \in 9..12 /\ b.bpsShift + b.spcShift <= 25 /\ n <= MaxCluster
     /\ b.root >= 2 /\ b.root \in DOMAIN d.dir /\ Readable(d, ExFatAt(d, b.root), n)
     /\ Len(slots) <= n /\ ExFatSetsInOrder(slots)
     /\ \A del \in BOOLEAN :
          /\ Placed(d.truth[del], {p \in DOMAIN slots : slots[p].t = "file" /\ slots[p].deleted = del})
          /\ \A j \in DOMAIN d.truth[del] : ExFatFileInOrder(d, slots, d.truth[del][j], del)

RecordSize(d) ==
  IF d.boot.recshift < 0 THEN Shifted(-d.boot.recshift - 9)
  ELSE d.boot.recshift * d.boot.bps * d.boot.spc

(* The content of an NTFS file in runs: its cluster vcn is cluster start of the  *)
(* volume, as are count of them from there.                                   *)
InRuns(d, blocks, runs) ==
  LET n == d.boot.bps * d.boot.spc
  IN StandsIn(d, blocks, [k \in DOMAIN runs |->
       [at |-> d.part + runs[k].start * n, from |-> runs[k].vcn * n, n |-> runs[k].count * n]])

(* A run list as it stands in a record: lengths and differences.               *)
ListSpells(list, runs) ==
  /\ Len(list) = Len(runs)
  /\ \A k \in DOMAIN list :
       /\ list[k].valid /\ ~list[k].sparse /\ list[k].length = runs[k].count
       /\ list[k].delta = runs[k].start - (IF k = 1 THEN 0 ELSE runs[k - 1].start)

IsName(a) == a.t = "name" /\ a.resident /\ a.fits

(* The content stands in a record at this place: block by block, where a block   *)
(* that reaches the end of a sector of the record has to be mended.            *)
InRecord(d, blocks, at) ==
  /\ at > 0 /\ Readable(d, at, Len(blocks))
  /\ \A o \in 1..Len(blocks) : blocks[o] \in {at + o - 1, Mended(d, at + o - 1)}

(* What the $DATA attribute a of the record at position p says of the content.  *)
NtfsContent(d, a, p, f) ==
  /\ a.fits /\ a.size = Len(f.blocks)
  /\ IF a.resident THEN f.runs = <<>> /\ InRecord(d, f.blocks, p + a.at)
     ELSE ListSpells(a.list, f.runs) /\ InRuns(d, f.blocks, f.runs)

(* The file is called by the last name in its record that is not a DOS name.    *)
(* That of a plain file has behind the names one $DATA attribute that describes  *)
(* all of its content, or none and no content.  Other files may be on the       *)
(* volume: with several streams, or a named one only, as $Secure, with holes,   *)
(* as $BadClus, described in further records, or too large to be extracted.     *)
NtfsFileInOrder(d, rec, p, f) ==
  LET Named(q) == IsName(rec.attrs[q])
      Holds(q) == rec.attrs[q].t = "data"
  IN /\ \E q \in DOMAIN rec.attrs :
          /\ Named(q) /\ ~rec.attrs[q].dos /\ rec.attrs[q].name = f.name /\ f.name # ""
          /\ \A r \in DOMAIN rec.attrs : Named(r) /\ r > q => rec.attrs[r].dos
     /\ f.plain =>
          \/ \E q \in DOMAIN rec.attrs :
               /\ Holds(q) /\ NtfsContent(d, rec.attrs[q], p, f)
               /\ \A r \in DOMAIN rec.attrs : (Holds(r) => r = q) /\ (Named(r) => r < q)
          \/ /\ f.blocks = <<>>
             /\ \A r \in DOMAIN rec.attrs : ~Holds(r) /\ (Named(r) => rec.attrs[r].size = 0)

(* The first of the living files is the table of records itself.               *)
NtfsInOrder(d) ==
  LET b == d.boot
      n == b.bps * b.spc
      size == RecordSize(d)
      mft == d.truth[FALSE][1]
      total == Len(mft.blocks) \div size
      At(i) == mft.blocks[i * size + 1]
      Rec(i) == RecordAt(d, At(i))
      Named(i) == \E q \in DOMAIN Rec(i).attrs : IsName(Rec(i).attrs[q]) /\ Rec(i).attrs[q].name # ""
  IN /\ Readable(d, d.part, 1) /\ b.signature /\ b.label
     /\ b.bps \in {1, 2, 4, 8} /\ b.spc > 0
     /\ IF b.recshift < 0 THEN -b.recshift \in 9..16 ELSE size \in 1..128
     /\ Len(d.truth[FALSE]) \in 1..MaxActive /\ Len(d.truth[TRUE]) <= MaxDeleted
     /\ mft.slot = 0 /\ mft.plain /\ mft.runs # <<>> /\ b.mft = mft.runs[1].start
     /\ total \in 1..MaxRecords /\ Len(mft.blocks) % size = 0
     /\ \A k \in DOMAIN mft.runs : (mft.runs[k].vcn * n) % size = 0 /\ (mft.runs[k].count * n) % size = 0
     /\ \A i \in 0..(total - 1) :
          Rec(i).sig => \A q \in DOMAIN Rec(i).attrs : ~Rec(i).attrs[q].broken
     /\ \A del \in BOOLEAN :
          /\ Placed(d.truth[del], {i \in 0..(total - 1) : Rec(i).sig /\ Rec(i).alloc # del /\ Named(i)})
          /\ \A j \in DOMAIN d.truth[del] :
               NtfsFileInOrder(d, Rec(d.truth[del][j].slot), At(d.truth[del][j].slot), d.truth[del][j])

(* Content is promised of every FAT32 and exFAT file and of plain NTFS files.  *)
Promised(d, f) == d.kind = "ntfs" => f.plain

Described(d) ==
  /\ \A del \in BOOLEAN :
       /\ Len(d.truth[del]) \in Nat /\ DOMAIN d.truth[del] = 1..Len(d.truth[del])
       /\ \A j \in DOMAIN d.truth[del] :
            /\ d.truth[del][j].slot \in Nat
            /\ d.truth[del][j].blocks \in Seq(Nat)
            /\ Promised(d, d.truth[del][j]) => Len(d.truth[del][j].blocks) <= MaxExtract
            /\ IF d.kind = "ntfs"
                 THEN /\ d.truth[del][j].plain \in BOOLEAN
                      /\ d.truth[del][j].runs \in Seq([vcn : Nat, start : Nat, count : Nat \ {0}])
                 ELSE d.truth[del][j].chain \in Seq(Nat)
  /\ d.kind = "fat32" => d.root \in Seq(Nat) /\ d.entries \in Seq(Fat32Entries)

InOrder(d) ==
  /\ d.kind # "raw" /\ TableInOrder(d) /\ Described(d)
  /\ CASE d.kind = "fat32" -> Fat32InOrder(d)
       [] d.kind = "exfat" -> ExFatInOrder(d)
       [] d.kind = "ntfs" -> NtfsInOrder(d)

ASSUME DiskAssumption ==
  \A d \in Disks :
    /\ d.kind \in {"raw", "fat32", "exfat", "ntfs"} /\ d.size \in Nat /\ d.bad \subseteq Nat
    /\ d.kind # "raw" => Tabled(d) /\ d.part \in Nat
    /\ d.sound => InOrder(d)
    /\ d.kind = "fat32" => d.boot \in Fat32Boots /\ Linking(d) /\ Filed(d, Fat32Entries)
    /\ d.kind = "exfat" => d.boot \in ExFatBoots /\ Linking(d) /\ Filed(d, ExFatSlots)
    /\ d.kind = "ntfs" => /\ d.boot \in NtfsBoots
                          /\ DOMAIN d.mft \subseteq Nat /\ d.mft \in [DOMAIN d.mft -> NtfsRecords]

-----------------------------------------------------------------------------
(* The partition that holds the volume is among those detected, and a volume  *)
(* in order is recognised there (detectPartitions, probe).                   *)
VolumeFound ==
  image.sound /\ table # NoTable =>
    /\ \E i \in DOMAIN table.partitions : table.partitions[i].start = image.part
    /\ Probes(image.part).valid
    /\ volume # NoVolume => volume.part = image.part

(* What out holds is the content, as far as it goes, but for the exception that *)
(* of a resident NTFS file a block that reaches the end of a sector of its      *)
(* record comes out as it is without the fixup.                               *)
Begins(d, out, blocks) ==
  /\ Len(out) <= Len(blocks)
  /\ \A o \in 1..Len(out) : out[o] = blocks[o] \/ Mended(d, out[o]) = blocks[o]

(* Every living file of a volume in order is listed once, in order, under its  *)
(* name, and what is extracted is its content, all of it, however it is        *)
(* fragmented and whatever was deleted around it (listDirectory, extractFile).  *)
(* Left open is the content of NTFS files that are not plain.                 *)
LivingFilesWhole ==
  image.sound /\ output # <<>> /\ ~deleted =>
    /\ Len(listed) = Len(image.truth[FALSE])
    /\ \A i \in DOMAIN listed :
         LET f == image.truth[FALSE][i]
         IN /\ listed[i].name = f.name
            /\ Promised(image, f) => Len(output[i]) = Len(f.blocks) /\ Begins(image, output[i], f.blocks)

(* Of a deleted file what is extracted is its beginning: a chain that was      *)
(* cleared shortens the content and never puts other blocks into it.  Left     *)
(* open is the content of NTFS files that are not plain.                      *)
DeletedFilesBegin ==
  image.sound /\ output # <<>> /\ deleted =>
    /\ Len(listed) = Len(image.truth[TRUE])
    /\ \A i \in DOMAIN listed :
         LET f == image.truth[TRUE][i]
         IN /\ listed[i].name = f.name
            /\ Promised(image, f) => /\ f.blocks # <<>> => output[i] # <<>>
                              /\ Begins(image, output[i], f.blocks)

(* The sets of clusters with start from which the allocation table leads to    *)
(* no other cluster.                                                         *)
Linkable(c) == c >= 2 /\ c < Bad

Linked(start) ==
  LET links == {c \in {image.fat[x] : x \in DOMAIN image.fat} : Linkable(c)}
  IN {C \in SUBSET (DOMAIN image.fat \cup links \cup {start}) :
        /\ start \in C
        /\ \A c \in C \cap DOMAIN image.fat : Linkable(image.fat[c]) => image.fat[c] \in C}

Within(off, n, b) == off <= b /\ b < off + n

(* What an exFAT file that is contiguous, or has no clusters of its own in the *)
(* table, is read as.                                                        *)
Contiguous(r) ==
  r.runs \in {<<>>, <<[start |-> r.start, count |-> ClusterCount(volume, r.size)]>>}

InExFatCluster(C, b) ==
  \E c \in C : InHeap(volume, c) /\ Within(ExFatOffset(volume, c), volume.size, b)

(* Block b belongs to the file r.                                            *)
Fat32Owns(r, b) ==
  \A C \in Linked(r.start) : \E c \in C : Within(Fat32Offset(volume, c), volume.size, b)

ExFatOwns(r, b) ==
  IF Contiguous(r)
    THEN InExFatCluster(r.start..(r.start + ClusterCount(volume, r.size) - 1), b)
    ELSE \A C \in Linked(r.start) : InExFatCluster(C, b)

NtfsOwns(r, b) ==
  IF r.runs # <<>>
    THEN \E j \in DOMAIN r.runs : Within(NtfsOffset(volume, r.runs[j].start),
                                         r.runs[j].count * volume.size, b)
    ELSE r.at > 0 /\ Within(r.at, r.size, b)

Owns(r, b) ==
  CASE image.kind = "fat32" -> Fat32Owns(r, b)
    [] image.kind = "exfat" -> ExFatOwns(r, b)
    [] image.kind = "ntfs" -> NtfsOwns(r, b)

(* An NTFS file without clusters and without a place in its record: zeros.    *)
Nowhere(r) == image.kind = "ntfs" /\ r.runs = <<>> /\ r.at = 0

(* However broken the tables of a volume and however short the image, no more *)
(* is extracted than the size of the file, and nothing but readable blocks of *)
(* the image that belong to it: those of clusters that the allocation table    *)
(* links to its first, those of its runs, those in its record                 *)
(* (getClusterChain, parseDirectoryCluster, parseRunlist, extractFile).       *)
NothingForeign ==
  output # <<>> =>
    \A i \in DOMAIN listed :
      /\ Len(output[i]) <= listed[i].size /\ Len(output[i]) <= MaxExtract
      /\ \A b \in ToSet(output[i]) :
           \/ b = -1 /\ Nowhere(listed[i])
           \/ b < image.size /\ b \notin image.bad /\ Owns(listed[i], b)
=============================================================================
