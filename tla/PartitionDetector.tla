-------------------------- MODULE PartitionDetector --------------------------
(***************************************************************************)
(* PartitionDetector::detectPartitions of src/src/core/partition_table.cpp. *)
(* An image has a master boot record in block 0 and perhaps a GPT header in *)
(* block 1 with its table elsewhere.                                       *)
(***************************************************************************)
EXTENDS FsVolume

NoTable == [type |-> "NONE", partitions |-> <<>>]

(* Those of the entries whose place is in S, numbered in their order.        *)
Entries(entries, S) ==
  Iterate(Len(entries), <<>>,
          LAMBDA x, k : IF k \notin S THEN x
                        ELSE Append(x, [number |-> Len(x) + 1, start |-> entries[k].start,
                                        count |-> entries[k].count]))

(* The entries of the GPT, if its table can be read: a type, a range that is  *)
(* not reversed, a start on the disk.                                       *)
GptEntries(img) ==
  LET g == img.gpt
      used == {i \in DOMAIN g.entries : /\ g.entries[i].type # 0
                                        /\ g.entries[i].first <= g.entries[i].last
                                        /\ g.entries[i].first < img.size}
      ranges == [i \in DOMAIN g.entries |->
                   [start |-> g.entries[i].first,
                    count |-> g.entries[i].last - g.entries[i].first + 1]]
  IN IF \/ img.size < 2 \/ ~Readable(img, 1, 1) \/ ~g.signature
        \/ g.entrySize < 128 \/ Len(g.entries) \notin 1..256
        \/ ~Readable(img, g.lba, (Len(g.entries) * g.entrySize + 511) \div 512)
     THEN <<>>
     ELSE Entries(ranges, used)

(* Mutant: an entry must end on the disk.                                    *)
MbrEntriesWithin(img) ==
  LET entries == img.mbr.entries
  IN Entries(entries, {i \in DOMAIN entries :
                          /\ entries[i].type # 0 /\ entries[i].count > 0
                          /\ entries[i].start + entries[i].count <= img.size})

(* The four entries of the master boot record.                              *)
MbrEntries(img) ==
  LET entries == img.mbr.entries
  IN Entries(entries, {i \in DOMAIN entries :
                          /\ entries[i].type # 0 /\ entries[i].count > 0
                          /\ entries[i].start < img.size})

Protective(img) == \E i \in DOMAIN img.mbr.entries : img.mbr.entries[i].type = 238

(* GPT before MBR; an MBR that only protects a GPT does not count, and a disk *)
(* without entries is one volume.                                           *)
DetectPartitions(img) ==
  LET gpt == GptEntries(img)
      mbr == MbrEntries(img)
  IN IF img.size < 1 \/ ~Readable(img, 0, 1) THEN NoTable
     ELSE IF gpt # <<>> THEN [type |-> "GPT", partitions |-> gpt]
     ELSE IF img.mbr.signature /\ ~Protective(img) /\ mbr # <<>>
       THEN [type |-> "MBR", partitions |-> mbr]
     ELSE [type |-> "RAW_SUPERFLOPPY",
           partitions |-> <<[number |-> 1, start |-> 0, count |-> img.size]>>]
=============================================================================
