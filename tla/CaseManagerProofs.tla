-------------------------- MODULE CaseManagerProofs --------------------------
(***************************************************************************)
(* The chain of custody of a case workspace, for any number of cases,      *)
(* sources and restarts: proof that evidence is whole (WholeEvidence),     *)
(* that a catalog only names what is there (CatalogBacked), that a failed  *)
(* ingestion leaves the directory as it was (FailureLeavesNothing) and     *)
(* that evidence is stored with the hash it is listed with                 *)
(* (StoredAsHashed).                                                       *)
(*                                                                         *)
(* From its first step to its last, a call of registerEvidence touches     *)
(* nothing but the temporary file of its item (CallInv): the rename is the *)
(* one step that changes what lies under a final name, and it moves there  *)
(* a file that was completed and compared.                                 *)
(***************************************************************************)
EXTENDS CaseManager, TLAPS

Files == Contents \cup {Absent, Partial}
Items == [id : Nat, case : Cases, name : DOMAIN Tmp, hash : Hash, copied : BOOLEAN]
Places == {"idle", "hash", "copy", "copying", "compare", "rename", "remove", "failed", "push",
           "truncate", "write", "account"}

TypeOK ==
  /\ source \in [Sources -> Contents \cup {Absent}]
  /\ dir \in [Cases -> [Names -> Files]]
  /\ catalog \in [Cases -> Seq(Items)]
  /\ case_root \in Cases \cup {NoCase}
  /\ evidence_list \in Seq(Items)
  /\ call \in [at : Places] \cup [at : Places, source : Sources]
  /\ before \in [Names -> Files]
  /\ leftover \in BOOLEAN

(* The steps in which a copy is on its way. *)
Copying == {"copy", "copying", "compare", "rename", "remove", "failed"}

ItemInv ==
  ~At("idle") => /\ item \in Items
                 /\ case_root \in Cases /\ item.case = case_root
                 /\ At("hash") \/ call.at \in Copying => (item.copied => call \in [at : Places, source : Sources])
                 /\ call.at \in Copying => item.copied

OnlyTmp == \A n \in Names \ {TmpName} : dir[case_root][n] = before[n]
Kept == item.copied /\ item.hash \in Contents => dir[case_root][item.name] = item.hash

CallInv ==
  /\ At("hash") \/ call.at \in Copying => OnlyTmp
  /\ call.at \in {"compare", "rename"} => dir[case_root][TmpName] \in Contents
  /\ At("rename") /\ item.hash \in Contents => dir[case_root][TmpName] = item.hash
  /\ At("failed") /\ ~leftover => dir[case_root][TmpName] = Absent
  /\ At("push") => Backed(item) /\ Kept

(* What the object remembers lies in the directories. *)
ListBacked == \A k \in DOMAIN evidence_list : Backed(evidence_list[k])

IInv == TypeOK /\ ItemInv /\ CallInv /\ WholeEvidence /\ ListBacked /\ CatalogBacked

-----------------------------------------------------------------------------

LEMMA InitIInv == Init => IInv
<1> SUFFICES ASSUME Init PROVE IInv
    OBVIOUS
<1> USE CaseAssumption DEF Init, EmptyDir
<1>1. TypeOK
  <2>1. source \in [Sources -> Contents \cup {Absent}]
        OBVIOUS
  <2>2. dir \in [Cases -> [Names -> Files]] /\ before \in [Names -> Files]
        BY DEF Files
  <2>3. <<>> \in Seq(Items)
        OBVIOUS
  <2>4. catalog \in [Cases -> Seq(Items)] /\ evidence_list \in Seq(Items)
        BY <2>3
  <2>5. call \in [at : Places]
        BY DEF NoCall, Places
  <2> QED BY <2>1, <2>2, <2>4, <2>5 DEF TypeOK
<1>2. ItemInv /\ CallInv
      BY DEF ItemInv, CallInv, NoCall, At, Copying
<1>3. WholeEvidence /\ ListBacked /\ CatalogBacked
      BY DEF WholeEvidence, ListBacked, CatalogBacked
<1> QED BY <1>1, <1>2, <1>3 DEF IInv

(* A file that no step removes backs what it backed before. *)
LEMMA StaysBacked ==
  ASSUME NEW i \in Items,  Backed(i),
         \A c \in Cases, n \in Names \ Temporaries : dir[c][n] # Absent => dir'[c][n] # Absent
  PROVE  Backed(i)'
<1>1. i.case \in Cases /\ i.name \in Names
      BY CaseAssumption DEF Items
<1> QED BY <1>1 DEF Backed, Temporaries

LEMMA AllStayBacked ==
  ASSUME TypeOK, ListBacked, CatalogBacked, UNCHANGED <<evidence_list, catalog>>,
         \A c \in Cases, n \in Names \ Temporaries : dir[c][n] # Absent => dir'[c][n] # Absent
  PROVE  ListBacked' /\ CatalogBacked'
<1>1. \A k \in DOMAIN evidence_list : evidence_list[k] \in Items
      BY DEF TypeOK
<1>2. \A c \in Cases : \A k \in DOMAIN catalog[c] : catalog[c][k] \in Items
  <2>1. \A c \in Cases : catalog[c] \in Seq(Items)
        BY DEF TypeOK
  <2> QED BY <2>1
<1>3. ListBacked'
      BY <1>1, StaysBacked DEF ListBacked
<1>4. CatalogBacked'
      BY <1>2, StaysBacked DEF CatalogBacked
<1> QED BY <1>3, <1>4

(* Steps of others, which touch nothing of the directories. *)
LEMMA InitializeWorkspaceKeeps ==
  ASSUME IInv, NEW c \in Cases, InitializeWorkspace(c)
  PROVE  IInv'
<1> USE DEF IInv, InitializeWorkspace, memory
<1>1. TypeOK' /\ ItemInv'
      BY DEF TypeOK, ItemInv, At
<1>2. CallInv'
      BY DEF CallInv, At, OnlyTmp, Kept, Backed, TmpName
<1>3. WholeEvidence' /\ ListBacked' /\ CatalogBacked'
      BY DEF WholeEvidence, ListBacked, CatalogBacked, Backed
<1> QED BY <1>1, <1>2, <1>3

LEMMA OpenWorkspaceKeeps ==
  ASSUME IInv, NEW c \in Cases, OpenWorkspace(c)
  PROVE  IInv'
<1> USE DEF IInv, OpenWorkspace, disk
<1>1. TypeOK' /\ ItemInv'
      BY DEF TypeOK, ItemInv, At, Copying
<1>2. CallInv'
      BY DEF CallInv, At, Copying
<1>3. WholeEvidence' /\ ListBacked' /\ CatalogBacked'
      BY DEF WholeEvidence, ListBacked, CatalogBacked, Backed
<1> QED BY <1>1, <1>2, <1>3

LEMMA SourceChangesKeeps ==
  ASSUME IInv, NEW s \in Sources, SourceChanges(s)
  PROVE  IInv'
<1> USE DEF IInv, SourceChanges, disk, memory
<1>1. TypeOK' /\ ItemInv'
      BY DEF TypeOK, ItemInv, At
<1>2. CallInv'
      BY DEF CallInv, At, OnlyTmp, Kept, Backed, TmpName
<1>3. WholeEvidence' /\ ListBacked' /\ CatalogBacked'
      BY DEF WholeEvidence, ListBacked, CatalogBacked, Backed
<1> QED BY <1>1, <1>2, <1>3

(* The end of a call, in memory. *)
LEMMA HangupFits ==
  ASSUME Hangup
  PROVE  /\ call' \in [at : Places] /\ call'.at = "idle"
         /\ before' \in [Names -> Files]
         /\ ItemInv' /\ CallInv'
<1>1. call'.at = "idle"
      BY DEF Hangup, NoCall
<1>2. ItemInv' /\ CallInv'
      BY <1>1 DEF ItemInv, CallInv, At, Copying
<1> QED BY <1>1, <1>2 DEF Hangup, NoCall, Places, EmptyDir, Files

LEMMA RestartKeeps ==
  ASSUME IInv, Restart
  PROVE  IInv'
<1> USE DEF IInv, Restart, disk
<1>0. <<>> \in Seq(Items)
      OBVIOUS
<1>1. TypeOK' /\ ItemInv' /\ CallInv'
      BY <1>0, HangupFits DEF TypeOK
<1>2. WholeEvidence' /\ ListBacked' /\ CatalogBacked'
      BY DEF WholeEvidence, ListBacked, CatalogBacked, Backed
<1> QED BY <1>1, <1>2

LEMMA RegisterKeeps ==
  ASSUME IInv, NEW n \in DOMAIN Tmp, NEW copied \in BOOLEAN,
         At("idle"), case_root # NoCase,
         item' = NewItem(n, copied), before' = dir[case_root],
         call' \in [at : {"hash"}] \cup [at : {"hash"}, source : Sources],
         copied => call' \in [at : {"hash"}, source : Sources],
         UNCHANGED <<source, disk, memory, leftover, bounds>>
  PROVE  IInv'
<1> USE DEF IInv, disk, memory
<1>0. case_root \in Cases
      BY DEF TypeOK
<1>1. TypeOK'
  <2>1. call' \in [at : Places] \cup [at : Places, source : Sources]
        BY DEF Places
  <2> QED BY <2>1, <1>0 DEF TypeOK
<1>2. item' \in Items /\ item'.case = case_root /\ item'.copied = copied
  <2>1. Len(evidence_list) + 1 \in Nat /\ NoHash \in Hash
        BY DEF TypeOK, Hash
  <2> QED BY <1>0, <2>1 DEF NewItem, Items
<1>3. call'.at = "hash"
      OBVIOUS
<1>4. ItemInv' /\ CallInv'
      BY <1>0, <1>2, <1>3 DEF ItemInv, CallInv, At, Copying, OnlyTmp, Places
<1>5. WholeEvidence' /\ ListBacked' /\ CatalogBacked'
      BY DEF WholeEvidence, ListBacked, CatalogBacked, Backed
<1> QED BY <1>1, <1>4, <1>5

LEMMA Goes ==
  ASSUME TypeOK, NEW step \in Places, Goto(step)
  PROVE  /\ call' \in [at : Places] \cup [at : Places, source : Sources]
         /\ call'.at = step
         /\ call \in [at : Places, source : Sources] => call' \in [at : Places, source : Sources]
<1>1. CASE call \in [at : Places]
      BY <1>1 DEF Goto
<1>2. CASE call \in [at : Places, source : Sources]
      BY <1>2 DEF Goto
<1> QED BY <1>1, <1>2 DEF TypeOK

LEMMA HashSourceKeeps ==
  ASSUME IInv, HashSource
  PROVE  IInv'
<1> USE DEF IInv, disk, memory
<1>0. /\ item \in Items /\ case_root \in Cases /\ item.case = case_root
      /\ item.copied => call \in [at : Places, source : Sources]
      BY DEF HashSource, ItemInv, At
<1>1. PICK hash \in Hash :
         /\ HashOf(IF item.copied THEN source[call.source] ELSE dir[case_root][item.name], hash)
         /\ item' = [item EXCEPT !.hash = hash]
      BY DEF HashSource
<1>2. PICK step \in {"copy", "push"} : Goto(step) /\ step = IF item.copied THEN "copy" ELSE "push"
      BY DEF HashSource
<1>3. /\ item' \in Items /\ item'.hash = hash
      /\ item'.case = item.case /\ item'.name = item.name /\ item'.copied = item.copied
      BY <1>0, <1>1 DEF Items
<1>4. /\ call' \in [at : Places] \cup [at : Places, source : Sources] /\ call'.at = step
      /\ item.copied => call' \in [at : Places, source : Sources]
      BY <1>0, <1>2, Goes DEF Places
<1>5. UNCHANGED <<source, disk, memory, before, leftover>>
      BY DEF HashSource
<1>6. TypeOK'
      BY <1>4, <1>5 DEF TypeOK
<1>7. ItemInv'
      BY <1>0, <1>2, <1>3, <1>4, <1>5 DEF ItemInv, At, Copying, Items
<1>8. CallInv'
  <2>1. CASE item.copied
    <3>1. step = "copy" /\ TmpName' = TmpName /\ OnlyTmp
          BY <1>2, <1>3, <2>1 DEF HashSource, CallInv, TmpName
    <3> QED BY <1>4, <1>5, <3>1 DEF CallInv, At, Copying, OnlyTmp
  <2>2. CASE ~item.copied
    <3>1. step = "push"
          BY <1>2, <2>2
    <3>2. hash # NoHash => dir[case_root][item.name] # Absent
          BY <1>1, <2>2, CaseAssumption DEF HashOf
    <3>3. Backed(item)' /\ Kept'
          BY <1>0, <1>3, <1>5, <2>2, <3>2 DEF Backed, Kept
    <3> QED BY <1>4, <3>1, <3>3 DEF CallInv, At, Copying
  <2> QED BY <1>0, <2>1, <2>2 DEF Items
<1>9. WholeEvidence' /\ ListBacked' /\ CatalogBacked'
      BY <1>5 DEF WholeEvidence, ListBacked, CatalogBacked, Backed
<1> QED BY <1>6, <1>7, <1>8, <1>9

(* What Put does, on the temporary file of the item.                       *)
LEMMA PutTmp ==
  ASSUME TypeOK, case_root \in Cases, item \in Items, NEW content \in Files,
         Put(TmpName, content)
  PROVE  /\ dir' \in [Cases -> [Names -> Files]]
         /\ dir'[case_root][TmpName] = content
         /\ \A c \in Cases, n \in Names :
              ~(c = case_root /\ n = TmpName) => dir'[c][n] = dir[c][n]
<1>1. TmpName \in Names /\ dir \in [Cases -> [Names -> Files]]
      BY CaseAssumption DEF TmpName, Items, TypeOK
<1>2. dir' = [dir EXCEPT ![case_root] = [dir[case_root] EXCEPT ![TmpName] = content]]
      BY DEF Put
<1> QED BY <1>1, <1>2

(* A step on the temporary file of the item, in the midst of a call. *)
LEMMA OnTmpKeeps ==
  ASSUME IInv, call.at \in Copying, NEW content \in Files, Put(TmpName, content),
         NEW step \in Copying, Goto(step),
         UNCHANGED <<source, metadata, catalog, memory, item, before>>,
         leftover' \in BOOLEAN,
         step \in {"compare", "rename"} => content \in Contents,
         step = "rename" /\ item.hash \in Contents => content = item.hash,
         step = "failed" /\ ~leftover' => content = Absent
  PROVE  IInv'
<1> USE DEF IInv, memory
<1>0. item \in Items /\ case_root \in Cases /\ call \in [at : Places, source : Sources]
      BY DEF ItemInv, At, Copying
<1>1. step \in Places
      BY DEF Copying, Places
<1>2. call' \in [at : Places, source : Sources] /\ call'.at = step
      BY <1>0, <1>1, Goes
<1>3. /\ dir' \in [Cases -> [Names -> Files]] /\ dir'[case_root][TmpName] = content
      /\ \A c \in Cases, n \in Names :
           ~(c = case_root /\ n = TmpName) => dir'[c][n] = dir[c][n]
      BY <1>0, PutTmp
<1>4. TypeOK'
      BY <1>2, <1>3 DEF TypeOK
<1>5. ItemInv'
      BY <1>0, <1>2 DEF ItemInv, At, Copying
<1>6. CallInv'
  <2>1. TmpName' = TmpName
        BY DEF TmpName
  <2>2. OnlyTmp'
        BY <1>0, <1>3, <2>1 DEF OnlyTmp, CallInv, At
  <2> QED BY <1>2, <1>3, <2>1, <2>2 DEF CallInv, At, Copying
<1>7. TmpName \in Temporaries
      BY <1>0 DEF TmpName, Temporaries, Items
<1>8. \A c \in Cases, n \in Names \ Temporaries : dir'[c][n] = dir[c][n]
      BY <1>3, <1>7
<1>9. WholeEvidence' /\ ListBacked' /\ CatalogBacked'
      BY <1>8, AllStayBacked DEF WholeEvidence
<1> QED BY <1>4, <1>5, <1>6, <1>9

LEMMA SamePut ==
  ASSUME TypeOK, case_root \in Cases, item \in Items, UNCHANGED dir
  PROVE  dir[case_root][TmpName] \in Files /\ Put(TmpName, dir[case_root][TmpName])
<1>1. TmpName \in Names /\ dir \in [Cases -> [Names -> Files]]
      BY CaseAssumption DEF TmpName, Items, TypeOK
<1>2. dir[case_root] = [dir[case_root] EXCEPT ![TmpName] = dir[case_root][TmpName]]
      BY <1>1
<1>3. dir = [dir EXCEPT ![case_root] = [dir[case_root] EXCEPT ![TmpName] = dir[case_root][TmpName]]]
      BY <1>1, <1>2
<1> QED BY <1>1, <1>3 DEF Put

LEMMA CopyBeginsKeeps ==
  ASSUME IInv, CopyBegins
  PROVE  IInv'
<1>0. /\ call.at \in Copying /\ leftover' \in BOOLEAN
      /\ UNCHANGED <<source, metadata, catalog, memory, item, before>>
      BY DEF IInv, TypeOK, CopyBegins, At, Copying
<1>1. item \in Items /\ case_root \in Cases
      BY <1>0 DEF IInv, ItemInv, At, Copying
<1>2. CASE Goto("copying") /\ Put(TmpName, Partial)
      BY <1>0, <1>2, OnTmpKeeps DEF Copying, Files
<1>3. CASE Goto("remove") /\ UNCHANGED dir
      BY <1>0, <1>1, <1>3, SamePut, OnTmpKeeps DEF IInv, Copying
<1> QED BY <1>2, <1>3 DEF CopyBegins

LEMMA CopyEndsKeeps ==
  ASSUME IInv, CopyEnds
  PROVE  IInv'
<1>0. /\ call.at \in Copying /\ leftover' \in BOOLEAN
      /\ UNCHANGED <<source, metadata, catalog, memory, item, before>>
      BY DEF IInv, TypeOK, CopyEnds, At, Copying
<1>1. call.source \in Sources
      BY <1>0 DEF IInv, ItemInv, At, Copying
<1>2. PICK content \in Contents : Put(TmpName, content)
      BY <1>1 DEF CopyEnds, IInv, TypeOK
<1>3. Goto("compare")
      BY DEF CopyEnds
<1> QED BY <1>0, <1>2, <1>3, OnTmpKeeps DEF Copying, Files

(* A copy passes only with the hash of the item: if that is the hash of a  *)
(* whole file, the copy is that file.                                      *)
LEMMA CompareKeeps ==
  ASSUME IInv, Compare
  PROVE  IInv'
<1>0. /\ call.at \in Copying /\ leftover' \in BOOLEAN
      /\ UNCHANGED <<source, dir, metadata, catalog, memory, item, before>>
      BY DEF IInv, TypeOK, Compare, At, Copying, disk
<1>1. item \in Items /\ case_root \in Cases /\ dir[case_root][TmpName] \in Contents
      BY <1>0 DEF IInv, ItemInv, CallInv, Compare, At, Copying
<1>2. PICK hash \in Hash : /\ HashOf(dir[case_root][TmpName], hash)
                           /\ Goto(IF hash = item.hash THEN "rename" ELSE "remove")
      BY DEF Compare
<1>3. dir[case_root][TmpName] \in Files /\ Put(TmpName, dir[case_root][TmpName])
      BY <1>0, <1>1, SamePut DEF IInv
<1>4. CASE hash = item.hash
  <2>1. item.hash \in Contents => dir[case_root][TmpName] = item.hash
        BY <1>2, <1>4, CaseAssumption DEF HashOf
  <2> QED BY <1>0, <1>1, <1>2, <1>3, <1>4, <2>1, OnTmpKeeps DEF Copying
<1>5. CASE hash # item.hash
      BY <1>0, <1>2, <1>3, <1>5, OnTmpKeeps DEF Copying
<1> QED BY <1>4, <1>5

LEMMA StepFailsKeeps ==
  ASSUME IInv, StepFails
  PROVE  IInv'
<1>0. /\ call.at \in Copying /\ leftover' \in BOOLEAN
      /\ UNCHANGED <<source, dir, metadata, catalog, memory, item, before>>
      /\ Goto("remove")
      BY DEF IInv, TypeOK, StepFails, At, Copying, disk
<1>1. item \in Items /\ case_root \in Cases
      BY <1>0 DEF IInv, ItemInv, At, Copying
<1> QED BY <1>0, <1>1, SamePut, OnTmpKeeps DEF IInv, Copying

LEMMA RemoveTmpKeeps ==
  ASSUME IInv, RemoveTmp
  PROVE  IInv'
<1>0. /\ call.at \in Copying /\ leftover' \in BOOLEAN
      /\ UNCHANGED <<source, metadata, catalog, memory, item, before>>
      /\ Goto("failed")
      BY DEF IInv, TypeOK, RemoveTmp, At, Copying
<1>1. item \in Items /\ case_root \in Cases
      BY <1>0 DEF IInv, ItemInv, At, Copying
<1>2. CASE Put(TmpName, Absent)
      BY <1>0, <1>2, OnTmpKeeps DEF Copying, Files
<1>3. CASE leftover' /\ UNCHANGED dir
      BY <1>0, <1>1, <1>3, SamePut, OnTmpKeeps DEF IInv, Copying
<1> QED BY <1>2, <1>3 DEF RemoveTmp

(* Only here does a file come under a final name, and it is a whole one.   *)
LEMMA RenameKeeps ==
  ASSUME IInv, Rename
  PROVE  IInv'
<1> DEFINE copy == dir[case_root][TmpName]
<1>0. /\ item \in Items /\ case_root \in Cases /\ item.case = case_root /\ item.copied
      /\ call \in [at : Places, source : Sources]
      /\ copy \in Contents /\ (item.hash \in Contents => copy = item.hash)
      BY DEF IInv, ItemInv, CallInv, Rename, At, Copying
<1>1. UNCHANGED <<source, metadata, catalog, memory, item, before, leftover>> /\ Goto("push")
      BY DEF Rename
<1>2. call' \in [at : Places, source : Sources] /\ call'.at = "push"
      BY <1>0, <1>1, Goes DEF IInv, Places
<1>3. /\ item.name \in Names /\ TmpName \in Names /\ item.name # TmpName
      /\ TmpName \in Temporaries
      BY <1>0, CaseAssumption DEF Items, TmpName, Temporaries
<1>4. dir \in [Cases -> [Names -> Files]] /\ Contents \subseteq Files
      BY DEF IInv, TypeOK, Files
<1>5. /\ dir' \in [Cases -> [Names -> Files]]
      /\ \A c \in Cases \ {case_root} : dir'[c] = dir[c]
      /\ \A n \in Names : dir'[case_root][n] = IF n = TmpName THEN Absent
                                              ELSE IF n = item.name THEN copy
                                              ELSE dir[case_root][n]
  <2> DEFINE moved == [[dir[case_root] EXCEPT ![item.name] = copy] EXCEPT ![TmpName] = Absent]
  <2>1. dir' = [dir EXCEPT ![case_root] = moved]
        BY <1>0, <1>3, <1>4 DEF Rename
  <2>2. /\ moved \in [Names -> Files]
        /\ \A n \in Names : moved[n] = IF n = TmpName THEN Absent
                                      ELSE IF n = item.name THEN copy ELSE dir[case_root][n]
        BY <1>0, <1>3, <1>4 DEF Files
  <2> HIDE DEF moved
  <2> QED BY <1>0, <1>4, <2>1, <2>2
<1>6. TypeOK'
      BY <1>1, <1>2, <1>5 DEF IInv, TypeOK, memory
<1>7. ItemInv'
      BY <1>0, <1>1, <1>2 DEF ItemInv, At, Copying, memory
<1>8. copy # Absent /\ copy # Partial
      BY <1>0, CaseAssumption
<1>9. CallInv'
  <2>1. Backed(item)' /\ Kept'
        BY <1>0, <1>1, <1>3, <1>5, <1>8 DEF Backed, Kept, memory
  <2> QED BY <1>2, <2>1 DEF CallInv, At, Copying
<1>10. \A c \in Cases, n \in Names \ Temporaries :
          dir'[c][n] = dir[c][n] \/ dir'[c][n] = copy
       BY <1>3, <1>5
<1>11. WholeEvidence'
       BY <1>8, <1>10 DEF IInv, WholeEvidence
<1>12. ListBacked' /\ CatalogBacked'
       BY <1>1, <1>8, <1>10, AllStayBacked DEF IInv, memory
<1> QED BY <1>6, <1>7, <1>9, <1>11, <1>12 DEF IInv

LEMMA PushKeeps ==
  ASSUME IInv, Push
  PROVE  IInv'
<1> USE DEF IInv, disk
<1>0. /\ item \in Items /\ case_root \in Cases /\ item.case = case_root /\ Backed(item)
      /\ evidence_list \in Seq(Items) /\ evidence_list' = Append(evidence_list, item)
      /\ UNCHANGED <<source, dir, catalog, case_root, item, before, leftover>>
      BY DEF Push, ItemInv, CallInv, TypeOK, At
<1>1. /\ call' \in [at : Places] \cup [at : Places, source : Sources]
      /\ call'.at = "truncate"
      BY Goes DEF Push, Places
<1>2. TypeOK'
  <2>1. evidence_list' \in Seq(Items)
        BY <1>0
  <2> QED BY <1>0, <1>1, <2>1 DEF TypeOK
<1>3. ItemInv' /\ CallInv'
      BY <1>0, <1>1 DEF ItemInv, CallInv, At, Copying
<1>4. ListBacked'
  <2>1. \A k \in DOMAIN evidence_list' : \/ evidence_list'[k] = item
                                         \/ /\ k \in DOMAIN evidence_list
                                            /\ evidence_list'[k] = evidence_list[k]
        BY <1>0
  <2> QED BY <1>0, <2>1 DEF ListBacked, Backed
<1>5. WholeEvidence' /\ CatalogBacked'
      BY <1>0 DEF WholeEvidence, CatalogBacked, Backed
<1> QED BY <1>2, <1>3, <1>4, <1>5

(* The catalog is cut, or gets the list: nothing that is not backed. *)
LEMMA SaveKeeps ==
  ASSUME IInv, Truncate \/ Write
  PROVE  IInv'
<1> USE DEF IInv, memory
<1>0. /\ item \in Items /\ case_root \in Cases /\ item.case = case_root
      /\ UNCHANGED <<source, dir, case_root, evidence_list, item, before, leftover>>
      BY DEF Truncate, Write, ItemInv, At
<1>1. catalog' \in {catalog, [catalog EXCEPT ![case_root] = <<>>],
                   [catalog EXCEPT ![case_root] = evidence_list]}
      BY DEF Truncate, Write
<1>2. /\ call' \in [at : Places] \cup [at : Places, source : Sources]
      /\ call'.at \in {"write", "account"}
      BY Goes DEF Truncate, Write, Places
<1>3. \A c \in Cases : catalog'[c] \in {catalog[c], <<>>, evidence_list}
      BY <1>1 DEF TypeOK
<1>4. TypeOK'
  <2>1. <<>> \in Seq(Items) /\ evidence_list \in Seq(Items)
        BY DEF TypeOK
  <2>2. catalog' \in [Cases -> Seq(Items)]
        BY <1>1, <2>1 DEF TypeOK
  <2> QED BY <1>0, <1>2, <2>2 DEF TypeOK
<1>5. ItemInv' /\ CallInv'
      BY <1>0, <1>2 DEF ItemInv, CallInv, At, Copying
<1>6. WholeEvidence' /\ ListBacked'
      BY <1>0 DEF WholeEvidence, ListBacked, Backed
<1>7. CatalogBacked'
  <2>1. ASSUME NEW c \in Cases, NEW k \in DOMAIN catalog'[c], NEW i, i = catalog'[c][k]
        PROVE  Backed(i)
    <3>1. CASE catalog'[c] = catalog[c]
          BY <2>1, <3>1 DEF CatalogBacked
    <3>2. CASE catalog'[c] = <<>>
          BY <3>2
    <3>3. CASE catalog'[c] = evidence_list
          BY <2>1, <3>3 DEF ListBacked
    <3> QED BY <1>3, <3>1, <3>2, <3>3
  <2> QED BY <1>0, <2>1 DEF CatalogBacked, Backed
<1> QED BY <1>4, <1>5, <1>6, <1>7

LEMMA CallEndsKeeps ==
  ASSUME IInv, Account \/ ReturnFailed
  PROVE  IInv'
<1> USE DEF IInv, disk, memory
<1>0. Hangup /\ UNCHANGED <<source, dir, catalog, case_root, evidence_list, leftover>>
      BY DEF Account, ReturnFailed
<1>1. TypeOK' /\ ItemInv' /\ CallInv'
      BY <1>0, HangupFits DEF TypeOK
<1>2. WholeEvidence' /\ ListBacked' /\ CatalogBacked'
      BY <1>0 DEF WholeEvidence, ListBacked, CatalogBacked, Backed
<1> QED BY <1>1, <1>2

LEMMA NextKeeps ==
  ASSUME IInv, [Next]_vars
  PROVE  IInv'
<1>1. ASSUME NEW s \in Sources, RegisterSource(s)
      PROVE  IInv'
  <2>1. NameOf[s] \in DOMAIN Tmp
        BY CaseAssumption
  <2>2. call' \in [at : {"hash"}, source : Sources]
        BY <1>1 DEF RegisterSource
  <2> QED BY <1>1, <2>1, <2>2, RegisterKeeps DEF RegisterSource
<1>2. ASSUME NEW n \in DOMAIN Tmp, RegisterInPlace(n)
      PROVE  IInv'
  <2>1. call' \in [at : {"hash"}]
        BY <1>2 DEF RegisterInPlace
  <2> QED BY <1>2, <2>1, RegisterKeeps DEF RegisterInPlace
<1>3. CASE RegisterEvidence
      BY <1>1, <1>2, <1>3, HashSourceKeeps, CopyBeginsKeeps, CopyEndsKeeps, CompareKeeps,
         RenameKeeps, StepFailsKeeps, RemoveTmpKeeps, PushKeeps, SaveKeeps, CallEndsKeeps
         DEF RegisterEvidence
<1>4. CASE UNCHANGED vars
  <2> USE <1>4 DEF vars, disk, memory
  <2>1. TypeOK' /\ ItemInv'
        BY DEF IInv, TypeOK, ItemInv, At
  <2>2. CallInv'
        BY DEF IInv, CallInv, At, OnlyTmp, Kept, Backed, TmpName
  <2>3. WholeEvidence' /\ ListBacked' /\ CatalogBacked'
        BY DEF IInv, WholeEvidence, ListBacked, CatalogBacked, Backed
  <2> QED BY <2>1, <2>2, <2>3 DEF IInv
<1> QED BY <1>3, <1>4, InitializeWorkspaceKeeps, OpenWorkspaceKeeps, SourceChangesKeeps,
           RestartKeeps DEF Next

-----------------------------------------------------------------------------

(* What a workspace, its object and a call of registerEvidence hold        *)
(* between any two steps, kills and restarts included.                     *)
THEOREM CaseInvariant == Spec => []IInv
<1>1. Init => IInv
      BY InitIInv
<1>2. IInv /\ [Next]_vars => IInv'
      BY NextKeeps
<1> QED BY <1>1, <1>2, PTL DEF Spec

(* Under the final name of evidence there is never a file that is not      *)
(* whole (registerEvidence copies to a temporary file and renames).        *)
THEOREM WholeEvidenceHolds == Spec => []WholeEvidence
<1>1. IInv => WholeEvidence
      BY DEF IInv
<1> QED BY <1>1, CaseInvariant, PTL

(* No catalog written by saveMetadata names evidence that is missing.      *)
THEOREM CatalogBackedHolds == Spec => []CatalogBacked
<1>1. IInv => CatalogBacked
      BY DEF IInv
<1> QED BY <1>1, CaseInvariant, PTL

(* registerEvidence leaves nothing behind when it fails, at any step.      *)
THEOREM FailureLeavesNothingHolds == Spec => []FailureLeavesNothing
<1>1. ASSUME IInv PROVE FailureLeavesNothing
  <2> SUFFICES ASSUME At("failed"), ~leftover
               PROVE  dir[case_root] = [before EXCEPT ![TmpName] = Absent]
      BY DEF FailureLeavesNothing
  <2>1. /\ dir[case_root] \in [Names -> Files] /\ before \in [Names -> Files]
        /\ dir[case_root][TmpName] = Absent /\ OnlyTmp
        BY <1>1 DEF IInv, TypeOK, ItemInv, CallInv, At, Copying
  <2> QED BY <2>1 DEF OnlyTmp
<1> QED BY <1>1, CaseInvariant, PTL

(* Evidence enters the list with the hash of the file that was stored,     *)
(* whatever happened to the source between its two readings.               *)
THEOREM StoredAsHashedHolds == Spec => StoredAsHashed
<1>1. ASSUME IInv, [Next]_vars
      PROVE  At("push") /\ evidence_list' # <<>> /\ item.copied /\ item.hash \in Contents
                => dir'[case_root][item.name] = item.hash
  <2> SUFFICES ASSUME At("push"), item.copied, item.hash \in Contents
               PROVE  dir'[case_root][item.name] = item.hash
      OBVIOUS
  <2>1. dir[case_root][item.name] = item.hash
        BY <1>1 DEF IInv, CallInv, Kept
  <2>2. dir' = dir
        BY <1>1 DEF Next, RegisterEvidence, InitializeWorkspace, OpenWorkspace, RegisterSource,
           RegisterInPlace, HashSource, CopyBegins, CopyEnds, Compare, Rename, StepFails,
           RemoveTmp, Push, Truncate, Write, Account, ReturnFailed, SourceChanges, Restart,
           At, disk, vars
  <2> QED BY <2>1, <2>2
<1> QED BY <1>1, CaseInvariant, PTL DEF Spec, StoredAsHashed
=============================================================================
