------------------------- MODULE AuditLoggerProofs -------------------------
(***************************************************************************)
(* The audit log for every set of threads, operators and records and all   *)
(* bounds: the log in memory verifies, is numbered 1, 2, ..., keeps what   *)
(* the journal has of it, and implements AuditLedger.                      *)
(***************************************************************************)
EXTENDS AuditLogger, FiniteSetTheorems, WellFoundedInduction, TLAPS

(***************************************************************************)
(* The inductive invariant.  Every hash that exists, in memory or in a     *)
(* file however damaged, was computed by Log and so names a ledger that    *)
(* was held; a chain that verifies therefore spells out such a ledger.     *)
(***************************************************************************)
PastNumbered == \A h \in past : \A k \in DOMAIN h : h[k][1] = k
HashesOnDisk == \A f \in Files : \A i \in DOMAIN disk[f] : disk[f][i].hash \in past
HashesInMemory == \A i \in DOMAIN entries : entries[i].hash \in past

IInv ==
  /\ TypeOK
  /\ ChainVerifies
  /\ <<>> \in past
  /\ PastNumbered
  /\ HashesOnDisk
  /\ HashesInMemory

-----------------------------------------------------------------------------
(* Every non-empty set of natural numbers has a least element: proofs that *)
(* argue along a list take the first position where a claim fails and show *)
(* that it cannot be one.                                                  *)
LEMMA LeastNat ==
  ASSUME NEW T, T \subseteq Nat, T # {}
  PROVE  \E x \in T : \A y \in T : x <= y
<1>1. PICK x \in T : \A y \in T : <<y, x>> \notin OpToRel(<, Nat)
  BY WFMin, NatLessThanWellFounded, Zenon
<1>2. ASSUME NEW y \in T PROVE ~ (y < x)
  BY <1>1, Zenon DEF OpToRel
<1> QED
  BY <1>2

(* The fields of an entry of a list. *)
LEMMA EntryFields ==
  ASSUME NEW es \in Seq(Entry), NEW i \in 1..Len(es)
  PROVE  /\ es[i] \in Entry
         /\ es[i].id \in Nat
         /\ es[i].data \in Contents
         /\ es[i].prev \in Seq(Nat \X Contents)
         /\ es[i].hash \in Seq(Nat \X Contents)
<1>1. es[i] \in Entry
  OBVIOUS
<1> QED
  BY <1>1 DEF Entry, Hash

(* The hash of the i-th entry of a verified chain spells out the first i   *)
(* entries.  Otherwise take the first entry whose hash does not.           *)
LEMMA ChainSpelled ==
  ASSUME NEW es \in Seq(Entry), ChainOK(es), NEW i \in 1..Len(es)
  PROVE  /\ Len(es[i].hash) = i
         /\ \A k \in 1..i : es[i].hash[k] = <<es[k].id, es[k].data>>
<1> DEFINE Spelled(n) == /\ Len(es[n].hash) = n
                         /\ \A k \in 1..n : es[n].hash[k] = <<es[k].id, es[k].data>>
           Bad == {n \in 1..Len(es) : ~ Spelled(n)}
<1>1. ASSUME Bad # {} PROVE FALSE
  <2>1. Bad \subseteq Nat
    OBVIOUS
  <2>2. PICK n \in Bad : \A m \in Bad : n <= m
    BY <1>1, <2>1, LeastNat
  <2>3. n \in 1..Len(es) /\ ~ Spelled(n)
    OBVIOUS
  <2>4. /\ es[n].prev \in Seq(Nat \X Contents)
        /\ es[n].id \in Nat /\ es[n].data \in Contents
    BY <2>3, EntryFields
  <2>5. es[n].hash = Append(es[n].prev, <<es[n].id, es[n].data>>)
    BY <2>3 DEF ChainOK, EntryHash
  <2>6. CASE n = 1
    <3>1. es[n].prev = <<>>
      BY <2>3, <2>6 DEF ChainOK, Genesis
    <3> QED
      BY <2>3, <2>5, <2>6, <3>1
  <2>7. CASE n > 1
    <3>1. n - 1 \in 1..Len(es) /\ n - 1 \notin Bad
      BY <2>2, <2>3, <2>7
    <3>2. Spelled(n - 1)
      BY <3>1
    <3>3. es[n].prev = es[n - 1].hash
      BY <2>3, <2>7 DEF ChainOK
    <3>4. Len(es[n].prev) = n - 1
      BY <3>2, <3>3
    <3>5. /\ Len(es[n].hash) = n
          /\ es[n].hash[n] = <<es[n].id, es[n].data>>
          /\ \A k \in 1..(n - 1) : es[n].hash[k] = es[n].prev[k]
      BY <2>4, <2>5, <3>4, <2>3
    <3>6. ASSUME NEW k \in 1..n
          PROVE  es[n].hash[k] = <<es[k].id, es[k].data>>
      <4>1. CASE k = n
        BY <3>5, <4>1
      <4>2. CASE k # n
        <5>1. k \in 1..(n - 1)
          BY <4>2, <2>3
        <5> QED
          BY <5>1, <3>2, <3>3, <3>5
      <4> QED
        BY <4>1, <4>2
    <3> QED
      BY <2>3, <3>5, <3>6
  <2> QED
    BY <2>3, <2>6, <2>7
<1>2. Spelled(i)
  BY <1>1
<1> QED
  BY <1>2

(* So the last hash is the list of numbered facts.                         *)
LEMMA HeadIsLedger ==
  ASSUME NEW es \in Seq(Entry), ChainOK(es)
  PROVE  LedgerOf(es) = HeadHash(es)
<1>1. CASE es = <<>>
  BY <1>1 DEF LedgerOf, HeadHash, Genesis
<1>2. CASE es # <<>>
  <2>1. Len(es) \in 1..Len(es) /\ Len(es) \in Nat
    BY <1>2
  <2> DEFINE h == es[Len(es)].hash
  <2>2. h \in Seq(Nat \X Contents)
    BY <2>1, EntryFields
  <2>3. /\ Len(h) = Len(es)
        /\ \A k \in 1..Len(es) : h[k] = <<es[k].id, es[k].data>>
    BY <2>1, ChainSpelled
  <2>4. HeadHash(es) = h
    BY <1>2 DEF HeadHash
  <2> HIDE DEF h
  <2>5. h = [k \in 1..Len(es) |-> <<es[k].id, es[k].data>>]
    BY <2>1, <2>2, <2>3
  <2> QED
    BY <2>4, <2>5 DEF LedgerOf
<1> QED
  BY <1>1, <1>2

(* Writing an entry changes nothing but its contents. *)
LEMMA WrittenFields ==
  ASSUME NEW f \in Files, NEW e \in Entry
  PROVE  /\ Written(f, e) \in Entry
         /\ Written(f, e).id = e.id
         /\ Written(f, e).prev = e.prev
         /\ Written(f, e).hash = e.hash
<1>1. TextForm(e.data) \in Contents /\ JsonForm(e.data) \in Contents
  BY DataAssumption DEF Entry, Contents, Shapes, TextForm, JsonForm
<1> QED
  BY <1>1 DEF Entry, Written

LEMMA WrittenAllFields ==
  ASSUME NEW f \in Files, NEW es \in Seq(Entry)
  PROVE  /\ WrittenAll(f, es) \in Seq(Entry)
         /\ Len(WrittenAll(f, es)) = Len(es)
         /\ \A i \in 1..Len(es) : WrittenAll(f, es)[i].hash = es[i].hash
<1>1. \A i \in 1..Len(es) : /\ Written(f, es[i]) \in Entry
                            /\ Written(f, es[i]).hash = es[i].hash
  BY WrittenFields
<1> QED
  BY <1>1 DEF WrittenAll

LEMMA AppendEntry ==
  ASSUME NEW es \in Seq(Entry), NEW e \in Entry
  PROVE  /\ Append(es, e) \in Seq(Entry)
         /\ Len(Append(es, e)) = Len(es) + 1
         /\ Append(es, e)[Len(es) + 1] = e
         /\ \A i \in 1..Len(es) : Append(es, e)[i] = es[i]
         /\ DOMAIN Append(es, e) = 1..(Len(es) + 1)
         /\ HeadHash(Append(es, e)) = e.hash
<1>1. /\ Append(es, e) \in Seq(Entry) /\ Len(Append(es, e)) = Len(es) + 1
      /\ Append(es, e)[Len(es) + 1] = e
      /\ \A i \in 1..Len(es) : Append(es, e)[i] = es[i]
      /\ Append(es, e) # <<>>
  OBVIOUS
<1> QED
  BY <1>1 DEF HeadHash

(* Adding an entry with a known hash to a list of known hashes. *)
LEMMA AppendKnown ==
  ASSUME NEW es \in Seq(Entry), NEW e \in Entry, NEW S, e.hash \in S,
         \A i \in DOMAIN es : es[i].hash \in S
  PROVE  \A i \in DOMAIN Append(es, e) : Append(es, e)[i].hash \in S
<1> SUFFICES ASSUME NEW i \in 1..(Len(es) + 1)
             PROVE  Append(es, e)[i].hash \in S
  BY AppendEntry
<1>1. CASE i = Len(es) + 1
  BY <1>1, AppendEntry
<1>2. CASE i \in 1..Len(es)
  <2>1. Append(es, e)[i] = es[i] /\ i \in DOMAIN es
    BY <1>2, AppendEntry
  <2> QED
    BY <2>1
<1> QED
  BY <1>1, <1>2

(* The entry that Log adds. *)
NewEntry(d) == [id   |-> Len(entries) + 1,
                data |-> d,
                prev |-> lastHash,
                hash |-> EntryHash(lastHash, Len(entries) + 1, d)]

LEMMA NewEntryFields ==
  ASSUME IInv, NEW d \in Data
  PROVE  /\ NewEntry(d) \in Entry
         /\ Append(entries, NewEntry(d)) \in Seq(Entry)
         /\ ChainOK(Append(entries, NewEntry(d)))
         /\ LedgerOf(Append(entries, NewEntry(d)))
               = Append(LedgerOf(entries), <<Len(entries) + 1, d>>)
         /\ NewEntry(d).hash = LedgerOf(Append(entries, NewEntry(d)))
         /\ NewEntry(d).hash \in Hash
         /\ NewEntry(d).hash = Append(lastHash, <<Len(entries) + 1, d>>)
         /\ Len(lastHash) = Len(entries)
<1> DEFINE e == NewEntry(d)
           es == Append(entries, e)
<1>1. /\ entries \in Seq(Entry) /\ lastHash \in Seq(Nat \X Contents)
      /\ ChainOK(entries) /\ lastHash = HeadHash(entries)
  BY DEF IInv, TypeOK, ChainVerifies, Hash
<1>2. d \in Contents /\ Len(entries) + 1 \in Nat
  BY <1>1, DataAssumption
<1>3. /\ e.id = Len(entries) + 1 /\ e.data = d /\ e.prev = lastHash
      /\ e.hash = Append(lastHash, <<Len(entries) + 1, d>>)
  BY DEF NewEntry, EntryHash
<1>4. e.hash \in Seq(Nat \X Contents)
  BY <1>1, <1>2, <1>3
<1>5. e \in Entry
  BY <1>1, <1>2, <1>4 DEF Entry, Hash, NewEntry
<1> HIDE DEF e
<1>6. /\ es \in Seq(Entry) /\ Len(es) = Len(entries) + 1
      /\ es[Len(entries) + 1] = e
      /\ \A i \in 1..Len(entries) : es[i] = entries[i]
  BY <1>1, <1>5
<1>7. ChainOK(es)
  <2> SUFFICES ASSUME NEW i \in 1..Len(es)
               PROVE  /\ es[i].prev = IF i = 1 THEN Genesis ELSE es[i - 1].hash
                      /\ es[i].hash = EntryHash(es[i].prev, es[i].id, es[i].data)
    BY DEF ChainOK
  <2>1. CASE i \in 1..Len(entries)
    <3>1. es[i] = entries[i] /\ (i # 1 => es[i - 1] = entries[i - 1])
      BY <2>1, <1>6
    <3> QED
      BY <2>1, <3>1, <1>1 DEF ChainOK
  <2>2. CASE i = Len(entries) + 1
    <3>1. es[i] = e
      BY <1>6, <2>2
    <3>2. es[i].hash = EntryHash(es[i].prev, es[i].id, es[i].data)
      BY <3>1, <1>3 DEF EntryHash
    <3>3. lastHash = IF i = 1 THEN Genesis ELSE es[i - 1].hash
      <4>1. CASE entries = <<>>
        BY <4>1, <2>2, <1>1 DEF HeadHash
      <4>2. CASE entries # <<>>
        <5>1. Len(entries) \in 1..Len(entries)
          BY <4>2, <1>1
        <5> QED
          BY <5>1, <4>2, <2>2, <1>1, <1>6 DEF HeadHash
      <4> QED
        BY <4>1, <4>2
    <3> QED
      BY <3>1, <3>2, <3>3, <1>3
  <2> QED
    BY <2>1, <2>2, <1>6, <1>1
<1>8. LedgerOf(entries) = lastHash
  BY <1>1, HeadIsLedger
<1>9. Len(lastHash) = Len(entries)
  BY <1>8, <1>1 DEF LedgerOf
<1>10. LedgerOf(es) = e.hash
  <2>1. HeadHash(es) = e.hash
    BY <1>6, <1>1 DEF HeadHash
  <2> QED
    BY <2>1, <1>6, <1>7, HeadIsLedger
<1> QED
  BY <1>3, <1>4, <1>5, <1>6, <1>7, <1>8, <1>9, <1>10 DEF Hash, e

-----------------------------------------------------------------------------
LEMMA InitIInv == Init => IInv
<1> SUFFICES ASSUME Init PROVE IInv
  OBVIOUS
<1>1. TypeOK
  BY DEF Init, TypeOK, Hash, Genesis
<1>2. ChainVerifies
  BY DEF Init, ChainVerifies, ChainOK, HeadHash
<1>3. <<>> \in past /\ PastNumbered /\ HashesOnDisk /\ HashesInMemory
  BY DEF Init, PastNumbered, HashesOnDisk, HashesInMemory
<1> QED
  BY <1>1, <1>2, <1>3 DEF IInv

(* Log: the new hash is a new past ledger, numbered like the others. *)
LEMMA LogIInv ==
  ASSUME IInv, NEW d \in Data, Log(d)
  PROVE  IInv'
<1> DEFINE e == NewEntry(d)
<1>1. /\ e \in Entry
      /\ entries' = Append(entries, e) /\ entries' \in Seq(Entry)
      /\ lastHash' = e.hash /\ lastHash' \in Hash
      /\ past' = past \cup {e.hash}
      /\ ChainOK(entries')
      /\ e.hash = Append(lastHash, <<Len(entries) + 1, d>>)
      /\ Len(lastHash) = Len(entries)
      /\ scanning' = scanning
  BY NewEntryFields DEF Log, NewEntry
<1>2. /\ entries \in Seq(Entry) /\ lastHash \in Seq(Nat \X Contents)
      /\ disk \in [Files -> Seq(Entry)] /\ scanning \in SUBSET Threads
      /\ past \subseteq Hash /\ faults \in Nat
      /\ LedgerOf(entries) = lastHash
  BY HeadIsLedger DEF IInv, TypeOK, Hash, ChainVerifies
<1> HIDE DEF e
<1>3. /\ Written("text", e) \in Entry
      /\ Written("text", e).hash = e.hash
  BY <1>1, WrittenFields DEF Files
<1>4. \/ /\ disk' = [disk EXCEPT !["text"] = Append(@, Written("text", e))]
         /\ faults' = faults
      \/ disk' = disk /\ faults' = faults + 1
  BY DEF Log, e, NewEntry, Fault
<1>5. /\ disk' \in [Files -> Seq(Entry)] /\ faults' \in Nat
      /\ HashesOnDisk'
  <2>1. CASE disk' = disk /\ faults' = faults + 1
    BY <2>1, <1>1, <1>2 DEF IInv, HashesOnDisk
  <2>2. CASE disk' = [disk EXCEPT !["text"] = Append(@, Written("text", e))] /\ faults' = faults
    <3> DEFINE t == Append(disk["text"], Written("text", e))
    <3>1. disk["text"] \in Seq(Entry)
      BY <1>2 DEF Files
    <3>2. t \in Seq(Entry)
      BY <3>1, <1>3, AppendEntry
    <3>3. disk'["text"] = t /\ disk'["json"] = disk["json"]
      BY <2>2, <1>2 DEF Files
    <3> HIDE DEF t
    <3>4. \A i \in DOMAIN t : t[i].hash \in past'
      <4>1. \A i \in DOMAIN disk["text"] : disk["text"][i].hash \in past'
        BY <1>1 DEF IInv, HashesOnDisk, Files
      <4>2. Written("text", e).hash \in past'
        BY <1>1, <1>3
      <4> QED
        BY <3>1, <1>3, <4>1, <4>2, AppendKnown DEF t
    <3>5. disk' \in [Files -> Seq(Entry)]
      BY <2>2, <3>2, <1>2 DEF t
    <3>6. HashesOnDisk'
      BY <3>3, <3>4, <1>1 DEF HashesOnDisk, IInv, Files
    <3> QED
      BY <2>2, <3>5, <3>6, <1>2
  <2> QED
    BY <1>4, <2>1, <2>2
<1>6. TypeOK'
  BY <1>1, <1>2, <1>5 DEF TypeOK, Entry
<1>7. ChainVerifies'
  <2>1. lastHash' = HeadHash(entries')
    BY <1>1, <1>2, AppendEntry
  <2> QED
    BY <2>1, <1>1 DEF ChainVerifies
<1>8. PastNumbered'
  <2>1. ASSUME NEW k \in DOMAIN e.hash
        PROVE  e.hash[k][1] = k
    <3>1. lastHash \in Seq(Nat \X Contents) /\ d \in Contents
      BY <1>2, DataAssumption
    <3>2. k \in 1..(Len(lastHash) + 1)
      BY <1>1, <3>1
    <3>3. CASE k = Len(lastHash) + 1
      BY <3>1, <3>3, <1>1
    <3>4. CASE k \in 1..Len(lastHash)
      <4>1. e.hash[k] = lastHash[k]
        BY <3>1, <3>4, <1>1
      <4>2. lastHash[k] = <<entries[k].id, entries[k].data>>
        BY <3>4, <1>1, <1>2 DEF LedgerOf
      <4>3. entries # <<>> /\ lastHash = entries[Len(entries)].hash
        BY <3>4, <1>1, <1>2 DEF IInv, ChainVerifies, HeadHash
      <4>4. lastHash \in past
        BY <4>3, <1>2 DEF IInv, HashesInMemory
      <4> QED
        BY <4>1, <4>4, <3>4, <3>1 DEF IInv, PastNumbered
    <3> QED
      BY <3>2, <3>3, <3>4, <3>1
  <2> QED
    BY <2>1, <1>1 DEF PastNumbered, IInv
<1>9. HashesInMemory'
  <2>1. \A i \in DOMAIN entries : entries[i].hash \in past'
    BY <1>1 DEF IInv, HashesInMemory
  <2> QED
    BY <2>1, <1>1, <1>2, AppendKnown DEF HashesInMemory
<1> QED
  BY <1>1, <1>5, <1>6, <1>7, <1>8, <1>9 DEF IInv

(* A step that only writes files leaves the invariant if every hash it     *)
(* writes is known.                                                        *)
LEMMA DiskIInv ==
  ASSUME IInv, UNCHANGED <<entries, lastHash, scanning, past>>, faults' \in Nat,
         NEW f \in Files, NEW es \in Seq(Entry),
         disk' = [disk EXCEPT ![f] = es],
         \A i \in DOMAIN es : es[i].hash \in past
  PROVE  IInv'
<1>1. TypeOK' /\ ChainVerifies'
  BY DEF IInv, TypeOK, ChainVerifies
<1>2. HashesOnDisk'
  BY DEF IInv, TypeOK, HashesOnDisk
<1>3. PastNumbered' /\ HashesInMemory' /\ <<>> \in past'
  BY DEF IInv, PastNumbered, HashesInMemory
<1> QED
  BY <1>1, <1>2, <1>3 DEF IInv

LEMMA SaveIInv ==
  ASSUME IInv, NEW f \in Files, Save(f)
  PROVE  IInv'
<1>1. entries \in Seq(Entry) /\ faults \in Nat /\ HashesInMemory
  BY DEF IInv, TypeOK
<1>2. /\ WrittenAll(f, entries) \in Seq(Entry)
      /\ \A i \in DOMAIN WrittenAll(f, entries) : WrittenAll(f, entries)[i].hash \in past
  BY <1>1, WrittenAllFields DEF HashesInMemory
<1> QED
  BY <1>1, <1>2, DiskIInv DEF Save

LEMMA SaveFailsIInv ==
  ASSUME IInv, NEW f \in Files, SaveFails(f)
  PROVE  IInv'
<1>1. entries \in Seq(Entry) /\ faults \in Nat /\ HashesInMemory
  BY DEF IInv, TypeOK
<1> DEFINE w == WrittenAll(f, entries)
<1>2. /\ w \in Seq(Entry)
      /\ Len(w) = Len(entries)
      /\ \A i \in 1..Len(entries) : w[i].hash \in past
  BY <1>1, WrittenAllFields DEF HashesInMemory
<1>3. PICK n \in 0..Len(entries) : disk' = [disk EXCEPT ![f] = SubSeq(w, 1, n)]
  BY DEF SaveFails
<1> HIDE DEF w
<1>4. /\ SubSeq(w, 1, n) \in Seq(Entry)
      /\ \A i \in DOMAIN SubSeq(w, 1, n) : SubSeq(w, 1, n)[i].hash \in past
  BY <1>1, <1>2
<1>5. UNCHANGED <<entries, lastHash, scanning, past>> /\ faults' \in Nat
  BY <1>1 DEF SaveFails, Fault
<1> DEFINE v == SubSeq(w, 1, n)
<1>6. /\ v \in Seq(Entry) /\ disk' = [disk EXCEPT ![f] = v]
      /\ \A i \in DOMAIN v : v[i].hash \in past
  BY <1>3, <1>4
<1> HIDE DEF v
<1> QED
  BY <1>5, <1>6, DiskIInv

(* Damage moves entries about and changes contents and numbers, but        *)
(* computes no hash.                                                       *)
LEMMA DamagedFields ==
  ASSUME NEW es \in Seq(Entry), NEW ds \in Damaged(es),
         NEW S, \A i \in DOMAIN es : es[i].hash \in S
  PROVE  ds \in Seq(Entry) /\ \A i \in DOMAIN ds : ds[i].hash \in S
<1>1. CASE ds \in {SubSeq(es, 1, i) : i \in 0..Len(es)}
  BY <1>1
<1>2. CASE ds \in {RemoveAt(es, i) : i \in DOMAIN es}
  <2>1. PICK i \in DOMAIN es : ds = RemoveAt(es, i)
    BY <1>2
  <2>2. i \in 1..Len(es) /\ es \in Seq(Entry)
    OBVIOUS
  <2> DEFINE l == SubSeq(es, 1, i - 1)
             r == SubSeq(es, i + 1, Len(es))
  <2>3. ds = l \o r
    BY <2>1 DEF RemoveAt
  <2>4. /\ l \in Seq(Entry) /\ Len(l) = i - 1
        /\ \A k \in 1..(i - 1) : l[k].hash \in S
    BY <2>2
  <2>5. /\ r \in Seq(Entry) /\ Len(r) = Len(es) - i
        /\ \A k \in 1..(Len(es) - i) : r[k].hash \in S
    BY <2>2
  <2> HIDE DEF l, r
  <2>6. l \o r \in Seq(Entry) /\ \A k \in DOMAIN (l \o r) : (l \o r)[k].hash \in S
    BY <2>4, <2>5
  <2> QED
    BY <2>3, <2>6
<1>3. CASE ds \in {[es EXCEPT ![i] = es[j]] : i, j \in DOMAIN es}
  BY <1>3
<1>4. CASE ds \in {[es EXCEPT ![i] = es[j], ![j] = es[i]] : i, j \in DOMAIN es}
  BY <1>4
<1>5. CASE ds \in {[es EXCEPT ![i].data = d] : i \in DOMAIN es, d \in Data}
  <2>1. PICK i \in DOMAIN es, d \in Data : ds = [es EXCEPT ![i] = [es[i] EXCEPT !.data = d]]
    BY <1>5
  <2>2. es[i] \in Entry
    OBVIOUS
  <2>3. /\ [es[i] EXCEPT !.data = d] \in Entry
        /\ [es[i] EXCEPT !.data = d].hash = es[i].hash
    BY <2>2, DataAssumption DEF Entry
  <2> QED
    BY <2>1, <2>3
<1>6. CASE ds \in {[es EXCEPT ![i].id = n] : i \in DOMAIN es, n \in 0..MaxFile}
  <2>1. PICK i \in DOMAIN es, n \in 0..MaxFile : ds = [es EXCEPT ![i] = [es[i] EXCEPT !.id = n]]
    BY <1>6
  <2>2. es[i] \in Entry /\ n \in Nat
    BY BoundAssumption
  <2>3. /\ [es[i] EXCEPT !.id = n] \in Entry
        /\ [es[i] EXCEPT !.id = n].hash = es[i].hash
    BY <2>2 DEF Entry
  <2> QED
    BY <2>1, <2>3
<1> QED
  BY <1>1, <1>2, <1>3, <1>4, <1>5, <1>6 DEF Damaged

LEMMA DamageIInv ==
  ASSUME IInv, NEW f \in Files, Damage(f)
  PROVE  IInv'
<1>1. /\ disk[f] \in Seq(Entry) /\ faults \in Nat
      /\ \A i \in DOMAIN disk[f] : disk[f][i].hash \in past
  BY DEF IInv, TypeOK, HashesOnDisk
<1>2. PICK ds \in Damaged(disk[f]) : disk' = [disk EXCEPT ![f] = ds]
  BY DEF Damage
<1>3. ds \in Seq(Entry) /\ \A i \in DOMAIN ds : ds[i].hash \in past
  BY <1>1, DamagedFields
<1>4. UNCHANGED <<entries, lastHash, scanning, past>> /\ faults' \in Nat
  BY <1>1 DEF Damage, Fault
<1> QED
  BY <1>2, <1>3, <1>4, DiskIInv

(* Load: the chain that was read verifies, so its last hash is known.      *)
LEMMA LoadIInv ==
  ASSUME IInv, NEW f \in Files, Load(f), scanning' \in SUBSET Threads
  PROVE  IInv'
<1>1. CASE disk[f] # <<>> /\ ChainOK(disk[f])
  <2>1. /\ entries' = disk[f] /\ lastHash' = HeadHash(disk[f])
        /\ UNCHANGED <<disk, past, faults>>
    BY <1>1 DEF Load
  <2>2. disk[f] \in Seq(Entry) /\ \A i \in DOMAIN disk[f] : disk[f][i].hash \in past
    BY DEF IInv, TypeOK, HashesOnDisk
  <2>3. HeadHash(disk[f]) \in Hash
    <3>1. Len(disk[f]) \in 1..Len(disk[f])
      BY <1>1, <2>2
    <3> QED
      BY <1>1, <2>2, <3>1, EntryFields DEF HeadHash, Hash
  <2>4. TypeOK'
    BY <2>1, <2>2, <2>3 DEF IInv, TypeOK
  <2>5. ChainVerifies' /\ HashesInMemory'
    BY <1>1, <2>1, <2>2 DEF ChainVerifies, HashesInMemory
  <2>6. <<>> \in past' /\ PastNumbered' /\ HashesOnDisk'
    BY <2>1 DEF IInv, PastNumbered, HashesOnDisk
  <2> QED
    BY <2>4, <2>5, <2>6 DEF IInv
<1>2. CASE UNCHANGED <<entries, lastHash, disk, past, faults>>
  BY <1>2 DEF IInv, TypeOK, ChainVerifies, PastNumbered, HashesOnDisk, HashesInMemory
<1> QED
  BY <1>1, <1>2 DEF Load

LEMMA ScanLoadsIInv ==
  ASSUME IInv, NEW t \in Threads, ScanLoads(t)
  PROVE  IInv'
<1>1. scanning' \in SUBSET Threads
  BY DEF IInv, TypeOK, ScanLoads
<1>2. CASE LoadHeading
  BY <1>1, <1>2 DEF LoadHeading, IInv, TypeOK, ChainVerifies, ChainOK, HeadHash, Hash, Genesis,
                    PastNumbered, HashesOnDisk, HashesInMemory
<1>3. CASE \E f \in Files : Load(f)
  BY <1>1, <1>3, LoadIInv
<1> QED
  BY <1>2, <1>3 DEF ScanLoads, Files

LEMMA NextIInv == IInv /\ [Next]_vars => IInv'
<1> SUFFICES ASSUME IInv, [Next]_vars PROVE IInv'
  OBVIOUS
<1>1. ASSUME NEW d \in Data, Log(d) PROVE IInv'
  BY <1>1, LogIInv
<1>2. ASSUME NEW f \in Files, Save(f) \/ SaveFails(f) \/ Damage(f) PROVE IInv'
  BY <1>2, SaveIInv, SaveFailsIInv, DamageIInv
<1>3. ASSUME NEW t \in Threads, ScanFindsEmpty(t) PROVE IInv'
  BY <1>3 DEF ScanFindsEmpty, IInv, TypeOK, ChainVerifies, PastNumbered,
              HashesOnDisk, HashesInMemory
<1>4. ASSUME NEW t \in Threads, ScanLoads(t) PROVE IInv'
  BY <1>4, ScanLoadsIInv
<1>5. CASE Restart
  <2>1. TypeOK'
    BY <1>5 DEF Restart, IInv, TypeOK, Hash, Genesis
  <2>2. ChainVerifies' /\ HashesInMemory'
    BY <1>5 DEF Restart, ChainVerifies, ChainOK, HeadHash, HashesInMemory
  <2>3. <<>> \in past' /\ PastNumbered' /\ HashesOnDisk'
    BY <1>5 DEF Restart, IInv, PastNumbered, HashesOnDisk
  <2> QED
    BY <2>1, <2>2, <2>3 DEF IInv
<1>6. CASE UNCHANGED vars
  BY <1>6 DEF vars, IInv, TypeOK, ChainVerifies, PastNumbered, HashesOnDisk,
              HashesInMemory
<1> QED
  BY <1>1, <1>2, <1>3, <1>4, <1>5, <1>6 DEF Next

LEMMA AlwaysIInv == Spec => []IInv
  BY InitIInv, NextIInv, PTL DEF Spec

-----------------------------------------------------------------------------
(* The variables keep their types. *)
THEOREM TypeCorrect == Spec => []TypeOK
<1>1. IInv => TypeOK
  BY DEF IInv
<1> QED
  BY <1>1, AlwaysIInv, PTL

(* verifyChain() never reports a broken chain, whatever files were loaded. *)
THEOREM ChainAlwaysVerifies == Spec => []ChainVerifies
<1>1. IInv => ChainVerifies
  BY DEF IInv
<1> QED
  BY <1>1, AlwaysIInv, PTL

(* The entries of memory are numbered 1, 2, 3, ...: the number is hashed,  *)
(* and every hash numbers its entries so.                                  *)
THEOREM IdsAlwaysSequential == Spec => []IdsSequential
<1>1. IInv => IdsSequential
  <2> SUFFICES ASSUME IInv, NEW i \in DOMAIN entries
               PROVE  entries[i].id = i
    BY DEF IdsSequential
  <2>1. entries \in Seq(Entry) /\ ChainOK(entries) /\ i \in 1..Len(entries)
    BY DEF IInv, TypeOK, ChainVerifies
  <2>2. /\ Len(entries[i].hash) = i
        /\ entries[i].hash[i] = <<entries[i].id, entries[i].data>>
    BY <2>1, ChainSpelled
  <2>3. entries[i].hash \in past /\ entries[i].hash \in Seq(Nat \X Contents)
    BY <2>1, EntryFields DEF IInv, HashesInMemory
  <2>4. i \in DOMAIN entries[i].hash
    BY <2>1, <2>2, <2>3
  <2>5. entries[i].hash[i][1] = i
    BY <2>3, <2>4 DEF IInv, PastNumbered
  <2> QED
    BY <2>2, <2>5
<1> QED
  BY <1>1, AlwaysIInv, PTL

(* An entry of a verified chain that is found, as written, in another      *)
(* verified chain stands there at its own place, unaltered.                *)
LEMMA SamePlace ==
  ASSUME NEW es \in Seq(Entry), ChainOK(es), NEW i \in DOMAIN es,
         NEW fs \in Seq(Entry), ChainOK(fs), NEW j \in DOMAIN fs,
         fs[j] = Written("text", es[i])
  PROVE  j = i /\ fs[j] = es[i]
<1>1. i \in 1..Len(es) /\ j \in 1..Len(fs)
  OBVIOUS
<1>2. es[i] \in Entry /\ fs[j] \in Entry
  BY <1>1, EntryFields
<1>3. fs[j].id = es[i].id /\ fs[j].prev = es[i].prev /\ fs[j].hash = es[i].hash
  BY <1>2, WrittenFields DEF Files
<1>4. Len(es[i].hash) = i /\ Len(fs[j].hash) = j
  BY <1>1, ChainSpelled
<1>5. i = j
  BY <1>3, <1>4
<1>6. /\ es[i].hash[i] = <<es[i].id, es[i].data>>
      /\ fs[j].hash[j] = <<fs[j].id, fs[j].data>>
  <2>1. i \in 1..i /\ j \in 1..j
    BY <1>1
  <2> QED
    BY <1>1, <2>1, ChainSpelled
<1>7. fs[j].data = es[i].data
  BY <1>3, <1>5, <1>6
<1>8. \A e \in Entry : e = [id |-> e.id, data |-> e.data, prev |-> e.prev, hash |-> e.hash]
  BY DEF Entry
<1>9. fs[j] = es[i]
  BY <1>2, <1>3, <1>7, <1>8
<1> QED
  BY <1>5, <1>9

(* A scan that finds the log empty and loads the journal later, when other *)
(* threads have logged, loses nothing that the journal holds.              *)
THEOREM EntriesAlwaysKept == Spec => EntriesKept
<1> DEFINE Kept == \A i \in DOMAIN entries :
                      InJournal(entries[i]) => i \in DOMAIN entries' /\ entries'[i] = entries[i]
<1>1. ASSUME IInv, [Next]_vars, ~ Restart PROVE Kept
  <2>1. entries \in Seq(Entry) /\ ChainOK(entries)
        /\ \A f \in Files : disk[f] \in Seq(Entry)
    BY <1>1 DEF IInv, TypeOK, ChainVerifies
  <2>2. ASSUME NEW d \in Data, Log(d) PROVE Kept
    <3>1. NewEntry(d) \in Entry /\ entries' = Append(entries, NewEntry(d))
      BY <1>1, <2>2, NewEntryFields DEF Log, NewEntry
    <3> QED
      BY <2>1, <3>1, AppendEntry
  <2>3. ASSUME NEW t \in Threads, ScanLoads(t) PROVE Kept
    <3>0. CASE LoadHeading
      BY <3>0 DEF LoadHeading, InJournal, Range
    <3> SUFFICES ASSUME ~LoadHeading PROVE Kept
      BY <3>0
    <3>1. PICK f \in Files : Load(f) /\ (disk["text"] # <<>> => f = "text")
      BY <2>3 DEF ScanLoads, Files
    <3>2. CASE entries' = entries
      BY <3>2
    <3>3. CASE entries' = disk[f] /\ ChainOK(disk[f])
      <4> SUFFICES ASSUME NEW i \in DOMAIN entries, InJournal(entries[i])
                   PROVE  i \in DOMAIN entries' /\ entries'[i] = entries[i]
        OBVIOUS
      <4>1. disk["text"] \in Seq(Entry)
        BY <2>1 DEF Files
      <4>2. PICK j \in DOMAIN disk["text"] : disk["text"][j] = Written("text", entries[i])
        BY DEF InJournal, Range
      <4>3. f = "text"
        BY <3>1, <4>1, <4>2
      <4> QED
        BY <2>1, <3>3, <4>1, <4>2, <4>3, SamePlace
    <3> QED
      BY <3>1, <3>2, <3>3 DEF Load
  <2>4. CASE entries' = entries
    BY <2>4
  <2> QED
    BY <1>1, <2>2, <2>3, <2>4
    DEF Next, Save, SaveFails, Damage, ScanFindsEmpty, vars
<1>2. IInv /\ [Next]_vars => [Kept \/ Restart]_vars
  BY <1>1
<1> QED
  BY <1>2, AlwaysIInv, PTL DEF Spec, EntriesKept

(* The journal keeps the records of the session: an entry of memory that   *)
(* it has is still in it after every step, be it re-written from memory,   *)
(* unless that write fails.                                                *)
THEOREM SessionAlwaysJournalled == Spec => SessionStaysJournalled
<1> DEFINE Kept == \A e \in Range(entries) :
                      InJournal(e) => Written("text", e) \in Range(disk'["text"])
<1>1. ASSUME IInv, [Next]_vars, ~ SaveFails("text") PROVE Kept
  <2>1. entries \in Seq(Entry) /\ disk \in [Files -> Seq(Entry)] /\ "text" \in Files
    BY <1>1 DEF IInv, TypeOK, Files
  <2>2. ASSUME disk'["text"] = disk["text"] PROVE Kept
    BY <2>2 DEF InJournal
  <2>3. ASSUME NEW d \in Data, Log(d) PROVE Kept
    <3>1. CASE UNCHANGED disk
      BY <2>2, <3>1
    <3>2. CASE ~ UNCHANGED disk
      <4>1. PICK e : disk' = [disk EXCEPT !["text"] = Append(@, e)]
        BY <2>3, <3>2 DEF Log
      <4>2. disk'["text"] = Append(disk["text"], e) /\ disk["text"] \in Seq(Entry)
        BY <2>1, <4>1
      <4>3. Range(disk["text"]) \subseteq Range(disk'["text"])
        BY <4>2 DEF Range
      <4> QED
        BY <4>3 DEF InJournal
    <3> QED
      BY <3>1, <3>2
  <2>4. ASSUME NEW f \in Files, Save(f) PROVE Kept
    <3>1. CASE f = "text"
      <4>1. disk'["text"] = WrittenAll("text", entries)
        BY <2>1, <2>4, <3>1 DEF Save
      <4>2. ASSUME NEW e \in Range(entries) PROVE Written("text", e) \in Range(disk'["text"])
        <5>1. PICK i \in 1..Len(entries) : e = entries[i]
          <6>1. DOMAIN entries = 1..Len(entries)
            BY <2>1
          <6> QED
            BY <6>1, Zenon DEF Range
        <5>2. i \in DOMAIN WrittenAll("text", entries) /\ WrittenAll("text", entries)[i] = Written("text", e)
          BY <5>1 DEF WrittenAll
        <5> QED
          BY <4>1, <5>2 DEF Range
      <4> QED
        BY <4>2
    <3>2. CASE f # "text"
      BY <2>1, <2>2, <2>4, <3>2 DEF Save
    <3> QED
      BY <3>1, <3>2
  <2>5. ASSUME NEW f \in Files, SaveFails(f) PROVE Kept
    BY <1>1, <2>1, <2>2, <2>5 DEF SaveFails
  <2>6. ASSUME NEW f \in Files, Damage(f) PROVE Kept
    <3>1. Range(entries) = {}
      BY <2>6 DEF Damage, Range
    <3> QED
      BY <3>1
  <2>7. ASSUME NEW t \in Threads, ScanFindsEmpty(t) \/ ScanLoads(t) PROVE Kept
    BY <2>2, <2>7 DEF ScanFindsEmpty, ScanLoads, Load, LoadHeading
  <2>8. CASE Restart \/ UNCHANGED vars
    BY <2>2, <2>8 DEF Restart, vars
  <2> QED
    BY <1>1, <2>3, <2>4, <2>5, <2>6, <2>7, <2>8 DEF Next
<1>2. IInv /\ [Next]_vars => [Kept \/ SaveFails("text")]_vars
  BY <1>1
<1> QED
  BY <1>2, AlwaysIInv, PTL DEF Spec, SessionStaysJournalled

-----------------------------------------------------------------------------
(* The log implements the abstract ledger: what is loaded is a ledger that *)
(* was held, and only recording adds a fact.                               *)
THEOREM ImplementsLedger == Spec => LedgerSpec
<1>1. Init => Ledger!Init
  BY DEF Init, Ledger!Init, LedgerOf
<1>2. IInv /\ IInv' /\ [Next]_vars => [Ledger!Next]_(Ledger!ledgerVars)
  <2> SUFFICES ASSUME IInv, IInv', [Next]_vars
               PROVE  Ledger!Next \/ UNCHANGED <<LedgerOf(entries), past>>
    BY DEF Ledger!ledgerVars
  <2>1. ASSUME NEW d \in Data, Log(d) PROVE Ledger!Record(d)
    <3>1. entries' = Append(entries, NewEntry(d)) /\ past' = past \cup {LedgerOf(entries')}
      BY <2>1 DEF Log, NewEntry
    <3>2. LedgerOf(entries') = Append(LedgerOf(entries), <<Len(entries) + 1, d>>)
      BY <3>1, NewEntryFields
    <3>3. Len(LedgerOf(entries)) = Len(entries)
      BY DEF LedgerOf, IInv, TypeOK
    <3> QED
      BY <3>1, <3>2, <3>3 DEF Ledger!Record
  <2>2. ASSUME UNCHANGED past PROVE LedgerOf(entries)' \in past'
    <3>1. /\ entries' \in Seq(Entry) /\ ChainOK(entries')
          /\ HashesInMemory' /\ <<>> \in past'
      BY DEF IInv, TypeOK, ChainVerifies
    <3>2. LedgerOf(entries') = HeadHash(entries')
      BY <3>1, HeadIsLedger
    <3>3. HeadHash(entries') \in past'
      BY <3>1 DEF HeadHash, Genesis, HashesInMemory
    <3> QED
      BY <3>2, <3>3
  <2>3. CASE UNCHANGED past
    BY <2>2, <2>3 DEF Ledger!Next, Ledger!Return
  <2> QED
    BY <2>1, <2>3 DEF Next, Save, SaveFails, Damage, ScanFindsEmpty, ScanLoads, Load,
                      LoadHeading, Restart, vars, Ledger!Next
<1> QED
  BY <1>1, <1>2, AlwaysIInv, PTL DEF Spec, LedgerSpec, Ledger!Spec
=============================================================================
