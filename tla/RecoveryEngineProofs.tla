------------------------ MODULE RecoveryEngineProofs ------------------------
(***************************************************************************)
(* For every image, chunk size, signature database and listing: the scan   *)
(* is exact, carved files do not begin in valid ones, their hashes are     *)
(* those of what was written, and no header is lost on the way.            *)
(*                                                                         *)
(* For every directory, trash, volume and log, while the user goes on       *)
(* deleting and erasing: what is listed lay in the directory, and what is   *)
(* restored overwrites nothing.                                            *)
(*                                                                         *)
(* For every medium, address and use of a DiskImageReader: what a read     *)
(* delivers is what stands there.                                          *)
(*                                                                         *)
(* For every area with a file of a format, its cluster size and its gaps:   *)
(* what the validators and the scorer say of the file, whole, cut or in two *)
(* pieces.                                                                 *)
(***************************************************************************)
EXTENDS RecoveryEngine, DirectoryRecovery, DiskImageReader, FragmentReconstructor,
        SequenceTheorems, FiniteSetTheorems, WellFoundedInduction, TLAPS

(* How the variables of the scan hang together. *)
ScanProgress ==
  /\ scan # "match" => i = 0
  /\ scan = "read" => currentOffset < Size
  /\ scan = "match" =>
       /\ currentOffset < Size
       /\ bytesToRead = Lesser(Chunk + MaxHeader, Size - currentOffset)
       /\ i <= ScanLimit

ScanInv == ScanTypeOK /\ ScanProgress /\ ScanExact

-----------------------------------------------------------------------------
LEMMA LeastExists ==
  ASSUME NEW S \in SUBSET Nat, S # {}
  PROVE  \E s \in S : \A t \in S : s <= t
<1>1. PICK x \in S : \A y \in S : <<y, x>> \notin OpToRel(<, Nat)
  BY WFMin, NatLessThanWellFounded, Zenon
<1>2. ASSUME NEW y \in S PROVE ~ (y < x)
  BY <1>1, Zenon DEF OpToRel
<1> QED
  BY <1>2

LEMMA LeastIsIn ==
  ASSUME NEW S \in SUBSET Nat, S # {}
  PROVE  Least(S) \in S
BY LeastExists DEF Least

LEMMA SignatureTypes ==
  ASSUME NEW s \in DOMAIN Signatures
  PROVE  /\ Signatures[s].header \in Nat \ {0} /\ Signatures[s].header <= MaxHeader
         /\ Signatures[s].min \in Nat /\ Signatures[s].max \in Nat
         /\ s \in Nat
<1> DEFINE R == [header : Nat \ {0}, min : Nat, max : Nat]
<1>1. Signatures \in Seq(R)
  BY ScanAssumption
<1> HIDE DEF R
<1>2. s \in 1..Len(Signatures) /\ Len(Signatures) \in Nat
  BY <1>1, LenProperties
<1>3. Signatures[s] \in R /\ s \in Nat
  BY <1>1, <1>2, ElementOfSeq
<1>4. /\ Signatures[s].header \in Nat \ {0}
      /\ Signatures[s].min \in Nat /\ Signatures[s].max \in Nat
  BY <1>3 DEF R
<1> QED
  BY <1>3, <1>4, ScanAssumption

LEMMA MatchTypes ==
  ASSUME ScanTypeOK, NEW k \in DOMAIN matches
  PROVE  /\ matches[k] \in Match
         /\ matches[k].offset \in Offsets /\ matches[k].offset \in Nat
         /\ matches[k].signature \in DOMAIN Signatures
<1>1. matches \in Seq(Match)
  BY DEF ScanTypeOK
<1>2. matches[k] \in Match
  BY <1>1, LenProperties, ElementOfSeq
<1> QED
  BY <1>2 DEF Match, Offsets

(* A chunk is searched up to a limit that lies in the image and, but for   *)
(* the last chunk, leaves a whole header in the buffer.                    *)
LEMMA LimitBounds ==
  ASSUME ScanTypeOK, ScanProgress, scan = "match"
  PROVE  /\ ScanLimit \in 1..(Size - currentOffset)
         /\ bytesToRead \in ScanLimit..(Size - currentOffset)
         /\ bytesToRead = Size - currentOffset \/ bytesToRead >= ScanLimit + MaxHeader
<1>1. currentOffset \in Nat /\ Size \in Nat /\ Chunk \in Nat \ {0} /\ MaxHeader \in Nat
  BY ScanAssumption DEF ScanTypeOK
<1>2. currentOffset < Size /\ bytesToRead = Lesser(Chunk + MaxHeader, Size - currentOffset)
  BY DEF ScanProgress
<1> QED
  BY <1>1, <1>2 DEF ScanLimit, Lesser

(* So what is found at a position does not depend on the chunk. *)
LEMMA MatchesWhole ==
  ASSUME ScanTypeOK, ScanProgress, scan = "match", i < ScanLimit
  PROVE  /\ currentOffset + i \in Offsets
         /\ MatchHeader(currentOffset + i, bytesToRead - i) = headers[currentOffset + i]
<1> DEFINE o == currentOffset + i
<1>1. /\ currentOffset \in Nat /\ i \in Nat /\ Size \in Nat
      /\ bytesToRead \in Nat /\ MaxHeader \in Nat /\ ScanLimit \in Nat
  BY LimitBounds, ScanAssumption DEF ScanTypeOK
<1>2. o \in Offsets
  BY <1>1, LimitBounds DEF Offsets
<1>3. headers[o] \subseteq DOMAIN Signatures
  BY <1>2 DEF ScanTypeOK, Images
<1>4. ASSUME NEW s \in headers[o]
      PROVE  Signatures[s].header <= bytesToRead - i
  <2>1. s \in DOMAIN Signatures /\ o + Signatures[s].header <= Size
    BY <1>2, <1>3, <1>4 DEF ScanTypeOK, Images
  <2>2. Signatures[s].header \in Nat /\ Signatures[s].header <= MaxHeader
    BY <2>1, SignatureTypes
  <2> QED
    BY <1>1, <2>1, <2>2, LimitBounds
<1> QED
  BY <1>2, <1>4 DEF MatchHeader

LEMMA ScanInitInv == Init => ScanInv
<1> SUFFICES ASSUME Init PROVE ScanInv
  OBVIOUS
<1> USE DEF Init, ScanInit
<1>1. ScanTypeOK
  BY ScanAssumption, EmptySeq DEF ScanTypeOK
<1>2. ScanProgress
  BY ScanAssumption DEF ScanProgress
<1>3. ScanExact
  BY DEF ScanExact, Searched, Offsets
<1> QED
  BY <1>1, <1>2, <1>3 DEF ScanInv

LEMMA MatchPositionInv ==
  ASSUME ScanInv, MatchPosition, UNCHANGED headers
  PROVE  ScanInv'
<1> DEFINE o == currentOffset + i
           m == [offset |-> o, signature |-> Least(headers[o])]
<1>1. /\ scan = "match" /\ i < ScanLimit /\ i' = i + 1
      /\ UNCHANGED <<headers, scan, currentOffset, bytesToRead>>
  BY DEF MatchPosition
<1>2. ScanTypeOK /\ ScanProgress /\ ScanExact
  BY DEF ScanInv
<1>3. o \in Offsets /\ MatchHeader(o, bytesToRead - i) = headers[o]
  BY <1>1, <1>2, MatchesWhole
<1>4. matches' = IF headers[o] = {} THEN matches ELSE Append(matches, m)
  BY <1>3 DEF MatchPosition
<1>5. /\ currentOffset \in Nat /\ i \in Nat /\ Size \in Nat /\ bytesToRead \in Nat
      /\ ScanLimit \in 1..(Size - currentOffset)
  BY <1>1, <1>2, LimitBounds, ScanAssumption DEF ScanTypeOK
<1>6. ScanLimit' = ScanLimit
  BY <1>1 DEF ScanLimit
<1>7. headers[o] # {} => Least(headers[o]) \in DOMAIN Signatures
  <2>1. headers[o] \in SUBSET DOMAIN Signatures /\ DOMAIN Signatures \subseteq Nat
    BY <1>2, <1>3, ScanAssumption, SMTT(20) DEF ScanTypeOK, Images
  <2>2. headers[o] \in SUBSET Nat
    BY <2>1
  <2> QED
    BY <2>1, <2>2, LeastIsIn
<1>8. matches' \in Seq(Match)
  <2>1. headers[o] # {} => m \in Match
    BY <1>3, <1>7 DEF Match
  <2> QED
    BY <1>2, <1>4, <2>1, AppendProperties DEF ScanTypeOK
<1>9. ScanTypeOK'
  <2>1. i' \in 0..Size
    BY <1>1, <1>5
  <2> QED
    BY <1>1, <1>2, <1>8, <2>1 DEF ScanTypeOK, Images
<1>10. ScanProgress'
  BY <1>1, <1>2, <1>5, <1>6 DEF ScanProgress
<1>11. ScanExact'
  <2>1. Searched = o /\ Searched' = o + 1 /\ o \in Nat
    BY <1>1, <1>5 DEF Searched
  <2>2. CASE headers[o] = {}
    <3>1. matches' = matches /\ headers' = headers
      BY <1>1, <1>4, <2>2
    <3>2. ASSUME NEW k \in DOMAIN matches
          PROVE  matches[k].offset < Searched'
      <4>1. matches[k].offset \in Nat /\ matches[k].offset < o
        BY <1>2, <2>1, MatchTypes DEF ScanExact
      <4> QED
        BY <2>1, <4>1
    <3>3. ASSUME NEW p \in Offsets, p < Searched', headers[p] # {}
          PROVE  p < Searched
      BY <2>1, <2>2, <3>3 DEF Offsets
    <3> QED
      BY <1>2, <3>1, <3>2, <3>3 DEF ScanExact
  <2>3. CASE headers[o] # {}
    <3>1. /\ matches \in Seq(Match) /\ Len(matches) \in Nat
          /\ DOMAIN matches = 1..Len(matches)
      BY <1>2 DEF ScanTypeOK
    <3>2. /\ DOMAIN matches' = 1..(Len(matches) + 1)
          /\ matches'[Len(matches) + 1] = m
          /\ \A k \in 1..Len(matches) : matches'[k] = matches[k]
      BY <1>4, <2>3, <3>1
    <3>3. \A k \in DOMAIN matches : matches[k].offset \in Nat /\ matches[k].offset < o
      BY <1>2, <2>1, MatchTypes DEF ScanExact
    <3>4. \A k \in DOMAIN matches' :
            /\ matches'[k].offset < Searched'
            /\ headers'[matches'[k].offset] # {}
            /\ matches'[k].signature = Least(headers'[matches'[k].offset])
      <4>1. ASSUME NEW k \in DOMAIN matches
            PROVE  /\ matches'[k].offset < Searched'
                   /\ headers'[matches'[k].offset] # {}
                   /\ matches'[k].signature = Least(headers'[matches'[k].offset])
        <5>1. matches'[k] = matches[k] /\ headers' = headers
          BY <1>1, <3>1, <3>2
        <5>2. matches[k].offset < Searched'
          BY <2>1, <3>3
        <5> QED
          BY <1>2, <5>1, <5>2 DEF ScanExact
      <4>2. /\ m.offset < Searched'
            /\ headers'[m.offset] # {}
            /\ m.signature = Least(headers'[m.offset])
        BY <1>1, <2>1, <2>3
      <4> QED
        BY <3>1, <3>2, <4>1, <4>2
    <3>5. \A j, k \in DOMAIN matches' : j < k => matches'[j].offset < matches'[k].offset
      BY <1>2, <3>1, <3>2, <3>3 DEF ScanExact
    <3>6. ASSUME NEW p \in Offsets, p < Searched', headers'[p] # {}
          PROVE  \E k \in DOMAIN matches' : matches'[k].offset = p
      <4>1. CASE p = o
        BY <3>1, <3>2, <4>1
      <4>2. CASE p # o
        <5>1. p < Searched /\ headers[p] # {}
          BY <1>1, <2>1, <3>6, <4>2 DEF Offsets
        <5>2. PICK k \in DOMAIN matches : matches[k].offset = p
          BY <1>2, <5>1 DEF ScanExact
        <5> QED
          BY <3>1, <3>2, <5>2
      <4> QED
        BY <4>1, <4>2
    <3> QED
      BY <3>4, <3>5, <3>6 DEF ScanExact
  <2> QED
    BY <2>2, <2>3
<1> QED
  BY <1>9, <1>10, <1>11 DEF ScanInv

LEMMA ScanStepInv ==
  ASSUME ScanInv, Scan
  PROVE  ScanInv'
<1>1. ScanTypeOK /\ ScanProgress /\ ScanExact /\ UNCHANGED headers
  BY DEF ScanInv, Scan
<1>2. currentOffset \in Nat /\ Size \in Nat /\ i \in Nat /\ Chunk + MaxHeader \in Nat
  BY <1>1, ScanAssumption DEF ScanTypeOK
<1>3. CASE ReadChunk
  <2>1. /\ i = 0 /\ i' = 0 /\ scan' = "match" /\ currentOffset < Size
        /\ bytesToRead' = Lesser(Chunk + MaxHeader, Size - currentOffset)
        /\ UNCHANGED <<currentOffset, matches>>
    BY <1>1, <1>3 DEF ReadChunk, ScanProgress
  <2>2. bytesToRead' \in 0..Size
    BY <1>2, <2>1 DEF Lesser
  <2>3. ScanTypeOK'
    BY <1>1, <2>1, <2>2 DEF ScanTypeOK, Images
  <2>4. ScanLimit' >= 0
    BY <1>2, <2>1, ScanAssumption DEF ScanLimit, Lesser
  <2>5. ScanProgress'
    BY <1>1, <2>1, <2>4 DEF ScanProgress
  <2>6. ScanExact'
    BY <1>1, <2>1 DEF ScanExact, Searched
  <2> QED
    BY <2>3, <2>5, <2>6 DEF ScanInv
<1>4. CASE ReadFails
  BY <1>1, <1>4 DEF ReadFails, ScanInv, ScanTypeOK, Images, ScanProgress, ScanExact, Searched
<1>5. CASE MatchPosition
  BY <1>1, <1>5, MatchPositionInv
<1>6. CASE NextChunk
  <2>1. ScanLimit \in 1..(Size - currentOffset) /\ i = ScanLimit
    <3>1. ScanLimit \in 1..(Size - currentOffset)
      BY <1>1, <1>6, LimitBounds DEF NextChunk
    <3>2. i >= ScanLimit /\ i <= ScanLimit
      BY <1>1, <1>6 DEF NextChunk, ScanProgress
    <3>3. ScanLimit \in Nat
      BY <1>2, <3>1
    <3> QED
      BY <1>2, <3>1, <3>2, <3>3
  <2>2. /\ currentOffset' = currentOffset + i /\ i' = 0
        /\ UNCHANGED <<bytesToRead, matches>>
        /\ scan' = IF currentOffset' < Size THEN "read" ELSE "done"
    BY <1>6, <2>1 DEF NextChunk
  <2>3. ScanTypeOK'
    BY <1>1, <1>2, <2>1, <2>2 DEF ScanTypeOK, Images
  <2>4. ScanProgress'
    BY <2>2 DEF ScanProgress
  <2>5. Searched' = Searched
    BY <1>2, <2>2 DEF Searched
  <2>6. ScanExact'
    BY <1>1, <2>2, <2>5 DEF ScanExact
  <2> QED
    BY <2>3, <2>4, <2>6 DEF ScanInv
<1> QED
  BY <1>3, <1>4, <1>5, <1>6 DEF Scan

LEMMA ScanUnchanged ==
  ASSUME ScanInv, UNCHANGED <<headers, scanner>>
  PROVE  ScanInv'
BY DEF ScanInv, scanner, ScanTypeOK, Images, ScanProgress, ScanLimit, ScanExact, Searched

-----------------------------------------------------------------------------
(* A carved file begins at a match that has been dealt with.               *)
FromMatches ==
  \A c \in DOMAIN carvedFiles :
    \E k \in DOMAIN matches : k < next /\ matches[k].offset = carvedFiles[c].offset

(* The carver remembers where the valid files end.                         *)
EndsKnown ==
  /\ \A c \in DOMAIN carvedFiles :
       carvedFiles[c].isValid => carvedFiles[c].offset + carvedFiles[c].length <= lastCarvedEndOffset
  /\ \/ lastCarvedEndOffset = 0
     \/ \E c \in DOMAIN carvedFiles :
          /\ carvedFiles[c].isValid
          /\ carvedFiles[c].offset + carvedFiles[c].length = lastCarvedEndOffset

(* What became of a header that the carver has gone past.                  *)
DealtWith(o) ==
  \/ o \in rejected
  \/ \E c \in DOMAIN carvedFiles :
       /\ carvedFiles[c].isValid
       /\ carvedFiles[c].offset < o /\ o < carvedFiles[c].offset + carvedFiles[c].length
  \/ \E c \in DOMAIN carvedFiles : carvedFiles[c].offset = o

PassedDealtWith == \A k \in DOMAIN matches : k < next => DealtWith(matches[k].offset)

CarveInv ==
  CarveTypeOK /\ FromMatches /\ EndsKnown /\ PassedDealtWith /\ CarvedApart /\ HashesTrue

LEMMA CarvedTypes ==
  ASSUME CarveTypeOK, NEW c \in DOMAIN carvedFiles
  PROVE  /\ carvedFiles[c] \in Carved
         /\ carvedFiles[c].offset \in Offsets /\ carvedFiles[c].offset \in Nat
         /\ carvedFiles[c].length \in 1..Size /\ carvedFiles[c].length \in Nat
         /\ c \in 1..Len(carvedFiles) /\ Len(carvedFiles) \in Nat
<1>1. carvedFiles \in Seq(Carved)
  BY DEF CarveTypeOK
<1>2. carvedFiles[c] \in Carved /\ c \in 1..Len(carvedFiles) /\ Len(carvedFiles) \in Nat
  BY <1>1, LenProperties, ElementOfSeq
<1> QED
  BY <1>2, ScanAssumption DEF Carved, Offsets

(* A file kept at the match that is next begins behind all the others.     *)
LEMMA NextIsLater ==
  ASSUME ScanInv, CarveInv, next \in DOMAIN matches, ~Inside(matches[next])
  PROVE  \A c \in DOMAIN carvedFiles :
           /\ carvedFiles[c].offset < matches[next].offset
           /\ carvedFiles[c].isValid =>
                carvedFiles[c].offset + carvedFiles[c].length <= matches[next].offset
<1>1. ScanTypeOK /\ ScanExact /\ CarveTypeOK /\ FromMatches /\ EndsKnown
  BY DEF ScanInv, CarveInv
<1> SUFFICES ASSUME NEW c \in DOMAIN carvedFiles
             PROVE  /\ carvedFiles[c].offset < matches[next].offset
                    /\ carvedFiles[c].isValid =>
                         carvedFiles[c].offset + carvedFiles[c].length <= matches[next].offset
  OBVIOUS
<1>2. PICK k \in DOMAIN matches : k < next /\ matches[k].offset = carvedFiles[c].offset
  BY <1>1 DEF FromMatches
<1>3. carvedFiles[c].offset < matches[next].offset
  BY <1>1, <1>2 DEF ScanExact
<1>4. matches[next].offset \in Nat /\ lastCarvedEndOffset \in Nat
  BY <1>1, MatchTypes DEF CarveTypeOK
<1>5. lastCarvedEndOffset <= matches[next].offset
  BY <1>4 DEF Inside
<1>6. ASSUME carvedFiles[c].isValid
      PROVE  carvedFiles[c].offset + carvedFiles[c].length <= matches[next].offset
  <2>1. carvedFiles[c].offset + carvedFiles[c].length <= lastCarvedEndOffset
    BY <1>1, <1>6 DEF EndsKnown
  <2>2. carvedFiles[c].offset + carvedFiles[c].length \in Nat
    BY <1>1, CarvedTypes
  <2> QED
    BY <1>4, <1>5, <2>1, <2>2
<1> QED
  BY <1>3, <1>6

(* Whatever file of the match that is next is kept, and whatever of it was *)
(* written, if only the hash says so.                                      *)
LEMMA KeepInv ==
  ASSUME ScanInv, CarveInv, next \in DOMAIN matches, ~Inside(matches[next]),
         NEW file \in Carved, file.offset = matches[next].offset,
         file.offset + file.length <= Size,
         NEW written \in Content, exported' = [exported EXCEPT ![file.offset] = written],
         file.state # "EXPORT_FAILED" /\ file.offset \notin unread' => file.sha256 = written,
         Keep(file), next' = next + 1,
         unread' = unread \/ unread' = unread \cup {file.offset},
         faults' \in Nat, UNCHANGED <<rejected, headers, matches>>
  PROVE  CarveInv'
<1> DEFINE n == Len(carvedFiles)
<1>1. /\ ScanTypeOK /\ ScanExact
      /\ CarveTypeOK /\ FromMatches /\ EndsKnown /\ PassedDealtWith
      /\ CarvedApart /\ HashesTrue
  BY DEF ScanInv, CarveInv
<1>2. /\ carvedFiles \in Seq(Carved) /\ n \in Nat /\ DOMAIN carvedFiles = 1..n
      /\ carvedFiles' = Append(carvedFiles, file)
  BY <1>1, LenProperties DEF CarveTypeOK, Keep
<1>3. /\ carvedFiles' \in Seq(Carved)
      /\ DOMAIN carvedFiles' = 1..(n + 1)
      /\ n + 1 \in DOMAIN carvedFiles' /\ carvedFiles'[n + 1] = file
      /\ \A c \in DOMAIN carvedFiles :
           c \in DOMAIN carvedFiles' /\ c # n + 1 /\ c < n + 1 /\ carvedFiles'[c] = carvedFiles[c]
  <2>1. /\ carvedFiles' \in Seq(Carved) /\ Len(carvedFiles') = n + 1
        /\ carvedFiles'[n + 1] = file
        /\ \A c \in 1..n : carvedFiles'[c] = carvedFiles[c]
    BY <1>2, AppendProperties
  <2>2. DOMAIN carvedFiles' = 1..(n + 1)
    BY <2>1, LenProperties
  <2> QED
    BY <1>2, <2>1, <2>2
<1>4. \A c \in DOMAIN carvedFiles' : c = n + 1 \/ c \in DOMAIN carvedFiles
  BY <1>2, <1>3
<1> HIDE DEF n
<1>5. /\ file.offset \in Offsets /\ file.offset \in Nat /\ file.length \in 1..Size
      /\ file.length \in Nat /\ file.isValid \in BOOLEAN
      /\ Size \in Nat
  BY ScanAssumption DEF Carved, Offsets
<1>6. next \in Nat \ {0} /\ lastCarvedEndOffset \in Nat
  BY <1>1, ScanAssumption DEF CarveTypeOK
<1>7. \A c \in DOMAIN carvedFiles :
        /\ carvedFiles[c].offset < file.offset
        /\ carvedFiles[c].isValid => carvedFiles[c].offset + carvedFiles[c].length <= file.offset
        /\ carvedFiles[c].offset \in Nat /\ carvedFiles[c].length \in Nat
  BY <1>1, NextIsLater, CarvedTypes
<1>8. CarveTypeOK'
  <2>1. lastCarvedEndOffset' \in 0..Size
    BY <1>1, <1>5 DEF Keep, CarveTypeOK
  <2>2. exported' \in [Offsets -> Content \cup {NoContent}]
    BY <1>1, <1>5 DEF CarveTypeOK
  <2>3. unread' \subseteq Offsets /\ next' \in Nat \ {0}
    BY <1>1, <1>5, <1>6 DEF CarveTypeOK
  <2> QED
    BY <1>1, <1>3, <2>1, <2>2, <2>3 DEF CarveTypeOK
<1>9. FromMatches'
  <2> SUFFICES ASSUME NEW c \in DOMAIN carvedFiles'
               PROVE  \E k \in DOMAIN matches :
                        k < next + 1 /\ matches[k].offset = carvedFiles'[c].offset
    BY DEF FromMatches
  <2>1. CASE c = n + 1
    BY <1>3, <1>6, <2>1
  <2>2. CASE c \in DOMAIN carvedFiles
    <3>1. PICK k \in DOMAIN matches : k < next /\ matches[k].offset = carvedFiles[c].offset
      BY <1>1, <2>2 DEF FromMatches
    <3>2. k \in Nat
      BY <1>1, LenProperties DEF ScanTypeOK
    <3> QED
      BY <1>3, <1>6, <2>2, <3>1, <3>2
  <2> QED
    BY <1>4, <2>1, <2>2
<1>10. EndsKnown'
  <2>1. /\ lastCarvedEndOffset' \in Nat /\ lastCarvedEndOffset <= lastCarvedEndOffset'
        /\ file.isValid => file.offset + file.length <= lastCarvedEndOffset'
        /\ \/ lastCarvedEndOffset' = lastCarvedEndOffset
           \/ file.isValid /\ lastCarvedEndOffset' = file.offset + file.length
    BY <1>5, <1>6 DEF Keep
  <2>2. ASSUME NEW c \in DOMAIN carvedFiles', carvedFiles'[c].isValid
        PROVE  carvedFiles'[c].offset + carvedFiles'[c].length <= lastCarvedEndOffset'
    <3>1. CASE c = n + 1
      BY <1>3, <2>1, <2>2, <3>1
    <3>2. CASE c \in DOMAIN carvedFiles
      <4>1. carvedFiles[c].offset + carvedFiles[c].length <= lastCarvedEndOffset
        BY <1>1, <1>3, <2>2, <3>2 DEF EndsKnown
      <4> QED
        BY <1>3, <1>6, <1>7, <2>1, <3>2, <4>1
    <3> QED
      BY <1>4, <3>1, <3>2
  <2>3. \/ lastCarvedEndOffset' = 0
        \/ \E c \in DOMAIN carvedFiles' :
             /\ carvedFiles'[c].isValid
             /\ carvedFiles'[c].offset + carvedFiles'[c].length = lastCarvedEndOffset'
    <3>1. CASE lastCarvedEndOffset' = lastCarvedEndOffset
      BY <1>1, <1>3, <3>1 DEF EndsKnown
    <3>2. CASE file.isValid /\ lastCarvedEndOffset' = file.offset + file.length
      BY <1>3, <3>2
    <3> QED
      BY <2>1, <3>1, <3>2
  <2> QED
    BY <2>2, <2>3 DEF EndsKnown
<1>11. PassedDealtWith'
  <2> SUFFICES ASSUME NEW k \in DOMAIN matches, k < next + 1
               PROVE  DealtWith(matches[k].offset)'
    BY DEF PassedDealtWith, DealtWith
  <2>1. CASE k = next
    BY <1>3, <2>1 DEF DealtWith
  <2>2. CASE k < next
    <3>1. DealtWith(matches[k].offset)
      BY <1>1, <2>2 DEF PassedDealtWith
    <3> QED
      BY <1>3, <3>1 DEF DealtWith
  <2>3. k \in Nat
    BY <1>1, LenProperties DEF ScanTypeOK
  <2> QED
    BY <1>6, <2>1, <2>2, <2>3
<1>12. CarvedApart'
  <2>1. \A c \in DOMAIN carvedFiles' : carvedFiles'[c].offset + carvedFiles'[c].length <= Size
    BY <1>1, <1>3, <1>4 DEF CarvedApart
  <2>2. ASSUME NEW j \in DOMAIN carvedFiles', NEW c \in DOMAIN carvedFiles', j < c
        PROVE  /\ carvedFiles'[j].offset < carvedFiles'[c].offset
               /\ carvedFiles'[j].isValid =>
                    carvedFiles'[c].offset >= carvedFiles'[j].offset + carvedFiles'[j].length
    <3>1. j \in DOMAIN carvedFiles
      BY <1>2, <1>3, <2>2 DEF n
    <3>2. CASE c = n + 1
      BY <1>3, <1>5, <1>7, <3>1, <3>2
    <3>3. CASE c \in DOMAIN carvedFiles
      BY <1>1, <1>3, <2>2, <3>1, <3>3 DEF CarvedApart
    <3> QED
      BY <1>4, <3>2, <3>3
  <2> QED
    BY <2>1, <2>2 DEF CarvedApart
<1>13. HashesTrue'
  <2> SUFFICES ASSUME NEW c \in DOMAIN carvedFiles',
                      carvedFiles'[c].state # "EXPORT_FAILED",
                      carvedFiles'[c].offset \notin unread'
               PROVE  carvedFiles'[c].sha256 = exported'[carvedFiles'[c].offset]
    BY DEF HashesTrue, Range
  <2>1. CASE c = n + 1
    BY <1>1, <1>3, <1>5, <2>1 DEF CarveTypeOK
  <2>2. CASE c \in DOMAIN carvedFiles
    <3>1. carvedFiles'[c] = carvedFiles[c] /\ carvedFiles[c] \in Range(carvedFiles)
      BY <1>3, <2>2 DEF Range
    <3>2. carvedFiles[c].offset # file.offset
      BY <1>5, <1>7, <2>2
    <3>3. exported'[carvedFiles[c].offset] = exported[carvedFiles[c].offset]
      BY <1>1, <3>2, <2>2, CarvedTypes DEF CarveTypeOK
    <3> QED
      BY <1>1, <3>1, <3>3 DEF HashesTrue
  <2> QED
    BY <1>4, <2>1, <2>2
<1> QED
  BY <1>8, <1>9, <1>10, <1>11, <1>12, <1>13 DEF CarveInv

(* A match that is passed over without keeping a file.                     *)
LEMMA PassInv ==
  ASSUME CarveInv, ScanTypeOK, next \in DOMAIN matches, next' = next + 1,
         NEW o, o = matches[next].offset, DealtWith(o)',
         UNCHANGED <<lastCarvedEndOffset, carvedFiles, exported, unread, faults, headers, matches>>,
         rejected \subseteq rejected', rejected' \subseteq Offsets
  PROVE  CarveInv'
<1>1. CarveTypeOK /\ FromMatches /\ EndsKnown /\ PassedDealtWith /\ CarvedApart /\ HashesTrue
  BY DEF CarveInv
<1>2. next \in Nat \ {0} /\ DOMAIN matches \subseteq Nat
  BY <1>1, LenProperties DEF CarveTypeOK, ScanTypeOK
<1>3. CarveTypeOK'
  BY <1>1, <1>2 DEF CarveTypeOK
<1>4. FromMatches'
  BY <1>1, <1>2 DEF FromMatches
<1>5. PassedDealtWith'
  <2> SUFFICES ASSUME NEW k \in DOMAIN matches, k < next + 1
               PROVE  DealtWith(matches[k].offset)'
    BY DEF PassedDealtWith, DealtWith
  <2>1. CASE k = next
    BY <2>1
  <2>2. CASE k < next
    <3>1. DealtWith(matches[k].offset)
      BY <1>1, <2>2 DEF PassedDealtWith
    <3> QED
      BY <3>1 DEF DealtWith
  <2> QED
    BY <1>2, <2>1, <2>2
<1>6. EndsKnown' /\ CarvedApart' /\ HashesTrue'
  BY <1>1 DEF EndsKnown, CarvedApart, HashesTrue
<1> QED
  BY <1>3, <1>4, <1>5, <1>6 DEF CarveInv

LEMMA SkipInv ==
  ASSUME ScanInv, CarveInv, Skip, UNCHANGED <<headers, matches>>
  PROVE  CarveInv'
<1>o. PICK o : o = matches[next].offset
  OBVIOUS
<1>1. ScanTypeOK /\ ScanExact /\ CarveTypeOK /\ FromMatches /\ EndsKnown
  BY DEF ScanInv, CarveInv
<1>2. next \in DOMAIN matches /\ o < lastCarvedEndOffset /\ o \in Nat
  BY <1>1, <1>o, MatchTypes DEF Skip, Inside
<1>3. PICK c \in DOMAIN carvedFiles :
        /\ carvedFiles[c].isValid
        /\ carvedFiles[c].offset + carvedFiles[c].length = lastCarvedEndOffset
  BY <1>1, <1>2 DEF EndsKnown
<1>4. PICK k \in DOMAIN matches : k < next /\ matches[k].offset = carvedFiles[c].offset
  BY <1>1 DEF FromMatches
<1>5. carvedFiles[c].offset < o
  BY <1>1, <1>2, <1>4, <1>o DEF ScanExact
<1>6. DealtWith(o)
  BY <1>2, <1>3, <1>5 DEF DealtWith
<1>7. DealtWith(o)'
  BY <1>6 DEF Skip, DealtWith
<1> QED
  BY <1>1, <1>2, <1>7, <1>o, PassInv DEF Skip, CarveTypeOK

LEMMA RejectInv ==
  ASSUME ScanInv, CarveInv, Reject, UNCHANGED <<headers, matches>>
  PROVE  CarveInv'
<1>1. ScanTypeOK /\ CarveTypeOK
  BY DEF ScanInv, CarveInv
<1>2. PICK o : o = matches[next].offset
  OBVIOUS
<1>3. next \in DOMAIN matches /\ o \in Offsets
  BY <1>1, <1>2, MatchTypes DEF Reject
<1>4. rejected' = rejected \cup {o}
  BY <1>2 DEF Reject
<1>5. DealtWith(o)'
  BY <1>4 DEF DealtWith
<1> QED
  BY <1>1, <1>2, <1>3, <1>4, <1>5, PassInv DEF Reject, CarveTypeOK

LEMMA CarveFileInv ==
  ASSUME ScanInv, CarveInv, next \in DOMAIN matches,
         NEW state \in {"VALID", "PARTIAL"}, NEW n \in 1..Size, Carve(state, n),
         UNCHANGED <<headers, matches>>
  PROVE  CarveInv'
<1> DEFINE m == matches[next]
           buffer == [from |-> m.offset, length |-> n]
           cut == [buffer EXCEPT !.length = n - 1]
           file(s, hash) == [offset |-> m.offset, length |-> n, isValid |-> s = "VALID",
                             state |-> s, sha256 |-> hash]
<1>1. ScanTypeOK /\ CarveTypeOK
  BY DEF ScanInv, CarveInv
<1>2. m.offset \in Offsets /\ m.offset \in Nat /\ m.signature \in DOMAIN Signatures
  BY <1>1, MatchTypes
<1>3. m.offset + n <= Size
  <2>0. Signatures[m.signature].max \in Nat /\ Size \in Nat
    BY <1>2, SignatureTypes, ScanAssumption, Zenon
  <2>1. Signatures[m.signature].max \in Nat /\ Size \in Nat /\ m.offset < Size
    <3> HIDE DEF m
    <3> QED
      BY <1>2, <2>0 DEF Offsets
  <2>2. n <= Lesser(Size - m.offset, Signatures[m.signature].max)
    BY DEF Carve, Window
  <2> QED
    BY <1>2, <2>1, <2>2 DEF Lesser
<1>4. buffer \in Content /\ cut \in Content
  <2>1. n \in 0..Size /\ n - 1 \in 0..Size
    BY ScanAssumption
  <2>2. cut = [from |-> m.offset, length |-> n - 1]
    OBVIOUS
  <2> QED
    BY <1>2, <2>1, <2>2 DEF Content
<1>5. ASSUME NEW s \in {"VALID", "PARTIAL", "EXPORT_FAILED"}, NEW hash \in Content
      PROVE  /\ file(s, hash) \in Carved
             /\ file(s, hash).offset = m.offset /\ file(s, hash).length = n
             /\ file(s, hash).state = s /\ file(s, hash).sha256 = hash
  BY <1>2 DEF Carved
<1>6. /\ ~Inside(m) /\ next' = next + 1 /\ UNCHANGED rejected
      /\ \/ /\ exported' = [exported EXCEPT ![m.offset] = buffer]
            /\ Keep(file(state, buffer))
            /\ UNCHANGED <<unread, faults>>
         \/ /\ Fault
            /\ exported' = [exported EXCEPT ![m.offset] = buffer]
            /\ Keep(file(state, buffer)) \/ Keep(file(state, cut))
            /\ unread' = unread \cup {m.offset}
         \/ /\ Fault
            /\ exported' = [exported EXCEPT ![m.offset] = cut]
            /\ Keep(file(state, cut)) \/ Keep(file("EXPORT_FAILED", buffer))
            /\ UNCHANGED unread
  BY DEF Carve, HashOf
<1>7. faults' \in Nat
  BY <1>1, <1>6 DEF CarveTypeOK, Fault
<1> HIDE DEF m, buffer, cut, file
<1>8. CASE /\ exported' = [exported EXCEPT ![m.offset] = buffer]
           /\ Keep(file(state, buffer))
           /\ unread' = unread \/ unread' = unread \cup {m.offset}
  <2>1. file(state, buffer) \in Carved /\ file(state, buffer).sha256 = buffer
        /\ file(state, buffer).offset = m.offset /\ file(state, buffer).length = n
    BY <1>4, <1>5
  <2> QED
    BY <1>3, <1>4, <1>6, <1>7, <1>8, <2>1, KeepInv DEF m
<1>9. CASE /\ exported' = [exported EXCEPT ![m.offset] = cut]
           /\ Keep(file(state, cut))
           /\ UNCHANGED unread
  <2>1. file(state, cut) \in Carved /\ file(state, cut).sha256 = cut
        /\ file(state, cut).offset = m.offset /\ file(state, cut).length = n
    BY <1>4, <1>5
  <2> QED
    BY <1>3, <1>4, <1>6, <1>7, <1>9, <2>1, KeepInv DEF m
<1>10. CASE /\ exported' = [exported EXCEPT ![m.offset] = buffer]
            /\ Keep(file(state, cut))
            /\ unread' = unread \cup {m.offset}
  <2>1. file(state, cut) \in Carved
        /\ file(state, cut).offset = m.offset /\ file(state, cut).length = n
    BY <1>4, <1>5
  <2> QED
    BY <1>3, <1>4, <1>6, <1>7, <1>10, <2>1, KeepInv DEF m
<1>11. CASE /\ exported' = [exported EXCEPT ![m.offset] = cut]
            /\ Keep(file("EXPORT_FAILED", buffer))
            /\ UNCHANGED unread
  <2> DEFINE f == file("EXPORT_FAILED", buffer)
  <2>1. f \in Carved /\ f.state = "EXPORT_FAILED" /\ f.offset = m.offset /\ f.length = n
    BY <1>4, <1>5
  <2> HIDE DEF f
  <2>2. Keep(f)
    BY <1>11 DEF f
  <2> QED
    BY <1>3, <1>4, <1>6, <1>7, <1>11, <2>1, <2>2, KeepInv DEF m
<1> QED
  BY <1>6, <1>8, <1>9, <1>10, <1>11

-----------------------------------------------------------------------------
(* What each part of the recovery has left to the next.                    *)
Phases ==
  /\ pc \in {"files", "scan"} => next = 1 /\ carvedFiles = <<>>
  /\ pc \in {"files", "scan", "carve"} => filtered = 0
  /\ pc \in {"filter", "done"} => next > Len(matches)
  /\ pc = "done" => filtered = Len(carvedFiles)

(* What the filter has looked at is reported, or was recovered already.    *)
FilterDone ==
  \A c \in DOMAIN carvedFiles : c <= filtered =>
    carvedFiles[c] \in Range(raw_carved_files) \/ AlreadyRecovered(carvedFiles[c].offset)

ReportTypeOK ==
  /\ pc \in {"files", "scan", "carve", "filter", "done"}
  /\ listing \in Seq(Listed)
  /\ done \in 0..Len(listing)
  /\ recoveredRanges \in Seq([first : Offsets, second : 1..Size])
  /\ filtered \in 0..Len(carvedFiles)
  /\ raw_carved_files \in Seq(Carved)

IInv == ScanInv /\ CarveInv /\ Phases /\ FilterDone /\ ReportTypeOK

LEMMA CarveUnchanged ==
  ASSUME CarveInv, UNCHANGED <<matches, carver, faults>>
  PROVE  CarveInv'
BY DEF CarveInv, carver, CarveTypeOK, FromMatches, EndsKnown, PassedDealtWith, DealtWith,
       CarvedApart, HashesTrue

LEMMA InitIInv == Init => IInv
<1> SUFFICES ASSUME Init PROVE IInv
  OBVIOUS
<1>1. ScanInv
  BY ScanInitInv
<1>2. carvedFiles = <<>> /\ matches = <<>> /\ next = 1 /\ lastCarvedEndOffset = 0
  BY DEF Init, ScanInit, CarveInit
<1>3. DOMAIN carvedFiles = {} /\ DOMAIN matches = {}
  BY <1>2
<1>4. CarveTypeOK
  BY ScanAssumption, EmptySeq DEF Init, CarveInit, CarveTypeOK
<1>5. CarveInv
  BY <1>2, <1>3, <1>4 DEF CarveInv, FromMatches, EndsKnown, PassedDealtWith, CarvedApart,
                          HashesTrue, Range
<1>6. Phases /\ FilterDone
  BY <1>2, <1>3 DEF Init, Phases, FilterDone
<1>7. ReportTypeOK
  <2>1. listing \in Seq(Listed)
    BY ListingAssumption DEF Init
  <2>2. Len(listing) \in Nat
    BY <2>1, LenProperties
  <2> QED
    BY <1>2, <2>1, <2>2, EmptySeq DEF Init, ReportTypeOK
<1> QED
  BY <1>1, <1>5, <1>6, <1>7 DEF IInv

LEMMA ScanStepIInv ==
  ASSUME IInv, ScanStep
  PROVE  IInv'
<1>1. ScanInv'
  BY ScanStepInv DEF IInv, ScanStep
<1>2. next = 1 /\ carvedFiles = <<>> /\ UNCHANGED <<carver, faults, pc, report>>
  BY DEF IInv, Phases, ScanStep
<1>3. DOMAIN matches' \subseteq Nat \ {0}
  BY <1>1, LenProperties DEF ScanInv, ScanTypeOK
<1>4. CarveInv /\ next' = 1 /\ carvedFiles' = <<>>
  BY <1>2 DEF IInv, carver
<1>5. PassedDealtWith'
  BY <1>3, <1>4 DEF PassedDealtWith
<1>6. FromMatches'
  BY <1>4 DEF FromMatches
<1>7. CarveInv'
  BY <1>2, <1>4, <1>5, <1>6 DEF CarveInv, carver, CarveTypeOK, EndsKnown, CarvedApart, HashesTrue
<1>8. Phases' /\ FilterDone' /\ ReportTypeOK'
  BY <1>2 DEF IInv, ScanStep, Phases, FilterDone, AlreadyRecovered, ReportTypeOK, report, carver
<1> QED
  BY <1>1, <1>7, <1>8 DEF IInv

LEMMA CarveStepIInv ==
  ASSUME IInv, CarveStep
  PROVE  IInv'
<1>1. ScanInv /\ CarveInv /\ UNCHANGED <<headers, scanner, pc, report>> /\ pc = "carve" /\ CarveNext
  BY DEF IInv, CarveStep
<1>2. ScanInv' /\ UNCHANGED <<headers, matches>>
  BY <1>1, ScanUnchanged DEF scanner
<1>3. CarveInv'
  BY <1>1, <1>2, SkipInv, RejectInv, CarveFileInv DEF CarveNext
<1>4. filtered' = 0 /\ carvedFiles' \in Seq(Carved)
  BY <1>1, <1>3 DEF IInv, Phases, report, CarveInv, CarveTypeOK
<1>5. Phases'
  BY <1>1, <1>4 DEF Phases
<1>6. FilterDone'
  <2>1. \A c \in DOMAIN carvedFiles' : c > 0
    BY <1>4, LenProperties
  <2>2. \A c \in DOMAIN carvedFiles' : c \in Nat
    BY <1>4, LenProperties
  <2> QED
    BY <1>4, <2>1, <2>2 DEF FilterDone
<1>7. ReportTypeOK'
  <2>1. Len(carvedFiles') \in Nat
    BY <1>4, LenProperties
  <2> QED
    BY <1>1, <1>4, <2>1 DEF IInv, ReportTypeOK, report
<1> QED
  BY <1>2, <1>3, <1>5, <1>6, <1>7 DEF IInv

LEMMA RecoverFileIInv ==
  ASSUME IInv, RecoverFile
  PROVE  IInv'
<1> DEFINE R == [first : Offsets, second : 1..Size]
           f == listing[done + 1]
           r == [first |-> f.byte_offset, second |-> f.file_size]
<1>1. /\ UNCHANGED <<headers, scanner, carver, faults, pc, listing, filtered, raw_carved_files>>
      /\ pc = "files" /\ done < Len(listing) /\ done' = done + 1
      /\ recoveredRanges' = Append(recoveredRanges, r) \/ UNCHANGED recoveredRanges
  BY DEF RecoverFile
<1>2. ScanInv' /\ CarveInv'
  BY <1>1, ScanUnchanged, CarveUnchanged DEF IInv, scanner
<1>3. /\ listing \in Seq(Listed) /\ done \in 0..Len(listing)
      /\ recoveredRanges \in Seq(R)
  BY DEF IInv, ReportTypeOK
<1>4. Len(listing) \in Nat /\ done + 1 \in 1..Len(listing)
  BY <1>1, <1>3, LenProperties
<1>5. f \in Listed
  BY <1>3, <1>4, ElementOfSeq
<1>6. r \in R
  BY <1>5 DEF Listed
<1> HIDE DEF R, r
<1>7. recoveredRanges' \in Seq(R)
  BY <1>1, <1>3, <1>6, AppendProperties
<1>8. ReportTypeOK'
  BY <1>1, <1>4, <1>7 DEF IInv, ReportTypeOK, carver, R
<1>9. Phases' /\ FilterDone'
  BY <1>1 DEF IInv, Phases, FilterDone, carver, scanner
<1> QED
  BY <1>2, <1>8, <1>9 DEF IInv

LEMMA FilterIInv ==
  ASSUME IInv, Filter
  PROVE  IInv'
<1> DEFINE candidate == carvedFiles[filtered + 1]
<1>1. /\ pc = "filter" /\ filtered < Len(carvedFiles) /\ filtered' = filtered + 1
      /\ UNCHANGED <<headers, scanner, carver, faults, pc, listing, done, recoveredRanges>>
      /\ raw_carved_files' = IF AlreadyRecovered(candidate.offset) THEN raw_carved_files
                             ELSE Append(raw_carved_files, candidate)
  BY DEF Filter
<1>2. ScanInv' /\ CarveInv'
  BY <1>1, ScanUnchanged, CarveUnchanged DEF IInv, scanner
<1>3. /\ carvedFiles \in Seq(Carved) /\ raw_carved_files \in Seq(Carved)
      /\ filtered \in 0..Len(carvedFiles)
  BY DEF IInv, CarveInv, CarveTypeOK, ReportTypeOK
<1>4. Len(carvedFiles) \in Nat /\ filtered + 1 \in 1..Len(carvedFiles)
      /\ DOMAIN carvedFiles = 1..Len(carvedFiles)
  BY <1>1, <1>3, LenProperties
<1>5. candidate \in Carved
  BY <1>3, <1>4, ElementOfSeq
<1>6. ReportTypeOK'
  <2>1. raw_carved_files' \in Seq(Carved)
    BY <1>1, <1>3, <1>5, AppendProperties
  <2> QED
    BY <1>1, <1>4, <2>1 DEF IInv, ReportTypeOK, carver
<1>7. Phases'
  BY <1>1 DEF IInv, Phases, carver, scanner
<1>8. Range(raw_carved_files) \subseteq Range(raw_carved_files')
  <2>1. CASE raw_carved_files' = raw_carved_files
    BY <2>1
  <2>2. CASE raw_carved_files' = Append(raw_carved_files, candidate)
    BY <1>3, <1>5, <2>2, AppendProperties, LenProperties DEF Range
  <2> QED
    BY <1>1, <2>1, <2>2
<1>9. ~AlreadyRecovered(candidate.offset) => candidate \in Range(raw_carved_files')
  <2> SUFFICES ASSUME ~AlreadyRecovered(candidate.offset)
               PROVE  candidate \in Range(raw_carved_files')
    OBVIOUS
  <2>1. raw_carved_files' = Append(raw_carved_files, candidate)
    BY <1>1
  <2>2. /\ raw_carved_files' \in Seq(Carved) /\ Len(raw_carved_files) \in Nat
        /\ Len(raw_carved_files') = Len(raw_carved_files) + 1
        /\ raw_carved_files'[Len(raw_carved_files) + 1] = candidate
    BY <1>3, <1>5, <2>1, AppendProperties, LenProperties
  <2>3. Len(raw_carved_files) + 1 \in DOMAIN raw_carved_files'
    BY <2>2, LenProperties
  <2> QED
    BY <2>2, <2>3 DEF Range
<1>10. FilterDone'
  <2> SUFFICES ASSUME NEW c \in DOMAIN carvedFiles, c <= filtered + 1
               PROVE  \/ carvedFiles[c] \in Range(raw_carved_files')
                      \/ AlreadyRecovered(carvedFiles[c].offset)
    BY <1>1 DEF FilterDone, AlreadyRecovered, carver
  <2>1. CASE c = filtered + 1
    BY <1>9, <2>1
  <2>2. CASE c <= filtered
    BY <1>8, <2>2 DEF IInv, FilterDone
  <2> QED
    BY <1>3, <1>4, <2>1, <2>2
<1> QED
  BY <1>2, <1>6, <1>7, <1>10 DEF IInv

LEMMA NextIInv ==
  ASSUME IInv, [Next]_vars
  PROVE  IInv'
<1>1. ASSUME UNCHANGED <<headers, scanner, carver, faults, report>>, Phases'
      PROVE  pc' \in {"files", "scan", "carve", "filter", "done"} => IInv'
  <2>1. ScanInv' /\ CarveInv'
    BY <1>1, ScanUnchanged, CarveUnchanged DEF IInv, scanner
  <2> QED
    BY <1>1, <2>1 DEF IInv, FilterDone, AlreadyRecovered, ReportTypeOK, report, carver
<1>2. CASE BeginScan \/ BeginCarve \/ BeginFilter \/ Finish \/ UNCHANGED vars
  BY <1>1, <1>2 DEF BeginScan, BeginCarve, BeginFilter, Finish, vars, IInv, Phases,
                    ReportTypeOK, report, carver, scanner
<1> QED
  BY <1>2, RecoverFileIInv, ScanStepIInv, CarveStepIInv, FilterIInv DEF Next, Finished

THEOREM Inductive == Spec => []IInv
BY InitIInv, NextIInv, PTL DEF Spec

-----------------------------------------------------------------------------
(* Type correctness.                                                       *)
THEOREM TypesCorrect == Spec => []TypeOK
<1>1. IInv => TypeOK
  BY DEF IInv, ScanInv, CarveInv, ReportTypeOK, TypeOK
<1> QED
  BY <1>1, Inductive, PTL

(* SignatureScanner::scan finds exactly the headers of what it has         *)
(* searched, whatever the sizes of the image, the chunks and the headers.  *)
THEOREM AlwaysScanExact == Spec => []ScanExact
<1>1. IInv => ScanExact
  BY DEF IInv, ScanInv
<1> QED
  BY <1>1, Inductive, PTL

(* FileCarver::carve carves nothing that begins in a valid carved file.    *)
THEOREM AlwaysCarvedApart == Spec => []CarvedApart
<1>1. IInv => CarvedApart
  BY DEF IInv, CarveInv
<1> QED
  BY <1>1, Inductive, PTL

(* FileCarver::carveSingle reports the hash of what was written, however   *)
(* many writes stop short.                                                 *)
THEOREM AlwaysHashesTrue == Spec => []HashesTrue
<1>1. IInv => HashesTrue
  BY DEF IInv, CarveInv
<1> QED
  BY <1>1, Inductive, PTL

(* RecoveryEngine::runRecovery accounts for every header of what was       *)
(* searched, whatever the analyzers list and whatever the validators say.  *)
THEOREM AlwaysNothingLost == Spec => []NothingLost
<1>1. ASSUME IInv, pc = "done", NEW o \in Offsets, o < Searched, headers[o] # {}
      PROVE  \/ o \in rejected
             \/ \E c \in Range(carvedFiles) :
                  c.isValid /\ c.offset < o /\ o < c.offset + c.length
             \/ \E c \in Range(raw_carved_files) : c.offset = o
             \/ \E r \in Range(recoveredRanges) : r.first <= o /\ o < r.first + r.second
  <2>1. PICK k \in DOMAIN matches : matches[k].offset = o
    BY <1>1 DEF IInv, ScanInv, ScanExact
  <2>2. k < next
    <3>1. /\ k \in 1..Len(matches) /\ Len(matches) \in Nat /\ next \in Nat
          /\ next > Len(matches)
      BY <1>1, LenProperties DEF IInv, ScanInv, ScanTypeOK, CarveInv, CarveTypeOK, Phases
    <3> QED
      BY <3>1
  <2>3. DealtWith(o)
    BY <1>1, <2>1, <2>2 DEF IInv, CarveInv, PassedDealtWith
  <2>4. ASSUME NEW c \in DOMAIN carvedFiles, carvedFiles[c].offset = o
        PROVE  \/ \E f \in Range(raw_carved_files) : f.offset = o
               \/ \E r \in Range(recoveredRanges) : r.first <= o /\ o < r.first + r.second
    <3>1. c <= filtered
      BY <1>1, LenProperties DEF IInv, CarveInv, CarveTypeOK, Phases
    <3>2. carvedFiles[c] \in Range(raw_carved_files) \/ AlreadyRecovered(o)
      BY <1>1, <2>4, <3>1 DEF IInv, FilterDone
    <3>3. CASE carvedFiles[c] \in Range(raw_carved_files)
      BY <2>4, <3>3
    <3>4. CASE AlreadyRecovered(o)
      <4>1. PICK r \in Range(recoveredRanges) : o >= r.first /\ o < r.first + r.second
        BY <3>4 DEF AlreadyRecovered
      <4>2. r \in [first : Offsets, second : 1..Size]
        <5> DEFINE R == [first : Offsets, second : 1..Size]
        <5>1. recoveredRanges \in Seq(R)
          BY <1>1 DEF IInv, ReportTypeOK
        <5> HIDE DEF R
        <5>2. PICK k2 \in DOMAIN recoveredRanges : r = recoveredRanges[k2]
          BY DEF Range
        <5>3. r \in R
          BY <5>1, <5>2, LenProperties, ElementOfSeq
        <5> QED
          BY <5>3 DEF R
      <4>3. r.first \in Nat /\ o \in Nat
        BY <4>2, ScanAssumption DEF Offsets
      <4> QED
        BY <4>1, <4>3
    <3> QED
      BY <3>2, <3>3, <3>4
  <2> QED
    BY <2>3, <2>4 DEF DealtWith, Range
<1>2. IInv => NothingLost
  BY <1>1 DEF NothingLost
<1> QED
  BY <1>2, Inductive, PTL
-----------------------------------------------------------------------------
(* Restoring what was deleted from a directory: DirectoryRecovery.          *)

(* Types.  What stands for a file's content is the place it had first.      *)
Kinds == {"trash", "tomb", "sanitized"}
FileContents == FilePlaces \cup {Broken, Gone}
Locators == (Names \X Nat) \cup {<<>>}
ItemRecords == [kind : Kinds, path : FilePlaces, locator : Locators, selected : BOOLEAN]
AuditRecords == {e \in [op : {"erase", "recover"}, path : Places, ok : BOOLEAN] :
                   e.op = "erase" => e.path \in FilePlaces}
Trashed == [slot : Names \X Nat, path : FilePlaces, content : FileContents]
TaskPhases == {"idle", "trash", "metadata", "records", "check", "recover"}
Scanning == {"trash", "metadata", "records"}

Tasks == [phase : TaskPhases, dir : Places, out : Places, command : BOOLEAN,
          left : SUBSET Nat, asked : Nat, count : Nat]
Restored == [file : FilePlaces, content : FileContents, item : ItemRecords, from : Places]

ScannerTypeOK ==
  /\ DOMAIN files \subseteq FilePlaces /\ IsFiniteSet(DOMAIN files)
  /\ \A f \in DOMAIN files : files[f] \in FileContents
  /\ trash \subseteq Trashed /\ IsFiniteSet(trash)
  /\ log \in Seq(AuditRecords) /\ journal \in Seq(AuditRecords)
  /\ typed \in [target : Places, output : Places, requests : Nat]
  /\ items \in Seq(ItemRecords)
  /\ shown \in BOOLEAN
  /\ task \in Tasks /\ task.left \subseteq DOMAIN items
  /\ scanned \in [dir : Places, erased : SUBSET FilePlaces]
  /\ erased \subseteq FilePlaces
  /\ recovered \in Seq(Restored)

(* Nothing is shown while a scan runs; what it found so far is no more than *)
(* it should find.                                                         *)
ScanSoFar ==
  /\ task.phase \in Scanning => ~shown /\ task.left = {}
  /\ task.phase \in {"metadata", "records"} => \A n \in DOMAIN items :
       items[n].kind = "tomb" \/ (items[n].kind = "trash" /\ IsPrefix(task.dir, items[n].path))

(* The process knows of its own erasures.                                  *)
ErasedLogged == \A p \in erased : \E n \in DOMAIN log : log[n].op = "erase" /\ log[n].path = p

ScannerInv == ScannerTypeOK /\ ScanSoFar /\ ErasedLogged /\ KeptApart /\ ListedTrue

-----------------------------------------------------------------------------
LEMMA LeastPresent ==
  ASSUME NEW S \in SUBSET Nat, S # {}
  PROVE  Min(S) \in S
BY LeastExists DEF Min

(* Of n + 1 things that differ, one is not in a set of n. *)
LEMMA OneIsFree ==
  ASSUME NEW S, IsFiniteSet(S), NEW U, NEW f \in Injection(0..Cardinality(S), U)
  PROVE  \E k \in 0..Cardinality(S) : f[k] \notin S
<1> DEFINE n == Cardinality(S)
<1>1. n \in Nat
  BY FS_CardinalityType
<1>2. SUFFICES ASSUME \A k \in 0..n : f[k] \in S PROVE FALSE
  OBVIOUS
<1>3. f \in Injection(0..n, S)
  BY <1>2 DEF Injection, IsInjective
<1>4. Cardinality(0..n) = n + 1
  BY <1>1, FS_Interval
<1> HIDE DEF n
<1>5. Cardinality(0..n) <= Cardinality(S)
  BY <1>3, FS_Injection
<1> QED
  BY <1>1, <1>4, <1>5 DEF n

LEMMA Numbered ==
  ASSUME NEW name \in Names, NEW n \in Nat
  PROVE  /\ [name EXCEPT !.copies = Append(@, n)] \in Names
         /\ [name EXCEPT !.copies = Append(@, n)].copies = Append(name.copies, n)
         /\ name.copies \in Seq(Nat)
<1>1. "copies" \in DOMAIN name /\ name.copies \in Seq(Nat)
  BY DEF Names
<1>2. [name EXCEPT !.copies = Append(@, n)] \in Names
  <2>1. Append(name.copies, n) \in Seq(Nat)
    BY <1>1, AppendProperties
  <2> QED
    BY <2>1 DEF Names
<1> QED
  BY <1>1, <1>2

LEMMA CandidateType ==
  ASSUME NEW dir \in Places, NEW name \in Names, NEW k \in Nat
  PROVE  Candidate(dir, name, k) \in FilePlaces
<1>1. [name EXCEPT !.copies = Append(@, k)] \in Names
  BY Numbered
<1> QED
  BY <1>1 DEF Candidate, Places, FilePlaces

LEMMA CandidatesDiffer ==
  ASSUME NEW dir \in Places, NEW name \in Names, NEW j \in Nat, NEW k \in Nat,
         Candidate(dir, name, j) = Candidate(dir, name, k)
  PROVE  j = k
<1> DEFINE NameFor(n) == IF n = 0 THEN name ELSE [name EXCEPT !.copies = Append(@, n)]
<1>1. ASSUME NEW n \in Nat
      PROVE  /\ NameFor(n) \in Names
             /\ n = 0 => NameFor(n).copies = name.copies
             /\ n # 0 => NameFor(n).copies = Append(name.copies, n)
  BY Numbered
<1>2. Append(dir, NameFor(j)) = Append(dir, NameFor(k))
  BY DEF Candidate
<1>3. dir \in Seq(Names) /\ name.copies \in Seq(Nat)
  BY DEF Names, Places
<1> HIDE DEF NameFor
<1>4. NameFor(j) = NameFor(k)
  BY <1>1, <1>2, <1>3
<1>5. NameFor(j).copies = NameFor(k).copies
  BY <1>4
<1>6. CASE j = 0 \/ k = 0
  BY <1>1, <1>3, <1>5, <1>6
<1>7. CASE j # 0 /\ k # 0
  <2>1. Append(name.copies, j) = Append(name.copies, k)
    BY <1>1, <1>5, <1>7
  <2> QED
    BY <1>3, <2>1
<1> QED
  BY <1>6, <1>7

(* The search for a free name ends, and with one. *)
LEMMA FreeNameIsFree ==
  ASSUME IsFiniteSet(DOMAIN files), NEW dir \in Places, NEW name \in Names
  PROVE  FreeName(dir, name) \in FilePlaces \ DOMAIN files
<1> DEFINE n == Cardinality(Taken)
           f == [k \in 0..n |-> Candidate(dir, name, k)]
           free == {k \in 0..n : Candidate(dir, name, k) \notin Taken}
<1>1. IsFiniteSet(Taken) /\ n \in Nat
  BY DirectoryRecoveryAssumption, FS_Union, FS_CardinalityType DEF Taken
<1>2. f \in Injection(0..n, FilePlaces)
  <2>1. f \in [0..n -> FilePlaces]
    BY <1>1, CandidateType
  <2>2. \A j, k \in 0..n : f[j] = f[k] => j = k
    BY <1>1, CandidatesDiffer
  <2> HIDE DEF f, n
  <2> QED
    BY <2>1, <2>2 DEF Injection, IsInjective
<1>3. \E k \in 0..n : f[k] \notin Taken
  <2> HIDE DEF f
  <2> QED
    BY <1>1, <1>2, OneIsFree
<1>4. free # {} /\ free \in SUBSET Nat
  BY <1>1, <1>3
<1>5. Min(free) \in free
  <2> HIDE DEF free
  <2> QED
    BY <1>4, LeastPresent
<1>6. FreeName(dir, name) = Candidate(dir, name, Min(free))
  BY DEF FreeName
<1> QED
  BY <1>1, <1>5, <1>6, CandidateType DEF Taken

(* A finite set made into a sequence is the same set. *)
LEMMA SetToSeqSame ==
  ASSUME NEW S, IsFiniteSet(S)
  PROVE  /\ SetToSeq(S) \in Seq(S)
         /\ \A x \in S : \E n \in DOMAIN SetToSeq(S) : SetToSeq(S)[n] = x
<1> DEFINE k == Cardinality(S)
           s == SetToSeq(S)
<1>1. k \in Nat /\ ExistsBijection(1..k, S)
  BY FS_CardinalityType
<1>2. s \in Injection(1..k, S)
  <2>1. \E f \in [1..k -> S] : IsInjective(f)
    BY <1>1 DEF ExistsBijection, Bijection, Injection
  <2> QED
    BY <2>1 DEF SetToSeq, Injection
<1>3. s \in Surjection(1..k, S)
  <2>1. IsFiniteSet(1..k) /\ Cardinality(1..k) = k
    BY <1>1, FS_Interval
  <2> HIDE DEF s
  <2> QED
    BY <1>2, <2>1, FS_Injection
<1> HIDE DEF k
<1>4. s \in Seq(S) /\ DOMAIN s = 1..k
  BY <1>1, <1>2 DEF Injection
<1> QED
  BY <1>3, <1>4 DEF Surjection

LEMMA PrefixOfItself ==
  ASSUME NEW s \in Places
  PROVE  IsPrefix(s, s)
BY DEF IsPrefix, Places

LEMMA StartsIsPrefix ==
  ASSUME NEW full \in Places, NEW prefix, PathStartsWith(full, prefix)
  PROVE  IsPrefix(prefix, full)
BY PrefixOfItself DEF PathStartsWith

LEMMA PrefixStarts ==
  ASSUME NEW full, NEW prefix, IsPrefix(prefix, full), prefix # <<>>
  PROVE  PathStartsWith(full, prefix)
BY DEF PathStartsWith

LEMMA TrashItems ==
  ASSUME ScannerTypeOK, NEW dir \in Places
  PROVE  /\ ScanTrashJournals(dir) \in Seq(ItemRecords)
         /\ \A n \in DOMAIN ScanTrashJournals(dir) :
              /\ ScanTrashJournals(dir)[n].kind = "trash"
              /\ IsPrefix(dir, ScanTrashJournals(dir)[n].path)
<1> DEFINE R == {r \in trash : PathStartsWith(r.path, dir) /\ r.content # Gone}
           S == {Item("trash", t.path, t.slot) : t \in R}
<1>1. IsFiniteSet(R) /\ R \subseteq trash
  BY FS_Subset DEF ScannerTypeOK
<1>2. IsFiniteSet(S)
  <2> DEFINE f == [t \in R |-> Item("trash", t.path, t.slot)]
  <2>1. f \in Surjection(R, S)
    BY DEF Surjection
  <2> HIDE DEF f, R, S
  <2> QED
    BY <1>1, <2>1, FS_Surjection
<1>3. \A x \in S : x \in ItemRecords /\ x.kind = "trash" /\ IsPrefix(dir, x.path)
  <2> SUFFICES ASSUME NEW t \in R
               PROVE  LET x == Item("trash", t.path, t.slot)
                      IN  x \in ItemRecords /\ x.kind = "trash" /\ IsPrefix(dir, x.path)
    OBVIOUS
  <2>1. t.path \in FilePlaces /\ t.path \in Places /\ t.slot \in Names \X Nat
    BY DEF ScannerTypeOK, Trashed, FilePlaces
  <2>2. IsPrefix(dir, t.path)
    BY <2>1, StartsIsPrefix
  <2> QED
    BY <2>1, <2>2 DEF Item, ItemRecords, Kinds, Locators
<1>4. ScanTrashJournals(dir) = SetToSeq(S)
  BY DEF ScanTrashJournals
<1> HIDE DEF S
<1>5. SetToSeq(S) \in Seq(S)
  BY <1>2, SetToSeqSame
<1> QED
  BY <1>3, <1>4, <1>5

LEMMA TombItems ==
  ASSUME NEW dir \in Places
  PROVE  /\ ScanFilesystemMetadata(dir) \in Seq(ItemRecords)
         /\ \A n \in DOMAIN ScanFilesystemMetadata(dir) :
              ScanFilesystemMetadata(dir)[n].kind = "tomb"
<1> DEFINE Found1(n) == Item("tomb", Append(dir, Tombs[n]), <<Tombs[n], n>>)
<1>1. Tombs \in Seq(Names)
  BY DirectoryRecoveryAssumption
<1>2. ASSUME NEW n \in DOMAIN Tombs
      PROVE  Found1(n) \in ItemRecords /\ Found1(n).kind = "tomb"
  <2>1. Tombs[n] \in Names /\ n \in Nat
    BY <1>1
  <2>2. Append(dir, Tombs[n]) \in FilePlaces
    BY <2>1 DEF FilePlaces, Places
  <2> QED
    BY <2>1, <2>2 DEF Item, ItemRecords, Kinds, Locators
<1> HIDE DEF Found1
<1>3. [n \in DOMAIN Tombs |-> Found1(n)] \in Seq(ItemRecords)
  BY <1>1, <1>2
<1>4. CASE ResolveMountInfo(dir)
  BY <1>2, <1>3, <1>4 DEF ScanFilesystemMetadata, Found1
<1>5. CASE ~ResolveMountInfo(dir)
  BY <1>5 DEF ScanFilesystemMetadata
<1> QED
  BY <1>4, <1>5

LEMMA AuditItems ==
  ASSUME NEW dir \in Places, NEW entries \in Seq(AuditRecords)
  PROVE  LET found == ScanSanitizedAuditRecords(dir, entries)
         IN  /\ found \in Seq(ItemRecords)
             /\ \A n \in DOMAIN found :
                  found[n].kind = "sanitized" /\ IsPrefix(dir, found[n].path)
             /\ \A k \in DOMAIN entries :
                  entries[k].op = "erase" /\ PathStartsWith(entries[k].path, dir) =>
                    \E n \in DOMAIN found :
                      found[n].path = entries[k].path /\ found[n].kind = "sanitized"
<1> DEFINE R == {x \in Range(entries) : x.op = "erase" /\ PathStartsWith(x.path, dir)}
           S == {Item("sanitized", e.path, <<>>) : e \in R}
           found == ScanSanitizedAuditRecords(dir, entries)
<1>1. IsFiniteSet(R) /\ R \subseteq AuditRecords
  <2>1. entries \in Surjection(DOMAIN entries, Range(entries))
    BY DEF Surjection, Range
  <2>2. IsFiniteSet(DOMAIN entries)
    BY FS_Interval
  <2>3. IsFiniteSet(Range(entries))
    BY <2>1, <2>2, FS_Surjection
  <2> QED
    BY <2>3, FS_Subset DEF Range
<1>2. IsFiniteSet(S)
  <2> DEFINE f == [t \in R |-> Item("sanitized", t.path, <<>>)]
  <2>1. f \in Surjection(R, S)
    BY DEF Surjection
  <2> HIDE DEF f, R, S
  <2> QED
    BY <1>1, <2>1, FS_Surjection
<1>3. \A x \in S : x \in ItemRecords /\ x.kind = "sanitized" /\ IsPrefix(dir, x.path)
  <2> SUFFICES ASSUME NEW t \in R
               PROVE  LET x == Item("sanitized", t.path, <<>>)
                      IN  x \in ItemRecords /\ x.kind = "sanitized" /\ IsPrefix(dir, x.path)
    OBVIOUS
  <2>1. t.path \in FilePlaces /\ t.path \in Places
    BY <1>1 DEF AuditRecords, FilePlaces
  <2>2. IsPrefix(dir, t.path)
    BY <2>1, StartsIsPrefix
  <2> QED
    BY <2>1, <2>2 DEF Item, ItemRecords, Kinds, Locators
<1>4. ASSUME NEW k \in DOMAIN entries,
             entries[k].op = "erase", PathStartsWith(entries[k].path, dir)
      PROVE  \E x \in S : x.path = entries[k].path /\ x.kind = "sanitized"
  <2>1. entries[k] \in R
    BY <1>4 DEF Range
  <2>2. Item("sanitized", entries[k].path, <<>>) \in S
    BY <2>1
  <2> QED
    BY <2>2 DEF Item
<1>5. found = SetToSeq(S)
  BY DEF ScanSanitizedAuditRecords
<1> HIDE DEF S, found
<1>6. found \in Seq(S) /\ \A x \in S : \E n \in DOMAIN found : found[n] = x
  BY <1>2, <1>5, SetToSeqSame
<1>7. found \in Seq(ItemRecords)
  BY <1>3, <1>6
<1>8. \A n \in DOMAIN found : found[n].kind = "sanitized" /\ IsPrefix(dir, found[n].path)
  BY <1>3, <1>6
<1>9. \A k \in DOMAIN entries :
        entries[k].op = "erase" /\ PathStartsWith(entries[k].path, dir) =>
          \E n \in DOMAIN found : found[n].path = entries[k].path /\ found[n].kind = "sanitized"
  BY <1>4, <1>6
<1> QED
  BY <1>7, <1>8, <1>9 DEF found

-----------------------------------------------------------------------------
(* The parts of the invariant that speak of files and what was restored:    *)
(* taking away a file of the user's own leaves them true.                   *)
LEMMA OwnTaken ==
  ASSUME ScannerTypeOK, KeptApart, NEW p \in Own,
         files' = [f \in DOMAIN files \ {p} |-> files[f]], UNCHANGED recovered
  PROVE  /\ DOMAIN files' \subseteq FilePlaces /\ IsFiniteSet(DOMAIN files')
         /\ \A f \in DOMAIN files' : files'[f] \in FileContents
         /\ KeptApart'
<1>1. DOMAIN files' = DOMAIN files \ {p} /\ \A f \in DOMAIN files' : files'[f] = files[f]
  OBVIOUS
<1>2. IsFiniteSet(DOMAIN files')
  BY <1>1, FS_RemoveElement DEF ScannerTypeOK
<1>3. \A r \in Range(recovered) : r.file # p
  BY DEF Own
<1>4. KeptApart'
  <2>1. \A n, j \in DOMAIN recovered' : n # j => recovered'[n].file # recovered'[j].file
    BY DEF KeptApart
  <2>2. \A r \in Range(recovered') : r.file \in DOMAIN files' /\ files'[r.file] = r.content
    BY <1>1, <1>3 DEF KeptApart
  <2>3. \A f \in DOMAIN files' \ {r.file : r \in Range(recovered')} : files'[f] = f
    BY <1>1 DEF KeptApart
  <2> QED
    BY <2>1, <2>2, <2>3 DEF KeptApart
<1> QED
  BY <1>1, <1>2, <1>4 DEF ScannerTypeOK

LEMMA ScannerStart == ScannerInit => ScannerInv
<1> SUFFICES ASSUME ScannerInit PROVE ScannerInv
  OBVIOUS
<1>1. DOMAIN files = FirstFiles /\ \A f \in FirstFiles : files[f] = f
  BY DEF ScannerInit
<1>2. NoTask \in Tasks /\ task = NoTask
  BY DEF ScannerInit, NoTask, Tasks, TaskPhases, Places
<1>3. DOMAIN recovered = {} /\ Range(recovered) = {} /\ DOMAIN items = {}
  BY DEF ScannerInit, Range
<1>4. typed \in [target : Places, output : Places, requests : Nat]
  BY DirectoryRecoveryAssumption DEF ScannerInit
<1>5. ScannerTypeOK
  <2>1. \A f \in DOMAIN files : files[f] \in FileContents
    BY <1>1, DirectoryRecoveryAssumption DEF FileContents
  <2>2. IsFiniteSet(trash) /\ trash \subseteq Trashed
    BY FS_EmptySet DEF ScannerInit
  <2>3. scanned \in [dir : Places, erased : SUBSET FilePlaces]
    BY DEF ScannerInit, Places
  <2>4. DOMAIN files \subseteq FilePlaces /\ IsFiniteSet(DOMAIN files)
    <3>1. FirstFiles \subseteq FilePlaces /\ IsFiniteSet(FirstFiles)
      BY DirectoryRecoveryAssumption
    <3> QED
      BY <1>1, <3>1
  <2>5. /\ log \in Seq(AuditRecords) /\ journal \in Seq(AuditRecords)
        /\ items \in Seq(ItemRecords) /\ recovered \in Seq(Restored)
        /\ shown \in BOOLEAN /\ erased \subseteq FilePlaces
    <3>1. /\ log = <<>> /\ journal = <<>> /\ items = <<>> /\ recovered = <<>>
          /\ shown = FALSE /\ erased = {}
      BY DEF ScannerInit
    <3>2. /\ <<>> \in Seq(AuditRecords) /\ <<>> \in Seq(ItemRecords)
          /\ <<>> \in Seq(Restored)
      BY EmptySeq, Zenon
    <3> QED
      BY <3>1, <3>2
  <2>6. task \in Tasks /\ task.left \subseteq DOMAIN items
    BY <1>2 DEF NoTask
  <2> QED
    BY <1>4, <2>1, <2>2, <2>3, <2>4, <2>5, <2>6 DEF ScannerTypeOK
<1>6. ScanSoFar /\ ErasedLogged
  BY <1>2 DEF ScannerInit, ScanSoFar, ErasedLogged, NoTask, Scanning
<1>7. KeptApart
  BY <1>1, <1>3 DEF KeptApart
<1>8. ListedTrue
  BY <1>3 DEF ScannerInit, ListedTrue
<1> QED
  BY <1>5, <1>6, <1>7, <1>8 DEF ScannerInv

LEMMA DeleteKeeps == ScannerInv /\ Delete => ScannerInv'
<1> SUFFICES ASSUME ScannerInv, Delete PROVE ScannerInv'
  OBVIOUS
<1> DEFINE used == {t.slot : t \in trash}
           free(p) == {k \in 0..MaxTrash : <<Last(p), k>> \notin used}
           slot(p) == <<Last(p), Min(free(p))>>
<1>1. PICK p \in Own :
        /\ trash' = trash \cup {[slot |-> slot(p), path |-> p, content |-> files[p]]}
        /\ files' = [f \in DOMAIN files \ {p} |-> files[f]]
  BY DEF Delete
<1>2. Cardinality(trash) < MaxTrash /\ UNCHANGED <<audit, view, history>>
  BY DEF Delete
<1>3. p \in FilePlaces /\ files[p] \in FileContents
  BY DEF Own, ScannerInv, ScannerTypeOK
<1>4. Last(p) \in Names
  BY <1>3 DEF Last, FilePlaces, Places
<1>5. IsFiniteSet(used) /\ Cardinality(used) <= Cardinality(trash) /\ Cardinality(trash) \in Nat
  <2> DEFINE f == [t \in trash |-> t.slot]
  <2>1. f \in Surjection(trash, used)
    BY DEF Surjection
  <2>2. IsFiniteSet(trash)
    BY DEF ScannerInv, ScannerTypeOK
  <2> HIDE DEF f, used
  <2> QED
    BY <2>1, <2>2, FS_Surjection, FS_CardinalityType
<1> DEFINE n == Cardinality(used)
<1>6. n \in Nat /\ n < MaxTrash /\ MaxTrash \in Nat
  BY <1>2, <1>5, FS_CardinalityType, DirectoryRecoveryAssumption
<1>7. \E k \in 0..n : <<Last(p), k>> \notin used
  <2> DEFINE f == [k \in 0..n |-> <<Last(p), k>>]
  <2>1. f \in Injection(0..n, Names \X Nat)
    BY <1>4, <1>6 DEF Injection, IsInjective
  <2>2. \E k \in 0..n : f[k] \notin used
    <3> HIDE DEF f, used
    <3> QED
      BY <1>5, <2>1, OneIsFree
  <2> QED
    BY <2>2
<1>8. free(p) \in SUBSET Nat /\ free(p) # {}
  <2> HIDE DEF n, used
  <2> QED
    BY <1>6, <1>7
<1>9. slot(p) \in Names \X Nat
  <2>1. Min(free(p)) \in free(p)
    <3> HIDE DEF free
    <3> QED
      BY <1>8, LeastPresent
  <2> QED
    BY <1>4, <1>6, <2>1
<1> HIDE DEF slot, free, used, n
<1>10. trash' \subseteq Trashed /\ IsFiniteSet(trash')
  <2>1. [slot |-> slot(p), path |-> p, content |-> files[p]] \in Trashed
    BY <1>3, <1>9 DEF Trashed
  <2> QED
    BY <1>1, <2>1, FS_AddElement DEF ScannerInv, ScannerTypeOK
<1>11. /\ DOMAIN files' \subseteq FilePlaces /\ IsFiniteSet(DOMAIN files')
       /\ \A f \in DOMAIN files' : files'[f] \in FileContents
       /\ KeptApart'
  BY <1>1, <1>2, OwnTaken DEF ScannerInv, history
<1>12. ScannerTypeOK'
  BY <1>2, <1>10, <1>11 DEF ScannerInv, ScannerTypeOK, audit, view, history
<1>13. ScanSoFar' /\ ErasedLogged' /\ ListedTrue'
  BY <1>2 DEF ScannerInv, ScanSoFar, ErasedLogged, ListedTrue, audit, view, history
<1> QED
  BY <1>11, <1>12, <1>13, Zenon DEF ScannerInv

LEMMA PurgeKeeps == ScannerInv /\ Purge => ScannerInv'
<1> SUFFICES ASSUME ScannerInv, Purge PROVE ScannerInv'
  OBVIOUS
<1>1. PICK t \in trash : \/ trash' = trash \ {t}
                         \/ trash' = (trash \ {t}) \cup {[t EXCEPT !.content = Gone]}
  BY DEF Purge
<1>2. UNCHANGED <<files, audit, view, history>>
  BY DEF Purge
<1>3. [t EXCEPT !.content = Gone] \in Trashed
  <2>1. t \in Trashed
    BY Zenon DEF ScannerInv, ScannerTypeOK
  <2> QED
    BY ONLY <2>1 DEF Trashed, FileContents
<1>4. trash' \subseteq Trashed /\ IsFiniteSet(trash')
  <2>1. trash \subseteq Trashed /\ IsFiniteSet(trash)
    BY DEF ScannerInv, ScannerTypeOK
  <2>2. IsFiniteSet(trash \ {t})
    BY <2>1, FS_RemoveElement
  <2>3. IsFiniteSet((trash \ {t}) \cup {[t EXCEPT !.content = Gone]})
    BY <2>2, FS_AddElement
  <2> QED
    BY <1>1, <1>3, <2>1, <2>2, <2>3
<1>5. ScannerTypeOK'
  BY <1>2, <1>4 DEF ScannerInv, ScannerTypeOK, audit, view, history
<1> QED
  BY <1>2, <1>5 DEF ScannerInv, ScanSoFar, ErasedLogged, KeptApart, ListedTrue, audit, view, history

LEMMA EraseKeeps == ScannerInv /\ Erase => ScannerInv'
<1> SUFFICES ASSUME ScannerInv, Erase PROVE ScannerInv'
  OBVIOUS
<1>1. PICK p \in Own, ok \in BOOLEAN :
        /\ log' = Append(log, Record("erase", p, ok))
        /\ journal' \in {log', Append(journal, Record("erase", p, ok))}
        /\ files' = IF ok THEN [f \in DOMAIN files \ {p} |-> files[f]] ELSE files
        /\ erased' = IF ok THEN erased \cup {p} ELSE erased
  BY DEF Erase
<1>2. UNCHANGED <<trash, view, recovered>>
  BY DEF Erase
<1>3. p \in FilePlaces
  BY DEF Own, ScannerInv, ScannerTypeOK
<1>4. Record("erase", p, ok) \in AuditRecords
  BY <1>3 DEF Record, AuditRecords, FilePlaces
<1>5. log \in Seq(AuditRecords) /\ journal \in Seq(AuditRecords)
  BY DEF ScannerInv, ScannerTypeOK
<1>6. log' \in Seq(AuditRecords) /\ journal' \in Seq(AuditRecords)
  <2>1. /\ Append(log, Record("erase", p, ok)) \in Seq(AuditRecords)
        /\ Append(journal, Record("erase", p, ok)) \in Seq(AuditRecords)
    BY <1>4, <1>5, AppendProperties
  <2> QED
    BY <1>1, <2>1
<1>7. /\ DOMAIN files' \subseteq FilePlaces /\ IsFiniteSet(DOMAIN files')
      /\ \A f \in DOMAIN files' : files'[f] \in FileContents
      /\ KeptApart'
  <2>1. CASE ok
    BY <1>1, <1>2, <2>1, OwnTaken DEF ScannerInv
  <2>2. CASE ~ok
    BY <1>1, <1>2, <2>2 DEF ScannerInv, ScannerTypeOK, KeptApart
  <2> QED
    BY <2>1, <2>2
<1>8. erased' \subseteq FilePlaces
  BY <1>1, <1>3 DEF ScannerInv, ScannerTypeOK
<1>9. ScannerTypeOK'
  BY <1>2, <1>6, <1>7, <1>8 DEF ScannerInv, ScannerTypeOK, view
<1>10. ErasedLogged'
  <2>1. \A n \in DOMAIN log : n \in DOMAIN log' /\ log'[n] = log[n]
    BY <1>1, <1>4, <1>5
  <2>2. /\ Len(log) + 1 \in DOMAIN log'
        /\ log'[Len(log) + 1].op = "erase" /\ log'[Len(log) + 1].path = p
    BY <1>1, <1>4, <1>5 DEF Record
  <2>3. \A q \in erased' : q \in erased \/ q = p
    BY <1>1
  <2> QED
    BY <2>1, <2>2, <2>3 DEF ErasedLogged, ScannerInv
<1>11. ScanSoFar' /\ ListedTrue'
  BY <1>2 DEF ScannerInv, ScanSoFar, ListedTrue, view
<1> QED
  BY <1>7, <1>9, <1>10, <1>11 DEF ScannerInv

LEMMA RestartKeeps == ScannerInv /\ Restart => ScannerInv'
<1> SUFFICES ASSUME ScannerInv, Restart PROVE ScannerInv'
  OBVIOUS
<1>1. /\ log' = <<>> /\ items' = <<>> /\ shown' = FALSE /\ task' = NoTask
      /\ scanned' = [dir |-> <<>>, erased |-> {}] /\ erased' = {}
      /\ UNCHANGED <<files, trash, journal, typed, recovered>>
  BY DEF Restart, disk
<1>2. NoTask \in Tasks /\ NoTask.left = {} /\ NoTask.phase = "idle"
  BY DEF NoTask, Tasks, TaskPhases, Places
<1>3. scanned' \in [dir : Places, erased : SUBSET FilePlaces]
  BY <1>1 DEF Places
<1>4. ScannerTypeOK'
  <2>1. log' \in Seq(AuditRecords) /\ items' \in Seq(ItemRecords)
    BY <1>1
  <2>2. task' \in Tasks /\ task'.left \subseteq DOMAIN items'
    BY <1>1, <1>2
  <2>3. shown' \in BOOLEAN /\ erased' \subseteq FilePlaces
    BY <1>1
  <2> QED
    BY <1>1, <1>3, <2>1, <2>2, <2>3 DEF ScannerInv, ScannerTypeOK
<1>5. ScanSoFar' /\ ErasedLogged' /\ ListedTrue'
  BY <1>1, <1>2 DEF ScannerInv, ScanSoFar, ErasedLogged, ListedTrue, Scanning
<1>6. KeptApart'
  BY <1>1 DEF ScannerInv, KeptApart
<1> QED
  BY <1>4, <1>5, <1>6 DEF ScannerInv

LEMMA EditPathsKeeps == ScannerInv /\ EditPaths => ScannerInv'
<1> SUFFICES ASSUME ScannerInv, EditPaths PROVE ScannerInv'
  OBVIOUS
<1>1. PICK t \in Targets, o \in Outputs :
        typed' = [typed EXCEPT !.target = t, !.output = o]
  BY DEF EditPaths
<1>2. UNCHANGED <<files, trash, log, journal, items, task, scanned, erased, recovered>>
  BY DEF EditPaths, disk, audit, history
<1>3. shown' \in BOOLEAN /\ (shown' => shown)
  BY DEF EditPaths, ScannerInv, ScannerTypeOK
<1>4. typed' \in [target : Places, output : Places, requests : Nat]
  <2>1. t \in Places /\ o \in Places
    BY DirectoryRecoveryAssumption
  <2> QED
    BY <1>1, <2>1 DEF ScannerInv, ScannerTypeOK
<1>5. ScannerTypeOK'
  BY <1>2, <1>3, <1>4 DEF ScannerInv, ScannerTypeOK
<1>6. ScanSoFar' /\ ErasedLogged' /\ KeptApart' /\ ListedTrue'
  BY <1>2, <1>3 DEF ScannerInv, ScanSoFar, ErasedLogged, KeptApart, ListedTrue
<1> QED
  BY <1>5, <1>6 DEF ScannerInv

LEMMA Checkbox ==
  ASSUME NEW x \in ItemRecords, NEW b \in BOOLEAN
  PROVE  LET y == [x EXCEPT !.selected = b]
         IN  y \in ItemRecords /\ y.kind = x.kind /\ y.path = x.path
BY DEF ItemRecords

LEMMA SelectKeeps == ScannerInv /\ Select => ScannerInv'
<1> SUFFICES ASSUME ScannerInv, Select PROVE ScannerInv'
  OBVIOUS
<1>1. PICK chosen \in SUBSET DOMAIN items :
        items' = [k \in DOMAIN items |-> [items[k] EXCEPT !.selected = k \in chosen]]
  BY DEF Select
<1>2. /\ task.phase = "idle"
      /\ UNCHANGED <<files, trash, log, journal, typed, shown, task, scanned, erased, recovered>>
  BY DEF Select, disk, audit, history
<1>3. items \in Seq(ItemRecords) /\ task \in Tasks
  BY DEF ScannerInv, ScannerTypeOK
<1>4. ASSUME NEW k \in DOMAIN items
      PROVE  LET x == [items[k] EXCEPT !.selected = k \in chosen]
             IN  x \in ItemRecords /\ x.kind = items[k].kind /\ x.path = items[k].path
  <2>1. items[k] \in ItemRecords /\ (k \in chosen) \in BOOLEAN
    BY <1>3
  <2> QED
    BY <2>1, Checkbox
<1>5. /\ DOMAIN items' = DOMAIN items
      /\ \A k \in DOMAIN items : /\ items'[k] \in ItemRecords
                                 /\ items'[k].kind = items[k].kind
                                 /\ items'[k].path = items[k].path
  BY <1>1, <1>4
<1>6. items' \in Seq(ItemRecords)
  <2>1. DOMAIN items = 1..Len(items) /\ Len(items) \in Nat
    BY <1>3
  <2>2. items' \in [1..Len(items) -> ItemRecords]
    BY <1>1, <1>5, <2>1
  <2> QED
    BY <2>1, <2>2
<1>7. ScannerTypeOK'
  BY <1>2, <1>5, <1>6 DEF ScannerInv, ScannerTypeOK
<1>8. ScanSoFar' /\ ErasedLogged' /\ KeptApart'
  BY <1>2 DEF ScannerInv, ScanSoFar, ErasedLogged, KeptApart, Scanning
<1>9. ListedTrue'
  BY <1>2, <1>5 DEF ScannerInv, ListedTrue
<1> QED
  BY <1>7, <1>8, <1>9, Zenon DEF ScannerInv

(* A request begins: nothing but the task, the count of requests and what   *)
(* is shown changes.                                                       *)
LEMMA StartKeeps ==
  ASSUME ScannerInv, NEW request \in Tasks, Start(request),
         shown' \in BOOLEAN, shown' => shown,
         request.left \subseteq DOMAIN items,
         request.phase \notin {"metadata", "records"},
         request.phase = "trash" => ~shown' /\ request.left = {}
  PROVE  ScannerInv'
<1>1. /\ task' = request /\ typed' = [typed EXCEPT !.requests = @ + 1]
      /\ UNCHANGED <<files, trash, log, journal, items, scanned, erased, recovered>>
  BY DEF Start, disk, audit, history
<1>2. typed' \in [target : Places, output : Places, requests : Nat]
  <2>1. typed \in [target : Places, output : Places, requests : Nat]
    BY Zenon DEF ScannerInv, ScannerTypeOK
  <2>2. typed' = [typed EXCEPT !.requests = @ + 1]
    BY <1>1, Zenon
  <2> QED
    BY ONLY <2>1, <2>2
<1>3. task' \in Tasks /\ task'.left \subseteq DOMAIN items'
  BY <1>1
<1>4. ScannerTypeOK'
  BY <1>1, <1>2, <1>3 DEF ScannerInv, ScannerTypeOK
<1>5. ScanSoFar' /\ ErasedLogged'
  BY <1>1 DEF ScannerInv, ScanSoFar, ErasedLogged, Scanning
<1>6. KeptApart' /\ ListedTrue'
  BY <1>1 DEF ScannerInv, KeptApart, ListedTrue
<1> QED
  BY <1>4, <1>5, <1>6 DEF ScannerInv

LEMMA StartScanKeeps == ScannerInv /\ StartScan => ScannerInv'
<1> SUFFICES ASSUME ScannerInv, StartScan PROVE ScannerInv'
  OBVIOUS
<1> DEFINE request == [NoTask EXCEPT !.phase = "trash", !.dir = typed.target]
<1>1. typed.target \in Places /\ <<>> \in Places
  BY DEF ScannerInv, ScannerTypeOK, Places
<1>2. request \in Tasks /\ request.phase = "trash" /\ request.left = {}
  BY <1>1 DEF NoTask, Tasks, TaskPhases
<1>3. Start(request) /\ shown' = FALSE
  BY DEF StartScan
<1> HIDE DEF request
<1> QED
  BY <1>2, <1>3, StartKeeps

LEMMA CommandKeeps == ScannerInv /\ Command => ScannerInv'
<1> SUFFICES ASSUME ScannerInv, Command PROVE ScannerInv'
  OBVIOUS
<1> DEFINE request(o) == [NoTask EXCEPT !.phase = "trash", !.dir = typed.target,
                                     !.out = o, !.command = TRUE]
<1>1. PICK o \in Outputs : Start(request(o))
  BY DEF Command
<1>2. typed.target \in Places /\ o \in Places
  BY DirectoryRecoveryAssumption DEF ScannerInv, ScannerTypeOK
<1>3. request(o) \in Tasks /\ request(o).phase = "trash" /\ request(o).left = {}
  BY <1>2 DEF NoTask, Tasks, TaskPhases, Places
<1>4. shown' = FALSE
  BY DEF Command
<1> HIDE DEF request
<1> QED
  BY <1>1, <1>3, <1>4, StartKeeps

LEMMA StartRecoveryKeeps == ScannerInv /\ StartRecovery => ScannerInv'
<1> SUFFICES ASSUME ScannerInv, StartRecovery PROVE ScannerInv'
  OBVIOUS
<1> DEFINE request == [NoTask EXCEPT !.phase = "check", !.dir = typed.target,
                                  !.out = typed.output, !.left = Chosen,
                                  !.asked = Cardinality(Chosen)]
<1>1. typed.target \in Places /\ typed.output \in Places /\ items \in Seq(ItemRecords)
  BY DEF ScannerInv, ScannerTypeOK
<1>2. DOMAIN items = 1..Len(items) /\ Len(items) \in Nat
  BY <1>1
<1>3. Chosen \in SUBSET Nat /\ Chosen \subseteq DOMAIN items /\ Cardinality(Chosen) \in Nat
  <2>1. Chosen \subseteq 1..Len(items)
    BY <1>2 DEF Chosen
  <2>2. IsFiniteSet(1..Len(items))
    BY <1>2, FS_Interval
  <2>3. IsFiniteSet(Chosen)
    BY <2>1, <2>2, FS_Subset
  <2> QED
    BY <1>2, <2>1, <2>3, FS_CardinalityType
<1>4. request \in Tasks /\ request.phase = "check" /\ request.left = Chosen
  BY <1>1, <1>3 DEF NoTask, Tasks, TaskPhases, Places
<1>5. Start(request) /\ UNCHANGED shown
  BY DEF StartRecovery
<1>6. shown \in BOOLEAN
  BY DEF ScannerInv, ScannerTypeOK
<1> HIDE DEF request
<1> QED
  BY <1>3, <1>4, <1>5, <1>6, StartKeeps

(* The three steps of a scan. *)
LEMMA FoundKeepsRest ==
  ASSUME ScannerInv, NEW more, NEW phase, Found(more, phase)
  PROVE  /\ items' = more /\ task' = [task EXCEPT !.phase = phase]
         /\ UNCHANGED <<files, trash, journal, typed, erased, recovered>>
         /\ KeptApart'
BY DEF Found, disk, history, ScannerInv, KeptApart

LEMMA Rephased ==
  ASSUME NEW t \in Tasks, NEW p \in TaskPhases
  PROVE  LET u == [t EXCEPT !.phase = p]
         IN  u \in Tasks /\ u.phase = p /\ u.dir = t.dir /\ u.left = t.left
BY DEF Tasks

LEMMA ScanTrashKeeps == ScannerInv /\ ScanTrash => ScannerInv'
<1> SUFFICES ASSUME ScannerInv, ScanTrash PROVE ScannerInv'
  OBVIOUS
<1> DEFINE more == ScanTrashJournals(task.dir)
<1>1. /\ task.phase = "trash" /\ Found(more, "metadata")
      /\ UNCHANGED <<log, shown, scanned>>
  BY DEF ScanTrash
<1>2. task \in Tasks /\ task.dir \in Places /\ task.left = {} /\ ~shown
  BY <1>1 DEF ScannerInv, ScannerTypeOK, Tasks, ScanSoFar, Scanning
<1>3. /\ more \in Seq(ItemRecords)
      /\ \A k \in DOMAIN more : more[k].kind = "trash" /\ IsPrefix(task.dir, more[k].path)
  BY <1>2, TrashItems DEF ScannerInv
<1> HIDE DEF more
<1>4. /\ items' = more /\ task' = [task EXCEPT !.phase = "metadata"]
      /\ UNCHANGED <<files, trash, journal, typed, erased, recovered>>
      /\ KeptApart'
  BY <1>1, FoundKeepsRest
<1>5. task' \in Tasks /\ task'.phase = "metadata" /\ task'.dir = task.dir /\ task'.left = {}
  BY <1>2, <1>4, Rephased DEF TaskPhases
<1>6. ScannerTypeOK'
  BY <1>1, <1>3, <1>4, <1>5 DEF ScannerInv, ScannerTypeOK
<1>7. ScanSoFar'
  BY <1>1, <1>2, <1>3, <1>4, <1>5 DEF ScanSoFar, Scanning
<1>8. ErasedLogged' /\ ListedTrue'
  BY <1>1, <1>2, <1>4 DEF ScannerInv, ErasedLogged, ListedTrue
<1> QED
  BY <1>4, <1>6, <1>7, <1>8 DEF ScannerInv

LEMMA ScanMetadataKeeps == ScannerInv /\ ScanMetadata => ScannerInv'
<1> SUFFICES ASSUME ScannerInv, ScanMetadata PROVE ScannerInv'
  OBVIOUS
<1> DEFINE tombs == ScanFilesystemMetadata(task.dir)
           more == items \o tombs
<1>1. /\ task.phase = "metadata" /\ Found(more, "records")
      /\ UNCHANGED <<log, shown, scanned>>
  BY DEF ScanMetadata
<1>2. /\ task \in Tasks /\ task.dir \in Places /\ task.left = {} /\ ~shown
      /\ items \in Seq(ItemRecords)
  BY <1>1 DEF ScannerInv, ScannerTypeOK, Tasks, ScanSoFar, Scanning
<1>3. tombs \in Seq(ItemRecords) /\ \A k \in DOMAIN tombs : tombs[k].kind = "tomb"
  BY <1>2, TombItems
<1>4. \A k \in DOMAIN items :
        items[k].kind = "tomb" \/ (items[k].kind = "trash" /\ IsPrefix(task.dir, items[k].path))
  BY <1>1 DEF ScannerInv, ScanSoFar
<1> HIDE DEF tombs
<1>5. more \in Seq(ItemRecords)
  BY <1>2, <1>3
<1>6. \A k \in DOMAIN more :
        more[k].kind = "tomb" \/ (more[k].kind = "trash" /\ IsPrefix(task.dir, more[k].path))
  <2> SUFFICES ASSUME NEW k \in DOMAIN more
               PROVE  more[k].kind = "tomb"
                      \/ (more[k].kind = "trash" /\ IsPrefix(task.dir, more[k].path))
    OBVIOUS
  <2>1. CASE k <= Len(items)
    BY <1>2, <1>3, <1>4, <2>1
  <2>2. CASE ~(k <= Len(items))
    BY <1>2, <1>3, <2>2
  <2> QED
    BY <2>1, <2>2
<1> HIDE DEF more
<1>7. /\ items' = more /\ task' = [task EXCEPT !.phase = "records"]
      /\ UNCHANGED <<files, trash, journal, typed, erased, recovered>>
      /\ KeptApart'
  BY <1>1, FoundKeepsRest
<1>8. task' \in Tasks /\ task'.phase = "records" /\ task'.dir = task.dir /\ task'.left = {}
  BY <1>2, <1>7, Rephased DEF TaskPhases
<1>9. ScannerTypeOK'
  BY <1>1, <1>5, <1>7, <1>8 DEF ScannerInv, ScannerTypeOK
<1>10. ScanSoFar'
  BY <1>1, <1>2, <1>6, <1>7, <1>8 DEF ScanSoFar, Scanning
<1>11. ErasedLogged' /\ ListedTrue'
  BY <1>1, <1>2, <1>7 DEF ScannerInv, ErasedLogged, ListedTrue
<1> QED
  BY <1>7, <1>9, <1>10, <1>11 DEF ScannerInv

LEMMA ScanRecordsKeeps == ScannerInv /\ ScanRecords => ScannerInv'
<1> SUFFICES ASSUME ScannerInv, ScanRecords PROVE ScannerInv'
  OBVIOUS
<1> DEFINE found == ScanSanitizedAuditRecords(task.dir, LogRead)
           all == items \o found
<1>1. /\ task.phase = "records"
      /\ items' = all
      /\ task' = IF task.command /\ all # <<>>
                 THEN [task EXCEPT !.phase = "check", !.left = DOMAIN all, !.asked = Len(all)]
                 ELSE NoTask
      /\ log' = LogRead
      /\ shown' = ~task.command
      /\ scanned' = [dir |-> task.dir, erased |-> erased]
      /\ UNCHANGED <<files, trash, journal, typed, erased, recovered>>
  BY DEF ScanRecords, disk, history
<1>2. /\ task \in Tasks /\ task.dir \in Places /\ items \in Seq(ItemRecords)
      /\ erased \subseteq FilePlaces
  BY DEF ScannerInv, ScannerTypeOK, Tasks
<1>3. /\ LogRead \in Seq(AuditRecords)
      /\ \A p \in erased : \E k \in DOMAIN LogRead : LogRead[k].op = "erase" /\ LogRead[k].path = p
  <2>1. CASE log = <<>>
    BY <2>1 DEF ScannerInv, ScannerTypeOK, ErasedLogged, LogRead
  <2>2. CASE log # <<>>
    BY <2>2 DEF ScannerInv, ScannerTypeOK, ErasedLogged, LogRead
  <2> QED
    BY <2>1, <2>2
<1>4. /\ found \in Seq(ItemRecords)
      /\ \A k \in DOMAIN found : found[k].kind = "sanitized" /\ IsPrefix(task.dir, found[k].path)
      /\ \A k \in DOMAIN LogRead :
           LogRead[k].op = "erase" /\ PathStartsWith(LogRead[k].path, task.dir) =>
             \E n \in DOMAIN found : found[n].path = LogRead[k].path /\ found[n].kind = "sanitized"
  BY <1>2, <1>3, AuditItems
<1>5. \A k \in DOMAIN items :
        items[k].kind = "tomb" \/ (items[k].kind = "trash" /\ IsPrefix(task.dir, items[k].path))
  BY <1>1 DEF ScannerInv, ScanSoFar
<1> HIDE DEF found
<1>6. all \in Seq(ItemRecords)
  BY <1>2, <1>4
<1>7. \A k \in DOMAIN all : all[k].kind # "tomb" => IsPrefix(task.dir, all[k].path)
  <2> SUFFICES ASSUME NEW k \in DOMAIN all, all[k].kind # "tomb"
               PROVE  IsPrefix(task.dir, all[k].path)
    OBVIOUS
  <2>1. CASE k <= Len(items)
    BY <1>2, <1>4, <1>5, <2>1
  <2>2. CASE ~(k <= Len(items))
    BY <1>2, <1>4, <2>2
  <2> QED
    BY <2>1, <2>2
<1>8. ASSUME NEW p \in erased, IsPrefix(task.dir, p), task.dir # <<>>
      PROVE  \E k \in DOMAIN all : all[k].path = p /\ all[k].kind = "sanitized"
  <2>1. PathStartsWith(p, task.dir)
    BY <1>8, PrefixStarts
  <2>2. PICK n \in DOMAIN found : found[n].path = p /\ found[n].kind = "sanitized"
    BY <1>3, <1>4, <2>1
  <2>3. Len(items) + n \in DOMAIN all /\ all[Len(items) + n] = found[n]
    BY <1>2, <1>4
  <2> QED
    BY <2>2, <2>3
<1> HIDE DEF all
<1>9. task' \in Tasks /\ task'.left \subseteq DOMAIN items' /\ task'.phase \in {"check", "idle"}
  <2>1. DOMAIN all \in SUBSET Nat /\ Len(all) \in Nat
    BY <1>6
  <2>2. CASE task.command /\ all # <<>>
    <3>1. task' = [task EXCEPT !.phase = "check", !.left = DOMAIN all, !.asked = Len(all)]
      BY <1>1, <2>2
    <3>2. task' \in Tasks /\ task'.left = DOMAIN all /\ task'.phase = "check"
      BY <1>2, <2>1, <3>1 DEF Tasks, TaskPhases
    <3> QED
      BY <1>1, <3>2
  <2>3. CASE ~(task.command /\ all # <<>>)
    <3>1. NoTask \in Tasks /\ NoTask.left = {} /\ NoTask.phase = "idle"
      BY DEF NoTask, Tasks, TaskPhases, Places
    <3>2. task' = NoTask
      BY <1>1, <2>3
    <3> QED
      BY <3>1, <3>2
  <2> QED
    BY <2>2, <2>3
<1>10. shown' \in BOOLEAN
  BY <1>1
<1>11. scanned' \in [dir : Places, erased : SUBSET FilePlaces]
  BY <1>1, <1>2
<1>12. ScannerTypeOK'
  <2>1. log' \in Seq(AuditRecords) /\ items' \in Seq(ItemRecords)
    BY <1>1, <1>3, <1>6
  <2> QED
    BY <1>1, <1>9, <1>10, <1>11, <2>1 DEF ScannerInv, ScannerTypeOK
<1>13. ScanSoFar' /\ ErasedLogged' /\ KeptApart'
  BY <1>1, <1>3, <1>9 DEF ScannerInv, ScanSoFar, ErasedLogged, KeptApart, Scanning
<1>14. ListedTrue'
  <2>1. \A k \in DOMAIN items' : items'[k].kind # "tomb" => IsPrefix(scanned'.dir, items'[k].path)
    BY <1>1, <1>7
  <2>2. \A p \in scanned'.erased : IsPrefix(scanned'.dir, p) /\ scanned'.dir # <<>> =>
          \E k \in DOMAIN items' : items'[k].path = p /\ items'[k].kind = "sanitized"
    BY <1>1, <1>8
  <2>3. \A r \in Range(recovered') : r.item.kind # "sanitized"
    BY <1>1 DEF ScannerInv, ListedTrue
  <2> QED
    BY <2>1, <2>2, <2>3 DEF ListedTrue
<1> QED
  BY <1>12, <1>13, <1>14 DEF ScannerInv

(* A request that goes on, with fewer positions to do, or ends.             *)
LEMMA TaskGoesOn ==
  ASSUME ScannerInv, task' \in Tasks, task'.left \subseteq task.left,
         task'.phase \notin Scanning,
         UNCHANGED <<trash, typed, items, shown, scanned, erased>>,
         /\ DOMAIN files' \subseteq FilePlaces /\ IsFiniteSet(DOMAIN files')
         /\ \A f \in DOMAIN files' : files'[f] \in FileContents,
         log' \in Seq(AuditRecords), journal' \in Seq(AuditRecords),
         \A k \in DOMAIN log : k \in DOMAIN log' /\ log'[k] = log[k],
         recovered' \in Seq(Restored), KeptApart',
         \A r \in Range(recovered') : r.item.kind # "sanitized"
  PROVE  ScannerInv'
<1>1. ScannerTypeOK'
  BY DEF ScannerInv, ScannerTypeOK
<1>2. ScanSoFar'
  BY DEF ScanSoFar, Scanning
<1>3. ErasedLogged'
  BY DEF ScannerInv, ErasedLogged
<1>4. ListedTrue'
  BY DEF ScannerInv, ListedTrue
<1> QED
  BY <1>1, <1>2, <1>3, <1>4 DEF ScannerInv

LEMMA Idle ==
  NoTask \in Tasks /\ NoTask.left = {} /\ NoTask.phase = "idle"
BY DEF NoTask, Tasks, TaskPhases, Places

LEMMA CheckDestinationKeeps == ScannerInv /\ CheckDestination => ScannerInv'
<1> SUFFICES ASSUME ScannerInv, CheckDestination PROVE ScannerInv'
  OBVIOUS
<1>1. UNCHANGED <<files, trash, log, journal, typed, items, shown, scanned, erased, recovered>>
  BY DEF CheckDestination, disk, audit, history
<1>2. task' \in {NoTask, [task EXCEPT !.phase = "recover"]} /\ task \in Tasks
  BY DEF CheckDestination, ScannerInv, ScannerTypeOK
<1>3. task' \in Tasks /\ task'.left \subseteq task.left /\ task'.phase \notin Scanning
  <2>1. /\ [task EXCEPT !.phase = "recover"] \in Tasks
        /\ [task EXCEPT !.phase = "recover"].left = task.left
        /\ [task EXCEPT !.phase = "recover"].phase = "recover"
    BY <1>2, Rephased DEF TaskPhases
  <2> QED
    BY <1>2, <2>1, Idle DEF Scanning
<1>4. KeptApart' /\ \A r \in Range(recovered') : r.item.kind # "sanitized"
  BY <1>1 DEF ScannerInv, KeptApart, ListedTrue
<1> QED
  BY <1>1, <1>3, <1>4, TaskGoesOn DEF ScannerInv, ScannerTypeOK

(* What is copied is a content, and nothing is copied for what was          *)
(* sanitized.                                                              *)
LEMMA PayloadTypes ==
  ASSUME ScannerTypeOK, NEW item \in ItemRecords, NEW content \in Payload(item), content # Gone
  PROVE  content \in FileContents /\ item.kind # "sanitized"
<1>1. item.kind \in Kinds /\ item.path \in FilePlaces
  BY DEF ItemRecords
<1>2. CASE item.kind = "trash"
  <2>1. PICK t \in trash : content = t.content
    BY <1>2 DEF Payload
  <2> QED
    BY <1>2, <2>1 DEF ScannerTypeOK, Trashed
<1>3. CASE item.kind = "tomb"
  BY <1>1, <1>3 DEF Payload, FileContents
<1>4. CASE item.kind = "sanitized"
  BY <1>4 DEF Payload
<1> QED
  BY <1>1, <1>2, <1>3, <1>4 DEF Kinds

(* A file put where there was none leaves all others as they are.           *)
LEMMA RestoredApart ==
  ASSUME ScannerTypeOK, KeptApart, NEW r \in Restored, r.file \notin DOMAIN files,
         files' = [f \in DOMAIN files \cup {r.file} |->
                     IF f = r.file THEN r.content ELSE files[f]],
         recovered' = Append(recovered, r)
  PROVE  KeptApart'
<1>1. recovered \in Seq(Restored)
  BY DEF ScannerTypeOK
<1>2. /\ recovered' \in Seq(Restored) /\ DOMAIN recovered' = 1..(Len(recovered) + 1)
      /\ \A k \in DOMAIN recovered : k \in DOMAIN recovered' /\ recovered'[k] = recovered[k]
      /\ recovered'[Len(recovered) + 1] = r
  BY <1>1, AppendProperties
<1>3. \A k \in DOMAIN recovered' : k \in DOMAIN recovered \/ recovered'[k] = r
  BY <1>1, <1>2
<1>4. \A x : x \in Range(recovered') <=> x \in Range(recovered) \/ x = r
  <2>1. Len(recovered) + 1 \in DOMAIN recovered'
    BY <1>1, <1>2
  <2> QED
    BY <1>2, <1>3, <2>1 DEF Range
<1>5. \A k \in DOMAIN recovered : recovered[k].file # r.file
  BY DEF KeptApart, Range
<1>6. \A j, k \in DOMAIN recovered' : j # k => recovered'[j].file # recovered'[k].file
  <2> SUFFICES ASSUME NEW j \in DOMAIN recovered', NEW k \in DOMAIN recovered', j # k
               PROVE  recovered'[j].file # recovered'[k].file
    OBVIOUS
  <2>1. CASE j \in DOMAIN recovered /\ k \in DOMAIN recovered
    BY <1>2, <2>1 DEF KeptApart
  <2>2. CASE j \in DOMAIN recovered /\ k \notin DOMAIN recovered
    BY <1>2, <1>3, <1>5, <2>2
  <2>3. CASE j \notin DOMAIN recovered /\ k \in DOMAIN recovered
    BY <1>2, <1>3, <1>5, <2>3
  <2>4. CASE j \notin DOMAIN recovered /\ k \notin DOMAIN recovered
    <3>1. j = Len(recovered) + 1 /\ k = Len(recovered) + 1
      BY <1>1, <1>2, <2>4
    <3> QED
      BY <3>1
  <2> QED
    BY <2>1, <2>2, <2>3, <2>4
<1>7. \A x \in Range(recovered') : x.file \in DOMAIN files' /\ files'[x.file] = x.content
  <2> SUFFICES ASSUME NEW x \in Range(recovered')
               PROVE  x.file \in DOMAIN files' /\ files'[x.file] = x.content
    OBVIOUS
  <2>1. CASE x = r
    BY <2>1
  <2>2. CASE x \in Range(recovered)
    BY <2>2 DEF KeptApart
  <2> QED
    BY <1>4, <2>1, <2>2
<1>8. \A f \in DOMAIN files' \ {x.file : x \in Range(recovered')} : files'[f] = f
  <2> SUFFICES ASSUME NEW f \in DOMAIN files', f \notin {x.file : x \in Range(recovered')}
               PROVE  files'[f] = f
    OBVIOUS
  <2>1. f # r.file /\ f \notin {x.file : x \in Range(recovered)}
    BY <1>4
  <2> QED
    BY <2>1 DEF KeptApart
<1> QED
  BY <1>6, <1>7, <1>8 DEF KeptApart

LEMMA OneDone ==
  ASSUME NEW t \in Tasks, NEW rest \in SUBSET Nat
  PROVE  LET u == [t EXCEPT !.left = rest, !.count = @ + 1]
         IN  u \in Tasks /\ u.left = rest /\ u.phase = t.phase
<1> DEFINE v == [t EXCEPT !.left = rest]
           u == [v EXCEPT !.count = t.count + 1]
<1>1. t.count + 1 \in Nat
  BY DEF Tasks
<1>2. v \in Tasks /\ v.left = rest /\ v.phase = t.phase
  BY DEF Tasks
<1>3. [t EXCEPT !.left = rest, !.count = @ + 1] = u
  BY DEF Tasks
<1> HIDE DEF v
<1>4. u \in Tasks /\ u.left = rest /\ u.phase = t.phase
  BY <1>1, <1>2 DEF Tasks
<1> QED
  BY <1>3, <1>4

LEMMA RecoverItemKeeps == ScannerInv /\ RecoverItem => ScannerInv'
<1> SUFFICES ASSUME ScannerInv, RecoverItem PROVE ScannerInv'
  OBVIOUS
<1> DEFINE item == items[Min(task.left)]
           target == FreeName(task.out, Last(item.path))
           rest == task.left \ {Min(task.left)}
<1>1. /\ task.phase = "recover" /\ task.left # {}
      /\ UNCHANGED <<trash, log, journal, typed, items, shown, scanned, erased>>
  BY DEF RecoverItem, audit
<1>2. PICK content \in Payload(item) :
        IF content = Gone
        THEN /\ task' = [task EXCEPT !.left = rest]
             /\ UNCHANGED <<files, recovered>>
        ELSE /\ files' = [f \in DOMAIN files \cup {target} |->
                            IF f = target THEN content ELSE files[f]]
             /\ recovered' = Append(recovered, [file |-> target, content |-> content,
                                                item |-> item, from |-> scanned.dir])
             /\ task' = [task EXCEPT !.left = rest, !.count = @ + 1]
  BY DEF RecoverItem
<1>3. /\ task \in Tasks /\ task.left \subseteq DOMAIN items /\ items \in Seq(ItemRecords)
      /\ task.left \in SUBSET Nat /\ task.out \in Places /\ scanned.dir \in Places
      /\ IsFiniteSet(DOMAIN files) /\ recovered \in Seq(Restored)
  BY DEF ScannerInv, ScannerTypeOK, Tasks
<1>4. Min(task.left) \in task.left
  BY <1>1, <1>3, LeastPresent
<1>5. item \in ItemRecords /\ item.path \in FilePlaces
  <2>1. item \in ItemRecords
    BY <1>3, <1>4
  <2> QED
    BY <2>1 DEF ItemRecords
<1>6. Last(item.path) \in Names
  BY <1>5 DEF Last, FilePlaces, Places
<1>7. target \in FilePlaces \ DOMAIN files
  BY <1>3, <1>6, FreeNameIsFree
<1>8. rest \subseteq task.left
  OBVIOUS
<1> HIDE DEF item, target, rest
<1>9. /\ log' \in Seq(AuditRecords) /\ journal' \in Seq(AuditRecords)
      /\ \A k \in DOMAIN log : k \in DOMAIN log' /\ log'[k] = log[k]
  BY <1>1 DEF ScannerInv, ScannerTypeOK
<1>10. CASE content = Gone
  <2>1. task' = [task EXCEPT !.left = rest] /\ UNCHANGED <<files, recovered>>
    BY <1>2, <1>10
  <2>2. task' \in Tasks /\ task'.left \subseteq task.left /\ task'.phase \notin Scanning
    BY <1>1, <1>3, <1>8, <2>1 DEF Tasks, Scanning
  <2>3. KeptApart' /\ \A r \in Range(recovered') : r.item.kind # "sanitized"
    BY <2>1 DEF ScannerInv, KeptApart, ListedTrue
  <2> QED
    BY <1>1, <1>9, <2>1, <2>2, <2>3, TaskGoesOn DEF ScannerInv, ScannerTypeOK
<1>11. CASE content # Gone
  <2> DEFINE r == [file |-> target, content |-> content, item |-> item, from |-> scanned.dir]
  <2>1. /\ files' = [f \in DOMAIN files \cup {target} |->
                       IF f = target THEN content ELSE files[f]]
        /\ recovered' = Append(recovered, r)
        /\ task' = [task EXCEPT !.left = rest, !.count = @ + 1]
    BY <1>2, <1>11
  <2>2. content \in FileContents /\ item.kind # "sanitized"
    BY <1>2, <1>5, <1>11, PayloadTypes DEF ScannerInv
  <2>3. r \in Restored /\ r.file = target /\ r.content = content /\ r.item = item
    BY <1>3, <1>5, <1>7, <2>2 DEF Restored
  <2>4. task' \in Tasks /\ task'.left \subseteq task.left /\ task'.phase \notin Scanning
    <3>1. rest \in SUBSET Nat
      BY <1>3, <1>8
    <3>2. /\ [task EXCEPT !.left = rest, !.count = @ + 1] \in Tasks
          /\ [task EXCEPT !.left = rest, !.count = @ + 1].left = rest
          /\ [task EXCEPT !.left = rest, !.count = @ + 1].phase = task.phase
      BY <1>3, <3>1, OneDone
    <3> QED
      BY <1>1, <1>8, <2>1, <3>2 DEF Scanning
  <2> HIDE DEF r
  <2>5. KeptApart'
    BY <1>7, <2>1, <2>3, RestoredApart DEF ScannerInv
  <2>6. /\ DOMAIN files' \subseteq FilePlaces /\ IsFiniteSet(DOMAIN files')
        /\ \A f \in DOMAIN files' : files'[f] \in FileContents
    <3>1. DOMAIN files' = DOMAIN files \cup {target}
      BY <2>1
    <3>2. IsFiniteSet(DOMAIN files \cup {target})
      BY <1>3, FS_AddElement
    <3> QED
      BY <1>7, <2>1, <2>2, <3>1, <3>2 DEF ScannerInv, ScannerTypeOK
  <2>7. recovered' \in Seq(Restored)
    BY <1>3, <2>1, <2>3, AppendProperties
  <2>8. \A x \in Range(recovered') : x.item.kind # "sanitized"
    <3>1. \A x \in Range(recovered') : x \in Range(recovered) \/ x = r
      BY <1>3, <2>1, <2>3 DEF Range
    <3> QED
      BY <2>2, <2>3, <3>1 DEF ScannerInv, ListedTrue
  <2> QED
    BY <1>1, <1>9, <2>4, <2>5, <2>6, <2>7, <2>8, TaskGoesOn
<1> QED
  BY <1>10, <1>11

LEMMA FinishRecoveryKeeps == ScannerInv /\ FinishRecovery => ScannerInv'
<1> SUFFICES ASSUME ScannerInv, FinishRecovery PROVE ScannerInv'
  OBVIOUS
<1> DEFINE entry == Record("recover", task.dir, task.count > 0 \/ task.asked = 0)
<1>1. /\ log' = Append(log, entry) /\ journal' = Append(journal, entry) /\ task' = NoTask
      /\ UNCHANGED <<files, trash, typed, items, shown, scanned, erased, recovered>>
  BY DEF FinishRecovery, disk, history
<1>2. /\ task.dir \in Places /\ log \in Seq(AuditRecords) /\ journal \in Seq(AuditRecords)
  BY DEF ScannerInv, ScannerTypeOK, Tasks
<1>3. entry \in AuditRecords
  <2>1. (task.count > 0 \/ task.asked = 0) \in BOOLEAN
    OBVIOUS
  <2> QED
    BY <1>2, <2>1 DEF Record, AuditRecords
<1> HIDE DEF entry
<1>4. /\ log' \in Seq(AuditRecords) /\ journal' \in Seq(AuditRecords)
      /\ \A k \in DOMAIN log : k \in DOMAIN log' /\ log'[k] = log[k]
  BY <1>1, <1>2, <1>3, AppendProperties
<1>5. task' \in Tasks /\ task'.left \subseteq task.left /\ task'.phase \notin Scanning
  BY <1>1, Idle DEF Scanning
<1>6. KeptApart' /\ \A r \in Range(recovered') : r.item.kind # "sanitized"
  BY <1>1 DEF ScannerInv, KeptApart, ListedTrue
<1> QED
  BY <1>1, <1>4, <1>5, <1>6, TaskGoesOn DEF ScannerInv, ScannerTypeOK

LEMMA ScannerStutters == ScannerInv /\ UNCHANGED scannerVars => ScannerInv'
BY DEF scannerVars, ScannerInv, ScannerTypeOK, ScanSoFar, ErasedLogged, KeptApart, ListedTrue

LEMMA ScannerSteps == ScannerInv /\ [ScannerNext]_scannerVars => ScannerInv'
BY DeleteKeeps, PurgeKeeps, EraseKeeps, RestartKeeps, EditPathsKeeps, SelectKeeps,
   StartScanKeeps, CommandKeeps, StartRecoveryKeeps, ScanTrashKeeps, ScanMetadataKeeps,
   ScanRecordsKeeps, CheckDestinationKeeps, RecoverItemKeeps, FinishRecoveryKeeps,
   ScannerStutters DEF ScannerNext

(* The invariant of scanning and restoring a directory, while the user's    *)
(* files and the trash change.                                             *)
THEOREM ScannerInvariant == ScannerSpec => []ScannerInv
BY ScannerStart, ScannerSteps, PTL DEF ScannerSpec

(* Restored files lie apart from each other and from what was there, and    *)
(* keep what was copied (DirectoryScanner::recoverItems, lines 690-700):    *)
(* the search for a free name ends with a free one.                         *)
THEOREM AlwaysKeptApart == ScannerSpec => []KeptApart
<1>1. ScannerInv => KeptApart
  BY DEF ScannerInv
<1> QED
  BY <1>1, ScannerInvariant, PTL

(* The list names what lay in the directory, and what this process erased   *)
(* there it calls sanitized and never restores                              *)
(* (DirectoryScanner::scanDirectory, lines 587-633).                        *)
THEOREM AlwaysListedTrue == ScannerSpec => []ListedTrue
<1>1. ScannerInv => ListedTrue
  BY DEF ScannerInv
<1> QED
  BY <1>1, ScannerInvariant, PTL
-----------------------------------------------------------------------------
(* The reads of a DiskImageReader.                                            *)

(* What open() leaves, and what is asked of what is there. *)
ReaderState == [open : {"none", "stream", "handle"}, size : Nat, sector : Nat, total : Int]

ReaderInv ==
  /\ medium \in Media
  /\ reader \in ReaderState
  /\ ReadsExact

(* A verdict on n bytes at off is sound: what is said to be read was there.  *)
Exact(read, m, off, n) ==
  read.ok =>
    /\ read.bytes = Span(off, n)
    /\ n > 0 => off + n <= m.len

(* The system delivers no more than was asked for, and nothing from behind   *)
(* the end.                                                                  *)
LEMMA DeliveredWithin ==
  ASSUME NEW m \in Media, NEW off \in Nat, NEW n \in Nat
  PROVE  /\ Delivered(m, off, n) \in Int
         /\ Delivered(m, off, n) <= n
         /\ Delivered(m, off, n) > 0 => off + Delivered(m, off, n) <= m.len
<1>1. m.len \in Nat
  BY ReaderAssumption
<1> QED
  BY <1>1 DEF Delivered

(* A file that is read by a stream.                                          *)
LEMMA StreamReadExact ==
  ASSUME NEW r \in ReaderState, NEW m \in Media, NEW off \in Nat, NEW n \in Nat \ {0}
  PROVE  Exact(StreamRead(r, m, off, n), m, off, n)
BY DeliveredWithin DEF StreamRead, Exact

(* The fields of an answer.                                                  *)
LEMMA VerdictAndBytes ==
  ASSUME NEW verdict, NEW data
  PROVE  /\ [ok |-> verdict, bytes |-> data].ok = verdict
         /\ [ok |-> verdict, bytes |-> data].bytes = data
OBVIOUS

(* The beginning of a sector is a place on the medium, and not behind the    *)
(* address.                                                                  *)
LEMMA RoundedDown ==
  ASSUME NEW off \in Nat, NEW s \in Nat \ {0}
  PROVE  (off \div s) * s \in Nat /\ (off \div s) * s <= off
OBVIOUS

(* A raw device is read in whole sectors, and what was asked for is cut out  *)
(* of them.                                                                  *)
LEMMA DeviceReadExact ==
  ASSUME NEW r \in ReaderState, NEW m \in Media, NEW off \in Nat, NEW n \in Nat \ {0},
         n < U32
  PROVE  Exact(DeviceRead(r, m, off, n), m, off, n)
<1> DEFINE s == IF r.sector > 0 THEN r.sector ELSE 512
           from == (off \div s) * s
           to == (((off + n + s - 1) % U64) \div s) * s
           whole == (to - from) % U64
           lead == off - from
           got == Delivered(m, from, whole % U32)
           copied == IF n < got - lead THEN n ELSE got - lead
           inside == r.size = 0 \/ (off <= r.size /\ r.size - off >= n)
<1>1. s \in Nat \ {0}
  BY DEF ReaderState
<1>2. from \in Nat /\ from <= off
  <2> HIDE DEF s
  <2> QED
    BY <1>1, RoundedDown
<1>3. whole % U32 \in Nat
  <2>1. (off + n + s - 1) % U64 \in Nat
    <3> HIDE DEF s
    <3> QED
      BY <1>1, WidthAssumption
  <2>2. to \in Nat
    <3> HIDE DEF s
    <3> QED
      BY <1>1, <2>1, RoundedDown
  <2>3. whole \in Nat
    <3> HIDE DEF to, from
    <3> QED
      BY <1>2, <2>2, WidthAssumption
  <2> QED
    <3> HIDE DEF whole
    <3> QED
      BY <2>3, WidthAssumption
<1>4. DeviceRead(r, m, off, n)
        = IF off = from /\ n = whole
          THEN [ok |-> inside /\ got = n % U32, bytes |-> Span(off, got)]
          ELSE [ok |-> inside /\ got > lead /\ copied = n, bytes |-> Span(off, copied)]
  BY Zenon DEF DeviceRead
<1>5. /\ got \in Int
      /\ got > 0 => from + got <= m.len
  <2> DEFINE asked == whole % U32
  <2>1. asked \in Nat
    BY <1>3
  <2> HIDE DEF from, asked
  <2>2. /\ Delivered(m, from, asked) \in Int
        /\ Delivered(m, from, asked) > 0 => from + Delivered(m, from, asked) <= m.len
    BY <1>2, <2>1, DeliveredWithin, Zenon
  <2> QED
    BY <2>2 DEF asked
<1>6. n % U32 = n
  BY WidthAssumption
<1>7. m.len \in Nat
  BY ReaderAssumption
<1>8. CASE off = from /\ n = whole
  <2> HIDE DEF s, from, whole, got, inside
  <2>1. DeviceRead(r, m, off, n) = [ok |-> inside /\ got = n % U32, bytes |-> Span(off, got)]
    BY <1>4, <1>8, Zenon
  <2>2. /\ DeviceRead(r, m, off, n).bytes = Span(off, got)
        /\ DeviceRead(r, m, off, n).ok => got = n % U32
    BY <2>1, VerdictAndBytes, Zenon
  <2> QED
    BY <1>2, <1>5, <1>6, <1>7, <1>8, <2>2 DEF Exact
<1>9. CASE ~ (off = from /\ n = whole)
  <2> HIDE DEF s, from, whole, got, inside
  <2>1. copied = n /\ got > lead => off + n <= from + got /\ got > 0
    BY <1>2, <1>5
  <2> HIDE DEF lead, copied
  <2>2. DeviceRead(r, m, off, n)
          = [ok |-> inside /\ got > lead /\ copied = n, bytes |-> Span(off, copied)]
    BY <1>4, <1>9, Zenon
  <2>3. /\ DeviceRead(r, m, off, n).bytes = Span(off, copied)
        /\ DeviceRead(r, m, off, n).ok => got > lead /\ copied = n
    BY <2>2, VerdictAndBytes, Zenon
  <2>4. DeviceRead(r, m, off, n).ok =>
           /\ DeviceRead(r, m, off, n).bytes = Span(off, n)
           /\ off + n <= from + got /\ from + got <= m.len
    BY <1>5, <2>1, <2>3, Zenon
  <2>5. off + n <= from + got /\ from + got <= m.len => off + n <= m.len
    BY <1>2, <1>5, <1>7
  <2> QED
    BY <2>4, <2>5, Zenon DEF Exact
<1> QED
  BY <1>8, <1>9

(* read(), however the reader is open.                                       *)
LEMMA ReadExact ==
  ASSUME NEW r \in ReaderState, NEW m \in Media, NEW off \in Nat, NEW n \in Nat,
         r.open = "handle" => n < U32
  PROVE  Exact(Read(r, m, off, n), m, off, n)
<1>1. CASE r.open = "none"
  BY <1>1 DEF Read, Exact, NotRead
<1>2. CASE r.open # "none" /\ n = 0
  <2>1. Read(r, m, off, n) = [ok |-> TRUE, bytes |-> <<>>]
    BY <1>2 DEF Read
  <2>2. Span(off, n) = <<>>
    BY <1>2 DEF Span
  <2> QED
    BY <1>2, <2>1, <2>2 DEF Exact
<1>3. CASE r.open = "stream" /\ n > 0
  <2>1. Read(r, m, off, n) = StreamRead(r, m, off, n)
    BY <1>3 DEF Read
  <2> QED
    BY <1>3, <2>1, StreamReadExact
<1>4. CASE r.open = "handle" /\ n > 0
  <2>1. Read(r, m, off, n) = DeviceRead(r, m, off, n)
    BY <1>4 DEF Read
  <2> QED
    BY <1>4, <2>1, DeviceReadExact
<1> QED
  BY <1>1, <1>2, <1>3, <1>4 DEF ReaderState

(* readSectors(), as long as the address and the length in bytes fit.        *)
LEMMA ReadSectorsExact ==
  ASSUME NEW r \in ReaderState, NEW m \in Media, NEW at \in Nat, NEW n \in Nat,
         at * r.sector < U64, n * r.sector < U64,
         r.open = "handle" => n * r.sector < U32
  PROVE  Exact(ReadSectors(r, m, at, n), m, at * r.sector, n * r.sector)
<1> DEFINE off == at * r.sector
           len == n * r.sector
<1>1. r.sector \in Nat
  BY DEF ReaderState
<1>2. off \in Nat /\ len \in Nat
  BY <1>1
<1>3. CASE n = 0
  <2>1. ReadSectors(r, m, at, n) = [ok |-> TRUE, bytes |-> <<>>]
    BY <1>3 DEF ReadSectors
  <2>2. len = 0
    BY <1>1, <1>3
  <2>3. Span(off, len) = <<>>
    <3> HIDE DEF off, len
    <3> QED
      BY <2>2 DEF Span
  <2> HIDE DEF off, len
  <2>4. Exact(ReadSectors(r, m, at, n), m, off, len)
    BY <2>1, <2>2, <2>3 DEF Exact
  <2> QED
    BY <2>4 DEF off, len
<1>4. CASE n # 0
  <2>1. ReadSectors(r, m, at, n) = Read(r, m, off % U64, len % U64)
    BY <1>4, Zenon DEF ReadSectors
  <2>2. off < U64 /\ len < U64 /\ (r.open = "handle" => len < U32)
    OBVIOUS
  <2> HIDE DEF off, len
  <2>3. off % U64 = off /\ len % U64 = len
    BY <1>2, <2>2, WidthAssumption
  <2>4. Exact(Read(r, m, off, len), m, off, len)
    BY <1>2, <2>2, ReadExact
  <2>5. Exact(ReadSectors(r, m, at, n), m, off, len)
    BY <2>1, <2>3, <2>4, Zenon
  <2> QED
    BY <2>5 DEF off, len
<1> QED
  BY <1>3, <1>4

(* A reader without a handle is a state of the reader.                       *)
LEMMA NotOpen ==
  ASSUME NEW r \in ReaderState
  PROVE  [r EXCEPT !.open = "none"] \in ReaderState
BY DEF ReaderState

(* close() leaves a state of the reader.                                     *)
LEMMA CloseStates ==
  ASSUME NEW r \in ReaderState, NEW s \in Nat
  PROVE  Close(r) \in ReaderState /\ [Close(r) EXCEPT !.sector = s] \in ReaderState
<1> DEFINE a == [r EXCEPT !.open = "none"]
           b == [a EXCEPT !.size = 0]
           c == [b EXCEPT !.total = 0]
<1>1. a \in ReaderState
  BY NotOpen
<1>2. b \in ReaderState
  <2> HIDE DEF a
  <2> QED
    BY <1>1 DEF ReaderState
<1>3. c \in ReaderState
  <2> HIDE DEF b
  <2> QED
    BY <1>2 DEF ReaderState
<1>4. Close(r) = c
  BY Zenon DEF Close
<1>5. [c EXCEPT !.sector = s] \in ReaderState
  <2> HIDE DEF c
  <2> QED
    BY <1>3 DEF ReaderState
<1> QED
  BY <1>3, <1>4, <1>5, Zenon

(* What open() fills in is a state of the reader.                            *)
LEMMA OpenedStates ==
  ASSUME NEW how \in {"stream", "handle"}, NEW size \in Nat, NEW s \in Nat \ {0}
  PROVE  Opened(how, size, s) \in ReaderState
<1>1. SectorsOf(size, s) \in Int
  BY WidthAssumption DEF SectorsOf
<1> QED
  BY <1>1 DEF Opened, ReaderState

(* So is whatever open() may end with.                                       *)
LEMMA OpenStates ==
  ASSUME NEW r \in ReaderState, NEW m \in Media, NEW s \in SectorSizes,
         NEW o \in OpenResults(r, m, s)
  PROVE  o \in ReaderState
<1>1. m.len \in Nat /\ m.sector \in Nat \ {0} /\ s \in Nat
  BY ReaderAssumption
<1>2. CASE m.kind = "nopath" \/ s = 0
  <2>1. OpenResults(r, m, s) = {Close(r)}
    BY <1>2, Zenon DEF OpenResults
  <2> QED
    BY <1>1, <2>1, CloseStates
<1>3. CASE ~ (m.kind = "nopath" \/ s = 0)
  <2> DEFINE opened == IF m.kind = "file" THEN {Opened("stream", m.len, s)}
                       ELSE IF m.kind = "block" THEN Measured(m, "stream", s)
                       ELSE Measured(m, "handle", s)
             shut == {[x EXCEPT !.open = "none"] : x \in IF m.kind = "device" THEN {} ELSE opened}
  <2>1. OpenResults(r, m, s) = {[Close(r) EXCEPT !.sector = s]} \cup opened \cup shut
    BY <1>3, Zenon DEF OpenResults
  <2>2. ASSUME NEW how \in {"stream", "handle"}
        PROVE  Measured(m, how, s) \subseteq ReaderState
    <3>1. ASSUME NEW size \in {0, m.len}, NEW t \in {s, m.sector}
          PROVE  Opened(how, size, t) \in ReaderState
      BY <1>1, <1>3, OpenedStates
    <3> QED
      BY <3>1 DEF Measured
  <2>3. opened \subseteq ReaderState
    BY <1>1, <1>3, <2>2, OpenedStates
  <2> HIDE DEF opened
  <2>4. shut \subseteq ReaderState
    BY <2>3, NotOpen
  <2> QED
    BY <1>1, <2>1, <2>3, <2>4, CloseStates
<1> QED
  BY <1>2, <1>3

(* What is sound in this sense is exact in that of ReadsExact. *)
LEMMA AnswerExact ==
  ASSUME NEW read, NEW m \in Media, NEW at \in Nat, NEW asked \in Nat,
         Exact(read, m, at, asked)
  PROVE  read.ok => /\ read.bytes = Span(at, asked)
                    /\ \A b \in DOMAIN read.bytes : read.bytes[b] < m.len
<1>1. m.len \in Nat
  BY ReaderAssumption
<1>2. ASSUME read.ok PROVE \A b \in DOMAIN Span(at, asked) : Span(at, asked)[b] < m.len
  <2>1. asked > 0 => at + asked <= m.len
    BY <1>2 DEF Exact
  <2>2. DOMAIN Span(at, asked) = 1..asked
    BY DEF Span
  <2>3. ASSUME NEW b \in 1..asked PROVE Span(at, asked)[b] < m.len
    BY <1>1, <2>1, <2>3 DEF Span
  <2> QED
    BY <2>2, <2>3
<1> QED
  BY <1>2, Zenon DEF Exact

(* Whatever is read, from any medium and at any address, after whatever     *)
(* opening, closing and failed opening of the reader: a read that says it    *)
(* succeeded has delivered what stands there (DiskImageReader::read,         *)
(* readSectors).                                                             *)
THEOREM ReadsAlwaysExact == ReaderSpec => []ReadsExact
<1>1. ASSUME medium \in Media, ReaderInit PROVE ReaderInv
  <2>1. reader \in ReaderState
    BY <1>1 DEF ReaderInit, ClosedReader, ReaderState
  <2>2. answer.ok = FALSE
    BY <1>1 DEF ReaderInit, Nothing, Answer, NotRead
  <2> QED
    BY <1>1, <2>1, <2>2 DEF ReaderInv, ReadsExact
<1>2. ASSUME ReaderInv, [ReaderNext]_readerVars PROVE ReaderInv'
  <2>1. CASE UNCHANGED readerVars
    BY <1>2, <2>1 DEF ReaderInv, ReadsExact, InWidth, readerVars
  <2>2. ASSUME NEW m \in Media, OpenReader(m, SectorSizes) PROVE ReaderInv'
    <3>1. reader' \in ReaderState
      BY <1>2, <2>2, OpenStates DEF OpenReader, ReaderInv
    <3>2. answer'.ok = FALSE
      BY <2>2 DEF OpenReader, Nothing, Answer, NotRead
    <3> QED
      BY <2>2, <3>1, <3>2 DEF ReaderInv, ReadsExact, OpenReader
  <2>3. CASE CloseReader
    <3>1. reader' \in ReaderState
      BY <1>2, <2>3, CloseStates DEF CloseReader, ReaderInv
    <3>2. answer'.ok = FALSE
      BY <2>3 DEF CloseReader, Nothing, Answer, NotRead
    <3> QED
      BY <1>2, <2>3, <3>1, <3>2 DEF ReaderInv, ReadsExact, CloseReader
  <2>4. CASE ReadRaw
    <3>1. PICK at \in Addresses, n \in Lengths :
             \/ answer' = Answer(Read(reader, medium, at, n), at, n)
             \/ answer' = Answer(ReadSectors(reader, medium, at, n),
                                 at * reader.sector, n * reader.sector)
      BY <2>4, Zenon DEF ReadRaw
    <3>2. at \in Nat /\ n \in Nat
      BY ReaderAssumption
    <3>3. medium' = medium /\ reader' = reader
      BY <2>4 DEF ReadRaw
    <3>4. reader \in ReaderState /\ medium \in Media /\ reader.sector \in Nat
      BY <1>2 DEF ReaderInv, ReaderState
    <3>5. ReadsExact'
      <4>1. CASE answer' = Answer(Read(reader, medium, at, n), at, n)
        <5>1. /\ answer'.ok = Read(reader, medium, at, n).ok
              /\ answer'.bytes = Read(reader, medium, at, n).bytes
              /\ answer'.at = at /\ answer'.asked = n
          BY <4>1, Zenon DEF Answer
        <5>2. InWidth' => Exact(Read(reader, medium, at, n), medium, at, n)
          BY <3>2, <3>3, <3>4, <5>1, ReadExact DEF InWidth
        <5> QED
          BY <3>2, <3>3, <3>4, <5>1, <5>2, AnswerExact DEF ReadsExact
      <4>2. CASE answer' = Answer(ReadSectors(reader, medium, at, n),
                                  at * reader.sector, n * reader.sector)
        <5> DEFINE off == at * reader.sector
                   len == n * reader.sector
                   read == ReadSectors(reader, medium, at, n)
        <5>1. off \in Nat /\ len \in Nat
          BY <3>2, <3>4
        <5>2. /\ answer'.ok = read.ok /\ answer'.bytes = read.bytes
              /\ answer'.at = off /\ answer'.asked = len
          BY <4>2, Zenon DEF Answer
        <5>3. ASSUME InWidth' PROVE Exact(read, medium, off, len)
          <6>1. off < U64 /\ len < U64 /\ (reader.open = "handle" => len < U32)
            <7> HIDE DEF off, len, read
            <7> QED
              BY <3>3, <5>2, <5>3 DEF InWidth
          <6> QED
            BY <3>2, <3>4, <6>1, ReadSectorsExact
        <5> HIDE DEF off, len, read
        <5>4. InWidth' /\ read.ok =>
                 /\ read.bytes = Span(off, len)
                 /\ \A b \in DOMAIN read.bytes : read.bytes[b] < medium.len
          BY <3>4, <5>1, <5>3, AnswerExact
        <5> QED
          BY <3>3, <5>2, <5>4 DEF ReadsExact
      <4> QED
        BY <3>1, <4>1, <4>2
    <3> QED
      BY <3>3, <3>4, <3>5 DEF ReaderInv
  <2> QED
    BY <1>2, <2>1, <2>2, <2>3, <2>4 DEF ReaderNext
<1>3. ReaderInv => ReadsExact
  BY DEF ReaderInv
<1> QED
  BY <1>1, <1>2, <1>3, PTL DEF ReaderSpec
-----------------------------------------------------------------------------
(* The steps of a walk: forward, by numbers.                                  *)
Forward(step, n) ==
  /\ DOMAIN step \subseteq 1..n
  /\ \A k \in DOMAIN step : step[k] \in Nat /\ step[k] > k

(* What the walk visits from k, by what it visits from the place after it.     *)
OneStep(step, visits, k) == {k} \cup IF k \in DOMAIN step THEN visits[step[k]] ELSE {}

LEMMA OneStepVisits ==
  ASSUME NEW n \in Nat, NEW step, Forward(step, n), NEW visits \in [Nat -> SUBSET Nat], NEW k \in Nat
  PROVE  OneStep(step, visits, k) \in SUBSET Nat
<1>1. CASE k \in DOMAIN step
  <2>1. visits[step[k]] \in SUBSET Nat
    BY <1>1 DEF Forward
  <2> QED
    BY <1>1, <2>1 DEF OneStep
<1>2. CASE k \notin DOMAIN step
  BY <1>2 DEF OneStep
<1> QED
  BY <1>1, <1>2

(* The set of places visited is known from behind the last place on.           *)
LEMMA WalkExists ==
  ASSUME NEW n \in Nat, NEW step, Forward(step, n)
  PROVE  \E visits : visits = [k \in Nat |-> OneStep(step, visits, k)]
<1> DEFINE Behind(visits, m) == \A k \in Nat : k + m > n => visits[k] = OneStep(step, visits, k)
           Known(m) == \E visits \in [Nat -> SUBSET Nat] : Behind(visits, m)
           Bad == {m \in Nat : ~Known(m)}
<1>1. Known(0)
  <2> DEFINE alone == [k \in Nat |-> {k}]
  <2>1. alone \in [Nat -> SUBSET Nat]
    OBVIOUS
  <2>2. ASSUME NEW k \in Nat, k + 0 > n PROVE alone[k] = OneStep(step, alone, k)
    <3>1. k \notin DOMAIN step
      BY <2>2 DEF Forward
    <3> QED
      BY <3>1 DEF OneStep
  <2> QED
    BY <2>1, <2>2
<1>2. ASSUME NEW m \in Nat, Known(m) PROVE Known(m + 1)
  <2>1. PICK visits \in [Nat -> SUBSET Nat] : Behind(visits, m)
    BY <1>2
  <2>2. CASE m > n
    <3>1. Behind(visits, m + 1)
      BY <2>1, <2>2
    <3> QED
      BY <3>1
  <2>3. CASE m <= n
    <3> DEFINE here == n - m
               more == [visits EXCEPT ![here] = OneStep(step, visits, here)]
    <3>1. here \in Nat
      BY <2>3
    <3> HIDE DEF here
    <3>2. OneStep(step, visits, here) \in SUBSET Nat
      BY <3>1, OneStepVisits
    <3>3. more \in [Nat -> SUBSET Nat]
      BY <3>1, <3>2
    <3>4. ASSUME NEW k \in Nat, k + (m + 1) > n
          PROVE  more[k] = OneStep(step, more, k)
      <4>1. k \in DOMAIN step => step[k] \in Nat /\ step[k] # here
        BY <3>4, <3>1 DEF Forward, here
      <4>2. k \in DOMAIN step => more[step[k]] = visits[step[k]]
        BY <4>1, <3>1
      <4>3. OneStep(step, more, k) = OneStep(step, visits, k)
        BY <4>2 DEF OneStep
      <4>4. CASE k = here
        BY <4>3, <4>4, <3>1
      <4>5. CASE k # here
        <5>1. visits[k] = OneStep(step, visits, k)
          BY <3>4, <4>5, <2>1 DEF here
        <5> QED
          BY <5>1, <4>3, <4>5
      <4> QED
        BY <4>4, <4>5
    <3>5. Behind(more, m + 1)
      BY <3>4
    <3> QED
      BY <3>3, <3>5
  <2> QED
    BY <2>2, <2>3
<1> HIDE DEF Known
<1>3. Bad = {}
  <2> SUFFICES ASSUME Bad # {} PROVE FALSE
    OBVIOUS
  <2>1. PICK m \in Bad : \A l \in Bad : m <= l
    BY LeastExists
  <2>2. m \in Nat /\ m # 0 /\ m - 1 \notin Bad /\ m - 1 \in Nat
    BY <2>1, <1>1
  <2>3. Known((m - 1) + 1)
    BY <2>2, <1>2
  <2> QED
    BY <2>2, <2>3, <2>1
<1>4. PICK visits \in [Nat -> SUBSET Nat] : Behind(visits, n + 1)
  <2>1. n + 1 \in Nat
    OBVIOUS
  <2>2. Known(n + 1)
    BY <1>3, <2>1
  <2> QED
    BY <2>2 DEF Known
<1>5. \A k \in Nat : visits[k] = OneStep(step, visits, k)
  BY <1>4
<1>6. visits = [k \in Nat |-> OneStep(step, visits, k)]
  BY <1>5
<1> QED
  BY <1>6

LEMMA WalkUnfolds ==
  ASSUME NEW n \in Nat, NEW step, Forward(step, n)
  PROVE  \A k \in Nat : Walk(step, k) = {k} \cup IF k \in DOMAIN step THEN Walk(step, step[k]) ELSE {}
<1> DEFINE walk == CHOOSE visits : visits = [k \in Nat |-> {k} \cup IF k \in DOMAIN step THEN visits[step[k]] ELSE {}]
<1>1. \E visits : visits = [k \in Nat |-> {k} \cup IF k \in DOMAIN step THEN visits[step[k]] ELSE {}]
  BY WalkExists DEF OneStep
<1>2. walk = [k \in Nat |-> {k} \cup IF k \in DOMAIN step THEN walk[step[k]] ELSE {}]
  BY <1>1, Zenon
<1>3. \A k : Walk(step, k) = walk[k]
  BY Zenon DEF Walk
<1> HIDE DEF walk
<1>4. TAKE k \in Nat
<1>5. walk[k] = {k} \cup IF k \in DOMAIN step THEN walk[step[k]] ELSE {}
  BY <1>2, Zenon
<1>6. Walk(step, k) = walk[k] /\ Walk(step, step[k]) = walk[step[k]]
  BY <1>3, Zenon
<1> QED
  BY <1>5, <1>6

(* A walk that stays in a set stops in it, where no step is.                  *)
LEMMA WalkStops ==
  ASSUME NEW n \in Nat, NEW step, Forward(step, n), NEW P \in SUBSET Nat,
         \A p \in P : p \in DOMAIN step => step[p] \in P,
         NEW k \in P
  PROVE  /\ Walk(step, k) \subseteq P /\ k \in Walk(step, k)
         /\ Stop(step, k) \in Walk(step, k) /\ Stop(step, k) \notin DOMAIN step
         /\ Stop(step, k) >= k
<1> DEFINE Stays(p) == /\ Walk(step, p) \subseteq P
                       /\ \E s \in Walk(step, p) :
                            s \notin DOMAIN step /\ \A y \in Walk(step, p) : y <= s
           Bad == {m \in Nat : \E p \in P : p + m > n /\ ~Stays(p)}
<1>1. \A p \in Nat : Walk(step, p) = {p} \cup IF p \in DOMAIN step THEN Walk(step, step[p]) ELSE {}
  BY WalkUnfolds
<1>2. ASSUME NEW p \in P, p \notin DOMAIN step PROVE Stays(p)
  <2>1. Walk(step, p) = {p} /\ p \in Nat
    BY <1>1, <1>2
  <2> QED
    BY <2>1, <1>2
<1>3. ASSUME NEW p \in P, p \in DOMAIN step, Stays(step[p]) PROVE Stays(p)
  <2>1. Walk(step, p) = {p} \cup Walk(step, step[p]) /\ p \in Nat /\ step[p] > p /\ step[p] \in P
    BY <1>1, <1>3 DEF Forward
  <2>2. PICK s \in Walk(step, step[p]) : s \notin DOMAIN step /\ \A y \in Walk(step, step[p]) : y <= s
    BY <1>3
  <2>3. Walk(step, step[p]) \subseteq P
    BY <1>3
  <2>4. Walk(step, step[p]) = {step[p]} \cup IF step[p] \in DOMAIN step THEN Walk(step, step[step[p]]) ELSE {}
    BY <1>1, <2>1
  <2>5. step[p] \in Walk(step, step[p])
    BY <2>4
  <2>6. step[p] <= s /\ s \in Nat /\ step[p] \in Nat
    BY <2>5, <2>2, <2>1, <2>3
  <2>7. p <= s
    BY <2>6, <2>1
  <2>8. \A y \in Walk(step, p) : y <= s
    BY <2>1, <2>2, <2>7
  <2>9. s \in Walk(step, p) /\ Walk(step, p) \subseteq P
    BY <2>1, <2>2, <2>3
  <2> QED
    BY <2>2, <2>8, <2>9
<1> HIDE DEF Stays
<1>4. Bad = {}
  <2> SUFFICES ASSUME Bad # {} PROVE FALSE
    OBVIOUS
  <2>1. PICK m \in Bad : \A l \in Bad : m <= l
    BY LeastExists
  <2>2. PICK p \in P : p + m > n /\ ~Stays(p)
    BY <2>1
  <2>3. p \in DOMAIN step /\ p \in Nat /\ p \in 1..n /\ step[p] > p /\ step[p] \in Nat /\ m \in Nat
    BY <1>2, <2>2, <2>1 DEF Forward
  <2>4. step[p] \in P /\ ~Stays(step[p])
    BY <1>3, <2>2, <2>3
  <2>5. m # 0 /\ m - 1 \in Nat /\ step[p] + (m - 1) > n
    BY <2>3, <2>2
  <2>6. m - 1 \in Bad
    BY <2>4, <2>5
  <2>7. m <= m - 1
    BY <2>6, <2>1
  <2> QED
    BY <2>7, <2>3
<1>5. Stays(k)
  <2>1. n + 1 \in Nat /\ k + (n + 1) > n
    OBVIOUS
  <2> QED
    BY <1>4, <2>1
<1>6. PICK s \in Walk(step, k) : s \notin DOMAIN step /\ \A y \in Walk(step, k) : y <= s
  BY <1>5 DEF Stays
<1>7. Walk(step, k) \subseteq P /\ k \in Walk(step, k)
  BY <1>5, <1>1 DEF Stays
<1>8. Stop(step, k) \in Walk(step, k) /\ \A y \in Walk(step, k) : Stop(step, k) >= y
  <2>1. \A y \in Walk(step, k) : s >= y
    BY <1>6, <1>7
  <2> QED
    BY <2>1 DEF Stop, Max
<1>9. Stop(step, k) = s
  <2>1. Stop(step, k) \in Nat /\ s \in Nat
    BY <1>6, <1>7, <1>8
  <2>2. Stop(step, k) <= s /\ Stop(step, k) >= s
    BY <1>6, <1>8
  <2> QED
    BY <2>1, <2>2
<1> QED
  BY <1>6, <1>7, <1>8, <1>9

LEMMA UnitFacts ==
  ASSUME NEW d \in Seq(Units)
  PROVE  /\ Len(d) \in Nat /\ DOMAIN d = 1..Len(d)
         /\ \A k \in 1..Len(d) :
              d[k].n \in Nat /\ (d[k].t = "pk56" => d[k].at \in Nat /\ d[k].size \in Nat)
<1>1. \A k \in 1..Len(d) : d[k] \in Units
  OBVIOUS
<1> QED
  BY <1>1, FragmentAssumption

LEMMA FirstIs ==
  ASSUME NEW d, NEW m \in Nat \ {0}, NEW t, NEW w \in m..Len(d), Len(d) \in Nat,
         d[w].t = t, \A k \in m..(w - 1) : d[k].t # t
  PROVE  First(d, t, m) = w
<1> DEFINE places == {k \in m..Len(d) : d[k].t = t}
<1>1. w \in places /\ \A k \in places : w <= k
  OBVIOUS
<1>2. Min(places) = w
  BY <1>1 DEF Min
<1> QED
  BY <1>1, <1>2 DEF First

LEMMA FirstNone ==
  ASSUME NEW d, NEW m, NEW t, \A k \in m..Len(d) : d[k].t # t
  PROVE  First(d, t, m) = 0
<1>1. {k \in m..Len(d) : d[k].t = t} = {}
  OBVIOUS
<1> QED
  BY <1>1 DEF First

LEMMA JpegForward ==
  ASSUME NEW d \in Seq(Units)
  PROVE  Forward(JpegSteps(d), Len(d))
<1> DEFINE step == JpegSteps(d)
<1>1. DOMAIN d = 1..Len(d) /\ Len(d) \in Nat /\ \A k \in 1..Len(d) : d[k].n \in Nat
  BY UnitFacts
<1>2. DOMAIN step \subseteq 1..Len(d)
  BY <1>1 DEF JpegSteps
<1>3. ASSUME NEW k \in DOMAIN step PROVE step[k] \in Nat /\ step[k] > k
  <2>1. k \in Nat /\ d[k].n \in Nat
    BY <1>1, <1>2
  <2>2. step[k] = IF d[k].t \in Segments THEN k + 1 + d[k].n ELSE k + 1
    BY <1>3 DEF JpegSteps
  <2> DEFINE n == d[k].n
  <2>3. k + 1 + n \in Nat /\ k + 1 + n > k
    BY <2>1
  <2> HIDE DEF n, step
  <2> QED
    BY <2>1, <2>2, <2>3 DEF n
<1> QED
  BY <1>2, <1>3 DEF Forward

(* A walk from segment to segment stops at the scan.                          *)
LEMMA JpegWalk ==
  ASSUME NEW d \in Seq(Units), NEW P, P \subseteq 2..Len(d), SegmentsOf(d, P)
  PROVE  Stop(JpegSteps(d), 2) \in P /\ d[Stop(JpegSteps(d), 2)].t = "sos"
<1>1. Len(d) \in Nat /\ Forward(JpegSteps(d), Len(d))
  BY UnitFacts, JpegForward
<1>2. ASSUME NEW p \in P, d[p].t # "sos"
      PROVE  p \in DOMAIN JpegSteps(d) /\ JpegSteps(d)[p] \in P
  <2>1. p \in 2..Len(d) /\ d[p].t \in {"app", "dqt", "sof"} /\ p + 1 + d[p].n \in P
    BY <1>2 DEF SegmentsOf
  <2>2. p + d[p].n <= Len(d) /\ p \in DOMAIN d
    BY <2>1, UnitFacts
  <2>3. p \in DOMAIN JpegSteps(d)
    BY <2>1, <2>2 DEF JpegSteps
  <2>4. JpegSteps(d)[p] = p + 1 + d[p].n
    BY <2>1, <2>3 DEF JpegSteps, Segments
  <2> QED
    BY <2>1, <2>3, <2>4
<1>3. ASSUME NEW p \in P, p \in DOMAIN JpegSteps(d) PROVE JpegSteps(d)[p] \in P
  BY <1>2, <1>3 DEF JpegSteps
<1>4. 2 \in P /\ P \in SUBSET Nat
  BY DEF SegmentsOf
<1>5. /\ Walk(JpegSteps(d), 2) \subseteq P /\ Stop(JpegSteps(d), 2) \in Walk(JpegSteps(d), 2)
      /\ Stop(JpegSteps(d), 2) \notin DOMAIN JpegSteps(d)
  BY <1>1, <1>3, <1>4, WalkStops
<1> QED
  BY <1>5, <1>2

LEMMA JpegEnds ==
  ASSUME NEW d \in Seq(Units), NEW w \in 1..Len(d), NEW P, JpegFile(d, w, P)
  PROVE  JpegEnd(d, 2) = w /\ \E k \in 1..w : d[k].t = "sos"
<1> DEFINE stop == Stop(JpegSteps(d), 2)
<1>1. Len(d) \in Nat /\ P \subseteq 2..(w - 1) /\ SegmentsOf(d, P) /\ P \subseteq 2..Len(d)
  BY UnitFacts DEF JpegFile
<1>2. stop \in P /\ d[stop].t = "sos"
  BY <1>1, JpegWalk
<1> HIDE DEF stop
<1>3. /\ stop \in 1..Len(d) /\ stop <= w /\ d[w].t = "eoi" /\ d[stop].n \in Nat
      /\ stop + d[stop].n < w /\ \A k \in (stop + 1 + d[stop].n)..(w - 1) : d[k].t # "eoi"
  BY <1>1, <1>2, UnitFacts DEF JpegFile
<1>4. stop + 1 + d[stop].n \in Nat \ {0} /\ w \in (stop + 1 + d[stop].n)..Len(d)
  BY <1>3
<1>5. First(d, "eoi", stop + 1 + d[stop].n) = w
  <2> DEFINE m == stop + 1 + d[stop].n
  <2>1. m \in Nat \ {0} /\ w \in m..Len(d) /\ \A k \in m..(w - 1) : d[k].t # "eoi"
    BY <1>3, <1>4
  <2> HIDE DEF m
  <2>2. First(d, "eoi", m) = w
    BY <2>1, <1>1, <1>3, FirstIs
  <2> QED
    BY <2>2 DEF m
<1> QED
  BY <1>2, <1>3, <1>5 DEF JpegEnd, stop

LEMMA CutJpegEnds ==
  ASSUME NEW d \in Seq(Units), NEW P, CutOff("JPEG", d, P)
  PROVE  JpegEnd(d, 2) = 0
<1> DEFINE stop == Stop(JpegSteps(d), 2)
<1>1. P \subseteq 2..Len(d) /\ SegmentsOf(d, P)
  BY DEF CutOff
<1>2. stop \in P /\ d[stop].t = "sos"
  BY <1>1, JpegWalk
<1> HIDE DEF stop
<1>3. /\ stop \in 1..Len(d) /\ d[stop].n \in Nat /\ Len(d) \in Nat
      /\ \A k \in stop..Len(d) : d[k].t # "eoi"
  BY <1>1, <1>2, UnitFacts DEF CutOff
<1>3a. \A k \in (stop + 1 + d[stop].n)..Len(d) : d[k].t # "eoi"
  BY <1>3
<1>4. First(d, "eoi", stop + 1 + d[stop].n) = 0
  BY <1>3a, FirstNone
<1> QED
  BY <1>2, <1>3, <1>4, UnitFacts DEF JpegEnd, stop

LEMMA JpegValid ==
  ASSUME NEW d \in Seq(Units), Len(d) >= MinSize, NEW w \in 1..Len(d), NEW P, JpegFile(d, w, P)
  PROVE  Validate("JPEG", d) = Verdict("VALID", "JPEG", w)
<1>1. JpegEnd(d, 2) = w
  BY JpegEnds
<1>2. d[1].t = "soi" /\ w # 0
  BY DEF JpegFile
<1>3. ValidateJpeg(d) = Verdict("VALID", "JPEG", w)
  BY <1>1, <1>2 DEF ValidateJpeg
<1>4. Validate("JPEG", d) = ValidateJpeg(d)
  BY FragmentAssumption, UnitFacts DEF Validate
<1> QED
  BY <1>3, <1>4

LEMMA JpegCut ==
  ASSUME NEW d \in Seq(Units), NEW P, CutOff("JPEG", d, P)
  PROVE  Validate("JPEG", d) \in {Invalid("JPEG"), Verdict("PARTIAL", "JPEG", Len(d))}
<1>1. ValidateJpeg(d) \in {Invalid("JPEG"), Verdict("PARTIAL", "JPEG", Len(d))}
  BY CutJpegEnds DEF ValidateJpeg
<1>2. Validate("JPEG", d) \in {ValidateJpeg(d), Invalid("JPEG")}
  BY FragmentAssumption, UnitFacts DEF Validate
<1> QED
  BY <1>1, <1>2

LEMMA PngForward ==
  ASSUME NEW d \in Seq(Units)
  PROVE  Forward(PngSteps(d), Len(d))
BY UnitFacts DEF Forward, PngSteps

(* A walk from chunk to chunk stops at the end.                               *)
LEMMA PngValid ==
  ASSUME NEW d \in Seq(Units), Len(d) >= MinSize, NEW w \in 1..Len(d), NEW P, PngFile(d, w, P)
  PROVE  Validate("PNG", d) = Verdict("VALID", "PNG", w)
<1> DEFINE stop == Stop(PngSteps(d), 2)
<1>1. Len(d) \in Nat /\ Forward(PngSteps(d), Len(d))
  BY UnitFacts, PngForward
<1>2. ASSUME NEW p \in P, d[p].t # "iend"
      PROVE  p \in DOMAIN PngSteps(d) /\ PngSteps(d)[p] \in P
  <2>1. p \in 2..w /\ p + 1 + d[p].n \in P /\ p + 1 + d[p].n <= w /\ d[p].n \in Nat
    BY <1>1, <1>2, UnitFacts DEF PngFile
  <2>2. p + d[p].n <= Len(d) /\ p \in DOMAIN d
    BY <1>1, <2>1, UnitFacts
  <2>3. p \in DOMAIN PngSteps(d)
    BY <1>2, <2>2 DEF PngSteps
  <2>4. PngSteps(d)[p] = p + 1 + d[p].n
    BY <2>3 DEF PngSteps
  <2> QED
    BY <2>1, <2>3, <2>4
<1>3. ASSUME NEW p \in P, p \in DOMAIN PngSteps(d) PROVE PngSteps(d)[p] \in P
  BY <1>2, <1>3 DEF PngSteps
<1>4. 2 \in P /\ P \in SUBSET Nat
  BY DEF PngFile
<1>5. Walk(PngSteps(d), 2) \subseteq P /\ stop \in Walk(PngSteps(d), 2) /\ stop \notin DOMAIN PngSteps(d)
  BY <1>1, <1>3, <1>4, WalkStops
<1>6. stop \in P /\ d[stop].t = "iend"
  BY <1>2, <1>5
<1> HIDE DEF stop
<1>7. stop <= Len(d) /\ stop + d[stop].n = w /\ Len(d) > 1 /\ d[1].t = "png" /\ d[2].t = "ihdr"
  BY <1>1, <1>4, <1>6 DEF PngFile
<1>8. ValidatePng(d) = Verdict("VALID", "PNG", w)
  BY <1>6, <1>7 DEF ValidatePng, stop
<1>9. Validate("PNG", d) = ValidatePng(d)
  BY FragmentAssumption, UnitFacts DEF Validate
<1> QED
  BY <1>8, <1>9

LEMMA PngCut ==
  ASSUME NEW d \in Seq(Units), NEW P, CutOff("PNG", d, P)
  PROVE  Validate("PNG", d).state # "VALID" /\ Validate("PNG", d).type = "PNG"
<1> DEFINE stop == Stop(PngSteps(d), 2)
           Q == P \cup {Len(d) + 1}
<1>1. /\ P \subseteq 2..Len(d) /\ 2 \in P /\ \A p \in P : d[p].t # "iend"
      /\ \A p \in P : p + 1 + d[p].n <= Len(d) => p + 1 + d[p].n \in P
  BY DEF CutOff
<1>0. Len(d) \in Nat /\ Forward(PngSteps(d), Len(d))
  BY UnitFacts, PngForward
<1>2. ASSUME NEW p \in Q, p \in DOMAIN PngSteps(d) PROVE PngSteps(d)[p] \in Q
  <2>1. p \in 1..Len(d) /\ PngSteps(d)[p] = p + 1 + d[p].n /\ p + d[p].n <= Len(d) /\ d[p].n \in Nat
    BY <1>2, UnitFacts DEF PngSteps
  <2>2. p \in P
    BY <1>0, <2>1
  <2>3. p + 1 + d[p].n <= Len(d) => p + 1 + d[p].n \in P
    BY <1>1, <2>2
  <2> QED
    BY <1>0, <2>1, <2>3
<1>3. 2 \in Q /\ Q \in SUBSET Nat
  <2>1. P \subseteq Nat /\ Len(d) + 1 \in Nat /\ 2 \in P
    BY <1>0, <1>1
  <2> QED
    BY <2>1
<1>4. Walk(PngSteps(d), 2) \subseteq Q /\ stop \in Walk(PngSteps(d), 2)
  <2> HIDE DEF Q
  <2> QED
    BY <1>0, <1>2, <1>3, WalkStops
<1> HIDE DEF stop
<1>5. stop \in Nat /\ (stop \in P \/ stop = Len(d) + 1)
  BY <1>3, <1>4
<1>6. stop <= Len(d) => d[stop].t # "iend"
  BY <1>0, <1>1, <1>5
<1>7. ValidatePng(d).state # "VALID" /\ ValidatePng(d).type = "PNG"
  BY <1>6 DEF ValidatePng, stop, Invalid, Verdict
<1>8. Validate("PNG", d) \in {ValidatePng(d), Invalid("PNG")}
  BY FragmentAssumption, UnitFacts DEF Validate
<1> QED
  BY <1>7, <1>8 DEF Invalid, Verdict

LEMMA PdfValid ==
  ASSUME NEW d \in Seq(Units), Len(d) >= MinSize, NEW w \in 1..Len(d), PdfFile(d, w),
         ~Misread("PDF", d, w)
  PROVE  Validate("PDF", d) = Verdict("VALID", "PDF", w)
<1>e. PICK e \in 1..w : d[e].t = "eof" /\ \A k \in (e + 1)..w : d[k].t = "nl"
  BY DEF PdfFile
<1> DEFINE fronts == {k \in 2..Len(d) : d[k].t \in {"pdf", "png", "pk34", "soi"}}
           stop == Min(fronts \cup {Len(d) + 1})
           ends == {k \in 2..(stop - 1) : d[k].t = "eof"}
           others == {k \in (e + 1)..Len(d) : d[k].t # "nl"} \cup {Len(d) + 1}
<1>1. /\ Len(d) \in Nat /\ d[1].t = "pdf" /\ e \in Nat /\ \A k \in fronts : k > w
      /\ \A k \in (w + 1)..Len(d) : d[k].t = "eof" => \E h \in fronts : h < k
      /\ w < Len(d) => d[w + 1].t # "nl"
  BY <1>e, UnitFacts DEF PdfFile, Misread
<1>2. stop \in fronts \cup {Len(d) + 1} /\ \A k \in fronts \cup {Len(d) + 1} : stop <= k
  <2>1. fronts \cup {Len(d) + 1} \in SUBSET Nat /\ fronts \cup {Len(d) + 1} # {}
    BY <1>1
  <2> HIDE DEF fronts
  <2> QED
    BY <2>1, LeastExists DEF Min
<1> HIDE DEF stop
<1>3. stop > w /\ stop <= Len(d) + 1 /\ stop \in Nat
  BY <1>1, <1>2
<1>4. e \in ends
  <2>1. e # 1
    BY <1>e, <1>1
  <2> QED
    BY <1>e, <1>1, <1>3, <2>1
<1>5. \A k \in ends : e >= k
  <2>1. SUFFICES ASSUME NEW k \in ends, k > e PROVE FALSE
    BY <1>1, <1>3
  <2>a. ~(k <= w)
    BY <1>e, <1>1, <2>1
  <2>2. k \in (w + 1)..Len(d) /\ d[k].t = "eof" /\ k < stop
    BY <1>1, <1>3, <2>1, <2>a
  <2>3. PICK h \in fronts : h < k
    BY <1>1, <2>2
  <2>4. stop <= h /\ h \in Nat
    BY <1>2, <2>3
  <2> QED
    BY <1>3, <2>2, <2>3, <2>4
<1>6. Max(ends) = e
  <2>1. ends \subseteq Nat /\ e \in Nat
    BY <1>1, <1>3
  <2> HIDE DEF ends
  <2>2. Max(ends) \in ends /\ \A k \in ends : Max(ends) >= k
    BY <1>4, <1>5 DEF Max
  <2>3. Max(ends) >= e /\ e >= Max(ends) /\ Max(ends) \in Nat
    BY <1>4, <1>5, <2>1, <2>2
  <2> QED
    BY <2>1, <2>3
<1>7. Min(others) = w + 1
  <2>1. w + 1 \in others /\ \A k \in others : w + 1 <= k /\ k \in Nat
    BY <1>e, <1>1
  <2> HIDE DEF others
  <2> QED
    BY <2>1 DEF Min
<1> HIDE DEF fronts, ends, others
<1>8. ValidatePdf(d) = Verdict("VALID", "PDF", w)
  <2>1. ValidatePdf(d) = Verdict("VALID", "PDF", Min({k \in (Max(ends) + 1)..Len(d) : d[k].t # "nl"} \cup {Len(d) + 1}) - 1)
    BY <1>1, <1>4 DEF ValidatePdf, fronts, stop, ends
  <2>2. Min({k \in (Max(ends) + 1)..Len(d) : d[k].t # "nl"} \cup {Len(d) + 1}) = w + 1
    BY <1>6, <1>7 DEF others
  <2> QED
    BY <2>1, <2>2
<1>9. Validate("PDF", d) = ValidatePdf(d)
  BY FragmentAssumption, UnitFacts DEF Validate
<1> QED
  BY <1>8, <1>9

LEMMA PdfCut ==
  ASSUME NEW d \in Seq(Units), NEW P, CutOff("PDF", d, P)
  PROVE  Validate("PDF", d) \in {Invalid("PDF"), Verdict("PARTIAL", "PDF", Len(d))}
<1> DEFINE stop == Min({k \in 2..Len(d) : d[k].t \in {"pdf", "png", "pk34", "soi"}} \cup {Len(d) + 1})
<1>1. Len(d) \in Nat /\ \A k \in 1..Len(d) : d[k].t # "eof"
  BY UnitFacts DEF CutOff
<1>2. stop \in Nat /\ stop <= Len(d) + 1
  <2> DEFINE S == {k \in 2..Len(d) : d[k].t \in {"pdf", "png", "pk34", "soi"}} \cup {Len(d) + 1}
  <2>1. S \in SUBSET Nat /\ Len(d) + 1 \in S
    BY <1>1
  <2> HIDE DEF S
  <2>2. Min(S) \in S /\ \A k \in S : Min(S) <= k
    BY <2>1, LeastExists DEF Min
  <2> QED
    BY <2>1, <2>2 DEF S
<1> HIDE DEF stop
<1>3. {k \in 2..(stop - 1) : d[k].t = "eof"} = {}
  BY <1>1, <1>2
<1>4. ValidatePdf(d) \in {Invalid("PDF"), Verdict("PARTIAL", "PDF", Len(d))}
  BY <1>3 DEF ValidatePdf, stop
<1>5. Validate("PDF", d) \in {ValidatePdf(d), Invalid("PDF")}
  BY FragmentAssumption, UnitFacts DEF Validate
<1> QED
  BY <1>4, <1>5

(* What an archive is, by what it holds.                                      *)
ZipType(c) ==
  CASE Has(c, "word") -> "DOCX"
    [] ~Has(c, "word") /\ Has(c, "xl") -> "XLSX"
    [] ~Has(c, "word") /\ ~Has(c, "xl") /\ Has(c, "ppt") -> "PPTX"
    [] OTHER -> "ZIP"

LEMMA ZipValid ==
  ASSUME NEW d \in Seq(Units), Len(d) >= MinSize, NEW w \in 1..Len(d), ZipFile(d, w)
  PROVE  Validate("ZIP", d) = Verdict("VALID", ZipType(SubSeq(d, 1, w)), w)
<1> DEFINE ends == {k \in 2..Len(d) : d[k].t = "pk56"}
           exact == {k \in ends : d[k].at + d[k].size = k - 1 /\ d[d[k].at + 1].t = "pk12"}
<1>1. Len(d) \in Nat
  BY UnitFacts
<1>2. PICK e \in 2..w : Tells(d, e) /\ e + d[e].n = w /\ \A k \in 2..(e - 1) : ~Tells(d, k)
  BY DEF ZipFile
<1>3. e \in exact /\ \A k \in exact : e <= k
  <2>1. e \in exact
    BY <1>1, <1>2 DEF Tells
  <2>2. ASSUME NEW k \in exact, k < e PROVE FALSE
    <3>1. k \in 2..(e - 1) /\ Tells(d, k)
      BY <1>1, <1>2, <2>2 DEF Tells
    <3> QED
      BY <3>1, <1>2
  <2>3. exact \subseteq Nat /\ e \in Nat
    BY <1>1, <1>2
  <2> HIDE DEF exact
  <2> QED
    BY <2>1, <2>2, <2>3
<1>4. Min(exact) = e
  <2>1. exact \subseteq Nat
    BY <1>1
  <2> HIDE DEF exact
  <2>2. Min(exact) \in exact /\ \A k \in exact : Min(exact) <= k
    BY <1>3 DEF Min
  <2>3. Min(exact) <= e /\ e <= Min(exact) /\ e \in Nat /\ Min(exact) \in Nat
    BY <1>3, <2>1, <2>2
  <2> QED
    BY <2>3
<1>5. Eocd(d) = e
  <2>1. exact # {} => Eocd(d) = Min(exact)
    BY DEF Eocd
  <2> HIDE DEF exact
  <2> QED
    BY <2>1, <1>3, <1>4
<1> HIDE DEF ends, exact
<1>6. Min({w, Len(d)}) = w
  BY <1>1 DEF Min
<1>7. d[1].t = "pk34" /\ e # 0 /\ e + d[e].n = w
  BY <1>2 DEF ZipFile
<1>8. ValidateZipAndOffice(d) = Verdict("VALID", ZipType(SubSeq(d, 1, w)), w)
  BY <1>5, <1>6, <1>7 DEF ValidateZipAndOffice, ZipType
<1>9. Validate("ZIP", d) = ValidateZipAndOffice(d)
  BY FragmentAssumption, UnitFacts DEF Validate
<1> QED
  BY <1>8, <1>9

LEMMA ZipCut ==
  ASSUME NEW d \in Seq(Units), NEW P, CutOff("ZIP", d, P)
  PROVE  Validate("ZIP", d) \in {Invalid("ZIP"), Verdict("PARTIAL", "ZIP", Len(d))}
<1>1. \A k \in 1..Len(d) : d[k].t # "pk56"
  BY DEF CutOff
<1>2. {k \in 2..Len(d) : d[k].t = "pk56"} = {}
  BY <1>1
<1>3. Eocd(d) = 0
  BY <1>2 DEF Eocd
<1>4. ValidateZipAndOffice(d) \in {Invalid("ZIP"), Verdict("PARTIAL", "ZIP", Len(d))}
  BY <1>3 DEF ValidateZipAndOffice
<1>5. Validate("ZIP", d) \in {ValidateZipAndOffice(d), Invalid("ZIP")}
  BY FragmentAssumption, UnitFacts DEF Validate
<1> QED
  BY <1>4, <1>5

LEMMA GifValid ==
  ASSUME NEW d \in Seq(Units), Len(d) >= MinSize, NEW w \in 2..Len(d),
         d[1].t = "gif", d[w].t = "semicolon", \A k \in 2..(w - 1) : d[k].t # "semicolon"
  PROVE  Validate("GIF", d) = Verdict("VALID", "GIF", w)
<1>1. First(d, "semicolon", 2) = w
  <2>1. Len(d) \in Nat /\ 2 \in Nat \ {0}
    BY UnitFacts
  <2> QED
    BY <2>1, FirstIs, Zenon
<1>2. ValidateGif(d) = Verdict("VALID", "GIF", w)
  BY <1>1, w # 0 DEF ValidateGif
<1>3. Validate("GIF", d) = ValidateGif(d)
  BY FragmentAssumption, UnitFacts DEF Validate
<1> QED
  BY <1>2, <1>3

LEMMA Mp4Valid ==
  ASSUME NEW d \in Seq(Units), Len(d) >= MinSize, d[1].t = "ftyp"
  PROVE  Validate("MP4", d) = Verdict("VALID", "MP4", Len(d))
<1> DEFINE stop == Stop(BoxSteps(d), 1)
           end == IF stop <= Len(d) THEN Len(d) ELSE stop - 1
<1>1. Len(d) \in Nat /\ Forward(BoxSteps(d), Len(d))
  BY UnitFacts DEF Forward, BoxSteps
<1>2. \A p \in Nat : p \in DOMAIN BoxSteps(d) => BoxSteps(d)[p] \in Nat
  BY <1>1 DEF Forward
<1>3. stop \in Nat
  <2>1. Walk(BoxSteps(d), 1) \subseteq Nat /\ stop \in Walk(BoxSteps(d), 1)
    BY <1>1, <1>2, WalkStops
  <2> QED
    BY <2>1
<1> HIDE DEF stop
<1>4. end \in Nat /\ Len(d) <= end
  BY <1>1, <1>3
<1>5. Min({Len(d), end}) = Len(d)
  <2> HIDE DEF end
  <2> QED
    BY <1>1, <1>4 DEF Min
<1>6. ValidateMp4(d) = Verdict("VALID", "MP4", Len(d))
  BY <1>5 DEF ValidateMp4, stop
<1>7. Validate("MP4", d) = ValidateMp4(d)
  BY FragmentAssumption, UnitFacts DEF Validate
<1> QED
  BY <1>6, <1>7

-----------------------------------------------------------------------------
LEMMA Clamped ==
  ASSUME NEW n \in Int
  PROVE  Clamp(n) \in Nat /\ (Clamp(n) >= 80 <=> n >= 80)
<1> DEFINE less == Min({100, n})
<1>1. less = IF n <= 100 THEN n ELSE 100
  BY DEF Min
<1> HIDE DEF less
<1>2. Max({0, less}) = IF less >= 0 THEN less ELSE 0
  BY <1>1 DEF Max
<1> QED
  BY <1>1, <1>2 DEF Clamp, less

LEMMA JpegScore ==
  ASSUME NEW c \in Seq(Units), c # <<>>
  PROVE  /\ c[1].t = "soi" /\ Last(c).t = "eoi" /\ Has(c, "sof") /\ Has(c, "sos") => Score("JPEG", c) >= 80
         /\ Last(c).t # "eoi" \/ c[1].t # "soi" => ~(Score("JPEG", c) >= 80)
<1>1. Sized(c) \in {0, 10} /\ Points(Has(c, "app"), 5) \in {0, 5}
  BY DEF Sized, Points
<1>2. ScoreJpeg(c) \in Int
  BY <1>1 DEF ScoreJpeg, Points
<1>3. ASSUME c[1].t = "soi", Last(c).t = "eoi", Has(c, "sof"), Has(c, "sos")
      PROVE  ScoreJpeg(c) >= 80
  BY <1>1, <1>3 DEF ScoreJpeg, Points
<1>4. ASSUME Last(c).t # "eoi" PROVE ~(ScoreJpeg(c) >= 80)
  BY <1>1, <1>4 DEF ScoreJpeg, Points
<1>5. ASSUME c[1].t # "soi" PROVE ~(ScoreJpeg(c) >= 80)
  BY <1>1, <1>5 DEF ScoreJpeg, Points
<1>6. Score("JPEG", c) = Clamp(ScoreJpeg(c))
  BY DEF Score
<1>7. Score("JPEG", c) >= 80 <=> ScoreJpeg(c) >= 80
  BY <1>2, <1>6, Clamped
<1> QED
  BY <1>3, <1>4, <1>5, <1>7

LEMMA PngScore ==
  ASSUME NEW c \in Seq(Units), c # <<>>
  PROVE  /\ /\ c[1].t = "png" /\ \E k \in ChunksAt(c) : c[k].t = "ihdr"
            /\ \E k \in ChunksAt(c) : c[k].t = "iend"
            /\ \A k \in ChunksAt(c) : c[k].t = "idat" => c[k].crc
            => Score("PNG", c) >= 80
         /\ (\A k \in ChunksAt(c) : c[k].t # "iend") => ~(Score("PNG", c) >= 80)
<1>1. Sized(c) \in {0, 10}
  BY DEF Sized, Points
<1>2. ScorePng(c) \in Int
  BY <1>1 DEF ScorePng, Points
<1>3. ASSUME c[1].t = "png", \E k \in ChunksAt(c) : c[k].t = "ihdr",
             \E k \in ChunksAt(c) : c[k].t = "iend",
             \A k \in ChunksAt(c) : c[k].t = "idat" => c[k].crc
      PROVE  ScorePng(c) >= 80
  BY <1>1, <1>3 DEF ScorePng, Points
<1>4. ASSUME \A k \in ChunksAt(c) : c[k].t # "iend" PROVE ~(ScorePng(c) >= 80)
  BY <1>1, <1>4 DEF ScorePng, Points
<1>5. Score("PNG", c) = Clamp(ScorePng(c))
  BY DEF Score
<1>6. Score("PNG", c) >= 80 <=> ScorePng(c) >= 80
  BY <1>2, <1>5, Clamped
<1> QED
  BY <1>3, <1>4, <1>6

LEMMA PdfScore ==
  ASSUME NEW c \in Seq(Units), c # <<>>
  PROVE  /\ /\ c[1].t = "pdf" /\ \A t \in {"obj", "xref", "eof"} : Has(c, t)
            /\ Len(c) \in Sizes \/ Has(c, "trailer")
            => Score("PDF", c) >= 80
         /\ ~Has(c, "eof") => ~(Score("PDF", c) >= 80)
<1>1. Sized(c) \in {0, 10}
  BY DEF Sized, Points
<1>2. ScorePdf(c) \in Int
  BY <1>1 DEF ScorePdf, Points
<1>3. ASSUME c[1].t = "pdf", \A t \in {"obj", "xref", "eof"} : Has(c, t),
             Len(c) \in Sizes \/ Has(c, "trailer")
      PROVE  ScorePdf(c) >= 80
  BY <1>1, <1>3 DEF ScorePdf, Points, Sized
<1>4. ASSUME ~Has(c, "eof") PROVE ~(ScorePdf(c) >= 80)
  BY <1>1, <1>4 DEF ScorePdf, Points
<1>5. Score("PDF", c) = Clamp(ScorePdf(c))
  BY DEF Score
<1>6. Score("PDF", c) >= 80 <=> ScorePdf(c) >= 80
  BY <1>2, <1>5, Clamped
<1> QED
  BY <1>3, <1>4, <1>6

LEMMA ZipScore ==
  ASSUME NEW c \in Seq(Units), c # <<>>, NEW type \in {"ZIP", ZipType(c)}
  PROVE  /\ c[1].t = "pk34" /\ Has(c, "pk56") /\ Has(c, "pk12") => Score(type, c) >= 80
         /\ ~Has(c, "pk56") => ~(Score(type, c) >= 80)
<1>1. Sized(c) \in {0, 10}
  BY DEF Sized, Points
<1>2. type \in {"ZIP", "DOCX", "XLSX", "PPTX"}
  BY DEF ZipType
<1>3. /\ type = "DOCX" => Has(c, "word")
      /\ type = "XLSX" => Has(c, "xl")
      /\ type = "PPTX" => Has(c, "ppt")
  BY DEF ZipType
<1>4. Score(type, c) = Clamp(ScoreZip(type, c))
  BY <1>2 DEF Score
<1>5. ScoreZip(type, c) \in Int /\ (~Has(c, "pk56") => ~(ScoreZip(type, c) >= 80))
  BY <1>1 DEF ScoreZip, Points
<1>6. c[1].t = "pk34" /\ Has(c, "pk56") /\ Has(c, "pk12") => ScoreZip(type, c) >= 80
  BY <1>1, <1>2, <1>3 DEF ScoreZip, Points
<1>7. Score(type, c) >= 80 <=> ScoreZip(type, c) >= 80
  BY <1>4, <1>5, Clamped
<1> QED
  BY <1>5, <1>6, <1>7

LEMMA Prefix ==
  ASSUME NEW d \in Seq(Units), NEW m \in 1..Len(d)
  PROVE  /\ SubSeq(d, 1, m) \in Seq(Units) /\ Len(SubSeq(d, 1, m)) = m /\ SubSeq(d, 1, m) # <<>>
         /\ \A k \in 1..m : SubSeq(d, 1, m)[k] = d[k]
         /\ Last(SubSeq(d, 1, m)) = d[m]
<1> DEFINE c == SubSeq(d, 1, m)
<1>1. Len(d) \in Nat /\ \A k \in 1..m : d[k] \in Units
  OBVIOUS
<1>2. c \in Seq(Units) /\ Len(c) = m /\ \A k \in 1..m : c[k] = d[k]
  BY <1>1
<1>3. c # <<>>
  BY <1>2
<1>4. Last(c) = d[m]
  BY <1>2 DEF Last
<1> QED
  BY <1>2, <1>3, <1>4

LEMMA HasIn ==
  ASSUME NEW c \in Seq(Units), NEW t
  PROVE  Has(c, t) <=> \E k \in 1..Len(c) : c[k].t = t
BY UnitFacts DEF Has

LEMMA ChunkForward ==
  ASSUME NEW c \in Seq(Units)
  PROVE  Forward([k \in {k \in DOMAIN c : c[k].t # "iend"} |-> k + 1 + c[k].n], Len(c))
BY UnitFacts DEF Forward

(* The chunks the scorer visits are those the file has.                       *)
LEMMA PngChunks ==
  ASSUME NEW c \in Seq(Units), NEW P, PngFile(c, Len(c), P)
  PROVE  ChunksAt(c) \subseteq P /\ 2 \in ChunksAt(c) /\ \E k \in ChunksAt(c) : c[k].t = "iend"
<1> DEFINE steps == [k \in {k \in DOMAIN c : c[k].t # "iend"} |-> k + 1 + c[k].n]
<1>1. Len(c) \in Nat /\ DOMAIN c = 1..Len(c) /\ Forward(steps, Len(c))
  BY UnitFacts, ChunkForward
<1>2. ASSUME NEW p \in P, p \in DOMAIN steps PROVE steps[p] \in P
  BY <1>2 DEF PngFile
<1>3. 2 \in P /\ P \subseteq 2..Len(c) /\ P \in SUBSET Nat
  BY DEF PngFile
<1> DEFINE s == Stop(steps, 2)
<1>4. /\ Walk(steps, 2) \subseteq P /\ 2 \in Walk(steps, 2)
      /\ s \in Walk(steps, 2) /\ s \notin DOMAIN steps
  <2> HIDE DEF steps
  <2> QED
    BY <1>1, <1>2, <1>3, WalkStops
<1>5. P \subseteq DOMAIN c
  BY <1>1, <1>3
<1>6. s \in DOMAIN c /\ c[s].t = "iend"
  <2>1. s \in DOMAIN c
    BY <1>4, <1>5
  <2> HIDE DEF s
  <2> QED
    BY <2>1, <1>4
<1>7. ChunksAt(c) = Walk(steps, 2) \cap DOMAIN c
  BY DEF ChunksAt
<1> QED
  BY <1>3, <1>4, <1>5, <1>6, <1>7

(* Of a file without its end, whatever is cut out of it has none.              *)
LEMMA CutChunks ==
  ASSUME NEW d \in Seq(Units), NEW P, CutOff("PNG", d, P), NEW m \in 1..Len(d)
  PROVE  \A k \in ChunksAt(SubSeq(d, 1, m)) : SubSeq(d, 1, m)[k].t # "iend"
<1> DEFINE c == SubSeq(d, 1, m)
           Q == P \cup {k \in Nat : k > m}
<1>1. c \in Seq(Units) /\ Len(c) = m /\ \A k \in 1..m : c[k] = d[k]
  BY Prefix
<1> HIDE DEF c
<1> DEFINE steps == [k \in {k \in DOMAIN c : c[k].t # "iend"} |-> k + 1 + c[k].n]
<1>2. /\ P \subseteq 2..Len(d) /\ 2 \in P /\ \A p \in P : d[p].t # "iend"
      /\ \A p \in P : p + 1 + d[p].n <= Len(d) => p + 1 + d[p].n \in P
  BY DEF CutOff
<1>3. DOMAIN c = 1..m /\ Forward(steps, m) /\ Len(d) \in Nat /\ \A k \in 1..m : d[k].n \in Nat
  BY <1>1, ChunkForward, UnitFacts
<1>4. ASSUME NEW p \in Q, p \in DOMAIN steps PROVE steps[p] \in Q
  <2>1. p \in 1..m /\ steps[p] = p + 1 + d[p].n /\ d[p].n \in Nat
    BY <1>1, <1>3, <1>4
  <2>2. p \in P
    BY <2>1
  <2>3. p + 1 + d[p].n <= Len(d) => p + 1 + d[p].n \in P
    BY <1>2, <2>2
  <2>4. p + 1 + d[p].n \in Nat /\ (p + 1 + d[p].n > Len(d) => p + 1 + d[p].n > m)
    BY <1>3, <2>1
  <2> QED
    BY <1>3, <2>1, <2>3, <2>4
<1>5. 2 \in Q /\ Q \in SUBSET Nat
  <2>1. P \subseteq Nat /\ 2 \in P
    BY <1>2
  <2> QED
    BY <2>1
<1>6. Walk(steps, 2) \subseteq Q
  <2> HIDE DEF steps, Q
  <2> QED
    BY <1>3, <1>4, <1>5, WalkStops
<1>7. ChunksAt(c) = Walk(steps, 2) \cap DOMAIN c
  BY DEF ChunksAt
<1>8. ASSUME NEW k \in ChunksAt(c) PROVE c[k].t # "iend"
  <2>1. k \in 1..m /\ k \in Q
    BY <1>3, <1>6, <1>7
  <2>2. k \in P
    BY <2>1
  <2> QED
    BY <1>1, <1>2, <2>1, <2>2
<1> QED
  BY <1>8 DEF c

-----------------------------------------------------------------------------
(* What is said of a whole file.                                             *)
LEMMA WholeVerdict ==
  ASSUME NEW d \in Seq(Units), Len(d) >= MinSize, NEW w \in 1..Len(d), NEW P, NEW type,
         WellFormed(type, d, w, P), ~Misread(type, d, w)
  PROVE  \E known : /\ Validate(type, d) = Verdict("VALID", known, w)
                    /\ type \in {"JPEG", "PNG", "PDF", "ZIP"} => Score(known, SubSeq(d, 1, w)) >= 80
                    /\ type \in {"JPEG", "PNG", "ZIP"} => Score(type, SubSeq(d, 1, w)) >= 80
<1> DEFINE c == SubSeq(d, 1, w)
<1>1. /\ c \in Seq(Units) /\ Len(c) = w /\ c # <<>> /\ Last(c) = d[w]
      /\ \A k \in 1..w : c[k] = d[k]
  BY Prefix
<1>2. \A t : (\E k \in 1..w : d[k].t = t) => Has(c, t)
  BY <1>1, HasIn
<1> HIDE DEF c
<1>3. CASE type = "JPEG"
  <2>1. JpegFile(d, w, P)
    BY <1>3 DEF WellFormed
  <2>2. Validate("JPEG", d) = Verdict("VALID", "JPEG", w) /\ \E k \in 1..w : d[k].t = "sos"
    BY <2>1, JpegValid, JpegEnds
  <2>3. c[1].t = "soi" /\ Last(c).t = "eoi" /\ Has(c, "sof") /\ Has(c, "sos")
    BY <2>1, <2>2, <1>1, <1>2 DEF JpegFile
  <2>4. Score("JPEG", c) >= 80
    BY <2>3, <1>1, JpegScore
  <2> QED
    BY <2>2, <2>4, <1>3 DEF c
<1>4. CASE type = "PNG"
  <2>1. PngFile(d, w, P)
    BY <1>4 DEF WellFormed
  <2>2. Validate("PNG", d) = Verdict("VALID", "PNG", w)
    BY <2>1, PngValid
  <2>3. 2 \in P /\ P \subseteq 2..w /\ 2 \in 1..w
    BY <2>1 DEF PngFile
  <2>4. PngFile(c, w, P)
    <3>1. c[1] = d[1] /\ c[2] = d[2] /\ \A p \in P : c[p] = d[p]
      BY <1>1, <2>3
    <3> QED
      BY <2>1, <3>1, Zenon DEF PngFile
  <2>5. ChunksAt(c) \subseteq P /\ 2 \in ChunksAt(c) /\ \E k \in ChunksAt(c) : c[k].t = "iend"
    BY <1>1, <2>4, PngChunks
  <2>6. c[1].t = "png" /\ c[2].t = "ihdr" /\ \A k \in ChunksAt(c) : c[k].t = "idat" => c[k].crc
    BY <2>4, <2>5 DEF PngFile
  <2>7. Score("PNG", c) >= 80
    BY <1>1, <2>5, <2>6, PngScore
  <2> QED
    BY <2>2, <2>7, <1>4 DEF c
<1>5. CASE type = "PDF"
  <2>1. PdfFile(d, w)
    BY <1>5 DEF WellFormed
  <2>2. Validate("PDF", d) = Verdict("VALID", "PDF", w)
    BY <2>1, <1>5, PdfValid
  <2>3. /\ c[1].t = "pdf" /\ \A t \in {"obj", "xref", "eof"} : Has(c, t)
        /\ Len(c) \in Sizes \/ Has(c, "trailer")
    <3>1. d[1].t = "pdf" /\ \A t \in {"obj", "xref", "eof"} : \E k \in 1..w : d[k].t = t
      BY <2>1 DEF PdfFile
    <3>2. w \in Sizes \/ \E k \in 1..w : d[k].t = "trailer"
      BY <2>1 DEF PdfFile
    <3> QED
      BY <3>1, <3>2, <1>1, <1>2
  <2>4. Score("PDF", c) >= 80
    BY <1>1, <2>3, PdfScore
  <2> QED
    BY <2>2, <2>4, <1>5 DEF c
<1>6. CASE type = "ZIP"
  <2>1. ZipFile(d, w)
    BY <1>6 DEF WellFormed
  <2>2. Validate("ZIP", d) = Verdict("VALID", ZipType(c), w)
    BY <2>1, ZipValid DEF c
  <2>3. PICK e \in 2..w : Tells(d, e) /\ e + d[e].n = w
    BY <2>1 DEF ZipFile
  <2>4. d[e].at + 1 \in 1..w /\ d[d[e].at + 1].t = "pk12" /\ d[e].t = "pk56"
    BY <2>3, UnitFacts DEF Tells
  <2>5. c[1].t = "pk34" /\ Has(c, "pk56") /\ Has(c, "pk12")
    BY <2>1, <2>4, <1>1, <1>2 DEF ZipFile
  <2>6. ASSUME NEW known \in {"ZIP", ZipType(c)} PROVE Score(known, c) >= 80
    BY <1>1, <2>5, ZipScore
  <2> QED
    BY <2>2, <2>6, <1>6 DEF c
<1>7. CASE type = "MP4"
  <2>1. Validate("MP4", d) = Verdict("VALID", "MP4", w)
    BY <1>7, Mp4Valid DEF WellFormed
  <2> QED
    BY <1>7, <2>1
<1>8. CASE type = "GIF"
  <2>1. w \in 2..Len(d) /\ d[1].t = "gif" /\ d[w].t = "semicolon" /\ \A k \in 2..(w - 1) : d[k].t # "semicolon"
    BY <1>8, UnitFacts DEF WellFormed, Misread
  <2>2. Validate("GIF", d) = Verdict("VALID", "GIF", w)
    BY <2>1, GifValid
  <2> QED
    BY <1>8, <2>2
<1> QED
  BY <1>3, <1>4, <1>5, <1>6, <1>7, <1>8 DEF WellFormed

(* What is said of a file without its end, whatever length is carved.         *)
LEMMA CutVerdict ==
  ASSUME NEW d \in Seq(Units), Len(d) >= MinSize, NEW P, NEW type, CutOff(type, d, P),
         NEW m \in 1..Len(d), Validate(type, d).length \in 1..Len(d) => m = Validate(type, d).length
  PROVE  /\ Validate(type, d).state # "VALID"
         /\ ~(Score(Validate(type, d).type, SubSeq(d, 1, m)) >= 80)
<1> DEFINE c == SubSeq(d, 1, m)
           v == Validate(type, d)
<1>1. /\ c \in Seq(Units) /\ Len(c) = m /\ c # <<>> /\ Last(c) = d[m]
      /\ \A k \in 1..m : c[k] = d[k]
  BY Prefix
<1> HIDE DEF c
<1>2. \A t : Has(c, t) => \E k \in 1..Len(d) : d[k].t = t
  <2>1. m <= Len(d) /\ Len(d) \in Nat
    BY UnitFacts
  <2>2. ASSUME NEW t, Has(c, t) PROVE \E k \in 1..Len(d) : d[k].t = t
    <3>1. PICK k \in 1..m : c[k].t = t
      BY <1>1, <2>2, HasIn
    <3>2. k \in 1..Len(d) /\ d[k].t = t
      BY <1>1, <2>1, <3>1
    <3> QED
      BY <3>2
  <2> QED
    BY <2>2
<1>3. Len(d) \in Nat /\ Len(d) >= 1
  BY UnitFacts
<1>4. CASE type = "JPEG"
  <2>1. v \in {Invalid("JPEG"), Verdict("PARTIAL", "JPEG", Len(d))}
    BY <1>4, JpegCut
  <2>2. CASE d[1].t # "soi"
    <3>1. ~(Score("JPEG", c) >= 80)
      BY <1>1, <2>2, JpegScore
    <3> QED
      BY <2>1, <3>1, <1>4 DEF Invalid, Verdict, c
  <2>3. CASE d[1].t = "soi"
    <3>1. v = Verdict("PARTIAL", "JPEG", Len(d))
      <4>1. ValidateJpeg(d) = Verdict("PARTIAL", "JPEG", Len(d))
        BY <1>4, <2>3, CutJpegEnds DEF ValidateJpeg
      <4>2. Validate("JPEG", d) = ValidateJpeg(d)
        BY FragmentAssumption, UnitFacts DEF Validate
      <4> QED
        BY <1>4, <4>1, <4>2
    <3>2. m = Len(d)
      BY <3>1, <1>3 DEF Verdict
    <3>3. /\ P \subseteq 2..Len(d) /\ SegmentsOf(d, P)
          /\ \A p \in P : d[p].t = "sos" => \A k \in p..Len(d) : d[k].t # "eoi"
      BY <1>4 DEF CutOff
    <3>4. PICK p \in P : d[p].t = "sos"
      BY <3>3, JpegWalk
    <3>5. d[Len(d)].t # "eoi"
      BY <3>3, <3>4, <1>3
    <3>6. ~(Score("JPEG", c) >= 80)
      BY <1>1, <3>2, <3>5, JpegScore
    <3> QED
      BY <3>1, <3>6, <1>4 DEF Verdict, c
  <2> QED
    BY <2>2, <2>3
<1>5. CASE type = "PNG"
  <2>1. v.state # "VALID" /\ v.type = "PNG"
    BY <1>5, PngCut
  <2>2. \A k \in ChunksAt(c) : c[k].t # "iend"
    BY <1>5, CutChunks DEF c
  <2>3. ~(Score("PNG", c) >= 80)
    BY <1>1, <2>2, PngScore
  <2> QED
    BY <2>1, <2>3, <1>5 DEF c
<1>6. CASE type = "PDF"
  <2>1. v \in {Invalid("PDF"), Verdict("PARTIAL", "PDF", Len(d))}
    BY <1>6, PdfCut
  <2>2. ~Has(c, "eof")
    BY <1>2, <1>6 DEF CutOff
  <2>3. ~(Score("PDF", c) >= 80)
    BY <1>1, <2>2, PdfScore
  <2> QED
    BY <2>1, <2>3, <1>6 DEF c, Invalid, Verdict
<1>7. CASE type = "ZIP"
  <2>1. v \in {Invalid("ZIP"), Verdict("PARTIAL", "ZIP", Len(d))}
    BY <1>7, ZipCut
  <2>2. ~Has(c, "pk56")
    BY <1>2, <1>7 DEF CutOff
  <2>3. ~(Score("ZIP", c) >= 80)
    BY <1>1, <2>2, ZipScore
  <2> QED
    BY <2>1, <2>3, <1>7 DEF c, Invalid, Verdict
<1> QED
  BY <1>4, <1>5, <1>6, <1>7 DEF CutOff

-----------------------------------------------------------------------------
LEMMA TimesLess ==
  ASSUME NEW m \in Nat, NEW n \in Nat, NEW c \in Nat \ {0}, m < n
  PROVE  m * c \in Nat /\ n * c \in Nat /\ m * c + c <= n * c
<1>1. n - m - 1 \in Nat
  OBVIOUS
<1>2. (n - m - 1) * c >= 0
  BY <1>1
<1>3. n * c = (n - m - 1) * c + m * c + c
  BY <1>1
<1>4. m * c \in Nat /\ n * c \in Nat
  OBVIOUS
<1> QED
  BY <1>2, <1>3, <1>4

LEMMA QuotientBounds ==
  ASSUME NEW a \in Nat, NEW c \in Nat \ {0}
  PROVE  a \div c \in Nat /\ (a \div c) * c <= a /\ a < (a \div c) * c + c
BY SMT

(* The cluster k of the units d, counted from 0.                              *)
At(d, k) == SubSeq(d, k * Cluster + 1, (k + 1) * Cluster)

(* The clusters behind the first that are whole.                              *)
Numbers(d) == 1..(Len(d) \div Cluster - 1)

LEMMA ClusterFacts ==
  ASSUME NEW d \in Seq(Units), NEW k \in Numbers(d)
  PROVE  /\ k \in Nat \ {0} /\ k * Cluster \in Nat /\ k * Cluster + Cluster <= Len(d)
         /\ k * Cluster >= Cluster /\ (k > 1 => k * Cluster >= 2 * Cluster)
         /\ At(d, k) \in Seq(Units) /\ Len(At(d, k)) = Cluster
         /\ \A n \in 1..Cluster : At(d, k)[n] = d[k * Cluster + n]
<1>1. Cluster \in Nat \ {0} /\ Len(d) \in Nat
  BY FragmentAssumption
<1> DEFINE q == Len(d) \div Cluster
<1>2. q \in Nat /\ q * Cluster <= Len(d)
  BY <1>1, QuotientBounds
<1>3. k \in Nat \ {0} /\ k < q
  BY <1>2 DEF Numbers
<1> HIDE DEF q
<1>4. k * Cluster \in Nat /\ k * Cluster + Cluster <= q * Cluster /\ q * Cluster \in Nat
  BY <1>1, <1>2, <1>3, TimesLess
<1>5. k * Cluster >= Cluster
  <2>1. 0 * Cluster + Cluster <= k * Cluster
    BY <1>1, <1>3, TimesLess
  <2> QED
    BY <1>1, <2>1
<1>6. k > 1 => k * Cluster >= 2 * Cluster
  <2>1. k > 1 => 1 * Cluster + Cluster <= k * Cluster
    BY <1>1, <1>3, TimesLess
  <2> QED
    BY <1>1, <2>1
<1> DEFINE lo == k * Cluster
<1>7. (k + 1) * Cluster = lo + Cluster
  BY <1>1, <1>3
<1> HIDE DEF lo
<1>8. lo \in Nat /\ lo + Cluster <= Len(d)
  BY <1>1, <1>2, <1>4 DEF lo
<1>9. At(d, k) = SubSeq(d, lo + 1, lo + Cluster)
  BY <1>7 DEF At, lo
<1>10. \A n \in (lo + 1)..(lo + Cluster) : d[n] \in Units
  BY <1>1, <1>8
<1>11. /\ SubSeq(d, lo + 1, lo + Cluster) \in Seq(Units)
       /\ Len(SubSeq(d, lo + 1, lo + Cluster)) = Cluster
       /\ \A n \in 1..Cluster : SubSeq(d, lo + 1, lo + Cluster)[n] = d[lo + n]
  BY <1>1, <1>8, <1>10
<1> QED
  BY <1>3, <1>4, <1>5, <1>6, <1>8, <1>9, <1>11 DEF lo

(* A cluster without end marks is a body of a JPEG or nothing.                 *)
LEMMA NoFooter ==
  ASSUME NEW c \in Seq(Units), NEW type \in {"JPEG", "PNG", "ZIP"}, NEW off,
         ~Has(c, Mark(type)), NEW f \in FragmentOf(type, c, off)
  PROVE  type = "JPEG" /\ f.data = c
<1>1. {k \in DOMAIN c : c[k].t = Mark(type) /\ k + c[k].n <= Len(c)} = {}
  BY DEF Has
<1>2. CASE type = "JPEG"
  <2>1. FragmentOf(type, c, off) \subseteq {Fragment(off, "body", c, 2)}
    BY <1>1, <1>2 DEF FragmentOf, Mark
  <2> QED
    BY <1>2, <2>1 DEF Fragment
<1>3. CASE type \in {"PNG", "ZIP"}
  <2>1. FragmentOf(type, c, off) = {}
    BY <1>1, <1>3 DEF FragmentOf, Mark
  <2> QED
    BY <2>1
<1> QED
  BY <1>2, <1>3

LEMMA WhereFrom ==
  ASSUME NEW type, NEW c, NEW off, NEW f \in FragmentOf(type, c, off)
  PROVE  f.off = off /\ type # "PDF"
BY DEF FragmentOf, Fragment

(* What begins with a header and ends without an end mark is no JPEG.          *)
LEMMA BodyScore ==
  ASSUME NEW h \in Seq(Units), NEW c \in Seq(Units), Len(c) > 0, c[Len(c)].t # "eoi"
  PROVE  ~(Score("JPEG", h \o c) >= 80)
<1>1. /\ h \o c \in Seq(Units) /\ Len(h \o c) = Len(h) + Len(c)
      /\ (h \o c)[Len(h) + Len(c)] = c[Len(c)] /\ Len(h) \in Nat /\ Len(c) \in Nat
  OBVIOUS
<1>2. h \o c # <<>> /\ Last(h \o c).t # "eoi"
  BY <1>1 DEF Last
<1> QED
  BY <1>1, <1>2, JpegScore
-----------------------------------------------------------------------------
(* The fragments behind the header's cluster, and those of them that make a    *)
(* good file with it.                                                       *)
FoundIn(a) ==
  UNION {FragmentOf(a.type, At(a.units, k), k * Cluster)
         : k \in {k \in Numbers(a.units) : Entropy(At(a.units, k)) > 0}}

HeadOf(a) == SubSeq(a.units, 1, Cluster)

Near(a, f) == Compatible(Len(HeadOf(a)), Entropy(HeadOf(a)), f) /\ f.off - Len(HeadOf(a)) <= MaxGap

Good(a, f) ==
  /\ Near(a, f)
  /\ Validate(a.type, HeadOf(a) \o f.data).state = "VALID"
  /\ Score(a.type, HeadOf(a) \o f.data) >= 80

LEMMA HeadFacts ==
  ASSUME NEW a, a.units \in Seq(Units), Len(a.units) >= Cluster
  PROVE  /\ HeadOf(a) \in Seq(Units) /\ Len(HeadOf(a)) = Cluster
         /\ \A n \in 1..Cluster : HeadOf(a)[n] = a.units[n]
<1>1. Cluster \in 1..Len(a.units)
  BY FragmentAssumption
<1> QED
  BY <1>1, Prefix DEF HeadOf

(* Where a fragment was found, which must not touch the header.               *)
LEMMA FoundAt ==
  ASSUME NEW a, a.units \in Seq(Units), NEW f \in FoundIn(a)
  PROVE  \E k \in Numbers(a.units) :
           /\ f \in FragmentOf(a.type, At(a.units, k), k * Cluster) /\ f.off = k * Cluster
           /\ Len(HeadOf(a)) = Cluster /\ (Near(a, f) => k > 1)
<1>1. PICK k \in Numbers(a.units) : f \in FragmentOf(a.type, At(a.units, k), k * Cluster)
  BY DEF FoundIn
<1>2. f.off = k * Cluster
  BY <1>1, WhereFrom
<1>3. k \in Nat \ {0} /\ k * Cluster \in Nat /\ k * Cluster + Cluster <= Len(a.units)
  BY ClusterFacts
<1>4. Cluster \in Nat \ {0} /\ Len(a.units) \in Nat
  BY FragmentAssumption
<1>5. Len(HeadOf(a)) = Cluster
  BY <1>3, <1>4, HeadFacts
<1>6. ASSUME Near(a, f) PROVE k > 1
  <2>1. k * Cluster > Cluster
    BY <1>2, <1>5, <1>6 DEF Near, Compatible
  <2>2. CASE k = 1
    BY <2>1, <2>2, <1>4
  <2> QED
    BY <2>2, <1>3
<1> QED
  BY <1>1, <1>2, <1>5, <1>6

(* A cluster without end marks makes no good file.                            *)
LEMMA MarklessBad ==
  ASSUME NEW a, a.units \in Seq(Units), a.type \in {"JPEG", "PNG", "ZIP"}, NEW k \in Numbers(a.units),
         \A n \in 1..Cluster : a.units[k * Cluster + n].t # Mark(a.type),
         NEW f \in FragmentOf(a.type, At(a.units, k), k * Cluster)
  PROVE  ~Good(a, f)
<1> DEFINE c == At(a.units, k)
<1>1. /\ c \in Seq(Units) /\ Len(c) = Cluster /\ k * Cluster \in Nat
      /\ k * Cluster + Cluster <= Len(a.units)
      /\ \A n \in 1..Cluster : c[n] = a.units[k * Cluster + n]
  BY ClusterFacts
<1> HIDE DEF c
<1>2. Cluster \in Nat \ {0} /\ Len(a.units) \in Nat
  BY FragmentAssumption
<1>3. ~Has(c, Mark(a.type))
  BY <1>1, HasIn
<1>4. a.type = "JPEG" /\ f.data = c
  <2>1. f \in FragmentOf(a.type, c, k * Cluster)
    BY DEF c
  <2> QED
    BY <1>1, <1>3, <2>1, NoFooter
<1>5. c[Len(c)].t # "eoi"
  <2>1. Mark(a.type) = "eoi"
    BY <1>4 DEF Mark
  <2> QED
    BY <1>1, <1>2, <2>1
<1>6. HeadOf(a) \in Seq(Units)
  BY <1>1, <1>2, HeadFacts
<1>7. ~(Score("JPEG", HeadOf(a) \o c) >= 80)
  BY <1>1, <1>2, <1>5, <1>6, BodyScore
<1> QED
  BY <1>4, <1>7 DEF Good

LEMMA CutNoneGood ==
  ASSUME NEW a, a.units \in Seq(Units), CutOff(a.type, a.units, a.parts), NEW f \in FoundIn(a)
  PROVE  ~Good(a, f)
<1>1. SUFFICES ASSUME Near(a, f) PROVE ~Good(a, f)
  BY DEF Good
<1>2. PICK k \in Numbers(a.units) :
        f \in FragmentOf(a.type, At(a.units, k), k * Cluster) /\ k > 1
  BY <1>1, FoundAt
<1>3. k * Cluster \in Nat /\ k * Cluster >= 2 * Cluster /\ k * Cluster + Cluster <= Len(a.units)
  BY <1>2, ClusterFacts
<1>4. Cluster \in Nat \ {0} /\ Len(a.units) \in Nat
  BY FragmentAssumption
<1>5. a.type \in {"JPEG", "PNG", "ZIP"}
  <2>1. a.type # "PDF"
    BY <1>2, WhereFrom
  <2> QED
    BY <2>1 DEF CutOff
<1> DEFINE lo == k * Cluster
<1>6. \A m \in (2 * Cluster + 1)..Len(a.units) : a.units[m].t # Mark(a.type)
  BY <1>4, <1>5 DEF CutOff, Mark
<1>7. \A n \in 1..Cluster : a.units[lo + n].t # Mark(a.type)
  <2>1. lo \in Nat /\ lo >= 2 * Cluster /\ lo + Cluster <= Len(a.units)
    BY <1>3
  <2> HIDE DEF lo
  <2>2. \A n \in 1..Cluster : lo + n \in (2 * Cluster + 1)..Len(a.units)
    BY <1>4, <2>1
  <2> QED
    BY <1>6, <2>2
<1> QED
  BY <1>2, <1>5, <1>7, MarklessBad

LEMMA OneElement ==
  ASSUME NEW n \in Nat
  PROVE  Max({n}) = n /\ Min({n}) = n
<1>1. \A x \in {n} : x = n
  OBVIOUS
<1>2. n \in {n} /\ (\A y \in {n} : y <= n) /\ \A y \in {n} : n <= y
  OBVIOUS
<1>3. \A x \in {n} : \A y \in {n} : y <= x
  BY <1>2
<1>4. Max({n}) \in {n}
  BY <1>2 DEF Max
<1>5. Min({n}) \in {n}
  BY <1>2 DEF Min
<1> QED
  BY <1>4, <1>5

(* A cluster with one end mark, of a file that ends in it.                    *)
OneEnd(type, c, e) ==
  /\ c \in Seq(Units) /\ Len(c) = Cluster /\ type \in {"JPEG", "PNG", "ZIP"}
  /\ e \in 1..Cluster /\ c[e].t = Mark(type) /\ e + c[e].n <= Cluster
  /\ \A n \in 1..Cluster : c[n].t = Mark(type) => n = e

LEMMA FooterOf ==
  ASSUME NEW type, NEW c, NEW e, NEW off, OneEnd(type, c, e)
  PROVE  \E x \in {1, 2} :
           FragmentOf(type, c, off) = {Fragment(off, "footer", SubSeq(c, 1, e + c[e].n), x)}
<1> DEFINE ends == {k \in DOMAIN c : c[k].t = Mark(type) /\ k + c[k].n <= Len(c)}
<1> USE DEF OneEnd
<1>1. Cluster \in Nat \ {0} /\ DOMAIN c = 1..Cluster /\ c[e].t = Mark(type) /\ c[e].t # "0" /\ e \in Nat
  <2>1. Cluster \in Nat \ {0} /\ DOMAIN c = 1..Cluster /\ c[e].t = Mark(type)
    BY FragmentAssumption, UnitFacts
  <2>2. Mark(type) # "0"
    BY DEF Mark
  <2> QED
    BY <2>1, <2>2
<1>2. ends = {e}
  BY <1>1
<1>3. ends # {} /\ Max(ends) = e /\ Min(ends) = e
  BY <1>1, <1>2, OneElement
<1>4. Entropy(c) \in {1, 2}
  BY <1>1 DEF Entropy
<1>5. Entropy(SubSeq(c, 1, e)) \in {1, 2}
  <2>1. e \in 1..Len(c)
    BY <1>1
  <2>2. SubSeq(c, 1, e)[e] = c[e] /\ SubSeq(c, 1, e) \in Seq(Units) /\ Len(SubSeq(c, 1, e)) = e
    BY <2>1, Prefix
  <2>3. e \in DOMAIN SubSeq(c, 1, e)
    BY <2>1, <2>2
  <2> QED
    BY <1>1, <2>2, <2>3 DEF Entropy
<1>6. CASE type = "JPEG"
  <2>1. FragmentOf(type, c, off)
          = {Fragment(off, "footer", SubSeq(c, 1, e + c[e].n), Entropy(SubSeq(c, 1, e)))}
    BY <1>3, <1>6 DEF FragmentOf, Mark
  <2> QED
    BY <1>5, <2>1
<1>7. CASE type \in {"PNG", "ZIP"}
  <2>1. FragmentOf(type, c, off) = {Fragment(off, "footer", SubSeq(c, 1, e + c[e].n), Entropy(c))}
    BY <1>3, <1>7 DEF FragmentOf, Mark
  <2> QED
    BY <1>4, <2>1
<1> QED
  BY <1>6, <1>7

LEMMA AtMostQuotient ==
  ASSUME NEW m \in Nat, NEW c \in Nat \ {0}, NEW n \in Nat, m * c <= n
  PROVE  m <= n \div c
<1> DEFINE q == n \div c
<1>1. q \in Nat /\ q * c <= n /\ n < q * c + c
  BY QuotientBounds
<1> HIDE DEF q
<1>2. SUFFICES ASSUME q < m PROVE FALSE
  BY <1>1 DEF q
<1>3. q * c \in Nat /\ m * c \in Nat /\ q * c + c <= m * c
  BY <1>1, <1>2, TimesLess
<1> QED
  BY <1>1, <1>3

(* Two pieces put together.                                                  *)
LEMMA Joining ==
  ASSUME NEW h \in Seq(Units), NEW c \in Seq(Units), NEW f \in Seq(Units),
         Len(f) = Len(h) + Len(c),
         \A n \in 1..Len(h) : h[n] = f[n], \A n \in 1..Len(c) : c[n] = f[Len(h) + n]
  PROVE  h \o c = f
<1>1. Len(h) \in Nat /\ Len(c) \in Nat
  OBVIOUS
<1>2. h \o c \in Seq(Units) /\ Len(h \o c) = Len(f)
  OBVIOUS
<1>3. ASSUME NEW n \in 1..Len(f) PROVE (h \o c)[n] = f[n]
  <2>1. CASE n <= Len(h)
    BY <1>1, <2>1
  <2>2. CASE n > Len(h)
    <3>1. n - Len(h) \in 1..Len(c) /\ Len(h) + (n - Len(h)) = n
      BY <1>1, <2>2
    <3>2. (h \o c)[n] = c[n - Len(h)]
      BY <1>1, <2>2
    <3> QED
      BY <3>1, <3>2
  <2> QED
    BY <1>1, <2>1, <2>2
<1> QED
  BY <1>2, <1>3, SeqEqual

(* A file in two pieces: its end is the one good fragment, and makes it whole.  *)
LEMMA InTwoGood ==
  ASSUME NEW a, a.units \in Seq(Units), a.file \in Seq(Units), Len(a.file) >= MinSize,
         WellFormed(a.type, a.file, Len(a.file), a.parts), InTwo(a.type, a.units, a.file)
  PROVE  \E f \in FoundIn(a) :
           /\ Good(a, f) /\ HeadOf(a) \o f.data = a.file /\ f.off \in Nat
           /\ \A h \in FoundIn(a) : Good(a, h) => h = f
<1> DEFINE d == a.units
           w == Len(a.file)
<1>1. Cluster \in Nat \ {0} /\ Len(d) \in Nat /\ MaxGap \in Nat
  BY FragmentAssumption
<1>2. a.type \in {"JPEG", "PNG", "ZIP"} /\ w \in (Cluster + 1)..(2 * Cluster) /\ w \in Nat
  BY DEF InTwo
<1>3. PICK m \in 1..(Len(d) \div Cluster), e \in (Cluster + 1)..w :
        /\ m * Cluster <= MaxGap /\ m * Cluster + 2 * Cluster <= Len(d)
        /\ \A n \in 1..Cluster : d[n] = a.file[n]
        /\ \A n \in (Cluster + 1)..w : d[m * Cluster + n] = a.file[n]
        /\ \A n \in (Cluster + 1)..Len(d) : d[n].t = Mark(a.type) <=> n = m * Cluster + e
        /\ e + a.file[e].n = w
  BY DEF InTwo
<1> DEFINE k == m + 1
           c == At(d, k)
           gap == m * Cluster
<1>4. m \in Nat \ {0} /\ gap \in Nat /\ k \in Nat \ {0} /\ k * Cluster = gap + Cluster
  <2>1. Len(d) \div Cluster \in Nat
    BY <1>1, QuotientBounds
  <2>2. m \in Nat \ {0}
    BY <2>1
  <2> QED
    BY <1>1, <2>2
<1>5. k \in Numbers(d)
  <2>1. m + 2 \in Nat /\ (m + 2) * Cluster = gap + 2 * Cluster
    BY <1>1, <1>4
  <2>2. (m + 2) * Cluster <= Len(d)
    BY <1>3, <2>1
  <2>3. m + 2 <= Len(d) \div Cluster
    BY <1>1, <2>1, <2>2, AtMostQuotient
  <2> DEFINE q == Len(d) \div Cluster
  <2>4. q \in Nat /\ m + 2 <= q
    BY <1>1, <2>3, QuotientBounds
  <2> HIDE DEF q
  <2>5. k \in 1..(q - 1)
    BY <1>4, <2>4
  <2> QED
    BY <2>5 DEF Numbers, q
<1> HIDE DEF k
<1>6. /\ c \in Seq(Units) /\ Len(c) = Cluster
      /\ \A n \in 1..Cluster : c[n] = d[k * Cluster + n]
  BY <1>5, ClusterFacts
<1> HIDE DEF c, gap
<1> DEFINE p == e - Cluster
<1>7. p \in 1..Cluster /\ e \in Nat /\ e > Cluster
  BY <1>1, <1>2
<1>8. \A n \in 1..Cluster : c[n].t = Mark(a.type) <=> n = p
  <2>1. ASSUME NEW n \in 1..Cluster PROVE c[n].t = Mark(a.type) <=> n = p
    <3>1. gap + Cluster + n \in (Cluster + 1)..Len(d)
      BY <1>1, <1>3, <1>4 DEF gap
    <3>2. d[gap + Cluster + n].t = Mark(a.type) <=> gap + Cluster + n = gap + e
      BY <1>3, <3>1 DEF gap
    <3>3. k * Cluster + n = gap + Cluster + n
      BY <1>1, <1>4
    <3>4. c[n] = d[gap + Cluster + n]
      BY <1>6, <3>3
    <3>5. gap + Cluster + n = gap + e <=> n = p
      BY <1>1, <1>4, <1>7
    <3> QED
      BY <3>2, <3>4, <3>5
  <2> QED
    BY <2>1
<1>9. \A n \in 1..Cluster : Cluster + n <= w => c[n] = a.file[Cluster + n]
  <2>1. ASSUME NEW n \in 1..Cluster, Cluster + n <= w PROVE c[n] = a.file[Cluster + n]
    <3>1. Cluster + n \in (Cluster + 1)..w
      BY <1>1, <1>2, <2>1
    <3>2. d[gap + (Cluster + n)] = a.file[Cluster + n]
      BY <1>3, <3>1 DEF gap
    <3>3. k * Cluster + n = gap + (Cluster + n)
      BY <1>1, <1>4
    <3> QED
      BY <1>6, <3>2, <3>3
  <2> QED
    BY <2>1
<1>10. c[p] = a.file[e] /\ p + c[p].n = w - Cluster
  <2>1. Cluster + p = e /\ Cluster + p <= w
    BY <1>1, <1>2, <1>7
  <2>2. c[p] = a.file[e]
    BY <1>7, <1>9, <2>1
  <2>3. e \in 1..w
    BY <1>1, <1>2
  <2>4. a.file[e].n \in Nat
    BY <2>3, UnitFacts
  <2>5. c[p].n = a.file[e].n
    BY <2>2
  <2>6. e - Cluster + a.file[e].n = w - Cluster
    <3> DEFINE l == a.file[e].n
    <3>1. l \in Nat /\ e + l = w
      BY <1>3, <2>4
    <3> HIDE DEF l
    <3>2. e - Cluster + l = w - Cluster
      BY <1>1, <1>2, <1>7, <3>1
    <3> QED
      BY <3>2 DEF l
  <2> QED
    BY <2>2, <2>5, <2>6
<1> HIDE DEF p
<1> DEFINE rest == SubSeq(c, 1, w - Cluster)
<1>11. PICK x \in {1, 2} : FragmentOf(a.type, c, k * Cluster) = {Fragment(k * Cluster, "footer", rest, x)}
  <2>1. p + c[p].n <= Cluster
    BY <1>1, <1>2, <1>10
  <2>2. \E x \in {1, 2} :
          FragmentOf(a.type, c, k * Cluster)
            = {Fragment(k * Cluster, "footer", SubSeq(c, 1, p + c[p].n), x)}
    <3>1. OneEnd(a.type, c, p)
      BY <1>2, <1>6, <1>7, <1>8, <2>1 DEF OneEnd
    <3> HIDE DEF p, rest
    <3> QED
      BY <3>1, FooterOf
  <2> QED
    BY <1>10, <2>2
<1>12. rest \in Seq(Units) /\ Len(rest) = w - Cluster /\ \A n \in 1..(w - Cluster) : rest[n] = c[n]
  <2>1. w - Cluster \in 1..Len(c)
    BY <1>1, <1>2, <1>6
  <2> QED
    BY <1>6, <2>1, Prefix
<1> HIDE DEF rest
<1>13. HeadOf(a) \in Seq(Units) /\ Len(HeadOf(a)) = Cluster /\ \A n \in 1..Cluster : HeadOf(a)[n] = d[n]
  <2>1. Len(a.units) >= Cluster
    <3>1. m * Cluster + 2 * Cluster <= Len(a.units)
      BY <1>3, Zenon
    <3>2. m * Cluster \in Nat
      BY <1>4 DEF gap
    <3> DEFINE lo == m * Cluster
    <3>3. lo \in Nat /\ lo + 2 * Cluster <= Len(a.units)
      BY <3>1, <3>2
    <3> HIDE DEF lo
    <3> QED
      BY <1>1, <3>3
  <2>2. /\ HeadOf(a) \in Seq(Units) /\ Len(HeadOf(a)) = Cluster
        /\ \A n \in 1..Cluster : HeadOf(a)[n] = a.units[n]
    BY <2>1, HeadFacts, Zenon
  <2> QED
    BY <2>2, Zenon
<1>14. HeadOf(a) \o rest = a.file
  <2>1. \A n \in 1..Cluster : HeadOf(a)[n] = a.file[n]
    BY <1>3, <1>13
  <2>2. \A n \in 1..(w - Cluster) : rest[n] = a.file[Cluster + n]
    <3>1. ASSUME NEW n \in 1..(w - Cluster) PROVE rest[n] = a.file[Cluster + n]
      <4>1. n \in 1..Cluster /\ Cluster + n <= w
        BY <1>1, <1>2
      <4>2. rest[n] = c[n]
        BY <1>12, Zenon
      <4> QED
        BY <1>9, <4>1, <4>2, Zenon
    <3> QED
      BY <3>1, Zenon
  <2>3. w = Len(HeadOf(a)) + Len(rest)
    <3>1. Len(HeadOf(a)) = Cluster /\ Len(rest) = w - Cluster
      BY <1>12, <1>13, Zenon
    <3>2. w \in Nat /\ Cluster \in Nat
      BY <1>1, <1>2, Zenon
    <3> QED
      BY <3>1, <3>2
  <2> QED
    <3>1. HeadOf(a) \in Seq(Units) /\ rest \in Seq(Units)
      BY <1>12, <1>13
    <3>2. /\ \A n \in 1..Len(HeadOf(a)) : HeadOf(a)[n] = a.file[n]
          /\ \A n \in 1..Len(rest) : rest[n] = a.file[Len(HeadOf(a)) + n]
      BY <1>12, <1>13, <2>1, <2>2, Zenon
    <3> QED
      BY <2>3, <3>1, <3>2, Joining, Zenon
<1> DEFINE f == Fragment(k * Cluster, "footer", rest, x)
<1>15. f.off = k * Cluster /\ f.data = rest /\ f.entropy = x
  BY DEF Fragment
<1>16. f \in FoundIn(a)
  <2>1. c[p].t # "0" /\ p \in DOMAIN c
    <3>1. c[p].t = Mark(a.type) /\ p \in DOMAIN c
      BY <1>6, <1>7, <1>8, UnitFacts
    <3> QED
      BY <3>1 DEF Mark
  <2>2. Entropy(c) > 0
    BY <2>1 DEF Entropy
  <2> QED
    BY <1>5, <1>11, <2>2 DEF FoundIn, c
<1> HIDE DEF f
<1>17. Good(a, f)
  <2>1. PICK known : /\ Validate(a.type, a.file) = Verdict("VALID", known, w)
                     /\ Score(a.type, SubSeq(a.file, 1, w)) >= 80
    <3>2. ~Misread(a.type, a.file, w)
      BY DEF InTwo, Misread
    <3>1. w \in 1..Len(a.file)
      BY <1>1, <1>2
    <3> QED
      BY <1>2, <3>1, <3>2, WholeVerdict
  <2>2. SubSeq(a.file, 1, w) = a.file
    OBVIOUS
  <2>3. Near(a, f)
    <3>1. k * Cluster > Cluster /\ k * Cluster - Cluster <= MaxGap
      <4>1. gap <= MaxGap /\ gap > 0
        <5>1. 0 * Cluster + Cluster <= m * Cluster
          BY <1>1, <1>4, TimesLess
        <5> QED
          BY <1>1, <1>3, <1>4, <5>1 DEF gap
      <4> QED
        BY <1>1, <1>4, <4>1
    <3>2. f.entropy # 0
      BY <1>15
    <3> QED
      BY <1>13, <1>15, <3>1, <3>2 DEF Near, Compatible
  <2>4. HeadOf(a) \o f.data = a.file
    BY <1>14, <1>15
  <2>5. Validate(a.type, a.file).state = "VALID" /\ Score(a.type, a.file) >= 80
    <3>1. Validate(a.type, a.file).state = "VALID"
      BY <2>1 DEF Verdict
    <3> QED
      BY <2>1, <2>2, <3>1
  <2> QED
    BY <2>3, <2>4, <2>5 DEF Good
<1>18. ASSUME NEW h \in FoundIn(a), Good(a, h) PROVE h = f
  <2>1. PICK j \in Numbers(d) : h \in FragmentOf(a.type, At(d, j), j * Cluster) /\ j > 1
    BY <1>18, FoundAt DEF Good
  <2>2. j * Cluster \in Nat /\ j * Cluster >= Cluster /\ j * Cluster + Cluster <= Len(d) /\ j \in Nat
    BY <2>1, ClusterFacts
  <2>3. j = k
    <3>1. SUFFICES ASSUME j # k PROVE FALSE
      OBVIOUS
    <3>2. ASSUME NEW n \in 1..Cluster PROVE d[j * Cluster + n].t # Mark(a.type)
      <4> DEFINE lo == j * Cluster
      <4>1. lo + n \in (Cluster + 1)..Len(d)
        BY <1>1, <2>2
      <4>2. lo + n # gap + e
        <5>1. gap + e = k * Cluster + p
          BY <1>1, <1>4, <1>7 DEF p
        <5>2. j < k => lo + Cluster <= k * Cluster
          BY <1>1, <1>4, <2>2, TimesLess
        <5>3. k < j => k * Cluster + Cluster <= lo
          BY <1>1, <1>4, <2>2, TimesLess
        <5>4. lo \in Nat /\ k * Cluster \in Nat
          BY <1>1, <1>4, <2>2
        <5> HIDE DEF lo
        <5> QED
          BY <1>1, <1>4, <1>7, <2>2, <3>1, <5>1, <5>2, <5>3, <5>4
      <4> QED
        BY <1>3, <4>1, <4>2 DEF gap
    <3>3. ~Good(a, h)
      BY <1>2, <2>1, <3>2, MarklessBad
    <3> QED
      BY <1>18, <3>3
  <2>4. h \in {f}
    BY <1>11, <2>1, <2>3 DEF c, f
  <2> QED
    BY <2>4
<1>19. HeadOf(a) \o f.data = a.file /\ f.off \in Nat
  BY <1>1, <1>4, <1>14, <1>15
<1> QED
  BY <1>16, <1>17, <1>18, <1>19, Zenon

-----------------------------------------------------------------------------
(* The fragments found are those of the area; with them the three properties   *)
(* follow from the area and the step that sets carved or joined.              *)
FragmentInv ==
  /\ area \in Disks /\ (orphans # None => orphans.all = FoundIn(area))
  /\ WholeFilesKnown /\ CutFilesKnown /\ PiecesRejoined

LEMMA AreaFacts ==
  ASSUME area \in Disks
  PROVE  /\ area.units \in Seq(Units) /\ Len(area.units) \in Nat /\ Len(area.units) >= MinSize
         /\ area.whole \in {0} \cup MinSize..Len(area.units) /\ MinSize \in Nat \ {0}
BY FragmentAssumption

(* The length carved.                                                        *)
LEMMA CarvedLength ==
  ASSUME NEW d \in Seq(Units), Len(d) \in Nat \ {0}, NEW n
  PROVE  /\ (IF n \in 1..Len(d) THEN n ELSE Min({Len(d), Cluster})) \in 1..Len(d)
<1>1. Cluster \in Nat \ {0}
  BY FragmentAssumption
<1> DEFINE S == {Len(d), Cluster}
<1>2. S \in SUBSET Nat /\ S # {}
  BY <1>1
<1>3. PICK s \in S : \A t \in S : s <= t
  BY <1>2, LeastExists
<1>4. Min(S) \in S /\ \A t \in S : Min(S) <= t
  BY <1>3 DEF Min
<1>5. Min(S) \in 1..Len(d)
  BY <1>1, <1>4
<1> QED
  BY <1>5

LEMMA FragmentCarve ==
  ASSUME FragmentInv, CarveSingle
  PROVE  FragmentInv'
<1> DEFINE d == area.units
           v == Validate(area.type, d)
           length == IF v.length \in 1..Len(d) THEN v.length ELSE Min({Len(d), Cluster})
           score == Score(v.type, SubSeq(d, 1, length))
<1>1. /\ d \in Seq(Units) /\ Len(d) \in Nat \ {0} /\ Len(d) >= MinSize
      /\ area.whole \in {0} \cup MinSize..Len(d) /\ MinSize \in Nat \ {0}
  BY AreaFacts DEF FragmentInv
<1>2. length \in 1..Len(d)
  BY <1>1, CarvedLength
<1>3. /\ carved' = [state |-> v.state, length |-> length, score |-> score, tier |-> Status(score)]
      /\ area' = area /\ orphans' = orphans /\ joined' = joined
  BY DEF CarveSingle
<1>4. carved'.state = v.state /\ carved'.length = length /\ carved'.tier = Status(score)
  BY <1>3
<1>5. Status(score) = "VALID" <=> score >= 80
  BY DEF Status
<1>6. WholeFilesKnown'
  <2>1. SUFFICES ASSUME area.whole > 0, ~Misread(area.type, d, area.whole)
                 PROVE  /\ v.state = "VALID" /\ length = area.whole
                        /\ area.type \in {"JPEG", "PNG", "PDF", "ZIP"} => score >= 80
    BY <1>3, <1>4, <1>5 DEF WholeFilesKnown
  <2>2. area.whole \in 1..Len(d) /\ WellFormed(area.type, d, area.whole, area.parts)
    BY <1>1, <2>1, FragmentAssumption DEF FragmentInv
  <2>3. PICK known :
          /\ v = Verdict("VALID", known, area.whole)
          /\ area.type \in {"JPEG", "PNG", "PDF", "ZIP"} => Score(known, SubSeq(d, 1, area.whole)) >= 80
    BY <1>1, <2>1, <2>2, WholeVerdict
  <2>4. v.state = "VALID" /\ v.length = area.whole /\ v.type = known
    BY <2>3 DEF Verdict
  <2>5. length = area.whole
    BY <2>2, <2>4
  <2> QED
    BY <2>3, <2>4, <2>5
<1>7. CutFilesKnown'
  <2>1. SUFFICES ASSUME area.cut PROVE v.state # "VALID" /\ ~(score >= 80)
    BY <1>3, <1>4, <1>5 DEF CutFilesKnown, FragmentInv
  <2>2. CutOff(area.type, d, area.parts)
    BY <2>1, FragmentAssumption DEF FragmentInv
  <2>3. v.length \in 1..Len(d) => length = v.length
    OBVIOUS
  <2> HIDE DEF length
  <2> QED
    BY <1>1, <1>2, <2>2, <2>3, CutVerdict
<1>8. PiecesRejoined' /\ area' \in Disks /\ (orphans' # None => orphans'.all = FoundIn(area'))
  BY <1>3 DEF PiecesRejoined, FragmentInv
<1> QED
  BY <1>6, <1>7, <1>8 DEF FragmentInv

LEMMA FragmentFind ==
  ASSUME FragmentInv, FindOrphans
  PROVE  FragmentInv'
<1>1. area' = area /\ carved' = carved /\ joined' = joined
  BY DEF FindOrphans
<1>2. orphans'.all = FoundIn(area)
  BY DEF FindOrphans, FoundIn, At, Numbers
<1>3. WholeFilesKnown' /\ CutFilesKnown' /\ PiecesRejoined'
  BY <1>1 DEF FragmentInv, WholeFilesKnown, CutFilesKnown, PiecesRejoined
<1> QED
  BY <1>1, <1>2, <1>3 DEF FragmentInv

LEMMA FragmentJoin ==
  ASSUME FragmentInv, Reconstruct
  PROVE  FragmentInv'
<1> DEFINE head == HeadOf(area)
           eligible == {f \in FoundIn(area) : Near(area, f)}
           good == {f \in FoundIn(area) : Good(area, f)}
           f == CHOOSE g \in good : \A h \in good : g.off <= h.off
<1>1. area' = area /\ carved' = carved /\ orphans' = orphans
  BY DEF Reconstruct
<1>2. joined' = IF eligible = {} THEN Partial(45)
                ELSE IF good = {} THEN Partial(35)
                ELSE [state |-> "joined", data |-> head \o f.data, off |-> f.off,
                      score |-> Score(area.type, head \o f.data),
                      length |-> Validate(area.type, head \o f.data).length]
  <2> DEFINE end == Len(head)
             near == {g \in orphans.all : Compatible(end, Entropy(head), g) /\ g.off - end <= MaxGap}
             fine == {g \in near : /\ Validate(area.type, head \o g.data).state = "VALID"
                                   /\ Score(area.type, head \o g.data) >= 80}
             h == CHOOSE g \in fine : \A x \in fine : g.off <= x.off
  <2>1. orphans.all = FoundIn(area)
    BY DEF FragmentInv, Reconstruct
  <2>2. near = eligible
    BY <2>1 DEF Near
  <2>3. fine = good
    BY <2>2 DEF Good
  <2>4. joined' = IF near = {} THEN Partial(45)
                  ELSE IF fine = {} THEN Partial(35)
                  ELSE [state |-> "joined", data |-> head \o h.data, off |-> h.off,
                        score |-> Score(area.type, head \o h.data),
                        length |-> Validate(area.type, head \o h.data).length]
    BY Zenon DEF Reconstruct, HeadOf
  <2> HIDE DEF near, fine, eligible, good
  <2> QED
    BY <2>2, <2>3, <2>4
<1>3. area.units \in Seq(Units) /\ area \in Disks
  BY AreaFacts DEF FragmentInv
<1>4. WholeFilesKnown'
  BY <1>1 DEF FragmentInv, WholeFilesKnown
<1>5. CutFilesKnown'
  <2>1. ASSUME area.cut PROVE joined'.state # "joined"
    <3>1. CutOff(area.type, area.units, area.parts)
      BY <1>3, <2>1, FragmentAssumption
    <3>2. good = {}
      BY <1>3, <3>1, CutNoneGood
    <3>3. joined' \in {Partial(45), Partial(35)}
      BY <1>2, <3>2
    <3> QED
      BY <3>3 DEF Partial
  <2> QED
    BY <1>1, <2>1 DEF FragmentInv, CutFilesKnown
<1>6. PiecesRejoined'
  <2>1. ASSUME area.file # <<>> PROVE joined'.state = "joined" /\ joined'.data = area.file
    <3>1. /\ area.file \in Seq(Units) /\ Len(area.file) >= MinSize
          /\ WellFormed(area.type, area.file, Len(area.file), area.parts)
          /\ InTwo(area.type, area.units, area.file)
      BY <1>3, <2>1, FragmentAssumption
    <3>2. PICK g \in FoundIn(area) : /\ Good(area, g) /\ head \o g.data = area.file /\ g.off \in Nat
                                   /\ \A h \in FoundIn(area) : Good(area, h) => h = g
      BY <1>3, <3>1, InTwoGood
    <3>3. g \in good /\ (\A h \in good : h = g) /\ g \in eligible
      BY <3>2 DEF Good
    <3>4. f \in good
      <4>1. \A h \in good : g.off <= h.off
        BY <3>2, <3>3
      <4> HIDE DEF good
      <4> QED
        BY <3>3, <4>1
    <3>5. f = g
      BY <3>3, <3>4
    <3> HIDE DEF f, good, eligible
    <3>6. good # {} /\ eligible # {}
      BY <3>3
    <3>7. joined' = [state |-> "joined", data |-> head \o f.data, off |-> f.off,
                     score |-> Score(area.type, head \o f.data),
                     length |-> Validate(area.type, head \o f.data).length]
      BY <1>2, <3>6
    <3>8. joined'.state = "joined" /\ joined'.data = head \o f.data
      BY <3>7
    <3> QED
      BY <3>2, <3>5, <3>8
  <2> QED
    BY <1>1, <2>1 DEF PiecesRejoined
<1>7. area' \in Disks /\ (orphans' # None => orphans'.all = FoundIn(area'))
  BY <1>1 DEF FragmentInv
<1> QED
  BY <1>4, <1>5, <1>6, <1>7 DEF FragmentInv

LEMMA FragmentInvariance == FragmentSpec => []FragmentInv
<1>1. FragmentInit => FragmentInv
  BY DEF FragmentInit, FragmentInv, None, WholeFilesKnown, CutFilesKnown, PiecesRejoined
<1>2. FragmentInv /\ [FragmentNext]_fragmentVars => FragmentInv'
  <2>1. SUFFICES ASSUME FragmentInv, [FragmentNext]_fragmentVars PROVE FragmentInv'
    OBVIOUS
  <2>2. CASE UNCHANGED fragmentVars
    BY <2>1, <2>2 DEF fragmentVars, FragmentInv, WholeFilesKnown, CutFilesKnown, PiecesRejoined
  <2> QED
    BY <2>1, <2>2, FragmentCarve, FragmentFind, FragmentJoin DEF FragmentNext
<1> QED
  BY <1>1, <1>2, PTL DEF FragmentSpec

(* A file that lies whole in the area is VALID with its true length, with      *)
(* thumbnails, archives and updates in it and anything behind it that does not  *)
(* read as its continuation, and scores as such: for every area, cluster size  *)
(* and size of file, except a PDF with the header of another file in it and a   *)
(* GIF with its end mark among its data (validate, evaluate, carveSingle).      *)
THEOREM WholeFilesAlwaysKnown == FragmentSpec => []WholeFilesKnown
<1>1. FragmentInv => WholeFilesKnown
  BY DEF FragmentInv
<1> QED
  BY <1>1, FragmentInvariance, PTL

(* A file without its end is taken for whole neither by the validator nor by   *)
(* the score, and joined with nothing (validate, evaluate,                    *)
(* attemptReconstruction).                                                  *)
THEOREM CutFilesAlwaysKnown == FragmentSpec => []CutFilesKnown
<1>1. FragmentInv => CutFilesKnown
  BY DEF FragmentInv
<1> QED
  BY <1>1, FragmentInvariance, PTL

(* A file in two pieces is put together as it was, whatever clusters without   *)
(* an end mark lie between and behind them (findOrphanFragments,              *)
(* attemptReconstruction).                                                  *)
THEOREM PiecesAlwaysRejoined == FragmentSpec => []PiecesRejoined
<1>1. FragmentInv => PiecesRejoined
  BY DEF FragmentInv
<1> QED
  BY <1>1, FragmentInvariance, PTL
=============================================================================
