------------------------ MODULE ImageAnalysisProofs ------------------------
(***************************************************************************)
(* For every image of a FAT32, exFAT or NTFS volume, however broken: what    *)
(* is extracted of a file are readable blocks of its own.                   *)
(*                                                                         *)
(* For every image in order (InOrder), of any size and with any number of    *)
(* files: the volume is found, every living file is listed and extracted     *)
(* whole, and of every deleted one its beginning.                           *)
(*                                                                         *)
(* A loop of an analyzer is a recursive function. The lemmas TurnByTurn and  *)
(* TurnByTurnIn carry what is known of it from turn to turn; the sections    *)
(* below say it of each loop, then of each file system, then of the steps    *)
(* of AnalysisSpec (AnalysisInv).                                           *)
(***************************************************************************)
EXTENDS ImageAnalysis, SequenceTheorems, FiniteSetTheorems, WellFoundedInduction, TLAPS

(* A set of numbers with a member has a least one.                           *)
LEMMA LeastExists ==
  ASSUME NEW S \in SUBSET Nat, S # {}
  PROVE  \E s \in S : \A t \in S : s <= t
<1>1. PICK x \in S : \A y \in S : <<y, x>> \notin OpToRel(<, Nat)
  BY WFMin, NatLessThanWellFounded, Zenon
<1>2. ASSUME NEW y \in S PROVE ~ (y < x)
  BY <1>1, Zenon DEF OpToRel
<1> QED
  BY <1>2

-----------------------------------------------------------------------------
(* The analyzers' loops.  Iterate(n, a, Step) is the last value of a recursive *)
(* function, chosen to satisfy its equation, so that a proof about a loop has  *)
(* to show that there is such a function before it can use the equation: each  *)
(* of the proofs below names the turns (G), takes a course of them from         *)
(* CourseExists (1 to 8), and follows it turn by turn (9 and 10).              *)

(* What holds at first and after every turn that it held before, holds at the *)
(* end.                                                                      *)
LEMMA TurnByTurn ==
  ASSUME NEW n \in Nat, NEW f, NEW S, f[0] \in S,
         \A k \in 1..n : f[k - 1] \in S => f[k] \in S
  PROVE  f[n] \in S
<1> DEFINE B == {k \in 0..n : f[k] \notin S}
<1>a. SUFFICES ASSUME B # {} PROVE FALSE
  OBVIOUS
<1>1. PICK b \in B : \A t \in B : b <= t
  <2>1. B \in SUBSET Nat
    OBVIOUS
  <2> HIDE DEF B
  <2> QED
    BY <1>a, <2>1, LeastExists
<1>2. b \in 0..n /\ f[b] \notin S /\ b # 0
  OBVIOUS
<1>3. b - 1 \in 0..n /\ b \in 1..n /\ b - 1 \notin B
  BY <1>1, <1>2
<1>4. f[b - 1] \in S
  BY <1>3
<1> QED
  BY <1>2, <1>3, <1>4

(* The courses of a loop of n turns G from a, turns that keep S.             *)
Courses(n, S, a, G) ==
  {f \in [0..n -> S] : f[0] = a /\ \A k \in 1..n : f[k] = G[k][f[k - 1]]}

(* However many turns it has, a loop has a course.                           *)
LEMMA CourseExists ==
  ASSUME NEW n \in Nat, NEW S, NEW a \in S, NEW G \in [1..n -> [S -> S]]
  PROVE  Courses(n, S, a, G) # {}
<1> DEFINE R(m) == Courses(m, S, a, G)
           B == {m \in 0..n : R(m) = {}}
<1>1. [k \in 0..0 |-> a] \in R(0)
  BY DEF Courses
<1>2. ASSUME B # {} PROVE FALSE
  <2>1. PICK b \in B : \A t \in B : b <= t
    <3>1. B \in SUBSET Nat
      OBVIOUS
    <3> HIDE DEF B
    <3> QED
      BY <1>2, <3>1, LeastExists
  <2>2. b \in 0..n /\ R(b) = {} /\ R(0) # {}
    <3> HIDE DEF R
    <3> QED
      BY <1>1
  <2>3. b # 0
    <3> HIDE DEF R
    <3> QED
      BY <2>2
  <2>4. b - 1 \in 0..n /\ b \in 1..n /\ b - 1 \notin B
    <3>1. b - 1 \in 0..n /\ b \in 1..n /\ ~ (b <= b - 1)
      BY <2>2, <2>3
    <3> HIDE DEF B
    <3> QED
      BY <2>1, <3>1
  <2>5. PICK f \in R(b - 1) : TRUE
    <3> HIDE DEF R
    <3> QED
      BY <2>4
  <2>6. f \in [0..(b - 1) -> S] /\ f[0] = a /\ \A k \in 1..(b - 1) : f[k] = G[k][f[k - 1]]
    BY <2>5 DEF Courses
  <2> DEFINE g == [k \in 0..b |-> IF k = b THEN G[b][f[b - 1]] ELSE f[k]]
  <2>7. g \in [0..b -> S]
    BY <2>4, <2>6
  <2>8. g[0] = a
    BY <2>4, <2>6
  <2>9. ASSUME NEW k \in 1..b PROVE g[k] = G[k][g[k - 1]]
    BY <2>4, <2>6
  <2>10. g \in R(b)
    <3> HIDE DEF g
    <3> QED
      BY <2>7, <2>8, <2>9 DEF Courses
  <2> QED
    BY <2>2, <2>10
<1>3. n \notin B
  <2> HIDE DEF B
  <2> QED
    BY <1>2, Zenon
<1>4. R(n) # {}
  <2>1. n \in 0..n
    OBVIOUS
  <2> HIDE DEF R
  <2> QED
    BY <1>3, <2>1, Zenon
<1> QED
  BY <1>4
-----------------------------------------------------------------------------
(* 1 << n is positive.                                                       *)
LEMMA ShiftedIsPositive ==
  ASSUME NEW m \in Nat
  PROVE  Shifted(m) \in Nat \ {0}
<1> DEFINE n == m
           a == 1
           S == Nat \ {0}
           Step(x, k) == 2 * x
           f[k \in 0..n] == IF k = 0 THEN a ELSE Step(f[k - 1], k)
           G == [k \in 1..n |-> [x \in S |-> Step(x, k)]]
<1>1. Shifted(m) = f[n]
  BY Zenon DEF Shifted, Iterate
<1>2. n \in Nat /\ a \in S
  OBVIOUS
<1>3. ASSUME NEW x \in S, NEW k \in 1..n PROVE Step(x, k) \in S
  OBVIOUS
<1> HIDE DEF n, a, S, Step
<1>4. G \in [1..n -> [S -> S]] /\ \A k \in 1..n, x \in S : G[k][x] = Step(x, k)
  BY <1>3
<1> HIDE DEF G
<1>5. Courses(n, S, a, G) # {}
  BY <1>2, <1>4, CourseExists, Zenon
<1>6. PICK g \in Courses(n, S, a, G) : TRUE
  BY <1>5, Zenon
<1>7. g = [k \in 0..n |-> IF k = 0 THEN a ELSE Step(g[k - 1], k)]
  BY <1>2, <1>4, <1>6 DEF Courses
<1>8. f = [k \in 0..n |-> IF k = 0 THEN a ELSE Step(f[k - 1], k)]
  BY <1>7, Zenon
<1> HIDE DEF f
<1>9. f[0] \in S /\ \A k \in 1..n : f[k - 1] \in S => f[k] \in S
  BY <1>2, <1>3, <1>8
<1>10. f[n] \in S
  BY <1>2, <1>9, TurnByTurn, Zenon
<1> QED
  BY <1>1, <1>10 DEF S

-----------------------------------------------------------------------------
(* The operators that all analyzers share.                                   *)
LEMMA LeastOfTwo ==
  ASSUME NEW a \in Int, NEW b \in Int
  PROVE  Min({a, b}) \in {a, b} /\ Min({a, b}) <= a /\ Min({a, b}) <= b
<1>1. \E x \in {a, b} : \A y \in {a, b} : x <= y
  BY SMT
<1>2. Min({a, b}) \in {a, b} /\ \A y \in {a, b} : Min({a, b}) <= y
  BY <1>1, Zenon DEF Min
<1> QED
  BY <1>2

(* The greater of two numbers.                                               *)
LEMMA GreatestOfTwo ==
  ASSUME NEW a \in Int, NEW b \in Int
  PROVE  Max({a, b}) \in {a, b} /\ Max({a, b}) >= a /\ Max({a, b}) >= b
<1>1. \E x \in {a, b} : \A y \in {a, b} : x >= y
  BY SMT
<1>2. Max({a, b}) \in {a, b} /\ \A y \in {a, b} : Max({a, b}) >= y
  BY <1>1, Zenon DEF Max
<1> QED
  BY <1>2

(* An extraction of N blocks, all of them of P.                              *)
Pieces(N, P) ==
  {x \in [data : Seq(P), left : Nat, go : BOOLEAN] : Len(x.data) + x.left = N}

(* The blocks of an image that can be read.                                  *)
Legible(img, b) == b < img.size /\ b \notin img.bad

(* A piece adds only readable blocks of where it was read.                    *)
LEMMA PieceStays ==
  ASSUME NEW img, img.size \in Nat, NEW P, NEW N \in Nat, NEW x \in Pieces(N, P),
         NEW off \in Nat, NEW want \in Nat,
         \A b \in Nat : Within(off, want, b) /\ Legible(img, b) => b \in P
  PROVE  Piece(img, x, off, want) \in Pieces(N, P)
<1> DEFINE whole == Min({x.left, want})
           n == IF off + whole > img.size THEN img.size - off ELSE whole
           least == Min({1, whole})
<1>1. x \in [data : Seq(P), left : Nat, go : BOOLEAN] /\ Len(x.data) + x.left = N
  BY DEF Pieces
<1>2. whole \in Nat /\ whole <= x.left /\ whole <= want
  <2>1. x.left \in Nat /\ x.left \in Int /\ want \in Int
    BY <1>1
  <2>2. whole \in {x.left, want} /\ whole <= x.left /\ whole <= want
    BY <2>1, LeastOfTwo, Zenon
  <2> HIDE DEF whole
  <2> QED
    BY <2>1, <2>2
<1>3. least \in Nat
  <2>1. whole \in Int /\ 1 \in Int
    BY <1>2
  <2>2. least \in {1, whole}
    BY <2>1, LeastOfTwo, Zenon
  <2> HIDE DEF whole, least
  <2> QED
    BY <1>2, <2>2
<1>4. n \in Int /\ n <= whole /\ off + n <= img.size
  BY <1>2
<1>5. Piece(img, x, off, want) =
        IF ~x.go \/ x.left = 0 THEN x
        ELSE IF n < least \/ ~Readable(img, off, n) THEN [x EXCEPT !.go = FALSE]
        ELSE [data |-> x.data \o Blocks(off, n), left |-> x.left - n, go |-> TRUE]
  BY Zenon DEF Piece
<1> HIDE DEF whole, n, least
<1>6. CASE ~x.go \/ x.left = 0
  BY <1>5, <1>6
<1>7. CASE ~(~x.go \/ x.left = 0) /\ (n < least \/ ~Readable(img, off, n))
  <2>1. [x EXCEPT !.go = FALSE] \in Pieces(N, P)
    BY <1>1 DEF Pieces
  <2> QED
    BY <1>5, <1>7, <2>1
<1>8. CASE ~(~x.go \/ x.left = 0) /\ ~(n < least \/ ~Readable(img, off, n))
  <2>1. n \in Nat /\ n <= x.left
    BY <1>1, <1>2, <1>3, <1>4, <1>8
  <2>2. ASSUME NEW k \in 1..n PROVE off + k - 1 \in P
    <3>1. off + k - 1 \in Nat /\ off + k - 1 \in off..(off + n - 1)
      BY <2>1
    <3>2. Within(off, want, off + k - 1)
      BY <1>2, <1>4, <2>1 DEF Within
    <3>3. Legible(img, off + k - 1)
      BY <1>4, <1>8, <2>1, <3>1 DEF Legible, Readable
    <3> QED
      BY <3>1, <3>2, <3>3
  <2>3. Blocks(off, n) \in Seq(P) /\ Len(Blocks(off, n)) = n
    BY <2>1, <2>2 DEF Blocks
  <2>4. x.data \o Blocks(off, n) \in Seq(P) /\ Len(x.data \o Blocks(off, n)) = Len(x.data) + n
    <3> DEFINE d == x.data
               e == Blocks(off, n)
    <3>1. d \in Seq(P) /\ e \in Seq(P) /\ Len(e) = n
      BY <1>1, <2>3, Zenon
    <3> HIDE DEF d, e
    <3>2. d \o e \in Seq(P) /\ Len(d \o e) = Len(d) + n
      BY ONLY <3>1, SMT
    <3> QED
      BY <3>2, Zenon DEF d, e
  <2>5. [data |-> x.data \o Blocks(off, n), left |-> x.left - n, go |-> TRUE] \in Pieces(N, P)
    <3> DEFINE d == x.data \o Blocks(off, n)
               m == x.left - n
    <3>1. d \in Seq(P) /\ m \in Nat /\ Len(d) + m = N
      BY <1>1, <2>1, <2>4
    <3> HIDE DEF d, m
    <3>2. [data |-> d, left |-> m, go |-> TRUE] \in Pieces(N, P)
      BY <3>1 DEF Pieces
    <3> QED
      BY <3>2 DEF d, m
  <2> QED
    BY <1>5, <1>8, <2>5
<1> QED
  BY <1>6, <1>7, <1>8

(* An extraction begins with nothing.                                         *)
Wanted(size) == Min({size, MaxExtract})

(* Before the first piece nothing is extracted, and no more is wanted than   *)
(* the size.                                                                 *)
LEMMA ExtractionBegins ==
  ASSUME NEW size \in Nat, NEW P
  PROVE  /\ Wanted(size) \in Nat /\ Wanted(size) <= size /\ Wanted(size) <= MaxExtract
         /\ Extraction(size) \in Pieces(Wanted(size), P)
<1>1. Wanted(size) \in Nat /\ Wanted(size) <= size /\ Wanted(size) <= MaxExtract
  BY LeastOfTwo, VolumeAssumption DEF Wanted
<1>2. Extraction(size) = [data |-> <<>>, left |-> Wanted(size), go |-> TRUE]
  BY Zenon DEF Extraction, Wanted
<1>3. <<>> \in Seq(P) /\ Len(<<>>) = 0
  BY SMT
<1> QED
  BY <1>1, <1>2, <1>3 DEF Pieces

(* Nor does it end with more than was asked for.                             *)
LEMMA ExtractionEnds ==
  ASSUME NEW size \in Nat, NEW P, NEW x \in Pieces(Wanted(size), P)
  PROVE  x.data \in Seq(P) /\ Len(x.data) <= size /\ Len(x.data) <= MaxExtract
<1>1. Wanted(size) \in Nat /\ Wanted(size) <= size /\ Wanted(size) <= MaxExtract
  BY ExtractionBegins
<1>2. x.data \in Seq(P) /\ x.left \in Nat /\ Len(x.data) + x.left = Wanted(size)
  BY DEF Pieces
<1>3. Len(x.data) \in Nat
  BY <1>2
<1> QED
  BY <1>1, <1>2, <1>3, VolumeAssumption
-----------------------------------------------------------------------------
(* An entry of the table is one of an image, or the end mark.                *)
LEMMA TableEntryIsNat ==
  ASSUME NEW img, Linking(img), NEW fat, NEW c
  PROVE  TableEntry(img, fat, c) \in Nat
BY VolumeAssumption DEF TableEntry, Linking, Eoc

(* The slots of a directory cluster are of the kinds that directories hold.   *)
LEMMA DirectorySlotsAreSlots ==
  ASSUME NEW img, img.size \in Nat, NEW off \in Nat, NEW n \in Nat, NEW S, [t |-> "end"] \in S,
         NEW slots \in Seq(S), NEW held \in Seq(S)
  PROVE  DirectorySlots(img, off, n, slots, held) \in Seq(S)
<1> DEFINE inside == Min({n, img.size - off})
           buffer == IF Readable(img, off, inside) THEN slots ELSE held
           read == [j \in 1..n |-> IF j <= Len(buffer) /\ j <= inside
                                   THEN buffer[j] ELSE [t |-> "end"]]
<1>1. buffer \in Seq(S)
  OBVIOUS
<1>2. DirectorySlots(img, off, n, slots, held) =
        IF inside <= 0 \/ (inside = n /\ ~Readable(img, off, n)) THEN <<>> ELSE read
  BY Zenon DEF DirectorySlots
<1> HIDE DEF buffer, inside
<1>3. ASSUME NEW j \in 1..n PROVE read[j] \in S
  BY <1>1
<1> HIDE DEF read
<1>4. read \in [1..n -> S]
  BY <1>3 DEF read
<1>5. read \in Seq(S) /\ <<>> \in Seq(S)
  BY <1>4
<1> QED
  BY <1>2, <1>5

(* A cluster of a directory holds entries.                                   *)
LEMMA SlotsOfAreSlots ==
  ASSUME NEW img, NEW S, Filed(img, S), NEW c
  PROVE  SlotsOf(img, c) \in Seq(S)
BY DEF SlotsOf, Filed

(* What the FAT32 analyzer finds.                                             *)
IsFat32(v) ==
  /\ v.valid /\ v.part \in Nat /\ v.data \in Nat /\ v.spc \in Nat /\ v.bps \in Nat
  /\ v.size \in Nat \ {0} /\ v.root \in Nat

(* A FAT32 volume that is recognised has its geometry.                       *)
LEMMA Fat32ProbeFinds ==
  ASSUME NEW img, img.boot \in Fat32Boots, NEW part \in Nat, Fat32Probe(img, part) # NoVolume
  PROVE  IsFat32(Fat32Probe(img, part))
<1> DEFINE b == img.boot
           v == Fat32Probe(img, part)
<1>1. /\ b.bps \in Nat /\ b.spc \in Nat /\ b.reserved \in Nat /\ b.fats \in Nat
      /\ b.spf \in Nat /\ b.root \in Nat
  BY DEF Fat32Boots
<1>2. /\ b.bps \in {1, 2, 4, 8} /\ b.spc \in PowersOfTwo
      /\ v.valid /\ v.part = part /\ v.bps = b.bps /\ v.spc = b.spc /\ v.size = b.bps * b.spc
      /\ v.root = Max({b.root, 2}) /\ v.data = b.reserved + b.fats * b.spf
  BY DEF Fat32Probe
<1>3. v.root \in Nat
  <2>1. b.root \in Int /\ 2 \in Int
    BY <1>1
  <2>2. Max({b.root, 2}) \in {b.root, 2}
    BY <2>1, GreatestOfTwo, Zenon
  <2> QED
    BY <1>1, <1>2, <2>2
<1>4. v.size \in Nat \ {0} /\ v.data \in Nat
  <2>1. b.fats * b.spf \in Nat /\ b.reserved \in Nat
    BY <1>1
  <2>2. b.bps * b.spc \in Nat \ {0}
    BY <1>2 DEF PowersOfTwo
  <2> QED
    BY <1>2, <2>1, <2>2
<1>5. v.spc \in Nat /\ v.bps \in Nat /\ v.valid /\ v.part \in Nat
  BY <1>1, <1>2
<1> HIDE DEF v
<1>6. IsFat32(v)
  BY <1>3, <1>4, <1>5 DEF IsFat32
<1> QED
  BY <1>6, Zenon DEF v

(* Every cluster begins at a block.                                          *)
LEMMA Fat32OffsetIsNat ==
  ASSUME NEW v, IsFat32(v), NEW c \in Nat
  PROVE  Fat32Offset(v, c) \in Nat
<1>1. v.part \in Nat /\ v.data \in Nat /\ v.spc \in Nat /\ v.bps \in Nat
  BY DEF IsFat32
<1> DEFINE over == Max({c - 2, 0})
<1>2. over \in Nat
  <2>1. c - 2 \in Int /\ 0 \in Int
    OBVIOUS
  <2>2. over \in {c - 2, 0} /\ over >= 0
    BY <2>1, GreatestOfTwo, Zenon
  <2> HIDE DEF over
  <2> QED
    BY <2>2
<1>3. Fat32Offset(v, c) = (v.part + v.data + over * v.spc) * v.bps
  BY DEF Fat32Offset
<1> HIDE DEF over
<1>4. over * v.spc \in Nat
  BY <1>1, <1>2
<1>5. v.part + v.data + over * v.spc \in Nat
  BY <1>1, <1>4
<1> HIDE DEF IsFat32
<1> QED
  BY <1>1, <1>3, <1>5

(* A link of the table is a number.                                          *)
LEMMA Fat32NextIsNat ==
  ASSUME NEW img, Linking(img), NEW v, NEW c
  PROVE  Fat32Next(img, v, c) \in Nat
BY TableEntryIsNat, VolumeAssumption DEF Fat32Next, Eoc

(* The walk through a directory meets directory entries.                       *)
LEMMA Fat32SlotsAreEntries ==
  ASSUME NEW img, img.size \in Nat, Linking(img), Filed(img, Fat32Entries),
         NEW v, IsFat32(v)
  PROVE  Fat32Slots(img, v) \in Seq(Fat32Entries)
<1> DEFINE n == DirGuard
           a == [at |-> v.root, held |-> <<>>, slots |-> <<>>]
           S == [at : Nat, held : Seq(Fat32Entries), slots : Seq(Fat32Entries)]
           Step(x, k) == Fat32Walk(img, v, x)
           f[k \in 0..n] == IF k = 0 THEN a ELSE Step(f[k - 1], k)
           G == [k \in 1..n |-> [x \in S |-> Step(x, k)]]
<1>1. Fat32Slots(img, v) = f[n].slots
  BY Zenon DEF Fat32Slots, Iterate
<1>2. n \in Nat /\ a \in S
  BY Fat32Assumption DEF IsFat32
<1>3. ASSUME NEW x \in S, NEW k \in 1..n PROVE Step(x, k) \in S
  <2> DEFINE slots == DirectorySlots(img, Fat32Offset(v, x.at), v.size, SlotsOf(img, x.at), x.held)
  <2>1. x.at \in Nat /\ x.held \in Seq(Fat32Entries) /\ x.slots \in Seq(Fat32Entries)
    OBVIOUS
  <2>2. slots \in Seq(Fat32Entries)
    <3>1. [t |-> "end"] \in Fat32Entries
      BY DEF Fat32Entries
    <3>2. Fat32Offset(v, x.at) \in Nat /\ v.size \in Nat
      BY <2>1, Fat32OffsetIsNat DEF IsFat32
    <3>3. SlotsOf(img, x.at) \in Seq(Fat32Entries)
      BY SlotsOfAreSlots
    <3> QED
      BY <2>1, <3>1, <3>2, <3>3, DirectorySlotsAreSlots, Zenon
  <2>3. Fat32Next(img, v, x.at) \in Nat /\ Eoc \in Nat
    BY Fat32NextIsNat, VolumeAssumption DEF Eoc
  <2>4. Step(x, k) = IF x.at < 2 \/ x.at >= EndMarks \/ slots = <<>> THEN [x EXCEPT !.at = Eoc]
                     ELSE [at |-> Fat32Next(img, v, x.at), held |-> slots, slots |-> x.slots \o slots]
    BY Zenon DEF Fat32Walk
  <2> HIDE DEF slots, Step
  <2>5. x.slots \o slots \in Seq(Fat32Entries)
    BY <2>1, <2>2
  <2>6. [at |-> Fat32Next(img, v, x.at), held |-> slots, slots |-> x.slots \o slots] \in S
    BY <2>2, <2>3, <2>5
  <2>7. [x EXCEPT !.at = Eoc] \in S
    BY <2>3
  <2> QED
    BY <2>4, <2>6, <2>7
<1> HIDE DEF n, a, S, Step
<1>4. G \in [1..n -> [S -> S]] /\ \A k \in 1..n, x \in S : G[k][x] = Step(x, k)
  BY <1>3
<1> HIDE DEF G
<1>5. Courses(n, S, a, G) # {}
  BY <1>2, <1>4, CourseExists, Zenon
<1>6. PICK g \in Courses(n, S, a, G) : TRUE
  BY <1>5, Zenon
<1>7. g = [k \in 0..n |-> IF k = 0 THEN a ELSE Step(g[k - 1], k)]
  BY <1>2, <1>4, <1>6 DEF Courses
<1>8. f = [k \in 0..n |-> IF k = 0 THEN a ELSE Step(f[k - 1], k)]
  BY <1>7, Zenon
<1> HIDE DEF f
<1>9. f[0] \in S /\ \A k \in 1..n : f[k - 1] \in S => f[k] \in S
  BY <1>2, <1>3, <1>8
<1>10. f[n] \in S
  BY <1>2, <1>9, TurnByTurn, Zenon
<1> QED
  BY <1>1, <1>10 DEF S

(* What is listed are records of directory entries.                           *)
Fat32Listable(img, v) == {Fat32Record(img, v, e, lfn) : e \in Fat32Files, lfn \in Seq(Nat)}

(* What the loop over FAT32 entries changes stays in its place.              *)
LEMMA SlotStates ==
  ASSUME NEW T, NEW x \in [lfn : Seq(Nat), ended : BOOLEAN, out : T]
  PROVE  /\ \A l \in Seq(Nat) : [x EXCEPT !.lfn = l] \in [lfn : Seq(Nat), ended : BOOLEAN, out : T]
         /\ \A b \in BOOLEAN : [x EXCEPT !.lfn = <<>>, !.ended = b]
                                 \in [lfn : Seq(Nat), ended : BOOLEAN, out : T]
         /\ \A o \in T : [x EXCEPT !.lfn = <<>>, !.out = o]
                           \in [lfn : Seq(Nat), ended : BOOLEAN, out : T]
<1> DEFINE N == Seq(Nat)
<1>1. <<>> \in N
  BY EmptySeq, Zenon
<1> HIDE DEF N
<1>2. x \in [lfn : N, ended : BOOLEAN, out : T]
  BY Zenon DEF N
<1>3. \A l \in N : [x EXCEPT !.lfn = l] \in [lfn : N, ended : BOOLEAN, out : T]
  BY <1>2
<1>4. \A b \in BOOLEAN : [x EXCEPT !.lfn = <<>>, !.ended = b] \in [lfn : N, ended : BOOLEAN, out : T]
  <2> TAKE b \in BOOLEAN
  <2> DEFINE y == [x EXCEPT !.lfn = <<>>]
  <2>1. y \in [lfn : N, ended : BOOLEAN, out : T]
    BY <1>1, <1>3, Zenon
  <2>2. [x EXCEPT !.lfn = <<>>, !.ended = b] = [y EXCEPT !.ended = b]
    BY Zenon
  <2> HIDE DEF y
  <2> QED
    BY <2>1, <2>2
<1>5. \A o \in T : [x EXCEPT !.lfn = <<>>, !.out = o] \in [lfn : N, ended : BOOLEAN, out : T]
  <2> TAKE o \in T
  <2> DEFINE y == [x EXCEPT !.lfn = <<>>]
  <2>1. y \in [lfn : N, ended : BOOLEAN, out : T]
    BY <1>1, <1>3, Zenon
  <2>2. [x EXCEPT !.lfn = <<>>, !.out = o] = [y EXCEPT !.out = o]
    BY Zenon
  <2> HIDE DEF y
  <2> QED
    BY <2>1, <2>2
<1> QED
  BY <1>3, <1>4, <1>5, Zenon DEF N

(* Each file listed is that of an entry and of the parts of a name before it.*)
LEMMA Fat32ListsRecords ==
  ASSUME NEW img, img.size \in Nat, Linking(img), Filed(img, Fat32Entries),
         NEW v, IsFat32(v), NEW del \in BOOLEAN
  PROVE  Fat32List(img, v, del) \in Seq(Fat32Listable(img, v))
<1>a. CASE v.size > MaxCluster
  BY <1>a, EmptySeq, Zenon DEF Fat32List
<1>b. SUFFICES ASSUME ~(v.size > MaxCluster) PROVE Fat32List(img, v, del) \in Seq(Fat32Listable(img, v))
  BY <1>a
<1> DEFINE slots == Fat32Slots(img, v)
           n == Len(slots)
           a == [lfn |-> <<>>, ended |-> FALSE, out |-> <<>>]
           S == [lfn : Seq(Nat), ended : BOOLEAN, out : Seq(Fat32Listable(img, v))]
           Step(x, k) == Fat32Slot(img, v, del, x, slots[k])
           f[k \in 0..n] == IF k = 0 THEN a ELSE Step(f[k - 1], k)
           G == [k \in 1..n |-> [x \in S |-> Step(x, k)]]
<1>1. Fat32List(img, v, del) = f[n].out
  BY <1>b, Zenon DEF Fat32List, Iterate
<1>2. n \in Nat /\ a \in S
  BY Fat32SlotsAreEntries
<1>3. ASSUME NEW x \in S, NEW k \in 1..n PROVE Step(x, k) \in S
  <2> DEFINE e == slots[k]
             L == Fat32Listable(img, v)
             r == Fat32Record(img, v, e, x.lfn)
  <2>1. x.lfn \in Seq(Nat) /\ x.ended \in BOOLEAN /\ x.out \in Seq(L)
    BY Zenon
  <2>2. e \in Fat32Entries
    BY Fat32SlotsAreEntries
  <2> HIDE DEF e
  <2>3. CASE x.ended
    BY <2>3 DEF Fat32Slot
  <2>4. CASE ~x.ended /\ e.t = "end"
    <3> DEFINE b == ~del
    <3>1. Step(x, k) = [x EXCEPT !.lfn = <<>>, !.ended = b]
      BY <2>4, Zenon DEF Fat32Slot, e
    <3>2. b \in BOOLEAN
      BY Zenon
    <3> HIDE DEF b
    <3>3. [x EXCEPT !.lfn = <<>>, !.ended = b] \in S
      <4> HIDE DEF L
      <4> QED
        BY <3>2, SlotStates, Zenon
    <3> HIDE DEF Step, S
    <3> QED
      BY <3>1, <3>3, Zenon
  <2>5. CASE ~x.ended /\ e.t = "lfn"
    <3>1. <<e.part>> \o x.lfn \in Seq(Nat)
      BY <2>1, <2>2, <2>5 DEF Fat32Entries, Fat32Files
    <3>2. Step(x, k) = [x EXCEPT !.lfn = <<e.part>> \o x.lfn]
      BY <2>5, Zenon DEF Fat32Slot, e
    <3> QED
      BY <3>1, <3>2, SlotStates, ZenonT(40)
  <2>6. CASE ~x.ended /\ e.t = "file"
    <3>1. e \in Fat32Files
      BY <2>2, <2>6 DEF Fat32Entries
    <3>2. r \in L
      BY <2>1, <3>1 DEF Fat32Listable
    <3> HIDE DEF r, L
    <3>3. Append(x.out, r) \in Seq(L)
      BY <2>1, <3>2
    <3>4. Step(x, k) = IF e.deleted # del \/ e.dot THEN [x EXCEPT !.lfn = <<>>]
                       ELSE [x EXCEPT !.lfn = <<>>, !.out = Append(x.out, r)]
      BY <2>6, Zenon DEF Fat32Slot, e, r
    <3>5. [x EXCEPT !.lfn = <<>>] \in S
      BY SlotStates, EmptySeq, Zenon
    <3>6. [x EXCEPT !.lfn = <<>>, !.out = Append(x.out, r)] \in S
      BY <3>3, SlotStates, Zenon DEF L
    <3> QED
      BY <3>4, <3>5, <3>6
  <2> QED
    BY <2>2, <2>3, <2>4, <2>5, <2>6 DEF Fat32Entries, Fat32Files
<1> HIDE DEF n, a, S, Step
<1>4. G \in [1..n -> [S -> S]] /\ \A k \in 1..n, x \in S : G[k][x] = Step(x, k)
  BY <1>3
<1> HIDE DEF G
<1>5. Courses(n, S, a, G) # {}
  BY <1>2, <1>4, CourseExists, Zenon
<1>6. PICK g \in Courses(n, S, a, G) : TRUE
  BY <1>5, Zenon
<1>7. g = [k \in 0..n |-> IF k = 0 THEN a ELSE Step(g[k - 1], k)]
  BY <1>2, <1>4, <1>6 DEF Courses
<1>8. f = [k \in 0..n |-> IF k = 0 THEN a ELSE Step(f[k - 1], k)]
  BY <1>7, Zenon
<1> HIDE DEF f
<1>9. f[0] \in S /\ \A k \in 1..n : f[k - 1] \in S => f[k] \in S
  BY <1>2, <1>3, <1>8
<1>10. f[n] \in S
  BY <1>2, <1>9, TurnByTurn, Zenon
<1> QED
  BY <1>1, <1>10 DEF S

(* A quotient of natural numbers.                                            *)
LEMMA QuotientIsNat ==
  ASSUME NEW m \in Nat, NEW d \in Nat \ {0}
  PROVE  m \div d \in Nat
OBVIOUS

(* From the clusters of C the table leads to no other.                        *)
Closed(img, C) ==
  /\ C \subseteq Nat
  /\ \A c \in C \cap DOMAIN img.fat : Linkable(img.fat[c]) => img.fat[c] \in C

(* The chain of a file stays in a set that the table does not lead out of.    *)
LEMMA Fat32ChainIsLinked ==
  ASSUME NEW img, Linking(img), NEW v, NEW C, Closed(img, C), NEW start \in C, NEW most \in Nat
  PROVE  Fat32Chain(img, v, start, most) \in Seq(C)
<1> DEFINE n == most
           a == [at |-> start, chain |-> <<>>]
           S == {x \in [at : Nat, chain : Seq(C)] : x.at \in C \/ x.at < 2 \/ x.at >= EndMarks}
           Step(x, k) == Fat32Follow(img, v, x)
           f[k \in 0..n] == IF k = 0 THEN a ELSE Step(f[k - 1], k)
           G == [k \in 1..n |-> [x \in S |-> Step(x, k)]]
<1>1. Fat32Chain(img, v, start, most) = f[n].chain
  BY Zenon DEF Fat32Chain, Iterate
<1>2. n \in Nat /\ a \in S
  <2>1. <<>> \in Seq(C) /\ start \in Nat
    BY EmptySeq DEF Closed
  <2> QED
    BY <2>1
<1>3. ASSUME NEW x \in S, NEW k \in 1..n PROVE Step(x, k) \in S
  <2> DEFINE succ == Fat32Next(img, v, x.at)
             to == IF succ >= Bad THEN Eoc ELSE succ
  <2>1. x.at \in Nat /\ x.chain \in Seq(C) /\ (x.at \in C \/ x.at < 2 \/ x.at >= EndMarks)
    OBVIOUS
  <2>2. Step(x, k) = IF x.at < 2 \/ x.at >= EndMarks THEN x
                     ELSE [at |-> to, chain |-> Append(x.chain, x.at)]
    BY Zenon DEF Fat32Follow
  <2>3. CASE x.at < 2 \/ x.at >= EndMarks
    BY <2>2, <2>3
  <2>4. CASE ~(x.at < 2 \/ x.at >= EndMarks)
    <3>1. x.at \in C /\ succ \in Nat
      BY <2>1, <2>4, Fat32NextIsNat
    <3>2. Append(x.chain, x.at) \in Seq(C)
      BY <2>1, <3>1
    <3>3. succ = Eoc \/ (x.at \in DOMAIN img.fat /\ succ = img.fat[x.at])
      BY Zenon DEF Fat32Next, TableEntry
    <3>4. succ < 2 \/ succ >= Bad \/ succ \in C
      BY <3>1, <3>3, VolumeAssumption DEF Closed, Linkable, Eoc
    <3> HIDE DEF succ
    <3>5. to \in Nat /\ (to \in C \/ to < 2 \/ to >= EndMarks)
      BY <3>1, <3>4, VolumeAssumption DEF Eoc, EndMarks
    <3> HIDE DEF to, Step
    <3>6. [at |-> to, chain |-> Append(x.chain, x.at)] \in S
      BY <3>2, <3>5
    <3> QED
      BY <2>2, <2>4, <3>6
  <2> QED
    BY <2>3, <2>4
<1> HIDE DEF n, a, S, Step
<1>4. G \in [1..n -> [S -> S]] /\ \A k \in 1..n, x \in S : G[k][x] = Step(x, k)
  BY <1>3
<1> HIDE DEF G
<1>5. Courses(n, S, a, G) # {}
  BY <1>2, <1>4, CourseExists, Zenon
<1>6. PICK g \in Courses(n, S, a, G) : TRUE
  BY <1>5, Zenon
<1>7. g = [k \in 0..n |-> IF k = 0 THEN a ELSE Step(g[k - 1], k)]
  BY <1>2, <1>4, <1>6 DEF Courses
<1>8. f = [k \in 0..n |-> IF k = 0 THEN a ELSE Step(f[k - 1], k)]
  BY <1>7, Zenon
<1> HIDE DEF f
<1>9. f[0] \in S /\ \A k \in 1..n : f[k - 1] \in S => f[k] \in S
  BY <1>2, <1>3, <1>8
<1>10. f[n] \in S
  BY <1>2, <1>9, TurnByTurn, Zenon
<1> QED
  BY <1>1, <1>10 DEF S

(* The clusters of C can be read into P only.                                 *)
LEMMA Fat32ExtractsItsOwn ==
  ASSUME NEW img, img.size \in Nat, Linking(img), NEW v, IsFat32(v),
         NEW r, r.size \in Nat, r.start \in Nat,
         NEW C, Closed(img, C), r.start \in C, NEW P,
         \A c \in C, b \in Nat : Within(Fat32Offset(v, c), v.size, b) /\ Legible(img, b) => b \in P
  PROVE  /\ Fat32Extract(img, v, r) \in Seq(P)
         /\ Len(Fat32Extract(img, v, r)) <= r.size /\ Len(Fat32Extract(img, v, r)) <= MaxExtract
<1>a. CASE r.size = 0 \/ r.start < 2
  <2>1. Fat32Extract(img, v, r) = <<>> /\ <<>> \in Seq(P) /\ Len(<<>>) = 0
    BY <1>a, EmptySeq DEF Fat32Extract
  <2> QED
    BY <2>1, VolumeAssumption
<1>b. SUFFICES ASSUME ~(r.size = 0 \/ r.start < 2)
               PROVE  /\ Fat32Extract(img, v, r) \in Seq(P)
                      /\ Len(Fat32Extract(img, v, r)) <= r.size
                      /\ Len(Fat32Extract(img, v, r)) <= MaxExtract
  BY <1>a, Zenon
<1>c. MostClusters(v, r.size) \in Nat
  <2> DEFINE most == (r.size + v.size - 1) \div v.size + 1
  <2>1. v.size \in Nat \ {0} /\ r.size + v.size - 1 \in Nat
    BY DEF IsFat32
  <2>2. most \in Nat /\ ChainGuard - 1 \in Nat
    BY <2>1, QuotientIsNat, Fat32Assumption
  <2>3. MostClusters(v, r.size) = Min({most, ChainGuard - 1})
    BY Zenon DEF MostClusters
  <2> HIDE DEF most
  <2>4. most \in Int /\ ChainGuard - 1 \in Int
    BY <2>2
  <2>5. Min({most, ChainGuard - 1}) \in {most, ChainGuard - 1}
    BY <2>4, LeastOfTwo, Zenon
  <2> QED
    BY <2>2, <2>3, <2>5
<1>d. Fat32Chain(img, v, r.start, MostClusters(v, r.size)) \in Seq(C)
  BY <1>c, Fat32ChainIsLinked, Zenon
<1>e. Wanted(r.size) \in Nat
  BY ExtractionBegins
<1> DEFINE chain == Fat32Chain(img, v, r.start, MostClusters(v, r.size))
           n == Len(chain)
           a == Extraction(r.size)
           S == Pieces(Wanted(r.size), P)
           Step(x, k) == Piece(img, x, Fat32Offset(v, chain[k]), v.size)
           f[k \in 0..n] == IF k = 0 THEN a ELSE Step(f[k - 1], k)
           G == [k \in 1..n |-> [x \in S |-> Step(x, k)]]
<1>1. Fat32Extract(img, v, r) = f[n].data
  BY <1>b, Zenon DEF Fat32Extract, Iterate
<1>2. n \in Nat /\ a \in S
  BY <1>d, ExtractionBegins
<1>3. ASSUME NEW x \in S, NEW k \in 1..n PROVE Step(x, k) \in S
  <2>0. chain \in Seq(C) /\ k \in 1..Len(chain)
    BY <1>d, Zenon
  <2> HIDE DEF chain
  <2>1. chain[k] \in C /\ chain[k] \in Nat
    <3>1. C \subseteq Nat
      BY Zenon DEF Closed
    <3>2. chain[k] \in C
      BY <2>0, ElementOfSeq, Zenon
    <3> QED
      BY <3>1, <3>2, Zenon
  <2>2. Fat32Offset(v, chain[k]) \in Nat /\ v.size \in Nat
    BY <2>1, Fat32OffsetIsNat DEF IsFat32
  <2>3. \A b \in Nat : Within(Fat32Offset(v, chain[k]), v.size, b) /\ Legible(img, b) => b \in P
    BY <2>1, Zenon
  <2> QED
    BY <1>e, <2>2, <2>3, PieceStays, Zenon
<1> HIDE DEF n, a, S, Step
<1>4. G \in [1..n -> [S -> S]] /\ \A k \in 1..n, x \in S : G[k][x] = Step(x, k)
  BY <1>3
<1> HIDE DEF G
<1>5. Courses(n, S, a, G) # {}
  BY <1>2, <1>4, CourseExists, Zenon
<1>6. PICK g \in Courses(n, S, a, G) : TRUE
  BY <1>5, Zenon
<1>7. g = [k \in 0..n |-> IF k = 0 THEN a ELSE Step(g[k - 1], k)]
  BY <1>2, <1>4, <1>6 DEF Courses
<1>8. f = [k \in 0..n |-> IF k = 0 THEN a ELSE Step(f[k - 1], k)]
  BY <1>7, Zenon
<1> HIDE DEF f
<1>9. f[0] \in S /\ \A k \in 1..n : f[k - 1] \in S => f[k] \in S
  BY <1>2, <1>3, <1>8
<1>10. f[n] \in S
  BY <1>2, <1>9, TurnByTurn, Zenon
<1> QED
  BY <1>1, <1>10, ExtractionEnds DEF S

(* What the exFAT analyzer finds.                                             *)
IsExFat(v) ==
  /\ v.valid /\ v.part \in Nat /\ v.data \in Nat /\ v.spc \in Nat /\ v.bps \in Nat
  /\ v.size \in Nat \ {0} /\ v.root \in Nat /\ v.clusters \in Nat

(* An exFAT volume that is recognised has its geometry.                      *)
LEMMA ExFatProbeFinds ==
  ASSUME NEW img, img.boot \in ExFatBoots, NEW part \in Nat, ExFatProbe(img, part) # NoVolume
  PROVE  IsExFat(ExFatProbe(img, part))
<1> DEFINE b == img.boot
           bps == Shifted(b.bpsShift - 9)
           spc == Shifted(b.spcShift)
           v == ExFatProbe(img, part)
<1>1. /\ b.bpsShift \in Nat /\ b.spcShift \in Nat /\ b.fatOffset \in Nat /\ b.heap \in Nat
      /\ b.count \in Nat /\ b.root \in Nat
  BY DEF ExFatBoots
<1>2. /\ b.bpsShift \in 9..12
      /\ v.valid /\ v.part = part /\ v.bps = bps /\ v.spc = spc /\ v.size = bps * spc
      /\ v.root = Max({b.root, 2}) /\ v.data = b.heap /\ v.clusters = b.count
  <2> HIDE DEF bps, spc
  <2> QED
    BY DEF ExFatProbe, bps, spc
<1>3. v.root \in Nat
  <2>1. b.root \in Int /\ 2 \in Int
    BY <1>1
  <2>2. Max({b.root, 2}) \in {b.root, 2}
    BY <2>1, GreatestOfTwo, Zenon
  <2> QED
    BY <1>1, <1>2, <2>2
<1>4. bps \in Nat \ {0} /\ spc \in Nat \ {0}
  <2>1. b.bpsShift - 9 \in Nat
    BY <1>1, <1>2
  <2> QED
    BY <1>1, <2>1, ShiftedIsPositive, Zenon
<1> HIDE DEF v, bps, spc
<1>5. bps * spc \in Nat \ {0}
  BY <1>4
<1>6. v.spc \in Nat /\ v.bps \in Nat /\ v.valid /\ v.part \in Nat /\ v.data \in Nat /\ v.clusters \in Nat
  BY <1>1, <1>2, <1>4
<1>7. IsExFat(v)
  BY <1>2, <1>3, <1>5, <1>6 DEF IsExFat
<1> QED
  BY <1>7, Zenon DEF v

(* A cluster of exFAT begins somewhere.                                      *)
LEMMA ExFatOffsetIsNat ==
  ASSUME NEW v, IsExFat(v), NEW c \in Nat
  PROVE  ExFatOffset(v, c) \in Nat
<1>1. v.part \in Nat /\ v.data \in Nat /\ v.spc \in Nat /\ v.bps \in Nat
  BY DEF IsExFat
<1> DEFINE over == Max({c - 2, 0})
<1>2. over \in Nat
  <2>1. c - 2 \in Int /\ 0 \in Int
    OBVIOUS
  <2>2. over \in {c - 2, 0} /\ over >= 0
    BY <2>1, GreatestOfTwo, Zenon
  <2> HIDE DEF over
  <2> QED
    BY <2>2
<1>3. ExFatOffset(v, c) = v.part + (v.data + over * v.spc) * v.bps
  BY DEF ExFatOffset
<1> HIDE DEF over
<1>4. over * v.spc \in Nat
  BY <1>1, <1>2
<1>5. v.data + over * v.spc \in Nat
  BY <1>1, <1>4
<1>6. (v.data + over * v.spc) * v.bps \in Nat
  BY <1>1, <1>5
<1> QED
  BY <1>1, <1>3, <1>6

(* The chain of an exFAT file stays in such a set as well.                   *)
LEMMA ExFatChainIsLinked ==
  ASSUME NEW img, Linking(img), NEW v, IsExFat(v), NEW C, Closed(img, C),
         NEW first \in C, NEW most \in Nat
  PROVE  ExFatChain(img, v, first, most) \in Seq(C)
<1> DEFINE n == most
           a == [at |-> first, chain |-> <<>>]
           S == {x \in [at : Nat, chain : Seq(C)] : x.at \in C \/ x.at < 2}
           Step(x, k) == ExFatFollow(img, v, x)
           f[k \in 0..n] == IF k = 0 THEN a ELSE Step(f[k - 1], k)
           G == [k \in 1..n |-> [x \in S |-> Step(x, k)]]
<1>1. ExFatChain(img, v, first, most) = f[n].chain
  BY Zenon DEF ExFatChain, Iterate
<1>2. n \in Nat /\ a \in S
  <2>1. <<>> \in Seq(C) /\ first \in Nat
    BY EmptySeq DEF Closed
  <2> QED
    BY <2>1
<1>3. ASSUME NEW x \in S, NEW k \in 1..n PROVE Step(x, k) \in S
  <2> DEFINE succ == ExFatNext(img, v, x.at)
             to == IF succ >= Bad THEN 0 ELSE succ
  <2>1. x.at \in Nat /\ x.chain \in Seq(C) /\ (x.at \in C \/ x.at < 2)
    OBVIOUS
  <2>2. Step(x, k) = IF ~InHeap(v, x.at) THEN x
                     ELSE [at |-> to, chain |-> Append(x.chain, x.at)]
    BY Zenon DEF ExFatFollow
  <2>3. CASE ~InHeap(v, x.at)
    BY <2>2, <2>3
  <2>4. CASE InHeap(v, x.at)
    <3>1. x.at \in C
      BY <2>1, <2>4 DEF InHeap
    <3>2. Append(x.chain, x.at) \in Seq(C)
      BY <2>1, <3>1
    <3>3. succ \in Nat /\ (succ = Eoc \/ (x.at \in DOMAIN img.fat /\ succ = img.fat[x.at]))
      <4>1. succ = TableEntry(img, v.fat, x.at)
        BY <2>4, Zenon DEF ExFatNext
      <4>2. succ \in Nat
        BY <4>1, TableEntryIsNat, Zenon
      <4>3. succ = Eoc \/ (x.at \in DOMAIN img.fat /\ succ = img.fat[x.at])
        BY <4>1, Zenon DEF TableEntry
      <4> QED
        BY <4>2, <4>3
    <3>4. succ < 2 \/ succ >= Bad \/ succ \in C
      BY <3>1, <3>3, VolumeAssumption DEF Closed, Linkable, Eoc
    <3> HIDE DEF succ
    <3>5. to \in Nat /\ (to \in C \/ to < 2)
      BY <3>3, <3>4, VolumeAssumption
    <3> HIDE DEF to, Step
    <3>6. [at |-> to, chain |-> Append(x.chain, x.at)] \in S
      BY <3>2, <3>5
    <3> QED
      BY <2>2, <2>4, <3>6
  <2> QED
    BY <2>3, <2>4
<1> HIDE DEF n, a, S, Step
<1>4. G \in [1..n -> [S -> S]] /\ \A k \in 1..n, x \in S : G[k][x] = Step(x, k)
  BY <1>3
<1> HIDE DEF G
<1>5. Courses(n, S, a, G) # {}
  BY <1>2, <1>4, CourseExists, Zenon
<1>6. PICK g \in Courses(n, S, a, G) : TRUE
  BY <1>5, Zenon
<1>7. g = [k \in 0..n |-> IF k = 0 THEN a ELSE Step(g[k - 1], k)]
  BY <1>2, <1>4, <1>6 DEF Courses
<1>8. f = [k \in 0..n |-> IF k = 0 THEN a ELSE Step(f[k - 1], k)]
  BY <1>7, Zenon
<1> HIDE DEF f
<1>9. f[0] \in S /\ \A k \in 1..n : f[k - 1] \in S => f[k] \in S
  BY <1>2, <1>3, <1>8
<1>10. f[n] \in S
  BY <1>2, <1>9, TurnByTurn, Zenon
<1> QED
  BY <1>1, <1>10 DEF S

(* Runs of clusters of C.                                                     *)
RunsIn(C) ==
  {r \in [start : Nat, count : Nat] :
     \A c \in Nat : r.start <= c /\ c < r.start + r.count => c \in C}

(* Joining clusters that follow each other adds none.                        *)
LEMMA GrowStays ==
  ASSUME NEW C, C \subseteq Nat, NEW runs \in Seq(RunsIn(C)), NEW c \in C
  PROVE  Grow(runs, c) \in Seq(RunsIn(C))
<1> DEFINE m == Len(runs)
           R == RunsIn(C)
<1>1. CASE runs # <<>> /\ c = Last(runs).start + Last(runs).count
  <2>1. m \in 1..Len(runs) /\ Last(runs) = runs[m]
    BY <1>1 DEF Last
  <2>2. runs[m] \in R
    BY <2>1, ElementOfSeq, Zenon
  <2> DEFINE r == runs[m]
             longer == [start |-> r.start, count |-> r.count + 1]
  <2>3. r \in [start : Nat, count : Nat] /\ c = r.start + r.count
        /\ \A d \in Nat : r.start <= d /\ d < r.start + r.count => d \in C
    BY <1>1, <2>1, <2>2 DEF RunsIn
  <2>4. [r EXCEPT !.count = @ + 1] = longer
    <3> HIDE DEF r
    <3> QED
      BY <2>3
  <2>5. Grow(runs, c) = [runs EXCEPT ![m] = [r EXCEPT !.count = @ + 1]]
    BY <1>1, Zenon DEF Grow
  <2> HIDE DEF r
  <2>6. longer \in R
    <3>1. longer \in [start : Nat, count : Nat]
      BY <2>3
    <3>2. ASSUME NEW d \in Nat, longer.start <= d, d < longer.start + longer.count PROVE d \in C
      BY <2>3, <3>2
    <3> HIDE DEF longer
    <3> QED
      BY <3>1, <3>2 DEF RunsIn
  <2> HIDE DEF longer, R
  <2>7. [runs EXCEPT ![m] = longer] \in Seq(R)
    BY <2>1, <2>6, ExceptSeq DEF R
  <2> QED
    BY <2>4, <2>5, <2>7 DEF R
<1>2. CASE ~(runs # <<>> /\ c = Last(runs).start + Last(runs).count)
  <2> DEFINE one == [start |-> c, count |-> 1]
  <2>1. one \in R
    BY DEF RunsIn
  <2>2. Grow(runs, c) = Append(runs, one)
    BY <1>2, Zenon DEF Grow
  <2> HIDE DEF one, R
  <2>3. Append(runs, one) \in Seq(R)
    BY <2>1 DEF R
  <2> QED
    BY <2>2, <2>3 DEF R
<1> QED
  BY <1>1, <1>2

(* The runs of a chain hold clusters of the chain.                           *)
LEMMA RunsOfStay ==
  ASSUME NEW C, C \subseteq Nat, NEW chain \in Seq(C)
  PROVE  RunsOf(chain) \in Seq(RunsIn(C))
<1> DEFINE n == Len(chain)
           a == <<>>
           S == Seq(RunsIn(C))
           Step(x, k) == Grow(x, chain[k])
           f[k \in 0..n] == IF k = 0 THEN a ELSE Step(f[k - 1], k)
           G == [k \in 1..n |-> [x \in S |-> Step(x, k)]]
<1>1. RunsOf(chain) = f[n]
  BY Zenon DEF RunsOf, Iterate
<1>2. n \in Nat /\ a \in S
  BY EmptySeq
<1>3. ASSUME NEW x \in S, NEW k \in 1..n PROVE Step(x, k) \in S
  <2>1. chain[k] \in C
    BY ElementOfSeq, Zenon
  <2> QED
    BY <2>1, GrowStays, Zenon
<1> HIDE DEF n, a, S, Step
<1>4. G \in [1..n -> [S -> S]] /\ \A k \in 1..n, x \in S : G[k][x] = Step(x, k)
  BY <1>3
<1> HIDE DEF G
<1>5. Courses(n, S, a, G) # {}
  BY <1>2, <1>4, CourseExists, Zenon
<1>6. PICK g \in Courses(n, S, a, G) : TRUE
  BY <1>5, Zenon
<1>7. g = [k \in 0..n |-> IF k = 0 THEN a ELSE Step(g[k - 1], k)]
  BY <1>2, <1>4, <1>6 DEF Courses
<1>8. f = [k \in 0..n |-> IF k = 0 THEN a ELSE Step(f[k - 1], k)]
  BY <1>7, Zenon
<1> HIDE DEF f
<1>9. f[0] \in S /\ \A k \in 1..n : f[k - 1] \in S => f[k] \in S
  BY <1>2, <1>3, <1>8
<1>10. f[n] \in S
  BY <1>2, <1>9, TurnByTurn, Zenon
<1> QED
  BY <1>1, <1>10 DEF S

(* What is listed are records of sets of slots.                               *)
ExFatListable(img, v, slots) ==
  {ExFatRecord(img, v, e, stream, NameSlots(slots, m, n)) :
     e \in ExFatEntries, stream \in ExFatStreams, m \in Nat, n \in Nat}

(* Each file listed is that of an entry, the stream behind it and names.     *)
LEMMA ExFatSetsAreRecords ==
  ASSUME NEW img, NEW v, NEW slots \in Seq(ExFatSlots), NEW del \in BOOLEAN
  PROVE  ExFatSets(img, v, slots, del) \in Seq(ExFatListable(img, v, slots))
<1> DEFINE n == Len(slots)
           a == [i |-> 1, out |-> <<>>]
           S == [i : Nat \ {0}, out : Seq(ExFatListable(img, v, slots))]
           Step(x, k) == ExFatSet(img, v, slots, del, x)
           f[k \in 0..n] == IF k = 0 THEN a ELSE Step(f[k - 1], k)
           G == [k \in 1..n |-> [x \in S |-> Step(x, k)]]
<1>1. ExFatSets(img, v, slots, del) = f[n].out
  BY Zenon DEF ExFatSets, Iterate
<1>2. n \in Nat /\ a \in S
  BY EmptySeq
<1>3. ASSUME NEW x \in S, NEW k \in 1..n PROVE Step(x, k) \in S
  <2> DEFINE e == slots[x.i]
             s == slots[x.i + 1]
             L == ExFatListable(img, v, slots)
             beyond == Len(slots) + 1
             set == 1 + e.secondary
             file == ExFatRecord(img, v, e, s, NameSlots(slots, x.i, e.secondary))
  <2>1. x.i \in Nat \ {0} /\ x.out \in Seq(L)
    BY Zenon
  <2>2. Step(x, k) =
          IF x.i >= beyond THEN x
          ELSE IF e.t # "file"
            THEN [x EXCEPT !.i = IF e.t = "end" /\ ~del THEN beyond ELSE @ + 1]
          ELSE IF e.deleted # del THEN [x EXCEPT !.i = @ + set]
          ELSE IF x.i + set > beyond THEN [x EXCEPT !.i = beyond]
          ELSE IF x.i + 1 >= beyond \/ s.t # "stream" THEN [x EXCEPT !.i = @ + 1]
          ELSE [i |-> x.i + set, out |-> Append(x.out, file)]
    BY Zenon DEF ExFatSet
  <2>3. beyond \in Nat \ {0}
    OBVIOUS
  <2>4. CASE x.i >= beyond
    BY <2>2, <2>4
  <2>5. CASE ~(x.i >= beyond)
    <3>1. x.i \in 1..Len(slots) /\ x.i + 1 \in Nat \ {0}
      BY <2>1, <2>5
    <3>2. e \in ExFatSlots
      BY <3>1, ElementOfSeq, Zenon
    <3>3. CASE e.t # "file"
      <4> DEFINE j == IF e.t = "end" /\ ~del THEN beyond ELSE x.i + 1
      <4>1. Step(x, k) = [x EXCEPT !.i = j]
        BY <2>2, <2>5, <3>3
      <4>2. j \in Nat \ {0}
        BY <2>3, <3>1
      <4> HIDE DEF j, Step
      <4> QED
        BY <4>1, <4>2
    <3>4. CASE e.t = "file"
      <4>1. e \in ExFatEntries
        BY <3>2, <3>4 DEF ExFatSlots, ExFatStreams
      <4>2. e.secondary \in Nat /\ set \in Nat
        BY <4>1 DEF ExFatEntries
      <4>3. x.i + set \in Nat \ {0}
        BY <2>1, <4>2, SMTT(20)
      <4> HIDE DEF set
      <4>4. ASSUME ~(x.i + 1 >= beyond \/ s.t # "stream")
            PROVE  [i |-> x.i + set, out |-> Append(x.out, file)] \in S
        <5>1. x.i + 1 \in 1..Len(slots) /\ s.t = "stream"
          BY <3>1, <4>4
        <5>2. s \in ExFatSlots
          BY <5>1, ElementOfSeq, Zenon
        <5>3. s \in ExFatStreams
          BY <5>1, <5>2 DEF ExFatSlots, ExFatEntries
        <5>4. x.i \in Nat
          BY <2>1
        <5>5. file \in L
          <6> HIDE DEF e, s, S
          <6> QED
            BY <4>1, <4>2, <5>3, <5>4 DEF ExFatListable
        <5> HIDE DEF file, L
        <5>6. Append(x.out, file) \in Seq(L)
          BY <2>1, <5>5
        <5> QED
          BY <4>3, <5>6 DEF L
      <4>5. [x EXCEPT !.i = x.i + set] \in S /\ [x EXCEPT !.i = beyond] \in S /\ [x EXCEPT !.i = x.i + 1] \in S
        <5> HIDE DEF beyond, e, s, file
        <5> QED
          BY <2>3, <3>1, <4>3
      <4>6. Step(x, k) =
              IF e.deleted # del THEN [x EXCEPT !.i = x.i + set]
              ELSE IF x.i + set > beyond THEN [x EXCEPT !.i = beyond]
              ELSE IF x.i + 1 >= beyond \/ s.t # "stream" THEN [x EXCEPT !.i = x.i + 1]
              ELSE [i |-> x.i + set, out |-> Append(x.out, file)]
        BY <2>2, <2>5, <3>4, Zenon
      <4> HIDE DEF Step, S, beyond, e, s, file
      <4> QED
        BY <4>4, <4>5, <4>6
    <3> QED
      BY <3>3, <3>4
  <2> QED
    BY <2>4, <2>5
<1> HIDE DEF n, a, S, Step
<1>4. G \in [1..n -> [S -> S]] /\ \A k \in 1..n, x \in S : G[k][x] = Step(x, k)
  BY <1>3
<1> HIDE DEF G
<1>5. Courses(n, S, a, G) # {}
  BY <1>2, <1>4, CourseExists, Zenon
<1>6. PICK g \in Courses(n, S, a, G) : TRUE
  BY <1>5, Zenon
<1>7. g = [k \in 0..n |-> IF k = 0 THEN a ELSE Step(g[k - 1], k)]
  BY <1>2, <1>4, <1>6 DEF Courses
<1>8. f = [k \in 0..n |-> IF k = 0 THEN a ELSE Step(f[k - 1], k)]
  BY <1>7, Zenon
<1> HIDE DEF f
<1>9. f[0] \in S /\ \A k \in 1..n : f[k - 1] \in S => f[k] \in S
  BY <1>2, <1>3, <1>8
<1>10. f[n] \in S
  BY <1>2, <1>9, TurnByTurn, Zenon
<1> QED
  BY <1>1, <1>10 DEF S

(* The slots of the one cluster of the root directory that is read.          *)
ExFatDirectory(img, v) ==
  DirectorySlots(img, ExFatOffset(v, v.root), v.size, SlotsOf(img, v.root), <<>>)

(* What is listed of an exFAT volume, living or deleted.                     *)
LEMMA ExFatListsRecords ==
  ASSUME NEW img, img.size \in Nat, Filed(img, ExFatSlots), NEW v, IsExFat(v), NEW del \in BOOLEAN
  PROVE  ExFatList(img, v, del) \in Seq(ExFatListable(img, v, ExFatDirectory(img, v)))
<1>1. [t |-> "end"] \in ExFatSlots
  BY DEF ExFatSlots
<1>2. ExFatOffset(v, v.root) \in Nat /\ v.size \in Nat
  BY ExFatOffsetIsNat DEF IsExFat
<1>3. SlotsOf(img, v.root) \in Seq(ExFatSlots) /\ <<>> \in Seq(ExFatSlots)
  BY SlotsOfAreSlots, EmptySeq
<1>4. ExFatDirectory(img, v) \in Seq(ExFatSlots)
  BY <1>1, <1>2, <1>3, DirectorySlotsAreSlots, Zenon DEF ExFatDirectory
<1>5. ExFatList(img, v, del) =
        IF v.size > MaxCluster THEN <<>> ELSE ExFatSets(img, v, ExFatDirectory(img, v), del)
  BY Zenon DEF ExFatList, ExFatDirectory
<1>6. ExFatSets(img, v, ExFatDirectory(img, v), del) \in Seq(ExFatListable(img, v, ExFatDirectory(img, v)))
  BY <1>4, ExFatSetsAreRecords, Zenon
<1> QED
  BY <1>5, <1>6, EmptySeq, Zenon

(* The clusters of a run are read into P only.                                *)
LEMMA ExFatRunStays ==
  ASSUME NEW img, img.size \in Nat, NEW v, IsExFat(v), NEW C, NEW run \in RunsIn(C),
         NEW P, NEW N \in Nat, NEW x0 \in Pieces(N, P),
         \A c \in C, b \in Nat :
           InHeap(v, c) /\ Within(ExFatOffset(v, c), v.size, b) /\ Legible(img, b) => b \in P
  PROVE  ExFatRun(img, v, x0, run) \in Pieces(N, P)
<1>a. run.count \in Nat /\ run.start \in Nat
      /\ \A c \in Nat : run.start <= c /\ c < run.start + run.count => c \in C
  BY DEF RunsIn
<1> DEFINE n == run.count
           a == x0
           S == Pieces(N, P)
           Step(x, k) == ExFatPiece(img, v, x, run.start + k - 1)
           f[k \in 0..n] == IF k = 0 THEN a ELSE Step(f[k - 1], k)
           G == [k \in 1..n |-> [x \in S |-> Step(x, k)]]
<1>1. ExFatRun(img, v, x0, run) = [f[n] EXCEPT !.go = TRUE]
  BY Zenon DEF ExFatRun, Iterate
<1>2. n \in Nat /\ a \in S
  BY <1>a
<1>3. ASSUME NEW x \in S, NEW k \in 1..n PROVE Step(x, k) \in S
  <2> DEFINE c == run.start + k - 1
  <2>1. c \in Nat /\ c \in C
    BY <1>a
  <2>2. ExFatOffset(v, c) \in Nat /\ v.size \in Nat
    BY <2>1, ExFatOffsetIsNat DEF IsExFat
  <2>3. Step(x, k) = IF InHeap(v, c) THEN Piece(img, x, ExFatOffset(v, c), v.size)
                     ELSE [x EXCEPT !.go = FALSE]
    BY Zenon DEF ExFatPiece
  <2> HIDE DEF c, Step
  <2>4. ASSUME InHeap(v, c) PROVE Piece(img, x, ExFatOffset(v, c), v.size) \in S
    <3>1. \A b \in Nat : Within(ExFatOffset(v, c), v.size, b) /\ Legible(img, b) => b \in P
      BY <2>1, <2>4, Zenon
    <3> QED
      BY <2>2, <3>1, PieceStays, Zenon
  <2>5. [x EXCEPT !.go = FALSE] \in S
    BY DEF Pieces
  <2> QED
    BY <2>3, <2>4, <2>5, Zenon
<1> HIDE DEF n, a, S, Step
<1>4. G \in [1..n -> [S -> S]] /\ \A k \in 1..n, x \in S : G[k][x] = Step(x, k)
  BY <1>3
<1> HIDE DEF G
<1>5. Courses(n, S, a, G) # {}
  BY <1>2, <1>4, CourseExists, Zenon
<1>6. PICK g \in Courses(n, S, a, G) : TRUE
  BY <1>5, Zenon
<1>7. g = [k \in 0..n |-> IF k = 0 THEN a ELSE Step(g[k - 1], k)]
  BY <1>2, <1>4, <1>6 DEF Courses
<1>8. f = [k \in 0..n |-> IF k = 0 THEN a ELSE Step(f[k - 1], k)]
  BY <1>7, Zenon
<1> HIDE DEF f
<1>9. f[0] \in S /\ \A k \in 1..n : f[k - 1] \in S => f[k] \in S
  BY <1>2, <1>3, <1>8
<1>10. f[n] \in S
  BY <1>2, <1>9, TurnByTurn, Zenon
<1> QED
  <2>1. f[n] \in Pieces(N, P)
    BY <1>10 DEF S
  <2>2. \A y \in Pieces(N, P) : [y EXCEPT !.go = TRUE] \in Pieces(N, P)
    BY DEF Pieces
  <2> QED
    BY <1>1, <2>1, <2>2, Zenon

(* The clusters of the runs of a file are read into P only.                  *)
LEMMA ExFatExtractsItsOwn ==
  ASSUME NEW img, img.size \in Nat, NEW v, IsExFat(v), NEW r, r.size \in Nat,
         NEW C, RunsToRead(v, r) \in Seq(RunsIn(C)), NEW P,
         \A c \in C, b \in Nat :
           InHeap(v, c) /\ Within(ExFatOffset(v, c), v.size, b) /\ Legible(img, b) => b \in P
  PROVE  /\ ExFatExtract(img, v, r) \in Seq(P)
         /\ Len(ExFatExtract(img, v, r)) <= r.size /\ Len(ExFatExtract(img, v, r)) <= MaxExtract
<1>a. CASE r.size = 0 \/ r.start < 2
  <2>1. ExFatExtract(img, v, r) = <<>> /\ <<>> \in Seq(P) /\ Len(<<>>) = 0
    BY <1>a, EmptySeq DEF ExFatExtract
  <2> QED
    BY <2>1, VolumeAssumption
<1>b. SUFFICES ASSUME ~(r.size = 0 \/ r.start < 2)
               PROVE  /\ ExFatExtract(img, v, r) \in Seq(P)
                      /\ Len(ExFatExtract(img, v, r)) <= r.size
                      /\ Len(ExFatExtract(img, v, r)) <= MaxExtract
  BY <1>a, Zenon
<1>e. Wanted(r.size) \in Nat
  BY ExtractionBegins
<1> DEFINE runs == RunsToRead(v, r)
           n == Len(runs)
           a == Extraction(r.size)
           S == Pieces(Wanted(r.size), P)
           Step(x, k) == ExFatRun(img, v, x, runs[k])
           f[k \in 0..n] == IF k = 0 THEN a ELSE Step(f[k - 1], k)
           G == [k \in 1..n |-> [x \in S |-> Step(x, k)]]
<1>1. ExFatExtract(img, v, r) = f[n].data
  BY <1>b, Zenon DEF ExFatExtract, Iterate
<1>2. n \in Nat /\ a \in S
  BY ExtractionBegins
<1>3. ASSUME NEW x \in S, NEW k \in 1..n PROVE Step(x, k) \in S
  <2>1. runs \in Seq(RunsIn(C)) /\ k \in 1..Len(runs)
    BY Zenon
  <2> HIDE DEF runs
  <2>2. runs[k] \in RunsIn(C)
    BY <2>1, ElementOfSeq, Zenon
  <2> QED
    BY <1>e, <2>2, ExFatRunStays, Zenon
<1> HIDE DEF n, a, S, Step
<1>4. G \in [1..n -> [S -> S]] /\ \A k \in 1..n, x \in S : G[k][x] = Step(x, k)
  BY <1>3
<1> HIDE DEF G
<1>5. Courses(n, S, a, G) # {}
  BY <1>2, <1>4, CourseExists, Zenon
<1>6. PICK g \in Courses(n, S, a, G) : TRUE
  BY <1>5, Zenon
<1>7. g = [k \in 0..n |-> IF k = 0 THEN a ELSE Step(g[k - 1], k)]
  BY <1>2, <1>4, <1>6 DEF Courses
<1>8. f = [k \in 0..n |-> IF k = 0 THEN a ELSE Step(f[k - 1], k)]
  BY <1>7, Zenon
<1> HIDE DEF f
<1>9. f[0] \in S /\ \A k \in 1..n : f[k - 1] \in S => f[k] \in S
  BY <1>2, <1>3, <1>8
<1>10. f[n] \in S
  BY <1>2, <1>9, TurnByTurn, Zenon
<1> QED
  BY <1>1, <1>10, ExtractionEnds DEF S

(* The runs of an NTFS file.                                                 *)
NtfsRuns == [start : Nat, count : Nat]

(* A run list is read as runs that begin in the volume or behind it, never   *)
(* before it.                                                                *)
LEMMA RunlistsAreRuns ==
  ASSUME NEW list \in Seq(RunHeaders)
  PROVE  ParseRunlist(list) \in Seq(NtfsRuns)
<1> DEFINE n == Len(list)
           a == [lcn |-> 0, runs |-> <<>>, go |-> TRUE]
           S == [lcn : Int, runs : Seq(NtfsRuns), go : BOOLEAN]
           Step(x, k) == Decoded(x, list[k])
           f[k \in 0..n] == IF k = 0 THEN a ELSE Step(f[k - 1], k)
           G == [k \in 1..n |-> [x \in S |-> Step(x, k)]]
<1>1. ParseRunlist(list) = f[n].runs
  BY Zenon DEF ParseRunlist, Iterate
<1>2. n \in Nat /\ a \in S
  BY EmptySeq
<1>3. ASSUME NEW x \in S, NEW k \in 1..n PROVE Step(x, k) \in S
  <2> DEFINE h == list[k]
             lcn == x.lcn + (IF h.sparse THEN 0 ELSE h.delta)
             run == [start |-> lcn, count |-> h.length]
  <2>1. x.lcn \in Int /\ x.runs \in Seq(NtfsRuns) /\ x.go \in BOOLEAN
    BY Zenon
  <2>2. h \in RunHeaders
    BY ElementOfSeq, Zenon
  <2> HIDE DEF h
  <2>3. lcn \in Int /\ h.length \in Nat
    BY <2>1, <2>2 DEF RunHeaders
  <2>4. Step(x, k) = IF ~x.go \/ ~h.valid THEN [x EXCEPT !.go = FALSE]
                     ELSE [lcn |-> lcn, go |-> TRUE,
                           runs |-> IF lcn < 0 THEN x.runs ELSE Append(x.runs, run)]
    BY Zenon DEF Decoded, h
  <2> HIDE DEF lcn
  <2>5. ASSUME ~(lcn < 0) PROVE Append(x.runs, run) \in Seq(NtfsRuns)
    <3>1. run \in NtfsRuns
      BY <2>3, <2>5 DEF NtfsRuns
    <3> HIDE DEF run
    <3> QED
      BY <2>1, <3>1
  <2> HIDE DEF run, Step
  <2>6. [x EXCEPT !.go = FALSE] \in S
    OBVIOUS
  <2>7. [lcn |-> lcn, go |-> TRUE, runs |-> IF lcn < 0 THEN x.runs ELSE Append(x.runs, run)] \in S
    BY <2>1, <2>3, <2>5
  <2> QED
    BY <2>4, <2>6, <2>7
<1> HIDE DEF n, a, S, Step
<1>4. G \in [1..n -> [S -> S]] /\ \A k \in 1..n, x \in S : G[k][x] = Step(x, k)
  BY <1>3
<1> HIDE DEF G
<1>5. Courses(n, S, a, G) # {}
  BY <1>2, <1>4, CourseExists, Zenon
<1>6. PICK g \in Courses(n, S, a, G) : TRUE
  BY <1>5, Zenon
<1>7. g = [k \in 0..n |-> IF k = 0 THEN a ELSE Step(g[k - 1], k)]
  BY <1>2, <1>4, <1>6 DEF Courses
<1>8. f = [k \in 0..n |-> IF k = 0 THEN a ELSE Step(f[k - 1], k)]
  BY <1>7, Zenon
<1> HIDE DEF f
<1>9. f[0] \in S /\ \A k \in 1..n : f[k - 1] \in S => f[k] \in S
  BY <1>2, <1>3, <1>8
<1>10. f[n] \in S
  BY <1>2, <1>9, TurnByTurn, Zenon
<1> QED
  BY <1>1, <1>10 DEF S

(* The least number of a set.                                                *)
LEMMA LeastOfSet ==
  ASSUME NEW S \in SUBSET Nat, S # {}
  PROVE  Min(S) \in S /\ \A y \in S : Min(S) <= y
<1>1. \E x \in S : \A y \in S : x <= y
  BY LeastExists
<1> QED
  BY <1>1, Zenon DEF Min

(* The attributes that are walked are the first of the record.                 *)
LEMMA WalkedIsPrefix ==
  ASSUME NEW rec, rec.attrs \in Seq(NtfsAttributes)
  PROVE  /\ Walked(rec) \in Seq(NtfsAttributes)
         /\ \A j \in DOMAIN Walked(rec) : j \in 1..Len(rec.attrs)
<1> DEFINE B == {j \in DOMAIN rec.attrs : rec.attrs[j].broken} \cup {Len(rec.attrs) + 1}
           m == Min(B) - 1
<1>1. B \in SUBSET Nat /\ B # {} /\ Len(rec.attrs) + 1 \in B /\ \A y \in B : y >= 1
  <2>1. Len(rec.attrs) \in Nat /\ DOMAIN rec.attrs = 1..Len(rec.attrs)
    OBVIOUS
  <2>2. \A y \in B : y \in 1..(Len(rec.attrs) + 1)
    BY <2>1
  <2>3. Len(rec.attrs) + 1 \in B
    BY Zenon
  <2> HIDE DEF B
  <2> QED
    BY <2>1, <2>2, <2>3
<1>2. Walked(rec) = SubSeq(rec.attrs, 1, m)
  BY Zenon DEF Walked
<1> HIDE DEF B
<1>3. m \in 0..Len(rec.attrs)
  <2>1. Min(B) \in B /\ Min(B) <= Len(rec.attrs) + 1
    BY <1>1, LeastOfSet
  <2>2. Min(B) >= 1 /\ Min(B) \in Nat
    BY <1>1, <2>1
  <2> QED
    BY <2>1, <2>2
<1> HIDE DEF m
<1>4. SubSeq(rec.attrs, 1, m) \in Seq(NtfsAttributes) /\ Len(SubSeq(rec.attrs, 1, m)) = m
  BY <1>3
<1> QED
  BY <1>2, <1>3, <1>4

(* What the attributes of a record have told of its file.                    *)
RecordNames == STRING \cup {""}

Gathered == [name : RecordNames, size : Nat, runs : Seq(NtfsRuns), resident : Nat, at : Nat]

(* What the walk over the attributes changes stays in its place.             *)
LEMMA GatheredChanges ==
  ASSUME NEW Q, NEW x \in [name : RecordNames, size : Nat, runs : Q, resident : Nat, at : Nat]
  PROVE  /\ \A m \in Nat : [x EXCEPT !.size = m]
                             \in [name : RecordNames, size : Nat, runs : Q, resident : Nat, at : Nat]
         /\ \A m \in Nat : [x EXCEPT !.resident = m]
                             \in [name : RecordNames, size : Nat, runs : Q, resident : Nat, at : Nat]
         /\ \A m \in Nat : [x EXCEPT !.at = m]
                             \in [name : RecordNames, size : Nat, runs : Q, resident : Nat, at : Nat]
         /\ \A q \in Q : [x EXCEPT !.runs = q]
                           \in [name : RecordNames, size : Nat, runs : Q, resident : Nat, at : Nat]
         /\ \A s \in RecordNames : [x EXCEPT !.name = s]
                                \in [name : RecordNames, size : Nat, runs : Q, resident : Nat, at : Nat]
OBVIOUS

(* No attribute makes of what was gathered anything else.                    *)
LEMMA AttributeStays ==
  ASSUME NEW x \in Gathered, NEW a \in NtfsAttributes
  PROVE  Attribute(x, a) \in Gathered
<1> DEFINE Q == Seq(NtfsRuns)
<1>1. /\ x.name \in RecordNames /\ x.size \in Nat /\ x.runs \in Q /\ x.resident \in Nat /\ x.at \in Nat
      /\ x \in [name : RecordNames, size : Nat, runs : Q, resident : Nat, at : Nat]
  BY Zenon DEF Gathered
<1>2. CASE a.t = "name" /\ a.resident /\ a.fits
  <2> DEFINE nm == IF x.name = "" \/ ~a.dos THEN a.name ELSE x.name
             sz == IF x.size = 0 THEN a.size ELSE x.size
             y == [x EXCEPT !.name = nm]
  <2>1. a.name \in STRING /\ a.size \in Nat
    BY <1>2 DEF NtfsAttributes
  <2>2. Attribute(x, a) = [y EXCEPT !.size = sz]
    <3>1. Attribute(x, a) = [x EXCEPT !.name = IF @ = "" \/ ~a.dos THEN a.name ELSE @,
                                      !.size = IF @ = 0 THEN a.size ELSE @]
      BY <1>2 DEF Attribute
    <3>2. [x EXCEPT !.name = IF @ = "" \/ ~a.dos THEN a.name ELSE @,
                    !.size = IF @ = 0 THEN a.size ELSE @] = [x EXCEPT !.name = nm, !.size = sz]
      BY <1>1
    <3> HIDE DEF nm, sz
    <3>3. [x EXCEPT !.name = nm, !.size = sz] = [y EXCEPT !.size = sz]
      BY Zenon
    <3> QED
      BY <3>1, <3>2, <3>3
  <2>3. nm \in RecordNames /\ sz \in Nat
    BY <1>1, <2>1 DEF RecordNames
  <2> HIDE DEF nm, sz, Q
  <2>4. y \in [name : RecordNames, size : Nat, runs : Q, resident : Nat, at : Nat]
    BY <1>1, <2>3, GatheredChanges, Zenon
  <2> HIDE DEF y
  <2>5. [y EXCEPT !.size = sz] \in [name : RecordNames, size : Nat, runs : Q, resident : Nat, at : Nat]
    BY <2>3, <2>4, GatheredChanges, Zenon
  <2> QED
    BY <2>2, <2>5, Zenon DEF Gathered, Q
<1>3. CASE a.t = "data" /\ a.resident /\ a.fits
  <2> DEFINE y == [x EXCEPT !.size = a.size]
             z == [y EXCEPT !.resident = a.size]
  <2>1. a.size \in Nat /\ a.at \in Nat
    BY <1>3 DEF NtfsAttributes
  <2>2. Attribute(x, a) = [x EXCEPT !.size = a.size, !.resident = a.size, !.at = a.at]
    BY <1>3 DEF Attribute
  <2>3. [x EXCEPT !.size = a.size, !.resident = a.size, !.at = a.at] = [z EXCEPT !.at = a.at]
    BY Zenon
  <2> HIDE DEF Q
  <2>4. y \in [name : RecordNames, size : Nat, runs : Q, resident : Nat, at : Nat]
    BY <1>1, <2>1, GatheredChanges, Zenon
  <2> HIDE DEF y
  <2>5. z \in [name : RecordNames, size : Nat, runs : Q, resident : Nat, at : Nat]
    BY <2>1, <2>4, GatheredChanges, Zenon
  <2> HIDE DEF z
  <2>6. [z EXCEPT !.at = a.at] \in [name : RecordNames, size : Nat, runs : Q, resident : Nat, at : Nat]
    BY <2>1, <2>5, GatheredChanges, Zenon
  <2> QED
    BY <2>2, <2>3, <2>6, Zenon DEF Gathered, Q
<1>4. CASE a.t = "data" /\ ~a.resident
  <2> DEFINE rs == IF a.fits THEN ParseRunlist(a.list) ELSE x.runs
             y == [x EXCEPT !.size = a.size]
  <2>1. a.size \in Nat /\ a.list \in Seq(RunHeaders)
    BY <1>4 DEF NtfsAttributes
  <2>2. Attribute(x, a) = [x EXCEPT !.size = a.size, !.runs = IF a.fits THEN ParseRunlist(a.list) ELSE @]
    BY <1>4 DEF Attribute
  <2>3. rs \in Q
    BY <1>1, <2>1, RunlistsAreRuns
  <2>4. [x EXCEPT !.size = a.size, !.runs = IF a.fits THEN ParseRunlist(a.list) ELSE @] = [y EXCEPT !.runs = rs]
    <3> HIDE DEF Q, rs
    <3>1. [x EXCEPT !.size = a.size, !.runs = rs] = [y EXCEPT !.runs = rs]
      BY Zenon
    <3> QED
      BY <3>1, Zenon DEF rs
  <2> HIDE DEF rs, Q
  <2>5. y \in [name : RecordNames, size : Nat, runs : Q, resident : Nat, at : Nat]
    BY <1>1, <2>1, GatheredChanges, Zenon
  <2> HIDE DEF y
  <2>6. [y EXCEPT !.runs = rs] \in [name : RecordNames, size : Nat, runs : Q, resident : Nat, at : Nat]
    BY <2>3, <2>5, GatheredChanges, Zenon
  <2> QED
    BY <2>2, <2>4, <2>6, Zenon DEF Gathered, Q
<1>5. CASE /\ ~(a.t = "name" /\ a.resident /\ a.fits) /\ ~(a.t = "data" /\ a.resident /\ a.fits)
           /\ ~(a.t = "data" /\ ~a.resident)
  BY <1>5 DEF Attribute
<1> QED
  BY <1>2, <1>3, <1>4, <1>5

(* What the walk over all attributes of a record ends with.                  *)
LEMMA AttributesAreGathered ==
  ASSUME NEW rec, rec.attrs \in Seq(NtfsAttributes)
  PROVE  Attributes(rec) \in Gathered
<1> DEFINE attrs == Walked(rec)
           n == Len(attrs)
           a == [name |-> "", size |-> 0, runs |-> <<>>, resident |-> 0, at |-> 0]
           S == Gathered
           Step(x, k) == Attribute(x, attrs[k])
           f[k \in 0..n] == IF k = 0 THEN a ELSE Step(f[k - 1], k)
           G == [k \in 1..n |-> [x \in S |-> Step(x, k)]]
<1>1. Attributes(rec) = f[n]
  BY Zenon DEF Attributes, Iterate
<1>2. n \in Nat /\ a \in S
  <2>1. attrs \in Seq(NtfsAttributes)
    BY WalkedIsPrefix
  <2>2. n \in Nat
    <3> HIDE DEF attrs
    <3> QED
      BY <2>1
  <2>3. <<>> \in Seq(NtfsRuns) /\ "" \in RecordNames
    <3>1. <<>> \in Seq(NtfsRuns)
      BY EmptySeq
    <3>2. "" \in RecordNames
      BY Zenon DEF RecordNames
    <3> QED
      BY <3>1, <3>2
  <2>4. a \in S
    BY <2>3 DEF Gathered
  <2> QED
    BY <2>2, <2>4
<1>3. ASSUME NEW x \in S, NEW k \in 1..n PROVE Step(x, k) \in S
  <2>1. attrs \in Seq(NtfsAttributes)
    BY WalkedIsPrefix
  <2> HIDE DEF attrs
  <2>2. attrs[k] \in NtfsAttributes
    BY <2>1, ElementOfSeq, Zenon
  <2> QED
    BY <2>2, AttributeStays, Zenon
<1> HIDE DEF n, a, S, Step
<1>4. G \in [1..n -> [S -> S]] /\ \A k \in 1..n, x \in S : G[k][x] = Step(x, k)
  BY <1>3
<1> HIDE DEF G
<1>5. Courses(n, S, a, G) # {}
  BY <1>2, <1>4, CourseExists, Zenon
<1>6. PICK g \in Courses(n, S, a, G) : TRUE
  BY <1>5, Zenon
<1>7. g = [k \in 0..n |-> IF k = 0 THEN a ELSE Step(g[k - 1], k)]
  BY <1>2, <1>4, <1>6 DEF Courses
<1>8. f = [k \in 0..n |-> IF k = 0 THEN a ELSE Step(f[k - 1], k)]
  BY <1>7, Zenon
<1> HIDE DEF f
<1>9. f[0] \in S /\ \A k \in 1..n : f[k - 1] \in S => f[k] \in S
  BY <1>2, <1>3, <1>8
<1>10. f[n] \in S
  BY <1>2, <1>9, TurnByTurn, Zenon
<1> QED
  BY <1>1, <1>10 DEF S

(* What the NTFS analyzer finds.                                              *)
IsNtfs(v) ==
  /\ v.valid /\ v.part \in Nat /\ v.size \in Nat \ {0} /\ v.recsize \in Nat \ {0}
  /\ v.runs \in Seq(NtfsRuns)

(* A position where a file record is found is one of the table.              *)
LEMMA RecordHasAttributes ==
  ASSUME NEW img, img.mft \in [DOMAIN img.mft -> NtfsRecords], NEW p, RecordAt(img, p).sig
  PROVE  /\ p \in DOMAIN img.mft /\ RecordAt(img, p) = img.mft[p]
         /\ RecordAt(img, p).attrs \in Seq(NtfsAttributes)
<1>1. p \in DOMAIN img.mft
  BY DEF RecordAt, NoRecord
<1>2. RecordAt(img, p) = img.mft[p] /\ img.mft[p] \in NtfsRecords
  BY <1>1 DEF RecordAt
<1> QED
  BY <1>1, <1>2 DEF NtfsRecords

(* The table of files lies in runs, those its own record tells or the rest of *)
(* the volume.                                                               *)
LEMMA TableLiesInRuns ==
  ASSUME NEW img, img.mft \in [DOMAIN img.mft -> NtfsRecords],
         NEW v, v.sectors \in Nat, v.spc \in Nat \ {0}, v.lcn \in Nat
  PROVE  InitMft(img, v).runs \in Seq(NtfsRuns)
<1> DEFINE rec == RecordAt(img, v.mft)
           readable == Readable(img, v.mft, v.recsize) /\ rec.sig
           data == {j \in DOMAIN Walked(rec) : rec.attrs[j].t = "data"}
           own == IF readable /\ data # {} THEN <<rec.attrs[Min(data)]>> ELSE <<>>
           told == IF own # <<>> /\ ~own[1].resident /\ own[1].fits
                     THEN ParseRunlist(own[1].list) ELSE <<>>
           most == IF v.sectors > 0 THEN v.sectors \div v.spc ELSE UnknownClusters
           count == IF v.lcn < most THEN most - v.lcn ELSE UnknownTable
           rest == <<[start |-> v.lcn, count |-> count]>>
           runs == IF told # <<>> THEN told ELSE rest
           held == (SumRuns(runs) * v.size) \div v.recsize
           claimed == IF own # <<>> THEN own[1].size \div v.recsize ELSE 0
           total == IF claimed > 0 THEN claimed
                    ELSE IF told = <<>> THEN Min({held, GuessedRecords}) ELSE held
<1>1. InitMft(img, v).runs = IF ~readable THEN <<>> ELSE IF told # <<>> THEN told ELSE rest
  <2>1. InitMft(img, v) = IF ~readable THEN [runs |-> <<>>, total |-> 0]
                          ELSE [runs |-> runs, total |-> total]
    BY Zenon DEF InitMft
  <2> HIDE DEF total, told, rest, readable
  <2>2. runs = IF told # <<>> THEN told ELSE rest
    BY Zenon
  <2> HIDE DEF runs
  <2> QED
    BY <2>1, <2>2
<1> HIDE DEF total, held, claimed, runs
<1>2. rest \in Seq(NtfsRuns)
  <2>1. most \in Nat
    BY QuotientIsNat DEF UnknownClusters
  <2> HIDE DEF most
  <2>2. count \in Nat
    BY <2>1 DEF UnknownTable
  <2> HIDE DEF count
  <2> QED
    BY <2>2 DEF NtfsRuns
<1>3. <<>> \in Seq(NtfsRuns)
  BY EmptySeq
<1>4. told \in Seq(NtfsRuns)
  <2>1. CASE own = <<>>
    BY <1>3, <2>1
  <2>2. CASE own # <<>>
    <3> DEFINE a == rec.attrs[Min(data)]
    <3>1. rec.sig /\ data # {} /\ own = <<a>>
      BY <2>2, Zenon
    <3>2. rec.attrs \in Seq(NtfsAttributes)
      BY <3>1, RecordHasAttributes, Zenon
    <3> HIDE DEF rec
    <3>3. \A j \in DOMAIN Walked(rec) : j \in 1..Len(rec.attrs)
      BY <3>2, WalkedIsPrefix, Zenon
    <3>4. data \in SUBSET Nat
      BY <3>3
    <3>5. Min(data) \in data
      <4> HIDE DEF data
      <4> QED
        BY <3>1, <3>4, LeastOfSet, Zenon
    <3>6. Min(data) \in 1..Len(rec.attrs) /\ a.t = "data"
      BY <3>3, <3>5, Zenon
    <3>7. a \in NtfsAttributes
      BY <3>2, <3>6, ElementOfSeq, Zenon
    <3>8. own[1] = a
      <4> HIDE DEF own, a
      <4> QED
        BY <3>1
    <3> HIDE DEF a, own
    <3>9. ~a.resident => a.list \in Seq(RunHeaders)
      BY <3>6, <3>7 DEF NtfsAttributes
    <3> QED
      BY <1>3, <3>8, <3>9, RunlistsAreRuns, Zenon
  <2> QED
    BY <2>1, <2>2
<1> HIDE DEF told, rest, readable
<1> QED
  BY <1>1, <1>2, <1>3, <1>4

(* An NTFS volume that is recognised has its geometry and its table.         *)
LEMMA NtfsProbeFinds ==
  ASSUME NEW img, img.boot \in NtfsBoots, img.mft \in [DOMAIN img.mft -> NtfsRecords],
         NEW part \in Nat, NtfsProbe(img, part) # NoVolume
  PROVE  IsNtfs(NtfsProbe(img, part))
<1> DEFINE b == img.boot
           size == b.bps * b.spc
           recsize == IF b.recshift < 0
                        THEN IF -b.recshift \in 9..16 THEN Shifted(-b.recshift - 9) ELSE 2
                        ELSE IF b.recshift * size \in 1..128 THEN b.recshift * size ELSE 2
           w == [valid |-> TRUE, fs |-> "ntfs", part |-> part, bps |-> b.bps, spc |-> b.spc,
                 size |-> size, sectors |-> b.total, lcn |-> b.mft,
                 mft |-> part + b.mft * size, recsize |-> recsize,
                 runs |-> <<>>, records |-> 0]
           m == InitMft(img, w)
           bad == \/ ~Readable(img, part, 1) \/ ~b.signature \/ ~b.label
                  \/ b.bps \notin {1, 2, 4, 8} \/ b.spc = 0
<1>1. b.bps \in Nat /\ b.spc \in Nat /\ b.total \in Nat /\ b.mft \in Nat /\ b.recshift \in Int
  BY DEF NtfsBoots
<1>2. NtfsProbe(img, part) = IF bad THEN NoVolume ELSE [w EXCEPT !.runs = m.runs, !.records = m.total]
  BY Zenon DEF NtfsProbe
<1>3. ~bad
  BY <1>2, Zenon
<1>4. b.bps \in {1, 2, 4, 8} /\ b.spc # 0
  BY <1>3, Zenon
<1>5. size \in Nat \ {0}
  BY <1>1, <1>4
<1> HIDE DEF bad, size
<1>6. recsize \in Nat \ {0}
  <2>1. CASE b.recshift < 0 /\ -b.recshift \in 9..16
    <3>1. -b.recshift - 9 \in Nat
      BY <1>1, <2>1
    <3>2. recsize = Shifted(-b.recshift - 9)
      BY <2>1
    <3> QED
      BY <3>1, <3>2, ShiftedIsPositive, Zenon
  <2>2. CASE b.recshift < 0 /\ -b.recshift \notin 9..16
    BY <2>2
  <2>3. CASE ~(b.recshift < 0)
    <3> DEFINE product == b.recshift * size
    <3>1. recsize = IF product \in 1..128 THEN product ELSE 2
      BY <2>3, Zenon
    <3> HIDE DEF product, recsize
    <3> QED
      BY <3>1
  <2> QED
    BY <2>1, <2>2, <2>3, Zenon
<1> HIDE DEF recsize
<1>7. w.sectors \in Nat /\ w.spc \in Nat \ {0} /\ w.lcn \in Nat
  BY <1>1, <1>4
<1>8. m.runs \in Seq(NtfsRuns)
  <2> HIDE DEF w
  <2> QED
    BY <1>7, TableLiesInRuns, Zenon
<1>9. NtfsProbe(img, part) = [w EXCEPT !.runs = m.runs, !.records = m.total]
  BY <1>2, <1>3, Zenon
<1> DEFINE found == m.runs
           total == m.total
<1> HIDE DEF m
<1>10. LET v == [w EXCEPT !.runs = m.runs, !.records = m.total]
       IN v.valid /\ v.part = part /\ v.size = size /\ v.recsize = recsize /\ v.runs = m.runs
  <2> HIDE DEF found, total
  <2>1. LET v == [w EXCEPT !.runs = found, !.records = total]
        IN v.valid /\ v.part = part /\ v.size = size /\ v.recsize = recsize /\ v.runs = found
    BY ONLY DEF w
  <2> QED
    BY <2>1, Zenon DEF found, total
<1> DEFINE v == NtfsProbe(img, part)
<1>11. v.valid /\ v.part = part /\ v.size = size /\ v.recsize = recsize /\ v.runs = found
  BY <1>9, <1>10, Zenon
<1> HIDE DEF v, found, total, w
<1>12. IsNtfs(v)
  BY <1>5, <1>6, <1>8, <1>11, Zenon DEF IsNtfs, found
<1> QED
  BY <1>12, Zenon DEF v

(* Every cluster begins at a block.                                          *)
LEMMA NtfsOffsetIsNat ==
  ASSUME NEW v, IsNtfs(v), NEW c \in Nat
  PROVE  NtfsOffset(v, c) \in Nat
<1>1. v.part \in Nat /\ v.size \in Nat
  BY DEF IsNtfs
<1>2. c * v.size \in Nat
  BY <1>1
<1> QED
  BY <1>1, <1>2 DEF NtfsOffset

(* What is listed are records of the table.                                   *)
NtfsListable(img, v) ==
  {NtfsRecord(v, img.mft[p], p, n) : p \in {q \in DOMAIN img.mft : img.mft[q].sig}, n \in Nat}

(* What a scan of the table has found.                                        *)
NtfsFound(img, v) == [index : Nat, out : Seq(NtfsListable(img, v)), stop : BOOLEAN]

(* A file listed has a size, runs and perhaps a place in its record.         *)
LEMMA RecordFileIs ==
  ASSUME NEW img, img.mft \in [DOMAIN img.mft -> NtfsRecords], DOMAIN img.mft \subseteq Nat,
         NEW v, NEW r \in NtfsListable(img, v)
  PROVE  r.size \in Nat /\ r.runs \in Seq(NtfsRuns) /\ r.at \in Nat
<1>1. PICK p \in {q \in DOMAIN img.mft : img.mft[q].sig}, n \in Nat :
        r = NtfsRecord(v, img.mft[p], p, n)
  BY DEF NtfsListable
<1> DEFINE rec == img.mft[p]
           x == Attributes(rec)
<1>2. rec.attrs \in Seq(NtfsAttributes) /\ p \in Nat
  BY DEF NtfsRecords
<1> HIDE DEF rec
<1>3. x \in Gathered
  BY <1>2, AttributesAreGathered, Zenon
<1> HIDE DEF x
<1>4. x.size \in Nat /\ x.runs \in Seq(NtfsRuns) /\ x.at \in Nat
  BY <1>3 DEF Gathered
<1>5. r.size = x.size /\ r.runs = x.runs
      /\ r.at = IF x.runs = <<>> /\ x.resident > 0 THEN p + x.at ELSE 0
  <2>1. r = NtfsRecord(v, rec, p, n)
    BY <1>1 DEF rec
  <2> QED
    BY <2>1 DEF NtfsRecord, x
<1>6. p + x.at \in Nat
  BY <1>2, <1>4
<1> QED
  BY <1>4, <1>5, <1>6

(* One record of the table, one chunk, one run, and the table: what is found *)
(* are files of records.                                                     *)
LEMMA RecordIsFound ==
  ASSUME NEW img, img.mft \in [DOMAIN img.mft -> NtfsRecords], NEW v, NEW del \in BOOLEAN,
         NEW x \in NtfsFound(img, v), NEW p
  PROVE  ScanRecord(img, v, del, x, p) \in NtfsFound(img, v)
<1> DEFINE L == NtfsListable(img, v)
           rec == RecordAt(img, p)
           file == NtfsRecord(v, rec, p, x.index)
           listable == rec.sig /\ rec.alloc # del /\ Attributes(rec).name # ""
           more == IF listable THEN Append(x.out, file) ELSE x.out
           full == Len(more) >= (IF del THEN MaxDeleted ELSE MaxActive)
           past == v.records > 0 /\ x.index >= v.records
<1>1. x.index \in Nat /\ x.out \in Seq(L) /\ x.stop \in BOOLEAN
  BY Zenon DEF NtfsFound
<1>2. ScanRecord(img, v, del, x, p) =
        IF x.stop THEN x
        ELSE IF past THEN [x EXCEPT !.stop = TRUE]
        ELSE [index |-> x.index + 1, out |-> more, stop |-> full]
  BY Zenon DEF ScanRecord
<1>3. ASSUME listable PROVE file \in L
  <2>1. p \in DOMAIN img.mft /\ rec = img.mft[p] /\ rec.sig
    BY <1>3, RecordHasAttributes, Zenon
  <2>2. p \in {q \in DOMAIN img.mft : img.mft[q].sig}
    BY <2>1, Zenon
  <2>3. file = NtfsRecord(v, img.mft[p], p, x.index)
    BY <2>1, Zenon
  <2> HIDE DEF file
  <2> QED
    BY <1>1, <2>2, <2>3 DEF NtfsListable
<1> HIDE DEF L, file, listable
<1>4. more \in Seq(L)
  BY <1>1, <1>3
<1>5. full \in BOOLEAN
  OBVIOUS
<1> HIDE DEF more, full, past
<1>6. x.index + 1 \in Nat
  BY <1>1
<1>7. [x EXCEPT !.stop = TRUE] \in NtfsFound(img, v)
  BY DEF NtfsFound
<1>8. [index |-> x.index + 1, out |-> more, stop |-> full] \in NtfsFound(img, v)
  BY <1>4, <1>5, <1>6, Zenon DEF NtfsFound, L
<1> QED
  BY <1>2, <1>7, <1>8, Zenon

(* What is found in one buffer of records is listable.                       *)
LEMMA ChunkIsFound ==
  ASSUME NEW img, img.mft \in [DOMAIN img.mft -> NtfsRecords], NEW v, IsNtfs(v), NEW del \in BOOLEAN,
         NEW x0 \in NtfsFound(img, v), NEW from, NEW many \in Nat
  PROVE  ChunkOfRecords(img, v, del, x0, from, many) \in NtfsFound(img, v)
<1> DEFINE n == many \div v.recsize
           a == x0
           S == NtfsFound(img, v)
           Step(x, k) == ScanRecord(img, v, del, x, from + (k - 1) * v.recsize)
           f[k \in 0..n] == IF k = 0 THEN a ELSE Step(f[k - 1], k)
           G == [k \in 1..n |-> [x \in S |-> Step(x, k)]]
<1>1. ChunkOfRecords(img, v, del, x0, from, many) = f[n]
  BY Zenon DEF ChunkOfRecords, Iterate
<1>2. n \in Nat /\ a \in S
  BY QuotientIsNat DEF IsNtfs
<1>3. ASSUME NEW x \in S, NEW k \in 1..n PROVE Step(x, k) \in S
  BY RecordIsFound, Zenon
<1> HIDE DEF n, a, S, Step
<1>4. G \in [1..n -> [S -> S]] /\ \A k \in 1..n, x \in S : G[k][x] = Step(x, k)
  BY <1>3
<1> HIDE DEF G
<1>5. Courses(n, S, a, G) # {}
  BY <1>2, <1>4, CourseExists, Zenon
<1>6. PICK g \in Courses(n, S, a, G) : TRUE
  BY <1>5, Zenon
<1>7. g = [k \in 0..n |-> IF k = 0 THEN a ELSE Step(g[k - 1], k)]
  BY <1>2, <1>4, <1>6 DEF Courses
<1>8. f = [k \in 0..n |-> IF k = 0 THEN a ELSE Step(f[k - 1], k)]
  BY <1>7, Zenon
<1> HIDE DEF f
<1>9. f[0] \in S /\ \A k \in 1..n : f[k - 1] \in S => f[k] \in S
  BY <1>2, <1>3, <1>8
<1>10. f[n] \in S
  BY <1>2, <1>9, TurnByTurn, Zenon
<1> QED
  BY <1>1, <1>10 DEF S

(* A buffer cut to whole records.                                            *)
LEMMA WholeRecordsIsNat ==
  ASSUME NEW v, IsNtfs(v), NEW m \in Nat
  PROVE  WholeRecords(v, m) \in Nat
<1>1. m \div v.recsize \in Nat /\ v.recsize \in Nat
  BY QuotientIsNat DEF IsNtfs
<1> DEFINE q == m \div v.recsize
<1>2. WholeRecords(v, m) = q * v.recsize
  BY DEF WholeRecords
<1> HIDE DEF q
<1>3. q \in Nat
  BY <1>1 DEF q
<1> QED
  BY <1>1, <1>2, <1>3

(* Where the scan of a run stands.                                            *)
NtfsScan(img, v) == [x : NtfsFound(img, v), from : Nat, left : Int]

(* A buffer of a run leaves the scan of the run in order.                    *)
LEMMA ChunkStays ==
  ASSUME NEW img, img.mft \in [DOMAIN img.mft -> NtfsRecords], img.size \in Nat,
         NEW v, IsNtfs(v), NEW del \in BOOLEAN, NEW s \in NtfsScan(img, v)
  PROVE  ScanChunk(img, v, del, s) \in NtfsScan(img, v)
<1> DEFINE F == NtfsFound(img, v)
           least == Min({ChunkRecords * v.recsize, s.left})
           want == WholeRecords(v, least)
           n == IF s.from + want > img.size THEN WholeRecords(v, img.size - s.from) ELSE want
           ended == [index |-> s.x.index, out |-> s.x.out, stop |-> TRUE]
           over == (v.records > 0 /\ s.x.index >= v.records) \/ s.x.index >= MaxRecords
           bad == want = 0 \/ s.from >= img.size \/ n = 0 \/ ~Readable(img, s.from, n)
           chunk == ChunkOfRecords(img, v, del, s.x, s.from, n)
<1>1. s.x \in F /\ s.from \in Nat /\ s.left \in Int /\ s \in [x : F, from : Nat, left : Int]
  BY Zenon DEF NtfsScan
<1>2. ScanChunk(img, v, del, s) =
        IF s.left <= 0 \/ s.x.stop THEN s
        ELSE IF over THEN [s EXCEPT !.x = ended]
        ELSE IF bad THEN [s EXCEPT !.left = 0]
        ELSE [x |-> chunk, from |-> s.from + n, left |-> s.left - n]
  BY Zenon DEF ScanChunk
<1>3. ended \in F
  BY <1>1 DEF NtfsFound
<1>4. ASSUME ~(s.left <= 0), ~bad PROVE n \in Nat
  <2>1. ChunkRecords * v.recsize \in Nat
    BY NtfsAssumption DEF IsNtfs
  <2>2. least \in Nat
    <3> DEFINE all == ChunkRecords * v.recsize
    <3>1. all \in Int /\ s.left \in Int
      BY <1>1, <2>1
    <3> HIDE DEF all
    <3>2. Min({all, s.left}) \in {all, s.left}
      BY <3>1, LeastOfTwo, Zenon
    <3>3. all \in Nat
      BY <2>1 DEF all
    <3>4. Min({all, s.left}) \in Nat
      BY <1>1, <1>4, <3>2, <3>3
    <3> QED
      BY <3>4 DEF all
  <2> HIDE DEF least
  <2>3. want \in Nat
    BY <2>2, WholeRecordsIsNat
  <2>4. ~(s.from >= img.size)
    BY <1>4, Zenon
  <2>5. img.size - s.from \in Nat
    BY <1>1, <2>4
  <2>6. WholeRecords(v, img.size - s.from) \in Nat
    BY <2>5, WholeRecordsIsNat, Zenon
  <2> HIDE DEF want
  <2> QED
    BY <2>3, <2>6
<1> HIDE DEF bad, over, ended, F, n
<1>5. [s EXCEPT !.x = ended] \in NtfsScan(img, v)
  BY <1>1, <1>3 DEF NtfsScan, F
<1>6. [s EXCEPT !.left = 0] \in NtfsScan(img, v)
  BY <1>1 DEF NtfsScan, F
<1>7. ASSUME n \in Nat PROVE [x |-> chunk, from |-> s.from + n, left |-> s.left - n] \in NtfsScan(img, v)
  <2>1. chunk \in F
    BY <1>1, <1>7, ChunkIsFound, Zenon DEF F
  <2> HIDE DEF chunk
  <2>2. s.from + n \in Nat /\ s.left - n \in Int
    BY <1>1, <1>7
  <2> QED
    BY <2>1, <2>2, Zenon DEF NtfsScan, F
<1> QED
  BY <1>2, <1>4, <1>5, <1>6, <1>7, Zenon

(* So does a run of the table of records.                                    *)
LEMMA RunIsFound ==
  ASSUME NEW img, img.mft \in [DOMAIN img.mft -> NtfsRecords], img.size \in Nat,
         NEW v, IsNtfs(v), NEW del \in BOOLEAN, NEW x0 \in NtfsFound(img, v), NEW run \in NtfsRuns
  PROVE  ScanRun(img, v, del, x0, run) \in NtfsFound(img, v)
<1>a. run.count \in Nat /\ run.start \in Nat /\ v.size \in Nat
  BY DEF NtfsRuns, IsNtfs
<1>b. run.count * v.size \in Nat /\ NtfsOffset(v, run.start) \in Nat
  BY <1>a, NtfsOffsetIsNat
<1> DEFINE n == run.count * v.size
           a == [x |-> x0, from |-> NtfsOffset(v, run.start), left |-> run.count * v.size]
           S == NtfsScan(img, v)
           Step(x, k) == ScanChunk(img, v, del, x)
           f[k \in 0..n] == IF k = 0 THEN a ELSE Step(f[k - 1], k)
           G == [k \in 1..n |-> [x \in S |-> Step(x, k)]]
<1>1. ScanRun(img, v, del, x0, run) = f[n].x
  BY Zenon DEF ScanRun, Iterate
<1>2. n \in Nat /\ a \in S
  <2> DEFINE c == run.count * v.size
             o == NtfsOffset(v, run.start)
  <2>1. c \in Nat /\ c \in Int /\ o \in Nat
    BY <1>b
  <2> HIDE DEF c, o
  <2>2. [x |-> x0, from |-> o, left |-> c] \in NtfsScan(img, v)
    BY <2>1 DEF NtfsScan
  <2> QED
    BY <2>1, <2>2 DEF c, o
<1>3. ASSUME NEW x \in S, NEW k \in 1..n PROVE Step(x, k) \in S
  BY ChunkStays, Zenon
<1> HIDE DEF n, a, S, Step
<1>4. G \in [1..n -> [S -> S]] /\ \A k \in 1..n, x \in S : G[k][x] = Step(x, k)
  BY <1>3
<1> HIDE DEF G
<1>5. Courses(n, S, a, G) # {}
  BY <1>2, <1>4, CourseExists, Zenon
<1>6. PICK g \in Courses(n, S, a, G) : TRUE
  BY <1>5, Zenon
<1>7. g = [k \in 0..n |-> IF k = 0 THEN a ELSE Step(g[k - 1], k)]
  BY <1>2, <1>4, <1>6 DEF Courses
<1>8. f = [k \in 0..n |-> IF k = 0 THEN a ELSE Step(f[k - 1], k)]
  BY <1>7, Zenon
<1> HIDE DEF f
<1>9. f[0] \in S /\ \A k \in 1..n : f[k - 1] \in S => f[k] \in S
  BY <1>2, <1>3, <1>8
<1>10. f[n] \in S
  BY <1>2, <1>9, TurnByTurn, Zenon
<1> QED
  BY <1>1, <1>10 DEF S, NtfsScan

(* What is listed of an NTFS volume, living or deleted.                      *)
LEMMA NtfsListsRecords ==
  ASSUME NEW img, img.mft \in [DOMAIN img.mft -> NtfsRecords], img.size \in Nat,
         NEW v, IsNtfs(v), NEW del \in BOOLEAN
  PROVE  NtfsList(img, v, del) \in Seq(NtfsListable(img, v))
<1>a. v.runs \in Seq(NtfsRuns) /\ Len(v.runs) \in Nat
  BY LenProperties DEF IsNtfs
<1> DEFINE n == Len(v.runs)
           a == [index |-> 0, out |-> <<>>, stop |-> FALSE]
           S == NtfsFound(img, v)
           Step(x, k) == ScanRun(img, v, del, x, v.runs[k])
           f[k \in 0..n] == IF k = 0 THEN a ELSE Step(f[k - 1], k)
           G == [k \in 1..n |-> [x \in S |-> Step(x, k)]]
<1>1. NtfsList(img, v, del) = f[n].out
  BY Zenon DEF NtfsList, Iterate
<1>2. n \in Nat /\ a \in S
  <2>1. <<>> \in Seq(NtfsListable(img, v))
    BY EmptySeq
  <2>2. 0 \in Nat /\ FALSE \in BOOLEAN
    OBVIOUS
  <2> QED
    BY <1>a, <2>1, <2>2, Zenon DEF NtfsFound
<1>3. ASSUME NEW x \in S, NEW k \in 1..n PROVE Step(x, k) \in S
  <2>1. v.runs[k] \in NtfsRuns
    BY <1>a, ElementOfSeq, Zenon
  <2> QED
    BY <2>1, RunIsFound, Zenon
<1> HIDE DEF n, a, S, Step
<1>4. G \in [1..n -> [S -> S]] /\ \A k \in 1..n, x \in S : G[k][x] = Step(x, k)
  BY <1>3
<1> HIDE DEF G
<1>5. Courses(n, S, a, G) # {}
  BY <1>2, <1>4, CourseExists, Zenon
<1>6. PICK g \in Courses(n, S, a, G) : TRUE
  BY <1>5, Zenon
<1>7. g = [k \in 0..n |-> IF k = 0 THEN a ELSE Step(g[k - 1], k)]
  BY <1>2, <1>4, <1>6 DEF Courses
<1>8. f = [k \in 0..n |-> IF k = 0 THEN a ELSE Step(f[k - 1], k)]
  BY <1>7, Zenon
<1> HIDE DEF f
<1>9. f[0] \in S /\ \A k \in 1..n : f[k - 1] \in S => f[k] \in S
  BY <1>2, <1>3, <1>8
<1>10. f[n] \in S
  BY <1>2, <1>9, TurnByTurn, Zenon
<1> QED
  BY <1>1, <1>10 DEF S, NtfsFound

(* The blocks of a file's runs, of its place in its record, or zeros.          *)
LEMMA NtfsExtractsItsOwn ==
  ASSUME NEW img, img.size \in Nat, NEW v, IsNtfs(v),
         NEW r, r.size \in Nat, r.runs \in Seq(NtfsRuns), r.at \in Nat, NEW P,
         \A j \in DOMAIN r.runs, b \in Nat :
           /\ Within(NtfsOffset(v, r.runs[j].start), r.runs[j].count * v.size, b)
           /\ Legible(img, b)
           => b \in P,
         r.runs = <<>> /\ r.at > 0 =>
           \A b \in Nat : Within(r.at, r.size, b) /\ Legible(img, b) => b \in P,
         r.runs = <<>> /\ r.at = 0 => -1 \in P
  PROVE  /\ NtfsExtract(img, v, r) \in Seq(P)
         /\ Len(NtfsExtract(img, v, r)) <= r.size /\ Len(NtfsExtract(img, v, r)) <= MaxExtract
<1>a. CASE r.size = 0
  <2>1. NtfsExtract(img, v, r) = <<>> /\ <<>> \in Seq(P) /\ Len(<<>>) = 0
    BY <1>a, EmptySeq DEF NtfsExtract
  <2> QED
    BY <1>a, <2>1, VolumeAssumption
<1>e. Wanted(r.size) \in Nat /\ Extraction(r.size) \in Pieces(Wanted(r.size), P)
      /\ Wanted(r.size) <= r.size /\ Wanted(r.size) <= MaxExtract
  BY ExtractionBegins
<1>b. CASE r.size # 0 /\ r.runs = <<>> /\ r.at > 0
  <2> DEFINE p == Piece(img, Extraction(r.size), r.at, r.size)
  <2>1. NtfsExtract(img, v, r) = p.data
    BY <1>b, Zenon DEF NtfsExtract
  <2>2. \A b \in Nat : Within(r.at, r.size, b) /\ Legible(img, b) => b \in P
    BY <1>b
  <2>3. p \in Pieces(Wanted(r.size), P)
    BY <1>e, <2>2, PieceStays, Zenon
  <2> HIDE DEF p
  <2> QED
    BY <2>1, <2>3, ExtractionEnds
<1>c. CASE r.size # 0 /\ r.runs = <<>> /\ ~(r.at > 0)
  <2> DEFINE w == Wanted(r.size)
             zeros == [j \in 1..w |-> -1]
  <2>1. NtfsExtract(img, v, r) = zeros
    BY <1>c DEF NtfsExtract, Wanted
  <2>2. -1 \in P
    BY <1>c
  <2> HIDE DEF w
  <2>3. w \in Nat /\ w <= r.size /\ w <= MaxExtract
    BY <1>e DEF w
  <2>4. zeros \in Seq(P) /\ Len(zeros) = w
    BY <2>2, <2>3
  <2> QED
    BY <2>1, <2>3, <2>4
<1>d. SUFFICES ASSUME r.size # 0, r.runs # <<>>
               PROVE  /\ NtfsExtract(img, v, r) \in Seq(P)
                      /\ Len(NtfsExtract(img, v, r)) <= r.size
                      /\ Len(NtfsExtract(img, v, r)) <= MaxExtract
  BY <1>a, <1>b, <1>c, Zenon
<1>f. Len(r.runs) \in Nat /\ DOMAIN r.runs = 1..Len(r.runs) /\ v.size \in Nat
  BY LenProperties DEF IsNtfs
<1> DEFINE n == Len(r.runs)
           a == Extraction(r.size)
           S == Pieces(Wanted(r.size), P)
           Step(x, k) == Piece(img, x, NtfsOffset(v, r.runs[k].start), r.runs[k].count * v.size)
           f[k \in 0..n] == IF k = 0 THEN a ELSE Step(f[k - 1], k)
           G == [k \in 1..n |-> [x \in S |-> Step(x, k)]]
<1>1. NtfsExtract(img, v, r) = f[n].data
  BY <1>d, Zenon DEF NtfsExtract, Iterate
<1>2. n \in Nat /\ a \in S
  BY <1>e, <1>f
<1>3. ASSUME NEW x \in S, NEW k \in 1..n PROVE Step(x, k) \in S
  <2> DEFINE run == r.runs[k]
             long == run.count * v.size
             o == NtfsOffset(v, run.start)
  <2>1. k \in DOMAIN r.runs
    BY <1>f, Zenon
  <2>2. run \in NtfsRuns
    BY <1>f, ElementOfSeq, Zenon
  <2>3. run.count \in Nat /\ run.start \in Nat
    BY <2>2 DEF NtfsRuns
  <2>4. long \in Nat /\ o \in Nat
    <3>1. o \in Nat
      BY <2>3, NtfsOffsetIsNat, Zenon
    <3> DEFINE count == run.count
               size == v.size
    <3>2. count \in Nat /\ size \in Nat
      BY <1>f, <2>3
    <3> HIDE DEF count, size
    <3>3. count * size \in Nat
      BY <3>2
    <3> QED
      BY <3>1, <3>3 DEF count, size
  <2>5. \A b \in Nat : Within(o, long, b) /\ Legible(img, b) => b \in P
    BY <2>1, Zenon
  <2> HIDE DEF long, o
  <2>6. Piece(img, x, o, long) \in S
    BY <1>e, <2>4, <2>5, PieceStays, Zenon
  <2> QED
    BY <2>6 DEF o, long
<1> HIDE DEF n, a, S, Step
<1>4. G \in [1..n -> [S -> S]] /\ \A k \in 1..n, x \in S : G[k][x] = Step(x, k)
  BY <1>3
<1> HIDE DEF G
<1>5. Courses(n, S, a, G) # {}
  BY <1>2, <1>4, CourseExists, Zenon
<1>6. PICK g \in Courses(n, S, a, G) : TRUE
  BY <1>5, Zenon
<1>7. g = [k \in 0..n |-> IF k = 0 THEN a ELSE Step(g[k - 1], k)]
  BY <1>2, <1>4, <1>6 DEF Courses
<1>8. f = [k \in 0..n |-> IF k = 0 THEN a ELSE Step(f[k - 1], k)]
  BY <1>7, Zenon
<1> HIDE DEF f
<1>9. f[0] \in S /\ \A k \in 1..n : f[k - 1] \in S => f[k] \in S
  BY <1>2, <1>3, <1>8
<1>10. f[n] \in S
  BY <1>2, <1>9, TurnByTurn, Zenon
<1> QED
  BY <1>1, <1>10, ExtractionEnds DEF S

(* The entries of a table of partitions.                                      *)
Ranges == [number : Nat, start : Nat, count : Int]

(* The entries chosen of a table are ranges of blocks.                       *)
LEMMA EntriesAreRanges ==
  ASSUME NEW entries, Len(entries) \in Nat,
         \A m \in 1..Len(entries) : entries[m].start \in Nat /\ entries[m].count \in Int,
         NEW chosen
  PROVE  Entries(entries, chosen) \in Seq(Ranges)
<1> DEFINE n == Len(entries)
           a == <<>>
           S == Seq(Ranges)
           Step(x, k) == IF k \notin chosen THEN x
                         ELSE Append(x, [number |-> Len(x) + 1, start |-> entries[k].start,
                                         count |-> entries[k].count])
           f[k \in 0..n] == IF k = 0 THEN a ELSE Step(f[k - 1], k)
           G == [k \in 1..n |-> [x \in S |-> Step(x, k)]]
<1>1. Entries(entries, chosen) = f[n]
  BY Zenon DEF Entries, Iterate
<1>2. n \in Nat /\ a \in S
  BY EmptySeq
<1>3. ASSUME NEW x \in S, NEW k \in 1..n PROVE Step(x, k) \in S
  <2> DEFINE e == [number |-> Len(x) + 1, start |-> entries[k].start, count |-> entries[k].count]
  <2>1. x \in Seq(Ranges) /\ entries[k].start \in Nat /\ entries[k].count \in Int
    OBVIOUS
  <2>2. Len(x) + 1 \in Nat
    BY <2>1
  <2>3. e \in Ranges
    BY <2>1, <2>2 DEF Ranges
  <2>4. Step(x, k) = IF k \notin chosen THEN x ELSE Append(x, e)
    BY Zenon
  <2> HIDE DEF e, Step
  <2> QED
    BY <2>1, <2>3, <2>4
<1> HIDE DEF n, a, S, Step
<1>4. G \in [1..n -> [S -> S]] /\ \A k \in 1..n, x \in S : G[k][x] = Step(x, k)
  BY <1>3
<1> HIDE DEF G
<1>5. Courses(n, S, a, G) # {}
  BY <1>2, <1>4, CourseExists, Zenon
<1>6. PICK g \in Courses(n, S, a, G) : TRUE
  BY <1>5, Zenon
<1>7. g = [k \in 0..n |-> IF k = 0 THEN a ELSE Step(g[k - 1], k)]
  BY <1>2, <1>4, <1>6 DEF Courses
<1>8. f = [k \in 0..n |-> IF k = 0 THEN a ELSE Step(f[k - 1], k)]
  BY <1>7, Zenon
<1> HIDE DEF f
<1>9. f[0] \in S /\ \A k \in 1..n : f[k - 1] \in S => f[k] \in S
  BY <1>2, <1>3, <1>8
<1>10. f[n] \in S
  BY <1>2, <1>9, TurnByTurn, Zenon
<1> QED
  BY <1>1, <1>10 DEF S

(* The partitions of a GPT are ranges of blocks.                             *)
LEMMA GptEntriesAreRanges ==
  ASSUME NEW img, Tabled(img)
  PROVE  GptEntries(img) \in Seq(Ranges)
<1> DEFINE g == img.gpt
           used == {m \in DOMAIN g.entries : /\ g.entries[m].type # 0
                                             /\ g.entries[m].first <= g.entries[m].last
                                             /\ g.entries[m].first < img.size}
           ranges == [m \in DOMAIN g.entries |->
                        [start |-> g.entries[m].first,
                         count |-> g.entries[m].last - g.entries[m].first + 1]]
           bad == \/ img.size < 2 \/ ~Readable(img, 1, 1) \/ ~g.signature
                  \/ g.entrySize < 128 \/ Len(g.entries) \notin 1..256
                  \/ ~Readable(img, g.lba, (Len(g.entries) * g.entrySize + 511) \div 512)
<1>1. GptEntries(img) = IF bad THEN <<>> ELSE Entries(ranges, used)
  BY DEF GptEntries
<1>2. g.entries \in Seq([type : Nat, first : Nat, last : Nat])
  BY DEF Tabled
<1> HIDE DEF g, bad, used
<1>3. Len(g.entries) \in Nat /\ DOMAIN g.entries = 1..Len(g.entries)
  BY <1>2
<1>4. ASSUME NEW m \in 1..Len(g.entries)
      PROVE  ranges[m].start \in Nat /\ ranges[m].count \in Int
  <2>1. g.entries[m] \in [type : Nat, first : Nat, last : Nat]
    BY <1>2, ElementOfSeq, Zenon
  <2>2. g.entries[m].first \in Nat /\ g.entries[m].last \in Nat
    BY <2>1
  <2> QED
    BY <1>3, <2>2
<1>5. Len(ranges) = Len(g.entries)
  BY <1>3
<1> HIDE DEF ranges
<1>6. Entries(ranges, used) \in Seq(Ranges)
  BY <1>3, <1>4, <1>5, EntriesAreRanges, Zenon
<1> QED
  BY <1>1, <1>6, EmptySeq, Zenon

(* So are those of an MBR.                                                   *)
LEMMA MbrEntriesAreRanges ==
  ASSUME NEW img, Tabled(img)
  PROVE  MbrEntries(img) \in Seq(Ranges)
<1> DEFINE entries == img.mbr.entries
<1>1. entries \in Seq([type : Nat, start : Nat, count : Nat])
  BY DEF Tabled
<1> DEFINE chosen == {m \in DOMAIN entries : /\ entries[m].type # 0 /\ entries[m].count > 0
                                             /\ entries[m].start < img.size}
<1>2. MbrEntries(img) = Entries(entries, chosen)
  BY Zenon DEF MbrEntries
<1> HIDE DEF entries, chosen
<1>3. Len(entries) \in Nat
  BY <1>1
<1>4. ASSUME NEW m \in 1..Len(entries)
      PROVE  entries[m].start \in Nat /\ entries[m].count \in Int
  <2>1. entries[m] \in [type : Nat, start : Nat, count : Nat]
    BY <1>1, ElementOfSeq, Zenon
  <2> QED
    BY <2>1
<1> QED
  BY <1>2, <1>3, <1>4, EntriesAreRanges, Zenon

(* Every partition detected begins at a block.                                *)
LEMMA PartitionsBegin ==
  ASSUME NEW img, img.size \in Nat, Tabled(img),
         NEW m \in DOMAIN DetectPartitions(img).partitions
  PROVE  DetectPartitions(img).partitions[m].start \in Nat
<1> DEFINE found == DetectPartitions(img)
           whole == <<[number |-> 1, start |-> 0, count |-> img.size]>>
<1>1. found.partitions \in {<<>>, GptEntries(img), MbrEntries(img), whole}
  BY DEF DetectPartitions, NoTable
<1>2. whole \in Seq(Ranges)
  BY DEF Ranges
<1>3. found.partitions \in Seq(Ranges)
  <2> HIDE DEF found, whole
  <2> QED
    BY <1>1, <1>2, GptEntriesAreRanges, MbrEntriesAreRanges, EmptySeq
<1>4. m \in 1..Len(found.partitions)
  <2> HIDE DEF found
  <2>1. m \in DOMAIN found.partitions
    BY DEF found
  <2> QED
    BY <1>3, <2>1
<1>5. found.partitions[m] \in Ranges
  BY <1>3, <1>4, ElementOfSeq, Zenon
<1> QED
  BY <1>5 DEF Ranges

(* What is extracted of r is its own.                                         *)
OwnOnly(r) ==
  /\ Len(Extracted(r)) <= r.size /\ Len(Extracted(r)) <= MaxExtract
  /\ \A b \in ToSet(Extracted(r)) :
       \/ b = -1 /\ Nowhere(r)
       \/ b < image.size /\ b \notin image.bad /\ Owns(r, b)

(* The clusters of Linked(start) are closed under the table.                  *)
LEMMA LinkedIsClosed ==
  ASSUME Linking(image), NEW start \in Nat, NEW C \in Linked(start)
  PROVE  Closed(image, C) /\ start \in C
<1>1. C \subseteq Nat
  BY DEF Linked, Linking
<1> QED
  BY <1>1 DEF Linked, Closed

(* So are all the numbers, since the table holds numbers only.               *)
LEMMA EverythingIsClosed ==
  ASSUME Linking(image)
  PROVE  Closed(image, Nat)
BY DEF Linking, Closed

(* What is in a sequence over P is in P.                                     *)
LEMMA InSet ==
  ASSUME NEW P, NEW s \in Seq(P), NEW b \in ToSet(s)
  PROVE  b \in P
BY DEF ToSet

(* A FAT32 file: for every set of clusters that the table does not lead out  *)
(* of, and with them for Nat.                                                *)
LEMMA Fat32OwnOnly ==
  ASSUME image.kind = "fat32", image.size \in Nat, Linking(image), IsFat32(volume),
         NEW r, r.size \in Nat, r.start \in Nat
  PROVE  OwnOnly(r)
<1> DEFINE P(C) == {b \in Nat : Legible(image, b)
                                /\ \E c \in C : Within(Fat32Offset(volume, c), volume.size, b)}
           out == Fat32Extract(image, volume, r)
<1>1. ASSUME NEW C, Closed(image, C), r.start \in C
      PROVE  out \in Seq(P(C)) /\ Len(out) <= r.size /\ Len(out) <= MaxExtract
  <2>1. \A c \in C, b \in Nat :
           Within(Fat32Offset(volume, c), volume.size, b) /\ Legible(image, b) => b \in P(C)
    OBVIOUS
  <2> HIDE DEF P
  <2> QED
    BY <1>1, <2>1, Fat32ExtractsItsOwn, Zenon
<1>2. Extracted(r) = out
  BY DEF Extracted
<1>3. out \in Seq(P(Nat)) /\ Len(out) <= r.size /\ Len(out) <= MaxExtract
  <2> HIDE DEF P, out
  <2> QED
    BY <1>1, EverythingIsClosed, Zenon
<1>4. ASSUME NEW b \in ToSet(out) PROVE b < image.size /\ b \notin image.bad /\ Owns(r, b)
  <2>1. b \in P(Nat)
    <3> HIDE DEF P, out
    <3> QED
      BY <1>3, InSet, Zenon
  <2>2. b < image.size /\ b \notin image.bad
    BY <2>1 DEF Legible
  <2>3. ASSUME NEW C \in Linked(r.start)
        PROVE  \E c \in C : Within(Fat32Offset(volume, c), volume.size, b)
    <3>1. Closed(image, C) /\ r.start \in C
      BY LinkedIsClosed, Zenon
    <3>2. b \in P(C)
      <4>1. out \in Seq(P(C))
        BY <1>1, <3>1, Zenon
      <4> HIDE DEF P, out
      <4> QED
        BY <4>1, InSet, Zenon
    <3> QED
      BY <3>2
  <2>4. Fat32Owns(r, b)
    BY <2>3, Zenon DEF Fat32Owns
  <2>5. Owns(r, b)
    BY <2>4 DEF Owns
  <2> QED
    BY <2>2, <2>5
<1> HIDE DEF out
<1> QED
  BY <1>2, <1>3, <1>4, Zenon DEF OwnOnly

(* A number of clusters, rounded up.                                         *)
LEMMA ClusterCountIsNat ==
  ASSUME NEW v, v.size \in Nat \ {0}, NEW m \in Nat
  PROVE  ClusterCount(v, m) \in Nat
<1>1. m + v.size - 1 \in Nat
  OBVIOUS
<1> QED
  BY <1>1, QuotientIsNat, Zenon DEF ClusterCount

(* What the runs of C are read as is in clusters of C.                        *)
LEMMA ExFatReadsIn ==
  ASSUME image.size \in Nat, IsExFat(volume), NEW r, r.size \in Nat,
         NEW C, RunsToRead(volume, r) \in Seq(RunsIn(C))
  PROVE  /\ Len(ExFatExtract(image, volume, r)) <= r.size
         /\ Len(ExFatExtract(image, volume, r)) <= MaxExtract
         /\ \A b \in ToSet(ExFatExtract(image, volume, r)) :
              Legible(image, b) /\ InExFatCluster(C, b)
<1> DEFINE P == {b \in Nat : Legible(image, b) /\ InExFatCluster(C, b)}
<1>1. \A c \in C, b \in Nat :
        /\ InHeap(volume, c) /\ Within(ExFatOffset(volume, c), volume.size, b)
        /\ Legible(image, b)
        => b \in P
  BY DEF InExFatCluster
<1>2. \A b \in P : Legible(image, b) /\ InExFatCluster(C, b)
  OBVIOUS
<1> HIDE DEF P
<1>3. /\ ExFatExtract(image, volume, r) \in Seq(P)
      /\ Len(ExFatExtract(image, volume, r)) <= r.size
      /\ Len(ExFatExtract(image, volume, r)) <= MaxExtract
  BY <1>1, ExFatExtractsItsOwn, Zenon
<1> QED
  BY <1>2, <1>3, InSet, Zenon

(* An exFAT file: contiguous, or along the table.                            *)
LEMMA ExFatOwnOnly ==
  ASSUME image.kind = "exfat", image.size \in Nat, Linking(image), IsExFat(volume),
         NEW slots, NEW r \in ExFatListable(image, volume, slots)
  PROVE  OwnOnly(r)
<1>1. PICK e \in ExFatEntries, stream \in ExFatStreams, m \in Nat, n \in Nat :
        r = ExFatRecord(image, volume, e, stream, NameSlots(slots, m, n))
  BY DEF ExFatListable
<1> DEFINE need == ClusterCount(volume, stream.length)
           chain == ExFatChain(image, volume, stream.first, need)
           out == ExFatExtract(image, volume, r)
<1>2. stream.first \in Nat /\ stream.length \in Nat
  BY DEF ExFatStreams
<1>3. /\ r.start = stream.first /\ r.size = stream.length
      /\ r.runs = IF ~(stream.first >= 2) THEN <<>>
                  ELSE IF stream.noFatChain THEN <<[start |-> stream.first, count |-> need]>>
                  ELSE RunsOf(chain)
  BY <1>1 DEF ExFatRecord
<1>4. need \in Nat
  BY <1>2, ClusterCountIsNat DEF IsExFat
<1>5. r.start \in Nat /\ r.size \in Nat
  BY <1>2, <1>3
<1>6. Extracted(r) = out
  BY DEF Extracted
<1>7. ASSUME NEW C, Closed(image, C), r.start \in C, r.runs = RunsOf(chain), r.runs # <<>>
      PROVE  RunsToRead(volume, r) \in Seq(RunsIn(C))
  <2>1. stream.first \in C
    BY <1>3, <1>7, Zenon
  <2> HIDE DEF need
  <2>2. chain \in Seq(C)
    BY <1>4, <1>7, <2>1, ExFatChainIsLinked, Zenon
  <2>3. C \subseteq Nat
    BY <1>7 DEF Closed
  <2> HIDE DEF chain
  <2>4. RunsOf(chain) \in Seq(RunsIn(C))
    BY <2>2, <2>3, RunsOfStay, Zenon
  <2>5. RunsToRead(volume, r) = r.runs
    BY <1>7, Zenon DEF RunsToRead
  <2> QED
    BY <1>7, <2>4, <2>5, Zenon
<1>8. CASE Contiguous(r)
  <2> DEFINE count == ClusterCount(volume, r.size)
             C == r.start..(r.start + count - 1)
             one == [start |-> r.start, count |-> count]
  <2>1. RunsToRead(volume, r) = <<one>>
    BY <1>8 DEF Contiguous, RunsToRead
  <2>2. count \in Nat
    BY <1>3, <1>4
  <2> HIDE DEF count
  <2>3. one \in RunsIn(C)
    BY <1>5, <2>2 DEF RunsIn
  <2> HIDE DEF one
  <2>4. RunsToRead(volume, r) \in Seq(RunsIn(C))
    <3> HIDE DEF C
    <3> QED
      BY <2>1, <2>3
  <2>5. /\ Len(out) <= r.size /\ Len(out) <= MaxExtract
        /\ \A b \in ToSet(out) : Legible(image, b) /\ InExFatCluster(C, b)
    <3> HIDE DEF C
    <3> QED
      BY <1>5, <2>4, ExFatReadsIn, Zenon
  <2> HIDE DEF out
  <2>6. ASSUME NEW b \in ToSet(out) PROVE b < image.size /\ b \notin image.bad /\ Owns(r, b)
    <3>1. Legible(image, b) /\ InExFatCluster(C, b)
      BY <2>5, Zenon
    <3>2. ExFatOwns(r, b)
      BY <1>8, <3>1, Zenon DEF ExFatOwns, C, count
    <3> QED
      BY <3>1, <3>2 DEF Owns, Legible
  <2> QED
    BY <1>6, <2>5, <2>6, Zenon DEF OwnOnly
<1>9. CASE ~Contiguous(r)
  <2>1. r.runs = RunsOf(chain) /\ r.runs # <<>>
    <3> DEFINE one == <<[start |-> stream.first, count |-> need]>>
    <3>1. r.runs # <<>> /\ r.runs # one
      <4>1. need = ClusterCount(volume, r.size)
        BY <1>3, Zenon
      <4> HIDE DEF need
      <4> QED
        BY <1>3, <1>9, <4>1 DEF Contiguous
    <3> HIDE DEF chain
    <3> QED
      BY <1>3, <3>1, Zenon
  <2>2. ASSUME NEW C, Closed(image, C), r.start \in C
        PROVE  /\ Len(out) <= r.size /\ Len(out) <= MaxExtract
               /\ \A b \in ToSet(out) : Legible(image, b) /\ InExFatCluster(C, b)
    BY <1>5, <1>7, <2>1, <2>2, ExFatReadsIn, Zenon
  <2> HIDE DEF out, chain, need
  <2>3. /\ Len(out) <= r.size /\ Len(out) <= MaxExtract
        /\ \A b \in ToSet(out) : Legible(image, b)
    BY <1>5, <2>2, EverythingIsClosed, Zenon
  <2>4. ASSUME NEW b \in ToSet(out) PROVE b < image.size /\ b \notin image.bad /\ Owns(r, b)
    <3>1. ASSUME NEW C \in Linked(r.start) PROVE InExFatCluster(C, b)
      BY <1>5, <2>2, LinkedIsClosed, Zenon
    <3>2. ExFatOwns(r, b)
      BY <1>9, <3>1, Zenon DEF ExFatOwns
    <3>3. Legible(image, b)
      BY <2>3, Zenon
    <3> QED
      BY <3>2, <3>3 DEF Owns, Legible
  <2> QED
    BY <1>6, <2>3, <2>4, Zenon DEF OwnOnly
<1> QED
  BY <1>8, <1>9

(* An NTFS file: its runs, its place in its record, or nowhere.              *)
LEMMA NtfsOwnOnly ==
  ASSUME image.kind = "ntfs", image.size \in Nat, IsNtfs(volume),
         image.mft \in [DOMAIN image.mft -> NtfsRecords], DOMAIN image.mft \subseteq Nat,
         NEW r \in NtfsListable(image, volume)
  PROVE  OwnOnly(r)
<1>1. r.size \in Nat /\ r.runs \in Seq(NtfsRuns) /\ r.at \in Nat
  BY RecordFileIs, Zenon
<1> DEFINE P == {b \in Int : \/ b = -1 /\ Nowhere(r)
                             \/ Legible(image, b) /\ NtfsOwns(r, b)}
           out == NtfsExtract(image, volume, r)
<1>2. \A j \in DOMAIN r.runs, b \in Nat :
        /\ Within(NtfsOffset(volume, r.runs[j].start), r.runs[j].count * volume.size, b)
        /\ Legible(image, b)
        => b \in P
  <2> SUFFICES ASSUME NEW j \in DOMAIN r.runs, NEW b \in Nat,
                      Within(NtfsOffset(volume, r.runs[j].start), r.runs[j].count * volume.size, b),
                      Legible(image, b)
               PROVE  b \in P
    BY Zenon
  <2>1. r.runs # <<>>
    BY SMT
  <2>2. NtfsOwns(r, b)
    BY <2>1, Zenon DEF NtfsOwns
  <2> QED
    BY <2>2
<1>3. r.runs = <<>> /\ r.at > 0 =>
        \A b \in Nat : Within(r.at, r.size, b) /\ Legible(image, b) => b \in P
  BY DEF NtfsOwns
<1>4. r.runs = <<>> /\ r.at = 0 => -1 \in P
  BY DEF Nowhere
<1>5. \A b \in P : \/ b = -1 /\ Nowhere(r)
                   \/ Legible(image, b) /\ NtfsOwns(r, b)
  OBVIOUS
<1> HIDE DEF P
<1>6. out \in Seq(P) /\ Len(out) <= r.size /\ Len(out) <= MaxExtract
  BY <1>1, <1>2, <1>3, <1>4, NtfsExtractsItsOwn, Zenon
<1>7. Extracted(r) = out
  BY DEF Extracted
<1> HIDE DEF out
<1>8. ASSUME NEW b \in ToSet(out)
      PROVE  \/ b = -1 /\ Nowhere(r)
             \/ b < image.size /\ b \notin image.bad /\ Owns(r, b)
  <2>1. \/ b = -1 /\ Nowhere(r)
        \/ Legible(image, b) /\ NtfsOwns(r, b)
    BY <1>5, <1>6, InSet, Zenon
  <2> QED
    BY <2>1 DEF Owns, Legible
<1> QED
  BY <1>6, <1>7, <1>8, Zenon DEF OwnOnly
-----------------------------------------------------------------------------
(* How the state of an analysis hangs together: it follows from the image.    *)
AnalysisInv ==
  /\ image \in Disks /\ deleted \in BOOLEAN
  /\ table = NoTable \/ (image.kind # "raw" /\ table = DetectPartitions(image))
  /\ volume = NoVolume \/ \E m \in DOMAIN table.partitions : volume = Probes(table.partitions[m].start)
  /\ listed = <<>> \/ (volume.valid /\ listed = Listing(deleted))
  /\ \/ output = <<>>
     \/ listed # <<>> /\ output = [m \in DOMAIN listed |-> Extracted(listed[m])]

(* Before the image is opened nothing is known of it.                        *)
LEMMA AnalysisBegins == AnalysisInit => AnalysisInv
BY DEF AnalysisInit, AnalysisInv

(* Each step keeps that: the image does not change, and a volume is only     *)
(* looked for once, and at the start of a partition detected.                *)
LEMMA AnalysisKeeps == AnalysisInv /\ [AnalysisNext]_analysisVars => AnalysisInv'
<1> SUFFICES ASSUME AnalysisInv, [AnalysisNext]_analysisVars PROVE AnalysisInv'
  OBVIOUS
<1> USE DEF AnalysisInv
<1>1. CASE Open
  BY <1>1 DEF Open, analysis, Probes, Listing, Extracted
<1>2. CASE UseReader
  BY <1>2 DEF UseReader, analysis, Probes, Listing, Extracted
<1>3. CASE Detect
  <2>1. table = NoTable /\ UNCHANGED <<image, readerVars, volume, listed, deleted, output>>
    BY <1>3 DEF Detect
  <2>2. volume = NoVolume /\ listed = <<>> /\ output = <<>>
    BY <2>1 DEF NoTable, NoVolume
  <2> QED
    BY <1>3, <2>1, <2>2 DEF Detect
<1>4. CASE Probe
  <2>1. /\ volume = NoVolume
        /\ UNCHANGED <<image, readerVars, table, listed, deleted, output>>
    BY <1>4 DEF Probe
  <2>2. listed = <<>> /\ listed' = <<>> /\ output' = <<>>
    BY <2>1 DEF NoVolume
  <2>3. PICK m \in DOMAIN table.partitions : volume' = Probes(table.partitions[m].start)
    BY <1>4 DEF Probe
  <2>4. m \in DOMAIN table'.partitions /\ volume' = Probes(table.partitions[m].start)'
    BY <2>1, <2>3 DEF Probes
  <2> QED
    BY <2>1, <2>2, <2>4
<1>5. CASE List
  BY <1>5 DEF List, Probes, Listing, Extracted
<1>6. CASE Extract
  <2>1. /\ listed # <<>> /\ output' = [m \in DOMAIN listed |-> Extracted(listed[m])]
        /\ UNCHANGED <<image, readerVars, table, volume, listed, deleted>>
    BY <1>6, Zenon DEF Extract
  <2>2. \A r : Extracted(r)' = Extracted(r)
    BY <2>1 DEF Extracted
  <2>3. output' = [m \in DOMAIN listed' |-> Extracted(listed[m])']
    BY <2>1, <2>2
  <2>4. /\ \A part : Probes(part)' = Probes(part)
        /\ \A d \in BOOLEAN : Listing(d)' = Listing(d)
    BY <2>1 DEF Probes, Listing
  <2>5. volume' = NoVolume \/ \E m \in DOMAIN table'.partitions : volume' = Probes(table.partitions[m].start)'
    BY <2>1, <2>4
  <2> QED
    BY <2>1, <2>3, <2>4, <2>5
<1>7. CASE UNCHANGED analysisVars
  BY <1>7 DEF analysisVars, analysis, Probes, Listing, Extracted
<1> QED
  BY <1>1, <1>2, <1>3, <1>4, <1>5, <1>6, <1>7 DEF AnalysisNext

(* The volume was found at the start of a partition.                         *)
LEMMA VolumeProbed ==
  ASSUME AnalysisInv, volume # NoVolume
  PROVE  \E part \in Nat : image.kind # "raw" /\ volume = Probes(part)
<1>1. PICK m \in DOMAIN table.partitions : volume = Probes(table.partitions[m].start)
  BY Zenon DEF AnalysisInv
<1>2. table # NoTable
  BY <1>1 DEF NoTable
<1>3. image.kind # "raw" /\ table = DetectPartitions(image) /\ image \in Disks
  BY <1>2, Zenon DEF AnalysisInv
<1>4. image.size \in Nat /\ Tabled(image)
  BY <1>3, DiskAssumption
<1>5. table.partitions[m].start \in Nat
  BY <1>1, <1>3, <1>4, PartitionsBegin
<1> QED
  BY <1>1, <1>3, <1>5

(* What is listed and extracted follows from the image, and that alone makes *)
(* it the file's own.                                                        *)
LEMMA NothingForeignFollows == AnalysisInv => NothingForeign
<1> SUFFICES ASSUME AnalysisInv, output # <<>>, NEW m \in DOMAIN listed
             PROVE  /\ Len(output[m]) <= listed[m].size /\ Len(output[m]) <= MaxExtract
                    /\ \A b \in ToSet(output[m]) :
                         \/ b = -1 /\ Nowhere(listed[m])
                         \/ b < image.size /\ b \notin image.bad /\ Owns(listed[m], b)
  BY DEF NothingForeign
<1>1. output[m] = Extracted(listed[m])
  BY Zenon DEF AnalysisInv
<1>2. listed = Listing(deleted) /\ volume.valid /\ deleted \in BOOLEAN /\ image \in Disks
  BY DEF AnalysisInv
<1>3. volume # NoVolume
  BY <1>2 DEF NoVolume
<1>4. PICK part \in Nat : image.kind # "raw" /\ volume = Probes(part)
  BY <1>3, VolumeProbed, Zenon
<1> DEFINE r == listed[m]
<1>5. CASE image.kind = "fat32"
  <2>1. image.boot \in Fat32Boots /\ Linking(image) /\ Filed(image, Fat32Entries) /\ image.size \in Nat
    BY <1>2, <1>5, DiskAssumption
  <2>2. volume = Fat32Probe(image, part)
    BY <1>4, <1>5 DEF Probes
  <2>3. IsFat32(volume)
    BY <1>3, <2>1, <2>2, Fat32ProbeFinds, Zenon
  <2>4. listed = Fat32List(image, volume, deleted)
    BY <1>2, <1>5 DEF Listing
  <2>5. listed \in Seq(Fat32Listable(image, volume))
    BY <1>2, <2>1, <2>3, <2>4, Fat32ListsRecords, Zenon
  <2>6. m \in 1..Len(listed)
    BY <2>5
  <2>7. r \in Fat32Listable(image, volume)
    BY <2>5, <2>6, ElementOfSeq, Zenon
  <2>8. r.size \in Nat /\ r.start \in Nat
    BY <2>7 DEF Fat32Listable, Fat32Record, Fat32Files
  <2> HIDE DEF r
  <2>9. OwnOnly(r)
    BY <1>5, <2>1, <2>3, <2>8, Fat32OwnOnly, Zenon
  <2> QED
    BY <1>1, <2>9, Zenon DEF OwnOnly, r
<1>6. CASE image.kind = "exfat"
  <2>1. image.boot \in ExFatBoots /\ Linking(image) /\ Filed(image, ExFatSlots) /\ image.size \in Nat
    BY <1>2, <1>6, DiskAssumption
  <2>2. volume = ExFatProbe(image, part)
    BY <1>4, <1>6 DEF Probes
  <2>3. IsExFat(volume)
    BY <1>3, <2>1, <2>2, ExFatProbeFinds, Zenon
  <2>4. listed = ExFatList(image, volume, deleted)
    BY <1>2, <1>6 DEF Listing
  <2> DEFINE slots == ExFatDirectory(image, volume)
  <2>5. listed \in Seq(ExFatListable(image, volume, slots))
    BY <1>2, <2>1, <2>3, <2>4, ExFatListsRecords, Zenon
  <2> HIDE DEF slots
  <2>6. m \in 1..Len(listed)
    BY <2>5
  <2>7. r \in ExFatListable(image, volume, slots)
    BY <2>5, <2>6, ElementOfSeq, Zenon
  <2> HIDE DEF r
  <2>8. OwnOnly(r)
    BY <1>6, <2>1, <2>3, <2>7, ExFatOwnOnly, Zenon
  <2> QED
    BY <1>1, <2>8, Zenon DEF OwnOnly, r
<1>7. CASE image.kind = "ntfs"
  <2>1. /\ image.boot \in NtfsBoots /\ image.mft \in [DOMAIN image.mft -> NtfsRecords]
        /\ DOMAIN image.mft \subseteq Nat /\ image.size \in Nat
    BY <1>2, <1>7, DiskAssumption
  <2>2. volume = NtfsProbe(image, part)
    BY <1>4, <1>7 DEF Probes
  <2>3. IsNtfs(volume)
    BY <1>3, <2>1, <2>2, NtfsProbeFinds, Zenon
  <2>4. listed = NtfsList(image, volume, deleted)
    BY <1>2, <1>7 DEF Listing
  <2>5. listed \in Seq(NtfsListable(image, volume))
    BY <1>2, <2>1, <2>3, <2>4, NtfsListsRecords, Zenon
  <2>6. m \in 1..Len(listed)
    BY <2>5
  <2>7. r \in NtfsListable(image, volume)
    BY <2>5, <2>6, ElementOfSeq, Zenon
  <2> HIDE DEF r
  <2>8. OwnOnly(r)
    BY <1>7, <2>1, <2>3, <2>7, NtfsOwnOnly, Zenon
  <2> QED
    BY <1>1, <2>8, Zenon DEF OwnOnly, r
<1>8. image.kind \in {"fat32", "exfat", "ntfs"}
  BY <1>2, <1>4, DiskAssumption
<1> QED
  BY <1>5, <1>6, <1>7, <1>8

(* However broken the tables of a volume and however short the image, no more*)
(* is extracted of a file than its size, and nothing but readable blocks that*)
(* belong to it: those of clusters that the table links to its first, those of*)
(* its runs, those in its record (getClusterChain, parseDirectoryCluster,    *)
(* parseRunlist, extractFile).                                               *)
THEOREM NothingForeignHolds == AnalysisSpec => []NothingForeign
BY AnalysisBegins, AnalysisKeeps, NothingForeignFollows, PTL DEF AnalysisSpec

(* What a loop has after each turn, where that depends on the turn.           *)
LEMMA TurnByTurnIn ==
  ASSUME NEW n \in Nat, NEW f, NEW T, f[0] \in T[0],
         \A k \in 1..n : f[k - 1] \in T[k - 1] => f[k] \in T[k]
  PROVE  f[n] \in T[n]
<1> DEFINE B == {k \in 0..n : f[k] \notin T[k]}
<1>a. SUFFICES ASSUME B # {} PROVE FALSE
  OBVIOUS
<1>1. PICK b \in B : \A t \in B : b <= t
  <2>1. B \in SUBSET Nat
    OBVIOUS
  <2> HIDE DEF B
  <2> QED
    BY <1>a, <2>1, LeastExists
<1>2. b \in 0..n /\ f[b] \notin T[b] /\ b # 0
  OBVIOUS
<1>3. b - 1 \in 0..n /\ b \in 1..n /\ b - 1 \notin B
  BY <1>1, <1>2
<1>4. f[b - 1] \in T[b - 1]
  BY <1>3
<1> QED
  BY <1>2, <1>3, <1>4

(* A loop whose turn k leads from T[k - 1] to T[k] has a course.              *)
HasCourse(n, T, a, G) ==
  \E S, g : /\ g \in [0..n -> S] /\ g[0] = a
            /\ \A k \in 1..n : g[k] = G[k][g[k - 1]]
            /\ \A k \in 0..n : g[k] \in T[k]

(* The course of a loop exists where what is known of it depends on the turn.*)
LEMMA CourseInExists ==
  ASSUME NEW n \in Nat, NEW T, NEW a, a \in T[0], NEW G,
         \A k \in 1..n : \A x \in T[k - 1] : G[k][x] \in T[k]
  PROVE  HasCourse(n, T, a, G)
<1> DEFINE S == UNION {T[k] : k \in 0..n}
           Turn(k, x) == IF x \in T[k - 1] THEN G[k][x] ELSE a
           F == [k \in 1..n |-> [x \in S |-> Turn(k, x)]]
<1>1. a \in S
  BY SMT
<1>2. ASSUME NEW k \in 1..n, NEW x \in S PROVE Turn(k, x) \in S
  <2>1. k \in 0..n
    OBVIOUS
  <2>2. x \in T[k - 1] => G[k][x] \in T[k]
    OBVIOUS
  <2> QED
    BY <1>1, <2>1, <2>2
<1> HIDE DEF S, Turn
<1>3. F \in [1..n -> [S -> S]] /\ \A k \in 1..n, x \in S : F[k][x] = Turn(k, x)
  BY <1>2
<1> HIDE DEF F
<1>4. Courses(n, S, a, F) # {}
  BY <1>1, <1>3, CourseExists, Zenon
<1>5. PICK g \in Courses(n, S, a, F) : TRUE
  BY <1>4, Zenon
<1>6. g \in [0..n -> S] /\ g[0] = a /\ \A k \in 1..n : g[k] = F[k][g[k - 1]]
  BY <1>5, Zenon DEF Courses
<1>7. ASSUME NEW k \in 1..n, g[k - 1] \in T[k - 1]
      PROVE  g[k] = G[k][g[k - 1]] /\ g[k] \in T[k]
  <2>1. k - 1 \in 0..n
    OBVIOUS
  <2>2. g[k - 1] \in S
    BY <1>6, <2>1, Zenon
  <2>3. g[k] = Turn(k, g[k - 1])
    BY <1>3, <1>6, <2>2, Zenon
  <2> QED
    BY <1>7, <2>3 DEF Turn
<1>8. ASSUME NEW m \in 0..n PROVE g[m] \in T[m]
  <2>1. m \in Nat /\ \A k \in 1..m : k \in 1..n
    BY SMT
  <2>2. g[0] \in T[0] /\ \A k \in 1..m : g[k - 1] \in T[k - 1] => g[k] \in T[k]
    BY <1>6, <1>7, <2>1
  <2> QED
    BY <2>1, <2>2, TurnByTurnIn, Zenon
<1>9. ASSUME NEW k \in 1..n PROVE g[k] = G[k][g[k - 1]]
  <2>1. k - 1 \in 0..n
    OBVIOUS
  <2> QED
    BY <1>7, <1>8, <2>1
<1> QED
  BY <1>6, <1>8, <1>9, Zenon DEF HasCourse

PartsOf(entries, chosen) ==
  {[number |-> m, start |-> entries[k].start, count |-> entries[k].count] :
     m \in Nat, k \in chosen}

(* Of the entries chosen there are partitions, and of others there are none.   *)
LEMMA EntriesChosen ==
  ASSUME NEW entries, Len(entries) \in Nat, NEW chosen \in SUBSET (1..Len(entries))
  PROVE  /\ Entries(entries, chosen) \in Seq(PartsOf(entries, chosen))
         /\ chosen # {} => Entries(entries, chosen) # <<>>
<1> DEFINE n == Len(entries)
           a == <<>>
           T == [k \in 0..n |-> {x \in Seq(PartsOf(entries, chosen)) : \A t \in chosen : t <= k => x # <<>>}]
           Step(x, k) == IF k \notin chosen THEN x
                          ELSE Append(x, [number |-> Len(x) + 1, start |-> entries[k].start,
                          count |-> entries[k].count])
           f[k \in 0..n] == IF k = 0 THEN a ELSE Step(f[k - 1], k)
           G == [k \in 1..n |-> [x \in T[k - 1] |-> Step(x, k)]]
<1>1. Entries(entries, chosen) = f[n]
  BY Zenon DEF Entries, Iterate
<1>2. n \in Nat /\ a \in T[0]
  <2>1. <<>> \in Seq(PartsOf(entries, chosen))
    BY EmptySeq, Zenon
  <2>2. \A t \in chosen : ~(t <= 0)
    BY SMT
  <2> QED
    BY <2>1, <2>2
<1>3. ASSUME NEW k \in 1..n, NEW x \in T[k - 1] PROVE Step(x, k) \in T[k]
  <2> DEFINE e == [number |-> Len(x) + 1, start |-> entries[k].start, count |-> entries[k].count]
  <2>1. /\ x \in Seq(PartsOf(entries, chosen)) /\ k - 1 \in 0..n /\ k \in 0..n
        /\ \A t \in chosen : t <= k - 1 => x # <<>>
    OBVIOUS
  <2>2. Step(x, k) = IF k \notin chosen THEN x ELSE Append(x, e)
    OBVIOUS
  <2>3. CASE k \notin chosen
    <3>1. \A t \in chosen : t <= k => t <= k - 1
      BY <2>3
    <3> QED
      BY <2>1, <2>2, <2>3, <3>1
  <2>4. CASE k \in chosen
    <3>1. Len(x) + 1 \in Nat
      BY <2>1, SMT
    <3>2. e \in PartsOf(entries, chosen)
      BY <2>4, <3>1, SMT DEF PartsOf
    <3> HIDE DEF e
    <3>3. Append(x, e) \in Seq(PartsOf(entries, chosen)) /\ Append(x, e) # <<>>
      BY <2>1, <3>2, SMT
    <3> QED
      BY <2>1, <2>2, <2>4, <3>3
  <2> QED
    BY <2>3, <2>4
<1>4. \A k \in 1..n : \A x \in T[k - 1] : G[k][x] = Step(x, k)
  OBVIOUS
<1> HIDE DEF n, a, T, Step, G
<1>5. \A k \in 1..n : \A x \in T[k - 1] : G[k][x] \in T[k]
  BY <1>3, <1>4
<1>6. HasCourse(n, T, a, G)
  BY <1>2, <1>5, CourseInExists, Zenon
<1>7. PICK S, g : /\ g \in [0..n -> S] /\ g[0] = a
                  /\ \A k \in 1..n : g[k] = G[k][g[k - 1]]
                  /\ \A k \in 0..n : g[k] \in T[k]
  BY <1>6, Zenon DEF HasCourse
<1>8. \A k \in 1..n : g[k] = Step(g[k - 1], k)
  <2>1. \A k \in 1..n : k - 1 \in 0..n
    BY <1>2
  <2> QED
    BY <1>4, <1>7, <2>1
<1>9. g = [k \in 0..n |-> IF k = 0 THEN a ELSE Step(g[k - 1], k)]
  BY <1>7, <1>8
<1>10. f = [k \in 0..n |-> IF k = 0 THEN a ELSE Step(f[k - 1], k)]
  BY <1>9, Zenon
<1> HIDE DEF f
<1>11. f[0] \in T[0] /\ \A k \in 1..n : f[k - 1] \in T[k - 1] => f[k] \in T[k]
  <2>1. 0 \in 0..n /\ \A k \in 1..n : k \in 0..n /\ k # 0
    BY <1>2
  <2>2. f[0] = a /\ \A k \in 1..n : f[k] = Step(f[k - 1], k)
    BY <1>10, <2>1, Zenon
  <2> QED
    BY <1>2, <1>3, <2>2, Zenon
<1>12. f[n] \in T[n]
  BY <1>2, <1>11, TurnByTurnIn, Zenon
<1> QED
  <2>1. f[n] \in Seq(PartsOf(entries, chosen)) /\ (\A t \in chosen : t <= n => f[n] # <<>>)
    BY <1>2, <1>12 DEF T
  <2>2. \A t \in chosen : t <= n
    BY DEF n
  <2> QED
    BY <1>1, <2>1, <2>2, Zenon

(* Entries that all begin at one place give partitions that begin there.      *)
AllBegin(P, s) ==
  Len(P) \in Nat \ {0} /\ DOMAIN P = 1..Len(P) /\ \A m \in DOMAIN P : P[m].start = s

(* Entries chosen from a table that all begin at one place are partitions    *)
(* beginning there.                                                          *)
LEMMA EntriesBegin ==
  ASSUME NEW entries, Len(entries) \in Nat, NEW chosen \in SUBSET (1..Len(entries)),
         NEW s, {entries[k].start : k \in chosen} = {s}
  PROVE  Entries(entries, chosen) # <<>> /\ AllBegin(Entries(entries, chosen), s)
<1> DEFINE P == Entries(entries, chosen)
<1>1. chosen # {} /\ \A k \in chosen : entries[k].start = s
  BY SMT
<1>2. P \in Seq(PartsOf(entries, chosen)) /\ P # <<>>
  BY <1>1, EntriesChosen, Zenon
<1> HIDE DEF P
<1>3. Len(P) \in Nat \ {0} /\ DOMAIN P = 1..Len(P)
  BY <1>2
<1>4. ASSUME NEW m \in DOMAIN P PROVE P[m].start = s
  <2>1. P[m] \in PartsOf(entries, chosen)
    BY <1>2, <1>3, ElementOfSeq, Zenon
  <2> QED
    BY <1>1, <2>1 DEF PartsOf
<1> QED
  BY <1>2, <1>3, <1>4, Zenon DEF AllBegin, P

(* The partitions of a GPT in order.                                         *)
LEMMA GptBegins ==
  ASSUME NEW img, Tabled(img), img.size \in Nat, GptInOrder(img), NEW s, GptStarts(img) = {s}
  PROVE  GptEntries(img) # <<>> /\ AllBegin(GptEntries(img), s)
<1> DEFINE g == img.gpt
           used == {m \in DOMAIN g.entries : /\ g.entries[m].type # 0
                                             /\ g.entries[m].first <= g.entries[m].last
                                             /\ g.entries[m].first < img.size}
           ranges == [m \in DOMAIN g.entries |->
                        [start |-> g.entries[m].first,
                         count |-> g.entries[m].last - g.entries[m].first + 1]]
           bad == \/ img.size < 2 \/ ~Readable(img, 1, 1) \/ ~g.signature
                  \/ g.entrySize < 128 \/ Len(g.entries) \notin 1..256
                  \/ ~Readable(img, g.lba, (Len(g.entries) * g.entrySize + 511) \div 512)
<1>1. GptEntries(img) = IF bad THEN <<>> ELSE Entries(ranges, used)
  BY DEF GptEntries
<1>2. g.entries \in Seq([type : Nat, first : Nat, last : Nat]) /\ g.entrySize \in Nat
  BY DEF Tabled
<1>3. ~bad
  <2>1. ~(img.size < 2)
    <3>1. Readable(img, 1, 1)
      BY Zenon DEF GptInOrder
    <3> QED
      BY <3>1 DEF Readable
  <2>2. ~(g.entrySize < 128)
    <3>1. g.entrySize >= 128
      BY Zenon DEF GptInOrder
    <3> HIDE DEF g
    <3> QED
      BY <1>2, <3>1
  <2> QED
    BY <2>1, <2>2, Zenon DEF GptInOrder
<1>4. GptStarts(img) = {g.entries[m].first : m \in used}
  BY Zenon DEF GptStarts
<1> HIDE DEF g, bad
<1>5. Len(g.entries) \in Nat /\ DOMAIN g.entries = 1..Len(g.entries)
  BY <1>2
<1>6. Len(ranges) = Len(g.entries) /\ used \in SUBSET (1..Len(g.entries))
  BY <1>5
<1>7. {ranges[k].start : k \in used} = {s}
  <2>1. \A k \in used : ranges[k].start = g.entries[k].first
    OBVIOUS
  <2>2. {g.entries[m].first : m \in used} = {s}
    BY <1>4
  <2> HIDE DEF ranges, used
  <2> QED
    BY <2>1, <2>2
<1> HIDE DEF ranges, used
<1>8. Len(ranges) \in Nat /\ used \in SUBSET (1..Len(ranges))
  BY <1>5, <1>6
<1>9. Entries(ranges, used) # <<>> /\ AllBegin(Entries(ranges, used), s)
  BY <1>7, <1>8, EntriesBegin, Zenon
<1> QED
  BY <1>1, <1>3, <1>9

(* The partitions of an MBR in order.                                        *)
LEMMA MbrBegins ==
  ASSUME NEW img, Tabled(img), NEW s, MbrStarts(img) = {s}
  PROVE  MbrEntries(img) # <<>> /\ AllBegin(MbrEntries(img), s)
<1> DEFINE entries == img.mbr.entries
           chosen == {m \in DOMAIN entries : /\ entries[m].type # 0 /\ entries[m].count > 0
                                             /\ entries[m].start < img.size}
<1>1. entries \in Seq([type : Nat, start : Nat, count : Nat])
  BY DEF Tabled
<1>2. MbrEntries(img) = Entries(entries, chosen)
  BY Zenon DEF MbrEntries
<1>3. {entries[k].start : k \in chosen} = {s}
  BY Zenon DEF MbrStarts
<1>4. Len(entries) \in Nat /\ chosen \in SUBSET (1..Len(entries))
  BY <1>1, LenProperties, Zenon
<1> HIDE DEF entries, chosen
<1> QED
  BY <1>2, <1>3, <1>4, EntriesBegin, Zenon

(* An MBR whose entries are all unused or out of the image has no partition. *)
LEMMA NoMbr ==
  ASSUME NEW img, Tabled(img), MbrStarts(img) = {}
  PROVE  MbrEntries(img) = <<>>
<1> DEFINE entries == img.mbr.entries
           chosen == {m \in DOMAIN entries : /\ entries[m].type # 0 /\ entries[m].count > 0
                                             /\ entries[m].start < img.size}
<1>1. entries \in Seq([type : Nat, start : Nat, count : Nat])
  BY DEF Tabled
<1>2. MbrEntries(img) = Entries(entries, chosen)
  BY Zenon DEF MbrEntries
<1>3. chosen = {}
  <2>1. {entries[k].start : k \in chosen} = {}
    BY Zenon DEF MbrStarts
  <2> HIDE DEF chosen
  <2> QED
    BY <2>1
<1>4. Len(entries) \in Nat /\ chosen \in SUBSET (1..Len(entries))
  BY <1>1, LenProperties, Zenon
<1> HIDE DEF entries, chosen
<1>5. Entries(entries, chosen) \in Seq(PartsOf(entries, chosen))
  BY <1>4, EntriesChosen, Zenon
<1>6. PartsOf(entries, chosen) = {}
  BY <1>3 DEF PartsOf
<1>7. Entries(entries, chosen) = <<>>
  <2> DEFINE P == Entries(entries, chosen)
  <2>1. P \in Seq({})
    BY <1>5, <1>6, Zenon
  <2> HIDE DEF P
  <2>2. Len(P) \in Nat /\ \A k \in 1..Len(P) : P[k] \in {}
    BY <2>1
  <2>3. Len(P) = 0
    BY <2>2, SMT
  <2>4. P = <<>>
    BY <2>1, <2>3
  <2> QED
    BY <2>4, Zenon DEF P
<1> QED
  BY <1>2, <1>7

(* Where the table is in order, all partitions begin where the volume does.   *)
LEMMA PartitionsInOrder ==
  ASSUME NEW img, Tabled(img), img.size \in Nat, img.part \in Nat, TableInOrder(img)
  PROVE  AllBegin(DetectPartitions(img).partitions, img.part)
<1> DEFINE gpt == GptEntries(img)
           mbr == MbrEntries(img)
           sole == <<[number |-> 1, start |-> 0, count |-> img.size]>>
<1>1. ~(img.size < 1 \/ ~Readable(img, 0, 1))
  BY DEF TableInOrder, Readable
<1>2. DetectPartitions(img).partitions =
        IF gpt # <<>> THEN gpt
        ELSE IF img.mbr.signature /\ ~Protective(img) /\ mbr # <<>> THEN mbr ELSE sole
  BY <1>1 DEF DetectPartitions
<1>3. ~img.gpt.signature => gpt = <<>>
  BY DEF GptEntries
<1>4. AllBegin(sole, 0)
  BY DEF AllBegin
<1> HIDE DEF gpt, mbr, sole
<1>5. CASE GptInOrder(img) /\ GptStarts(img) = {img.part}
  <2>1. gpt # <<>> /\ AllBegin(gpt, img.part)
    BY <1>5, GptBegins, Zenon DEF gpt
  <2> QED
    BY <1>2, <2>1
<1>6. CASE /\ ~img.gpt.signature /\ img.mbr.signature /\ ~Protective(img)
           /\ MbrStarts(img) = {img.part}
  <2>1. mbr # <<>> /\ AllBegin(mbr, img.part)
    BY <1>6, MbrBegins, Zenon DEF mbr
  <2> QED
    BY <1>2, <1>3, <1>6, <2>1
<1>7. CASE ~img.gpt.signature /\ MbrStarts(img) = {} /\ img.part = 0
  <2>1. mbr = <<>>
    BY <1>7, NoMbr, Zenon DEF mbr
  <2> QED
    BY <1>2, <1>3, <1>4, <1>7, <2>1
<1> QED
  BY <1>5, <1>6, <1>7 DEF TableInOrder
-----------------------------------------------------------------------------
(* The state of an extraction that has got the first m blocks of a content.    *)
Gotten(blocks, m) ==
  [data |-> SubSeq(blocks, 1, m), left |-> Len(blocks) - m, go |-> TRUE]

(* A piece that continues the beginning of a content makes a longer          *)
(* beginning.                                                                *)
LEMMA PrefixGrows ==
  ASSUME NEW blocks \in Seq(Nat), NEW from \in Nat, NEW n \in Nat, from + n <= Len(blocks),
         NEW at \in Nat, \A o \in 0..(n - 1) : blocks[from + o + 1] = at + o
  PROVE  SubSeq(blocks, 1, from) \o Blocks(at, n) = SubSeq(blocks, 1, from + n)
<1> DEFINE s == SubSeq(blocks, 1, from) \o Blocks(at, n)
           t == SubSeq(blocks, 1, from + n)
<1>1. SubSeq(blocks, 1, from) \in Seq(Nat) /\ Len(SubSeq(blocks, 1, from)) = from
  OBVIOUS
<1>2. Blocks(at, n) \in Seq(Nat) /\ Len(Blocks(at, n)) = n
  BY DEF Blocks
<1>3. \A k \in 1..n : Blocks(at, n)[k] = at + k - 1
  BY DEF Blocks
<1>4. t \in Seq(Nat) /\ Len(t) = from + n /\ \A k \in 1..(from + n) : t[k] = blocks[k]
  OBVIOUS
<1>5. \A k \in 1..from : SubSeq(blocks, 1, from)[k] = blocks[k]
  OBVIOUS
<1> DEFINE u == SubSeq(blocks, 1, from)
           w == Blocks(at, n)
<1> HIDE DEF u, w
<1>6. /\ u \o w \in Seq(Nat) /\ Len(u \o w) = Len(u) + Len(w)
      /\ \A k \in 1..(Len(u) + Len(w)) : (u \o w)[k] = IF k <= Len(u) THEN u[k] ELSE w[k - Len(u)]
  BY <1>1, <1>2, ConcatProperties, Zenon DEF u, w
<1>7. s = u \o w /\ Len(u) = from /\ Len(w) = n
  BY <1>1, <1>2, Zenon DEF u, w
<1>8. \A k \in 1..from : u[k] = blocks[k]
  BY <1>5, Zenon DEF u
<1>9. \A k \in 1..n : w[k] = at + k - 1
  BY <1>3, Zenon DEF w
<1> HIDE DEF s, t
<1>10. s \in Seq(Nat) /\ Len(s) = from + n
  BY <1>6, <1>7
<1>11. ASSUME NEW k \in 1..(from + n) PROVE s[k] = blocks[k]
  <2>1. s[k] = IF k <= from THEN u[k] ELSE w[k - from]
    BY <1>6, <1>7
  <2>2. CASE k <= from
    BY <1>8, <2>1, <2>2
  <2>3. CASE ~(k <= from)
    <3>1. k - from \in 1..n /\ (k - from) - 1 \in 0..(n - 1)
      BY <2>3
    <3>2. blocks[from + ((k - from) - 1) + 1] = at + ((k - from) - 1)
      BY <3>1
    <3>3. from + ((k - from) - 1) + 1 = k /\ at + ((k - from) - 1) = at + (k - from) - 1
      BY <3>1
    <3> QED
      BY <1>9, <2>1, <2>3, <3>1, <3>2, <3>3
  <2> QED
    BY <2>2, <2>3
<1> HIDE DEF s, t
<1>12. t \in Seq(Nat) /\ Len(s) = Len(t) /\ \A k \in 1..Len(s) : s[k] = t[k]
  BY <1>4, <1>10, <1>11
<1>13. s = t
  BY <1>10, <1>12, SeqEqual, Zenon
<1> QED
  BY <1>13, Zenon DEF s, t

(* A piece of n blocks from at holds what comes behind the first from blocks.  *)
StandHere(blocks, from, at, n) ==
  \A o \in 0..(n - 1) : from + o < Len(blocks) => blocks[from + o + 1] = at + o

(* A piece that can be read adds the blocks that stand there, as far as the    *)
(* content goes.                                                             *)
Adding(img, blocks, from, n, at) ==
  /\ img.size \in Nat /\ blocks \in Seq(Nat) /\ from \in Nat /\ n \in Nat /\ at \in Nat
  /\ from < Len(blocks) /\ Readable(img, at, n) /\ StandHere(blocks, from, at, n)

Adds(img, blocks, from, n, at) ==
  Piece(img, Gotten(blocks, from), at, n) = Gotten(blocks, Min({from + n, Len(blocks)}))

(* Reading a readable piece of the content adds it, up to the end of the     *)
(* content.                                                                  *)
LEMMA PieceAdds ==
  ASSUME NEW img, NEW blocks, NEW from, NEW n, NEW at, Adding(img, blocks, from, n, at)
  PROVE  Adds(img, blocks, from, n, at)
<1> DEFINE x == Gotten(blocks, from)
           whole == Min({x.left, n})
           m == IF at + whole > img.size THEN img.size - at ELSE whole
           least == Min({1, whole})
           end == Min({from + n, Len(blocks)})
<1>0. /\ img.size \in Nat /\ blocks \in Seq(Nat) /\ from \in Nat /\ n \in Nat /\ at \in Nat
      /\ from < Len(blocks) /\ Readable(img, at, n) /\ StandHere(blocks, from, at, n)
  BY Zenon DEF Adding
<1> USE <1>0
<1>1. Len(blocks) \in Nat /\ x.left = Len(blocks) - from /\ x.left \in Nat \ {0}
      /\ x.data = SubSeq(blocks, 1, from) /\ x.go
  BY DEF Gotten
<1>2. Piece(img, x, at, n) =
        IF ~x.go \/ x.left = 0 THEN x
        ELSE IF m < least \/ ~Readable(img, at, m) THEN [x EXCEPT !.go = FALSE]
        ELSE [data |-> x.data \o Blocks(at, m), left |-> x.left - m, go |-> TRUE]
  BY Zenon DEF Piece
<1> HIDE DEF x
<1>3. whole \in {x.left, n} /\ whole <= x.left /\ whole <= n /\ whole \in Nat
  <2>1. x.left \in Int /\ n \in Int
    BY <1>1
  <2>2. whole \in {x.left, n} /\ whole <= x.left /\ whole <= n
    BY <2>1, LeastOfTwo, Zenon
  <2> HIDE DEF whole
  <2> QED
    BY <1>1, <2>2
<1>4. end \in {from + n, Len(blocks)} /\ end <= from + n /\ end <= Len(blocks)
  <2>1. from + n \in Int /\ Len(blocks) \in Int
    BY <1>1
  <2> QED
    BY <2>1, LeastOfTwo, Zenon
<1> HIDE DEF whole, end
<1>5. least \in {1, whole} /\ least <= 1 /\ least <= whole
  <2>1. whole \in Int /\ 1 \in Int
    BY <1>3
  <2> QED
    BY <2>1, LeastOfTwo, Zenon
<1> HIDE DEF least
<1>6. m = whole /\ ~(m < least) /\ Readable(img, at, m)
  <2>1. at + n <= img.size /\ \A b \in img.bad : b \notin at..(at + n - 1)
    BY DEF Readable
  <2>2. m = whole
    BY <1>3, <2>1
  <2> HIDE DEF m
  <2>3. ~(m < least)
    BY <1>3, <1>5, <2>2
  <2>4. \A b \in img.bad : b \notin at..(at + m - 1)
    BY <1>3, <2>1, <2>2
  <2>5. at + m <= img.size
    BY <1>3, <2>1, <2>2
  <2> QED
    BY <2>2, <2>3, <2>4, <2>5 DEF Readable
<1> HIDE DEF m
<1>7. from + m = end
  BY <1>1, <1>3, <1>4, <1>6
<1>8. SubSeq(blocks, 1, from) \o Blocks(at, m) = SubSeq(blocks, 1, from + m)
  <2>1. m \in Nat /\ from + m <= Len(blocks)
    BY <1>1, <1>3, <1>6
  <2>2. \A o \in 0..(m - 1) : blocks[from + o + 1] = at + o
    <3> SUFFICES ASSUME NEW o \in 0..(m - 1) PROVE blocks[from + o + 1] = at + o
      OBVIOUS
    <3>1. m <= n /\ from + m <= Len(blocks)
      BY <1>3, <1>6, <2>1
    <3>2. o \in 0..(n - 1) /\ from + o < Len(blocks)
      BY <1>1, <2>1, <3>1
    <3> QED
      BY <3>2 DEF StandHere
  <2>3. /\ blocks \in Seq(Nat) /\ from \in Nat /\ m \in Nat /\ at \in Nat
        /\ from + m <= Len(blocks) /\ \A o \in 0..(m - 1) : blocks[from + o + 1] = at + o
    BY <2>1, <2>2, Zenon
  <2> QED
    BY ONLY <2>3, PrefixGrows, Zenon
<1>9. Piece(img, x, at, n) = [data |-> SubSeq(blocks, 1, end), left |-> Len(blocks) - end, go |-> TRUE]
  <2>1. x.left - m = Len(blocks) - end
    <3>1. \A l, c, e \in Int : from + m = e /\ l = c - from => l - m = c - e
      BY <1>3, <1>6
    <3>2. x.left \in Int /\ Len(blocks) \in Int /\ end \in Int
      BY <1>1, <1>4
    <3> QED
      BY <1>1, <1>7, <3>1, <3>2
  <2>2. ~(~x.go \/ x.left = 0)
    BY <1>1
  <2>3. Piece(img, x, at, n) = [data |-> x.data \o Blocks(at, m), left |-> x.left - m, go |-> TRUE]
    BY <1>2, <1>6, <2>2, Zenon
  <2> QED
    BY <1>1, <1>7, <1>8, <2>1, <2>3, Zenon
<1> QED
  BY <1>9, Zenon DEF Adds, Gotten, x, end

(* What stands on the image in pieces, in a form that its reader needs.        *)
End(pieces, k) == IF k = 0 THEN 0 ELSE pieces[k].from + pieces[k].n

(* The parts of StandsIn.                                                    *)
LEMMA StandingPiece ==
  ASSUME NEW img, NEW blocks, NEW pieces, StandsIn(img, blocks, pieces), NEW k \in DOMAIN pieces
  PROVE  /\ pieces[k].from = End(pieces, k - 1) /\ pieces[k].from < Len(blocks)
         /\ Readable(img, pieces[k].at, pieces[k].n)
         /\ \A o \in 0..(pieces[k].n - 1) :
              pieces[k].from + o < Len(blocks) =>
                blocks[pieces[k].from + o + 1] = pieces[k].at + o
         /\ Len(blocks) <= End(pieces, Len(pieces))
BY Zenon DEF StandsIn, End

(* An extraction begins with nothing, and ends with what was gotten.           *)
LEMMA GottenNothing ==
  ASSUME NEW blocks \in Seq(Nat), Len(blocks) <= MaxExtract
  PROVE  Extraction(Len(blocks)) = Gotten(blocks, 0)
<1>1. Len(blocks) \in Nat
  OBVIOUS
<1>2. Min({Len(blocks), MaxExtract}) = Len(blocks)
  <2>1. Len(blocks) \in Int /\ MaxExtract \in Int
    BY <1>1, VolumeAssumption
  <2>2. Min({Len(blocks), MaxExtract}) \in {Len(blocks), MaxExtract}
        /\ Min({Len(blocks), MaxExtract}) <= Len(blocks)
        /\ Min({Len(blocks), MaxExtract}) <= MaxExtract
    BY <2>1, LeastOfTwo, Zenon
  <2> QED
    BY <2>1, <2>2
<1>3. SubSeq(blocks, 1, 0) = <<>> /\ Len(blocks) - 0 = Len(blocks)
  BY <1>1
<1>4. Extraction(Len(blocks)) = [data |-> <<>>, left |-> Min({Len(blocks), MaxExtract}), go |-> TRUE]
  BY Zenon DEF Extraction
<1> QED
  BY <1>2, <1>3, <1>4, Zenon DEF Gotten

(* The whole beginning is the content.                                       *)
LEMMA GottenAll ==
  ASSUME NEW blocks \in Seq(Nat)
  PROVE  Gotten(blocks, Len(blocks)).data = blocks
BY DEF Gotten

(* A quotient from below.                                                    *)
LEMMA QuotientAtLeast ==
  ASSUME NEW a \in Nat, NEW d \in Nat \ {0}, NEW q \in Nat, q * d <= a
  PROVE  a \div d >= q
<1> DEFINE e == a \div d
<1>1. e \in Nat /\ e * d <= a /\ a < e * d + d
  BY SMT
<1> HIDE DEF e
<1>2. ASSUME e < q PROVE FALSE
  <2>1. q - e - 1 \in Nat /\ e \in Nat
    BY <1>1, <1>2
  <2>2. (q - e - 1) * d >= 0
    BY <2>1
  <2>3. q * d = (q - e - 1) * d + e * d + d
    BY <2>1
  <2> QED
    BY <1>1, <2>2, <2>3
<1> QED
  BY <1>1, <1>2 DEF e

(* A quotient between its bounds.                                            *)
LEMMA QuotientIs ==
  ASSUME NEW a \in Nat, NEW d \in Nat \ {0}, NEW q \in Nat, q * d <= a, a < q * d + d
  PROVE  a \div d = q
<1> DEFINE e == a \div d
<1>1. e \in Nat /\ e * d <= a /\ a < e * d + d
  BY SMT
<1>2. e >= q
  BY QuotientAtLeast, Zenon
<1> HIDE DEF e
<1>3. ASSUME e > q PROVE FALSE
  <2>1. e - q - 1 \in Nat /\ e \in Nat
    BY <1>1, <1>3
  <2>2. (e - q - 1) * d >= 0
    BY <2>1
  <2>3. e * d = (e - q - 1) * d + q * d + d
    BY <2>1
  <2> QED
    BY <1>1, <2>2, <2>3
<1>4. e = q
  BY <1>1, <1>2, <1>3
<1> QED
  BY <1>4 DEF e

(* How far the content has been got after k pieces.                           *)
Upto(blocks, pieces, k) == Min({End(pieces, k), Len(blocks)})

IsPieces(pieces) ==
  /\ Len(pieces) \in Nat /\ DOMAIN pieces = 1..Len(pieces)
  /\ \A k \in DOMAIN pieces : pieces[k].at \in Nat /\ pieces[k].from \in Nat /\ pieces[k].n \in Nat

(* Pieces end somewhere in the content.                                      *)
LEMMA EndIsNat ==
  ASSUME NEW pieces, IsPieces(pieces), NEW k \in 0..Len(pieces)
  PROVE  End(pieces, k) \in Nat
<1>1. CASE k = 0
  BY <1>1 DEF End
<1>2. CASE k # 0
  <2>1. k \in DOMAIN pieces
    BY <1>2 DEF IsPieces
  <2>2. pieces[k].from \in Nat /\ pieces[k].n \in Nat
    BY <2>1 DEF IsPieces
  <2> QED
    BY <1>2, <2>2 DEF End
<1> QED
  BY <1>1, <1>2

(* How far the first k pieces reach: to their end, but not behind that of the*)
(* content.                                                                  *)
LEMMA UptoIs ==
  ASSUME NEW blocks \in Seq(Nat), NEW pieces, IsPieces(pieces), NEW k \in 0..Len(pieces)
  PROVE  /\ Upto(blocks, pieces, k) \in Nat /\ Upto(blocks, pieces, k) <= Len(blocks)
         /\ End(pieces, k) <= Len(blocks) => Upto(blocks, pieces, k) = End(pieces, k)
         /\ End(pieces, k) >= Len(blocks) => Upto(blocks, pieces, k) = Len(blocks)
<1> DEFINE e == End(pieces, k)
           u == Upto(blocks, pieces, k)
<1>1. e \in Nat /\ Len(blocks) \in Nat
  BY EndIsNat
<1>2. u \in {e, Len(blocks)} /\ u <= e /\ u <= Len(blocks)
  <2>1. e \in Int /\ Len(blocks) \in Int
    BY <1>1
  <2> QED
    BY <2>1, LeastOfTwo, Zenon DEF Upto
<1> HIDE DEF e, u
<1>3. u \in Nat /\ u <= Len(blocks) /\ (e <= Len(blocks) => u = e) /\ (e >= Len(blocks) => u = Len(blocks))
  BY <1>1, <1>2
<1> QED
  BY <1>3 DEF e, u

(* Each piece is added to those before it.                                    *)
Continues(img, blocks, pieces, k) ==
  Piece(img, Gotten(blocks, Upto(blocks, pieces, k - 1)), pieces[k].at, pieces[k].n)
    = Gotten(blocks, Upto(blocks, pieces, k))

(* The piece after the first k - 1 continues the content where they end.     *)
LEMMA NextPiece ==
  ASSUME NEW img, img.size \in Nat, NEW blocks \in Seq(Nat), NEW pieces, IsPieces(pieces),
         StandsIn(img, blocks, pieces), NEW k \in 1..Len(pieces)
  PROVE  Continues(img, blocks, pieces, k)
<1> DEFINE place == pieces[k].at
           begin == pieces[k].from
           m == pieces[k].n
<1>1. k \in DOMAIN pieces /\ k - 1 \in 0..Len(pieces) /\ k \in 0..Len(pieces) /\ k # 0
  BY DEF IsPieces
<1>2. place \in Nat /\ begin \in Nat /\ m \in Nat
  BY <1>1 DEF IsPieces
<1>3. begin = End(pieces, k - 1) /\ begin < Len(blocks) /\ Readable(img, place, m)
  BY <1>1, StandingPiece
<1>4. StandHere(blocks, begin, place, m)
  <2>1. \A o \in 0..(m - 1) : begin + o < Len(blocks) => blocks[begin + o + 1] = place + o
    BY <1>1, StandingPiece
  <2> QED
    BY <2>1, Zenon DEF StandHere
<1>5. Upto(blocks, pieces, k) = Min({begin + m, Len(blocks)})
  BY <1>1, Zenon DEF Upto, End
<1> HIDE DEF place, begin, m
<1>6. Upto(blocks, pieces, k - 1) = begin
  <2>1. /\ Upto(blocks, pieces, k - 1) \in Nat
        /\ End(pieces, k - 1) <= Len(blocks) => Upto(blocks, pieces, k - 1) = End(pieces, k - 1)
    BY <1>1, UptoIs, Zenon
  <2>2. Len(blocks) \in Nat
    OBVIOUS
  <2> QED
    BY <1>2, <1>3, <2>1, <2>2
<1>7. Piece(img, Gotten(blocks, begin), place, m) = Gotten(blocks, Min({begin + m, Len(blocks)}))
  <2>1. begin \in Nat
    BY <1>2
  <2>2. m \in Nat
    BY <1>2
  <2>3. place \in Nat
    BY <1>2
  <2>4. begin < Len(blocks)
    BY <1>3
  <2>5. Readable(img, place, m)
    BY <1>3
  <2>6. img.size \in Nat /\ blocks \in Seq(Nat)
    OBVIOUS
  <2>7. Adding(img, blocks, begin, m, place)
    BY <1>4, <2>1, <2>2, <2>3, <2>4, <2>5, <2>6, Zenon DEF Adding
  <2>8. Adds(img, blocks, begin, m, place)
    BY <2>7, PieceAdds, Zenon
  <2> QED
    BY <2>8, Zenon DEF Adds
<1> QED
  BY <1>5, <1>6, <1>7, Zenon DEF place, m, Continues

(* What was got after k pieces is a beginning of the content, and all of it    *)
(* after the last.                                                           *)
LEMMA GottenUpto ==
  ASSUME NEW img, NEW blocks \in Seq(Nat), NEW pieces, IsPieces(pieces),
         StandsIn(img, blocks, pieces), NEW k \in 0..Len(pieces)
  PROVE  /\ Gotten(blocks, Upto(blocks, pieces, k)).data = SubSeq(blocks, 1, Upto(blocks, pieces, k))
         /\ Upto(blocks, pieces, k) \in 0..Len(blocks)
         /\ k = Len(pieces) => Upto(blocks, pieces, k) = Len(blocks)
<1>1. Gotten(blocks, Upto(blocks, pieces, k)).data = SubSeq(blocks, 1, Upto(blocks, pieces, k))
  BY DEF Gotten
<1>2. /\ Upto(blocks, pieces, k) \in Nat /\ Upto(blocks, pieces, k) <= Len(blocks)
      /\ End(pieces, k) >= Len(blocks) => Upto(blocks, pieces, k) = Len(blocks)
  BY UptoIs
<1>3. Len(blocks) \in Nat /\ End(pieces, k) \in Nat
  BY EndIsNat
<1>4. k = Len(pieces) => End(pieces, k) >= Len(blocks)
  <2>1. Len(blocks) <= End(pieces, Len(pieces))
    BY Zenon DEF StandsIn, End
  <2> QED
    BY <1>3, <2>1
<1> QED
  BY <1>1, <1>2, <1>3, <1>4

(* Where there is a piece, something was got.                                 *)
LEMMA SomethingGotten ==
  ASSUME NEW img, NEW blocks \in Seq(Nat), NEW pieces, IsPieces(pieces),
         StandsIn(img, blocks, pieces), NEW k \in 1..Len(pieces), pieces[k].n > 0
  PROVE  Upto(blocks, pieces, k) > 0
<1>1. k \in DOMAIN pieces /\ k \in 0..Len(pieces)
  BY DEF IsPieces
<1>2. pieces[k].from \in Nat /\ pieces[k].n \in Nat /\ pieces[k].from < Len(blocks)
  BY <1>1, StandingPiece DEF IsPieces
<1>3. End(pieces, k) = pieces[k].from + pieces[k].n
  BY DEF End
<1>4. /\ Upto(blocks, pieces, k) \in Nat
      /\ End(pieces, k) <= Len(blocks) => Upto(blocks, pieces, k) = End(pieces, k)
      /\ End(pieces, k) >= Len(blocks) => Upto(blocks, pieces, k) = Len(blocks)
  BY <1>1, UptoIs
<1> QED
  BY <1>2, <1>3, <1>4

(* Clusters are pieces.                                                      *)
LEMMA ClustersArePieces ==
  ASSUME NEW at \in Seq(Nat), NEW n \in Nat
  PROVE  /\ IsPieces(Clusters(at, n)) /\ Len(Clusters(at, n)) = Len(at)
         /\ \A k \in 1..Len(at) : /\ Clusters(at, n)[k].at = at[k] /\ Clusters(at, n)[k].n = n
                                  /\ Clusters(at, n)[k].from = (k - 1) * n
<1> DEFINE p == Clusters(at, n)
<1>1. Len(at) \in Nat /\ DOMAIN at = 1..Len(at) /\ \A k \in 1..Len(at) : at[k] \in Nat
  OBVIOUS
<1>2. \A k \in 1..Len(at) : p[k].at = at[k] /\ p[k].n = n /\ p[k].from = (k - 1) * n
  BY <1>1 DEF Clusters
<1>3. \A k \in 1..Len(at) : (k - 1) * n \in Nat
  OBVIOUS
<1>4. Len(p) = Len(at) /\ DOMAIN p = 1..Len(at)
  BY <1>1 DEF Clusters
<1> HIDE DEF p
<1>5. IsPieces(p)
  BY <1>1, <1>2, <1>3, <1>4 DEF IsPieces
<1> QED
  BY <1>2, <1>4, <1>5 DEF p
-----------------------------------------------------------------------------
(* The files of a directory or of a table of records are found in their order. *)
(* When the places up to k have been seen, those listed are the files at these, *)
(* each with a record of those that are right for it (P).                      *)
SeenUpTo(files, P, out, k) ==
  /\ Len(out) \in 0..Len(files)
  /\ \A j \in 1..Len(files) :
       IF j <= Len(out) THEN files[j].slot <= k /\ out[j] \in P[j] ELSE files[j].slot > k

IsFiles(files) ==
  /\ Len(files) \in Nat /\ DOMAIN files = 1..Len(files)
  /\ \A j \in 1..Len(files) : files[j].slot \in Nat

(* A stretch of places without an entry adds nothing to the list.            *)
LEMMA SeenNone ==
  ASSUME NEW files, IsFiles(files), NEW S, Placed(files, S), NEW P, NEW out, NEW k \in Int, NEW m \in Int,
         SeenUpTo(files, P, out, k), k <= m, \A p \in S : ~(k < p /\ p <= m)
  PROVE  SeenUpTo(files, P, out, m)
<1>1. Len(out) \in 0..Len(files) /\ Len(files) \in Nat
  BY DEF SeenUpTo, IsFiles
<1>2. ASSUME NEW j \in 1..Len(files)
      PROVE  IF j <= Len(out) THEN files[j].slot <= m /\ out[j] \in P[j] ELSE files[j].slot > m
  <2>1. IF j <= Len(out) THEN files[j].slot <= k /\ out[j] \in P[j] ELSE files[j].slot > k
    BY DEF SeenUpTo
  <2>2. files[j].slot \in Nat
    BY DEF IsFiles
  <2>3. files[j].slot \in S
    BY DEF IsFiles, Placed
  <2> QED
    BY <2>1, <2>2, <2>3
<1> QED
  BY <1>1, <1>2 DEF SeenUpTo

(* A place with an entry adds its file.                                      *)
LEMMA SeenOne ==
  ASSUME NEW files, IsFiles(files), NEW S, Placed(files, S), NEW P, NEW U, NEW out \in Seq(U),
         NEW k \in Nat, NEW m \in Int, m < k,
         SeenUpTo(files, P, out, m), \A p \in S : ~(m < p /\ p < k), k \in S, NEW r \in U,
         \A j \in 1..Len(files) : files[j].slot = k => r \in P[j]
  PROVE  SeenUpTo(files, P, Append(out, r), k)
<1> DEFINE c == Len(out)
           more == Append(out, r)
<1>1. c \in 0..Len(files) /\ Len(files) \in Nat /\ \A j \in 1..Len(files) : files[j].slot \in Nat
  BY DEF SeenUpTo, IsFiles
<1>2. PICK t \in 1..Len(files) : files[t].slot = k
  BY DEF IsFiles, Placed
<1>3. \A i1, j \in 1..Len(files) : i1 < j => files[i1].slot < files[j].slot
  BY DEF IsFiles, Placed
<1>4. \A j \in 1..Len(files) :
        IF j <= c THEN files[j].slot <= m /\ out[j] \in P[j] ELSE files[j].slot > m
  BY DEF SeenUpTo
<1>5. Len(more) = c + 1 /\ more[c + 1] = r /\ \A j \in 1..c : more[j] = out[j]
  OBVIOUS
<1> HIDE DEF c, more
<1>6. t = c + 1
  <2>1. t > c
    BY <1>1, <1>2, <1>4
  <2>2. ASSUME t > c + 1 PROVE FALSE
    <3>1. c + 1 \in 1..Len(files)
      BY <1>1, <1>2, <2>2
    <3>2. files[c + 1].slot > m /\ files[c + 1].slot < k
      BY <1>1, <1>2, <1>3, <1>4, <2>2, <3>1
    <3>3. files[c + 1].slot \in S
      BY <3>1 DEF IsFiles, Placed
    <3> QED
      BY <3>2, <3>3
  <2> QED
    BY <1>1, <2>1, <2>2
<1>7. ASSUME NEW j \in 1..Len(files)
      PROVE  IF j <= c + 1 THEN files[j].slot <= k /\ more[j] \in P[j] ELSE files[j].slot > k
  <2>1. CASE j <= c
    <3>1. j \in 1..c /\ files[j].slot <= m /\ out[j] \in P[j]
      BY <1>1, <1>4, <2>1
    <3> QED
      BY <1>1, <1>5, <2>1, <3>1
  <2>2. CASE j = c + 1
    BY <1>1, <1>2, <1>5, <1>6, <2>2
  <2>3. CASE j > c + 1
    BY <1>1, <1>2, <1>3, <1>6, <2>3
  <2> QED
    BY <1>1, <2>1, <2>2, <2>3
<1>8. c + 1 \in 0..Len(files)
  BY <1>1, <1>6
<1> QED
  BY <1>5, <1>7, <1>8 DEF SeenUpTo, more

(* Behind the last entry every file is listed, in order.                     *)
LEMMA SeenAll ==
  ASSUME NEW files, IsFiles(files), NEW P, NEW out, NEW k \in Int,
         SeenUpTo(files, P, out, k), \A j \in 1..Len(files) : files[j].slot <= k
  PROVE  Len(out) = Len(files) /\ \A j \in 1..Len(files) : out[j] \in P[j]
<1>1. Len(out) \in 0..Len(files) /\ Len(files) \in Nat /\ \A j \in 1..Len(files) : files[j].slot \in Nat
  BY DEF SeenUpTo, IsFiles
<1>2. \A j \in 1..Len(files) :
        IF j <= Len(out) THEN files[j].slot <= k /\ out[j] \in P[j] ELSE files[j].slot > k
  BY DEF SeenUpTo
<1>3. Len(out) = Len(files)
  <2>1. ASSUME Len(out) < Len(files) PROVE FALSE
    <3>1. Len(files) \in 1..Len(files)
      BY <1>1, <2>1
    <3> QED
      BY <1>1, <1>2, <2>1, <3>1
  <2> QED
    BY <1>1, <2>1
<1> QED
  BY <1>1, <1>2, <1>3

(* Before the first entry nothing is.                                        *)
LEMMA SeenNothing ==
  ASSUME NEW files, IsFiles(files), NEW P, NEW k \in Int, \A j \in 1..Len(files) : files[j].slot > k
  PROVE  SeenUpTo(files, P, <<>>, k)
<1>1. Len(<<>>) = 0 /\ Len(files) \in Nat
  BY DEF IsFiles
<1> QED
  BY <1>1 DEF SeenUpTo

(* A beginning of a sequence, one longer.                                     *)
LEMMA PrefixAppends ==
  ASSUME NEW U, NEW s \in Seq(U), NEW m \in 0..(Len(s) - 1)
  PROVE  Append(SubSeq(s, 1, m), s[m + 1]) = SubSeq(s, 1, m + 1)
<1> DEFINE t == SubSeq(s, 1, m)
           w == Append(t, s[m + 1])
           u == SubSeq(s, 1, m + 1)
<1>1. Len(s) \in Nat /\ m \in Nat /\ m + 1 \in 1..Len(s)
  OBVIOUS
<1>2. t \in Seq(U) /\ Len(t) = m /\ \A k \in 1..m : t[k] = s[k]
  BY <1>1
<1>3. u \in Seq(U) /\ Len(u) = m + 1 /\ \A k \in 1..(m + 1) : u[k] = s[k]
  BY <1>1
<1>4. s[m + 1] \in U
  BY <1>1, ElementOfSeq, Zenon
<1> HIDE DEF t, u
<1>5. /\ w \in Seq(U) /\ Len(w) = m + 1 /\ w[m + 1] = s[m + 1]
      /\ \A k \in 1..m : w[k] = t[k]
  BY <1>2, <1>4
<1> HIDE DEF w
<1>6. \A k \in 1..Len(w) : w[k] = u[k]
  BY <1>1, <1>2, <1>3, <1>5
<1>7. w = u
  BY <1>3, <1>5, <1>6, SeqEqual, Zenon
<1> QED
  BY <1>7 DEF w, t, u

(* What a file is extracted as: its content, or the beginning of it if it was  *)
(* deleted, but never nothing of something.                                   *)
Extracts(out, blocks, del) ==
  /\ Len(out) <= Len(blocks) /\ (\A o \in 1..Len(out) : out[o] = blocks[o])
  /\ (blocks # <<>> => out # <<>>) /\ (~del => out = blocks)

(* A beginning that is not empty, and whole unless the file is deleted, is   *)
(* what is promised.                                                         *)
LEMMA PartExtracted ==
  ASSUME NEW blocks \in Seq(Nat), NEW m \in 0..Len(blocks), m > 0 \/ blocks = <<>>,
         NEW del, ~del => m = Len(blocks)
  PROVE  Extracts(SubSeq(blocks, 1, m), blocks, del)
<1> DEFINE s == SubSeq(blocks, 1, m)
<1>1. s \in Seq(Nat) /\ Len(s) = m /\ Len(blocks) \in Nat
  OBVIOUS
<1>2. Len(s) <= Len(blocks) /\ \A o \in 1..Len(s) : s[o] = blocks[o]
  BY <1>1
<1>3. blocks # <<>> => s # <<>>
  BY <1>1
<1>4. m = Len(blocks) => s = blocks
  OBVIOUS
<1> QED
  BY <1>2, <1>3, <1>4 DEF Extracts

(* What the properties ask of the output of a file.                           *)
Returns(img, out, file, del) ==
  Promised(img, file) =>
    /\ Begins(img, out, file.blocks) /\ (file.blocks # <<>> => out # <<>>)
    /\ ~del => Len(out) = Len(file.blocks)

(* A file extracted as its content is returned as is asked.                   *)
LEMMA ExtractedReturns ==
  ASSUME NEW img, NEW out, NEW file, NEW del, Extracts(out, file.blocks, del)
  PROVE  Returns(img, out, file, del)
BY DEF Extracts, Returns, Begins
-----------------------------------------------------------------------------
(* FAT32.  The analyzer takes the geometry of a volume in order from its boot  *)
(* sector, so that it finds the clusters where they are.                       *)
Fat32Finds(img, v) ==
  LET b == img.boot
  IN /\ v.part = img.part /\ v.bps = b.bps /\ v.spc = b.spc /\ v.size = b.bps * b.spc
     /\ v.fat = img.part + b.reserved * b.bps /\ v.root = b.root
     /\ v.data = b.reserved + b.fats * b.spf

(* The root directory has a cluster.                                         *)
LEMMA Fat32RootIs ==
  ASSUME NEW img, img.boot \in Fat32Boots, img.root \in Seq(Nat), Fat32InOrder(img)
  PROVE  img.boot.root \in Nat /\ img.boot.root >= 2 /\ Len(img.root) \in Nat \ {0}
<1>1. Len(img.root) \in 1..DirGuard /\ img.root[1] = img.boot.root
  BY Zenon DEF Fat32InOrder
<1>2. Chained(img, img.part + img.boot.reserved * img.boot.bps, img.root, FALSE)
  BY Zenon DEF Fat32InOrder
<1>3. 1 \in DOMAIN img.root
  BY <1>1
<1>4. img.root[1] \in 2..(Bad - 1)
  BY <1>2, <1>3, Zenon DEF Chained
<1> QED
  BY <1>1, <1>4, VolumeAssumption

(* A FAT32 volume that was recognised has the places that the boot sector    *)
(* says.                                                                     *)
LEMMA Fat32ProbeInOrder ==
  ASSUME NEW img, img.boot \in Fat32Boots, img.part \in Nat, img.root \in Seq(Nat),
         Fat32InOrder(img), Fat32Probe(img, img.part) # NoVolume
  PROVE  Fat32Finds(img, Fat32Probe(img, img.part))
<1> DEFINE b == img.boot
           v == Fat32Probe(img, img.part)
<1>1. /\ v.part = img.part /\ v.bps = b.bps /\ v.spc = b.spc /\ v.size = b.bps * b.spc
      /\ v.root = Max({b.root, 2}) /\ v.data = b.reserved + b.fats * b.spf
      /\ v.fat = img.part + b.reserved * b.bps
  BY DEF Fat32Probe
<1>2. b.root \in Nat /\ b.root >= 2
  BY Fat32RootIs, Zenon
<1> HIDE DEF v, b
<1>3. Max({b.root, 2}) = b.root
  <2>1. b.root \in Int /\ 2 \in Int
    BY <1>2
  <2>2. Max({b.root, 2}) \in {b.root, 2} /\ Max({b.root, 2}) >= b.root
    BY <2>1, GreatestOfTwo, Zenon
  <2> QED
    BY <1>2, <2>2
<1>4. Fat32Finds(img, v)
  BY <1>1, <1>3, Zenon DEF Fat32Finds, b
<1> QED
  BY <1>4, Zenon DEF v

(* So its clusters are read where they stand.                                *)
LEMMA Fat32OffsetInOrder ==
  ASSUME NEW img, img.boot \in Fat32Boots, img.part \in Nat, Fat32InOrder(img),
         NEW v, Fat32Finds(img, v), NEW c \in Nat, c >= 2
  PROVE  Fat32Offset(v, c) = Fat32At(img, c) /\ Fat32At(img, c) \in Nat
<1> DEFINE b == img.boot
           over == Max({c - 2, 0})
           off == (c - 2) * b.spc
           data == b.reserved + b.fats * b.spf
<1>1. over = c - 2
  <2>1. c - 2 \in Int /\ 0 \in Int
    OBVIOUS
  <2>2. over \in {c - 2, 0} /\ over >= c - 2
    BY <2>1, GreatestOfTwo, Zenon
  <2> HIDE DEF over
  <2> QED
    BY <2>2
<1>2. Fat32Offset(v, c) = (v.part + v.data + over * v.spc) * v.bps
  BY Zenon DEF Fat32Offset
<1>3. v.part = img.part /\ v.data = data /\ v.spc = b.spc /\ v.bps = b.bps
  BY Zenon DEF Fat32Finds
<1>4. Fat32At(img, c) = img.part + (data + off) * b.bps
  BY Zenon DEF Fat32At
<1>5. /\ b.bps \in Nat /\ b.spc \in Nat /\ b.reserved \in Nat /\ b.fats \in Nat /\ b.spf \in Nat
  BY DEF Fat32Boots
<1>6. off \in Nat /\ data \in Nat
  <2>1. c - 2 \in Nat
    OBVIOUS
  <2>2. off \in Nat
    BY <1>5, <2>1
  <2>3. b.fats * b.spf \in Nat
    BY <1>5
  <2> QED
    BY <1>5, <2>2, <2>3
<1>7. b.bps = 1 \/ img.part = 0
  BY Zenon DEF Fat32InOrder
<1> HIDE DEF b, over, data
<1>8. Fat32Offset(v, c) = (img.part + data + off) * b.bps
  BY <1>1, <1>2, <1>3
<1> HIDE DEF off
<1>9. (data + off) * b.bps \in Nat
  <2>1. data + off \in Nat
    BY <1>6
  <2> QED
    BY <1>5, <2>1
<1>10. (img.part + data + off) * b.bps = img.part + (data + off) * b.bps
  <2>1. CASE b.bps = 1
    BY <1>6, <2>1
  <2>2. CASE img.part = 0
    BY <1>6, <1>5, <2>2
  <2> QED
    BY <1>7, <2>1, <2>2
<1> QED
  BY <1>4, <1>8, <1>9, <1>10

(* From a cluster of a chain the table leads to the next, from the last to the *)
(* end, and where it was cleared nowhere.                                     *)
LEMMA TableEntryInOrder ==
  ASSUME NEW img, Linking(img), NEW fat, NEW chain \in Seq(Nat), NEW del,
         Chained(img, fat, chain, del), NEW k \in 1..Len(chain)
  PROVE  /\ chain[k] \in 2..(Bad - 1) /\ chain[k] \in Nat /\ TableEntry(img, fat, chain[k]) \in Nat
         /\ \/ k < Len(chain) /\ TableEntry(img, fat, chain[k]) = chain[k + 1]
            \/ k = Len(chain) /\ TableEntry(img, fat, chain[k]) >= EndMarks
            \/ del /\ TableEntry(img, fat, chain[k]) = 0
<1>1. k \in DOMAIN chain
  OBVIOUS
<1>2. /\ chain[k] \in 2..(Bad - 1) /\ chain[k] \in DOMAIN img.fat
      /\ Readable(img, fat + chain[k] \div 128, 1)
      /\ \/ k < Len(chain) /\ img.fat[chain[k]] = chain[k + 1]
         \/ k = Len(chain) /\ img.fat[chain[k]] >= EndMarks
         \/ del /\ img.fat[chain[k]] = 0
  BY <1>1, Zenon DEF Chained
<1>3. TableEntry(img, fat, chain[k]) = img.fat[chain[k]]
  BY <1>2, Zenon DEF TableEntry
<1>4. img.fat[chain[k]] \in Nat
  BY <1>2 DEF Linking
<1>5. chain[k] \in Nat
  BY <1>2, VolumeAssumption
<1> QED
  BY <1>2, <1>3, <1>4, <1>5

(* A chain followed for k turns; Ends are the numbers that end it.            *)
Following(chain, del, Ends, k) ==
  {x \in [at : Nat, chain : Seq(Nat)] :
     \E m \in 0..Len(chain) :
       /\ x.chain = SubSeq(chain, 1, m)
       /\ \/ m = k /\ m < Len(chain) /\ x.at = chain[m + 1]
          \/ m >= 1 /\ (~del => m = Len(chain)) /\ x.at \in Ends}

Fat32Ends == {c \in Nat : c < 2 \/ c >= EndMarks}

(* One link of a chain: the next cluster, or the end, or a link that was     *)
(* cleared.                                                                  *)
LEMMA Fat32FollowInOrder ==
  ASSUME NEW img, Linking(img), NEW v, NEW chain \in Seq(Nat), NEW del,
         Chained(img, v.fat, chain, del), NEW k \in Nat, NEW x \in Following(chain, del, Fat32Ends, k)
  PROVE  Fat32Follow(img, v, x) \in Following(chain, del, Fat32Ends, k + 1)
<1> DEFINE succ == Fat32Next(img, v, x.at)
           to == IF succ >= Bad THEN Eoc ELSE succ
           y == [at |-> to, chain |-> Append(x.chain, x.at)]
<1>1. Fat32Follow(img, v, x) = IF x.at < 2 \/ x.at >= EndMarks THEN x ELSE y
  BY Zenon DEF Fat32Follow
<1>2. x.at \in Nat /\ x.chain \in Seq(Nat)
  BY DEF Following, Fat32Ends
<1>3. PICK m \in 0..Len(chain) :
        /\ x.chain = SubSeq(chain, 1, m)
        /\ \/ m = k /\ m < Len(chain) /\ x.at = chain[m + 1]
           \/ m >= 1 /\ (~del => m = Len(chain)) /\ (x.at < 2 \/ x.at >= EndMarks)
  BY DEF Following, Fat32Ends
<1>4. CASE x.at < 2 \/ x.at >= EndMarks
  <2>1. ~(m = k /\ m < Len(chain) /\ x.at = chain[m + 1])
    <3>1. ASSUME m = k, m < Len(chain), x.at = chain[m + 1] PROVE FALSE
      <4>1. m + 1 \in 1..Len(chain)
        BY <3>1
      <4>2. chain[m + 1] \in 2..(Bad - 1)
        BY <4>1, TableEntryInOrder
      <4> QED
        BY <1>4, <3>1, <4>2, VolumeAssumption DEF EndMarks
    <3> QED
      BY <3>1
  <2>2. x \in Following(chain, del, Fat32Ends, k + 1)
    BY <1>3, <2>1 DEF Following, Fat32Ends
  <2> QED
    BY <1>1, <1>4, <2>2
<1>5. CASE ~(x.at < 2 \/ x.at >= EndMarks)
  <2>1. m = k /\ m < Len(chain) /\ x.at = chain[m + 1]
    BY <1>3, <1>5
  <2>2. m + 1 \in 1..Len(chain) /\ m + 1 \in 0..Len(chain) /\ m \in 0..(Len(chain) - 1) /\ m \in Nat
    BY <2>1
  <2>3. /\ succ \in Nat
        /\ \/ m + 1 < Len(chain) /\ succ = chain[m + 1 + 1]
           \/ m + 1 = Len(chain) /\ succ >= EndMarks
           \/ del /\ succ = 0
    <3>1. succ = TableEntry(img, v.fat, chain[m + 1])
      BY <1>5, <2>1, Zenon DEF Fat32Next
    <3> QED
      BY <2>2, <3>1, TableEntryInOrder
  <2>4. m + 1 < Len(chain) => chain[m + 1 + 1] \in 2..(Bad - 1)
    <3> HAVE m + 1 < Len(chain)
    <3>1. m + 1 + 1 \in 1..Len(chain)
      BY <2>2
    <3> QED
      BY <3>1, TableEntryInOrder
  <2>5. Append(x.chain, x.at) = SubSeq(chain, 1, m + 1)
    BY <1>3, <2>1, <2>2, PrefixAppends, Zenon
  <2> HIDE DEF succ
  <2>6. /\ to \in Nat
        /\ \/ m + 1 = k + 1 /\ m + 1 < Len(chain) /\ to = chain[m + 1 + 1]
           \/ m + 1 >= 1 /\ (~del => m + 1 = Len(chain)) /\ (to < 2 \/ to >= EndMarks)
    BY <2>1, <2>2, <2>3, <2>4, VolumeAssumption DEF Eoc, EndMarks
  <2>7. Append(x.chain, x.at) \in Seq(Nat)
    BY <1>2
  <2> HIDE DEF to
  <2>8. y.at = to /\ y.chain = SubSeq(chain, 1, m + 1) /\ y \in [at : Nat, chain : Seq(Nat)]
    BY <2>5, <2>6, <2>7
  <2> HIDE DEF y
  <2>9. y \in Following(chain, del, Fat32Ends, k + 1)
    BY <2>2, <2>6, <2>8 DEF Following, Fat32Ends
  <2> QED
    BY <1>1, <1>5, <2>9
<1> QED
  BY <1>4, <1>5

(* What a chain is read as: all of it, or the beginning of a deleted file's.   *)
ReadAs(out, chain, del) ==
  \E m \in 1..Len(chain) : out = SubSeq(chain, 1, m) /\ (~del => m = Len(chain))

(* After as many turns as there are clusters the chain is read.              *)
LEMMA FollowedToTheEnd ==
  ASSUME NEW chain \in Seq(Nat), NEW del, NEW Ends, NEW k \in Nat, k >= Len(chain), NEW x \in Following(chain, del, Ends, k)
  PROVE  ReadAs(x.chain, chain, del)
<1>1. PICK m \in 0..Len(chain) :
        /\ x.chain = SubSeq(chain, 1, m)
        /\ \/ m = k /\ m < Len(chain) /\ x.at = chain[m + 1]
           \/ m >= 1 /\ (~del => m = Len(chain)) /\ x.at \in Ends
  BY DEF Following
<1>2. m \in 1..Len(chain) /\ (~del => m = Len(chain))
  BY <1>1
<1> QED
  BY <1>1, <1>2 DEF ReadAs

(* getClusterChain reads the chain, or of a deleted file its beginning.      *)
LEMMA Fat32ChainInOrder ==
  ASSUME NEW img, Linking(img), NEW v, NEW chain \in Seq(Nat), chain # <<>>, NEW del,
         Chained(img, v.fat, chain, del), NEW most \in Nat, most >= Len(chain)
  PROVE  ReadAs(Fat32Chain(img, v, chain[1], most), chain, del)
<1> DEFINE n == most
           a == [at |-> chain[1], chain |-> <<>>]
           T == [k \in 0..n |-> Following(chain, del, Fat32Ends, k)]
           Step(x, k) == Fat32Follow(img, v, x)
           f[k \in 0..n] == IF k = 0 THEN a ELSE Step(f[k - 1], k)
           G == [k \in 1..n |-> [x \in T[k - 1] |-> Step(x, k)]]
<1>1. Fat32Chain(img, v, chain[1], most) = f[n].chain
  BY Zenon DEF Fat32Chain, Iterate
<1>2. n \in Nat /\ a \in T[0]
  <2>1. Len(chain) \in Nat /\ 0 < Len(chain) /\ chain[1] \in Nat /\ SubSeq(chain, 1, 0) = <<>>
    OBVIOUS
  <2>2. a \in [at : Nat, chain : Seq(Nat)]
    BY <2>1
  <2>3. a.at = chain[0 + 1] /\ a.chain = SubSeq(chain, 1, 0) /\ 0 \in 0..Len(chain) /\ 0 < Len(chain)
    BY <2>1
  <2> HIDE DEF a
  <2>4. \E m \in 0..Len(chain) :
          a.chain = SubSeq(chain, 1, m) /\ m = 0 /\ m < Len(chain) /\ a.at = chain[m + 1]
    BY <2>3, Zenon
  <2>5. a \in Following(chain, del, Fat32Ends, 0)
    BY <2>2, <2>4, Zenon DEF Following
  <2> QED
    BY <2>5
<1>3. ASSUME NEW k \in 1..n, NEW x \in T[k - 1] PROVE Step(x, k) \in T[k]
  <2>1. k - 1 \in 0..n /\ k - 1 \in Nat /\ (k - 1) + 1 = k
    OBVIOUS
  <2>2. x \in Following(chain, del, Fat32Ends, k - 1)
    BY <2>1
  <2>3. Fat32Follow(img, v, x) \in Following(chain, del, Fat32Ends, (k - 1) + 1)
    BY <2>1, <2>2, Fat32FollowInOrder, Zenon
  <2> QED
    BY <2>1, <2>3
<1>4. \A k \in 1..n : \A x \in T[k - 1] : G[k][x] = Step(x, k)
  OBVIOUS
<1> HIDE DEF n, a, T, Step, G
<1>5. \A k \in 1..n : \A x \in T[k - 1] : G[k][x] \in T[k]
  BY <1>3, <1>4
<1>6. HasCourse(n, T, a, G)
  BY <1>2, <1>5, CourseInExists, Zenon
<1>7. PICK S, g : /\ g \in [0..n -> S] /\ g[0] = a
                  /\ \A k \in 1..n : g[k] = G[k][g[k - 1]]
                  /\ \A k \in 0..n : g[k] \in T[k]
  BY <1>6, Zenon DEF HasCourse
<1>8. \A k \in 1..n : g[k] = Step(g[k - 1], k)
  <2>1. \A k \in 1..n : k - 1 \in 0..n
    BY <1>2
  <2> QED
    BY <1>4, <1>7, <2>1
<1>9. g = [k \in 0..n |-> IF k = 0 THEN a ELSE Step(g[k - 1], k)]
  BY <1>7, <1>8
<1>10. f = [k \in 0..n |-> IF k = 0 THEN a ELSE Step(f[k - 1], k)]
  BY <1>9, Zenon
<1> HIDE DEF f
<1>11. f[0] \in T[0] /\ \A k \in 1..n : f[k - 1] \in T[k - 1] => f[k] \in T[k]
  <2>1. 0 \in 0..n /\ \A k \in 1..n : k \in 0..n /\ k # 0
    BY <1>2
  <2>2. f[0] = a /\ \A k \in 1..n : f[k] = Step(f[k - 1], k)
    BY <1>10, <2>1, Zenon
  <2> QED
    BY <1>2, <1>3, <2>2, Zenon
<1>12. f[n] \in T[n]
  BY <1>2, <1>11, TurnByTurnIn, Zenon
<1> QED
  <2>1. f[n] \in Following(chain, del, Fat32Ends, most)
    BY <1>2, <1>12 DEF T, n
  <2> QED
    BY <1>1, <2>1, FollowedToTheEnd

(* What is extracted when the pieces up to m have been read, at least one of   *)
(* them if there is a content.                                               *)
LEMMA ExtractedUpto ==
  ASSUME NEW img, NEW blocks \in Seq(Nat), NEW pieces, IsPieces(pieces),
         StandsIn(img, blocks, pieces), NEW m \in 1..Len(pieces), pieces[m].n > 0,
         NEW del, ~del => m = Len(pieces)
  PROVE  Extracts(Gotten(blocks, Upto(blocks, pieces, m)).data, blocks, del)
<1> DEFINE u == Upto(blocks, pieces, m)
<1>1. m \in 0..Len(pieces)
  OBVIOUS
<1>2. /\ Gotten(blocks, u).data = SubSeq(blocks, 1, u) /\ u \in 0..Len(blocks)
      /\ m = Len(pieces) => u = Len(blocks)
  <2>1. Gotten(blocks, u).data = SubSeq(blocks, 1, u)
    BY DEF Gotten
  <2>2. u \in 0..Len(blocks)
    BY <1>1, GottenUpto, Zenon
  <2>3. m = Len(pieces) => u = Len(blocks)
    BY <1>1, GottenUpto, Zenon
  <2> QED
    BY <2>1, <2>2, <2>3, Zenon
<1>3. u > 0
  BY SomethingGotten
<1> HIDE DEF u
<1>4. Extracts(SubSeq(blocks, 1, u), blocks, del)
  <2>1. u > 0 \/ blocks = <<>>
    BY <1>3
  <2>2. ~del => u = Len(blocks)
    BY <1>2
  <2> QED
    BY <1>2, <2>1, <2>2, PartExtracted, Zenon
<1> QED
  BY <1>2, <1>4, Zenon DEF u

(* A content has as many clusters as its size calls for.                       *)
LEMMA ClustersNeeded ==
  ASSUME NEW img, NEW blocks \in Seq(Nat), NEW at \in Seq(Nat), at # <<>>, NEW n \in Nat \ {0},
         StandsIn(img, blocks, Clusters(at, n))
  PROVE  /\ blocks # <<>> /\ Len(blocks) + n - 1 \in Nat
         /\ (Len(blocks) + n - 1) \div n = Len(at)
<1> DEFINE p == Clusters(at, n)
           c == Len(at)
           most == c * n
<1>1. c \in Nat /\ c > 0 /\ n \in Nat
  OBVIOUS
<1>2. /\ IsPieces(p) /\ Len(p) = c
      /\ \A k \in 1..c : p[k].at = at[k] /\ p[k].n = n /\ p[k].from = (k - 1) * n
  BY <1>1, ClustersArePieces
<1>3. c \in 1..c /\ c \in DOMAIN p
  BY <1>1, <1>2 DEF IsPieces
<1> HIDE DEF p, c
<1>4. p[c].from < Len(blocks) /\ Len(blocks) <= End(p, Len(p))
  BY <1>3, StandingPiece, Zenon DEF p
<1>5. End(p, c) = (c - 1) * n + n
  BY <1>1, <1>2, <1>3 DEF End
<1>6. (c - 1) * n < Len(blocks) /\ Len(blocks) <= (c - 1) * n + n
  BY <1>2, <1>3, <1>4, <1>5
<1>7. (c - 1) * n + n = most /\ most \in Nat /\ (c - 1) * n \in Nat
  BY <1>1
<1> HIDE DEF most
<1>8. most <= Len(blocks) + n - 1 /\ Len(blocks) + n - 1 < most + n /\ Len(blocks) + n - 1 \in Nat
      /\ Len(blocks) > 0
  BY <1>6, <1>7
<1>9. (Len(blocks) + n - 1) \div n = c
  BY <1>1, <1>8, QuotientIs, Zenon DEF most
<1>10. blocks # <<>>
  BY <1>8
<1> QED
  BY <1>8, <1>9, <1>10 DEF c

(* Where there are no clusters there is no content.                          *)
LEMMA NoPiecesNoContent ==
  ASSUME NEW img, NEW blocks \in Seq(Nat), NEW pieces, pieces = <<>>, StandsIn(img, blocks, pieces)
  PROVE  blocks = <<>>
<1>1. Len(pieces) = 0
  OBVIOUS
<1>2. Len(blocks) <= 0
  <2>1. Len(blocks) <= End(pieces, Len(pieces))
    BY Zenon DEF StandsIn, End
  <2> QED
    BY <1>1, <2>1 DEF End
<1> QED
  BY <1>2

(* Enough clusters are followed.                                             *)
LEMMA EnoughClusters ==
  ASSUME NEW v, NEW n \in Nat \ {0}, v.size = n, NEW size \in Nat, NEW c \in Nat,
         size + n - 1 \in Nat, (size + n - 1) \div n = c, c < ChainGuard
  PROVE  MostClusters(v, size) \in Nat /\ MostClusters(v, size) >= c
<1>1. MostClusters(v, size) = Min({c + 1, ChainGuard - 1})
  BY Zenon DEF MostClusters
<1>2. c + 1 \in Int /\ ChainGuard - 1 \in Int
  BY Fat32Assumption
<1>3. Min({c + 1, ChainGuard - 1}) \in {c + 1, ChainGuard - 1}
  BY <1>2, LeastOfTwo, Zenon
<1> QED
  BY <1>1, <1>3, Fat32Assumption

Fat32Content(img, blocks, chain, del) ==
  /\ blocks \in Seq(Nat) /\ Len(blocks) <= MaxExtract
  /\ chain \in Seq(Nat) /\ Len(chain) < ChainGuard
  /\ Chained(img, img.part + img.boot.reserved * img.boot.bps, chain, del)
  /\ StandsIn(img, blocks, Clusters([k \in DOMAIN chain |-> Fat32At(img, chain[k])],
                                    img.boot.bps * img.boot.spc))

(* extractFile of FAT32 gives the content, or of a deleted file its          *)
(* beginning.                                                                *)
LEMMA Fat32ExtractInOrder ==
  ASSUME NEW img, img.size \in Nat, img.boot \in Fat32Boots, img.part \in Nat, Linking(img),
         Fat32InOrder(img), NEW v, IsFat32(v), Fat32Finds(img, v),
         NEW blocks, NEW chain, NEW del, Fat32Content(img, blocks, chain, del),
         NEW r, r.size = Len(blocks), chain # <<>> => r.start = chain[1]
  PROVE  Extracts(Fat32Extract(img, v, r), blocks, del)
<1> DEFINE at == [k \in DOMAIN chain |-> Fat32At(img, chain[k])]
           size == img.boot.bps * img.boot.spc
           pieces == Clusters(at, size)
<1>a. /\ blocks \in Seq(Nat) /\ Len(blocks) <= MaxExtract
      /\ chain \in Seq(Nat) /\ Len(chain) < ChainGuard /\ Chained(img, v.fat, chain, del)
      /\ StandsIn(img, blocks, pieces) /\ v.size = size /\ size \in Nat \ {0}
  BY Zenon DEF Fat32Content, Fat32Finds, IsFat32
<1>b. \A k \in 1..Len(chain) : /\ chain[k] \in Nat /\ chain[k] >= 2
                               /\ Fat32Offset(v, chain[k]) = at[k] /\ at[k] \in Nat
  <2> TAKE k \in 1..Len(chain)
  <2>1. chain[k] \in 2..(Bad - 1) /\ chain[k] \in Nat
    BY <1>a, TableEntryInOrder
  <2>2. chain[k] >= 2
    BY <2>1
  <2>3. Fat32Offset(v, chain[k]) = Fat32At(img, chain[k]) /\ Fat32At(img, chain[k]) \in Nat
    BY <2>1, <2>2, Fat32OffsetInOrder, Zenon
  <2>4. k \in DOMAIN chain
    BY <1>a
  <2> QED
    BY <2>1, <2>2, <2>3, <2>4
<1>c. at \in Seq(Nat) /\ Len(at) = Len(chain)
  <2>1. DOMAIN chain = 1..Len(chain) /\ Len(chain) \in Nat
    BY <1>a
  <2>2. at \in [1..Len(chain) -> Nat]
    BY <1>b, <2>1
  <2> HIDE DEF at
  <2> QED
    BY <2>1, <2>2
<1> HIDE DEF at, size
<1>d. /\ IsPieces(pieces) /\ Len(pieces) = Len(chain)
      /\ \A k \in 1..Len(chain) : pieces[k].at = at[k] /\ pieces[k].n = size
  BY <1>a, <1>c, ClustersArePieces
<1> HIDE DEF pieces
<1>e. CASE chain = <<>>
  <2>1. pieces = <<>>
    BY <1>e, <1>d DEF IsPieces
  <2>2. blocks = <<>>
    BY <1>a, <2>1, NoPiecesNoContent
  <2>3. Fat32Extract(img, v, r) = <<>>
    BY <2>2 DEF Fat32Extract
  <2> QED
    BY <2>2, <2>3 DEF Extracts
<1>f. SUFFICES ASSUME chain # <<>> PROVE Extracts(Fat32Extract(img, v, r), blocks, del)
  BY <1>e
<1> DEFINE most == MostClusters(v, r.size)
           read == Fat32Chain(img, v, r.start, most)
<1>g. /\ blocks # <<>> /\ Len(blocks) + size - 1 \in Nat
      /\ (Len(blocks) + size - 1) \div size = Len(chain)
  <2>1. at # <<>>
    BY <1>c, <1>f, <1>a
  <2> QED
    BY <1>a, <1>c, <2>1, ClustersNeeded DEF pieces
<1>h. most \in Nat /\ most >= Len(chain)
  <2>1. Len(blocks) \in Nat /\ Len(chain) \in Nat
    BY <1>a
  <2> QED
    BY <1>a, <1>g, <2>1, EnoughClusters, Zenon
<1> HIDE DEF most
<1>i. ReadAs(read, chain, del)
  BY <1>a, <1>f, <1>h, Fat32ChainInOrder, Zenon
<1> HIDE DEF read
<1>j. PICK m \in 1..Len(chain) : read = SubSeq(chain, 1, m) /\ (~del => m = Len(chain))
  BY <1>i DEF ReadAs
<1>k. Len(read) = m /\ m \in Nat /\ \A k \in 1..m : read[k] = chain[k]
  BY <1>a, <1>j
<1>l. ~(r.size = 0 \/ r.start < 2)
  <2>1. Len(blocks) # 0
    BY <1>a, <1>g
  <2>2. r.start >= 2 /\ r.start \in Nat
    BY <1>a, <1>b, <1>f
  <2> QED
    BY <2>1, <2>2
<1> DEFINE n == Len(read)
           a == Extraction(r.size)
           T == [k \in 0..n |-> {Gotten(blocks, Upto(blocks, pieces, k))}]
           Step(x, k) == Piece(img, x, Fat32Offset(v, read[k]), v.size)
           f[k \in 0..n] == IF k = 0 THEN a ELSE Step(f[k - 1], k)
           G == [k \in 1..n |-> [x \in T[k - 1] |-> Step(x, k)]]
<1>1. Fat32Extract(img, v, r) = f[n].data
  BY <1>l, Zenon DEF Fat32Extract, read, most, Iterate
<1>2. n \in Nat /\ a \in T[0]
  <2>1. a = Gotten(blocks, 0)
    BY <1>a, GottenNothing
  <2>2. Upto(blocks, pieces, 0) = 0
    <3>1. End(pieces, 0) = 0 /\ 0 \in 0..Len(pieces) /\ Len(blocks) \in Nat
      BY <1>a, <1>d DEF End, IsPieces
    <3>2. End(pieces, 0) <= Len(blocks) => Upto(blocks, pieces, 0) = End(pieces, 0)
      BY <1>a, <1>d, <3>1, UptoIs
    <3> QED
      BY <3>1, <3>2
  <2> QED
    BY <1>k, <2>1, <2>2
<1>3. ASSUME NEW k \in 1..n, NEW x \in T[k - 1] PROVE Step(x, k) \in T[k]
  <2>1. k \in 1..m /\ k \in 1..Len(chain) /\ k \in 1..Len(pieces) /\ k - 1 \in 0..n /\ k \in 0..n
    BY <1>d, <1>k
  <2>2. x = Gotten(blocks, Upto(blocks, pieces, k - 1))
    BY <2>1
  <2>3. Fat32Offset(v, read[k]) = pieces[k].at /\ v.size = pieces[k].n
    BY <1>a, <1>b, <1>d, <1>k, <2>1
  <2>4. Piece(img, Gotten(blocks, Upto(blocks, pieces, k - 1)), pieces[k].at, pieces[k].n)
           = Gotten(blocks, Upto(blocks, pieces, k))
    <3>1. Continues(img, blocks, pieces, k)
      BY <1>a, <1>d, <2>1, NextPiece, Zenon
    <3> QED
      BY <3>1, Zenon DEF Continues
  <2> QED
    BY <2>1, <2>2, <2>3, <2>4
<1>4. \A k \in 1..n : \A x \in T[k - 1] : G[k][x] = Step(x, k)
  OBVIOUS
<1> HIDE DEF n, a, T, Step, G
<1>5. \A k \in 1..n : \A x \in T[k - 1] : G[k][x] \in T[k]
  BY <1>3, <1>4
<1>6. HasCourse(n, T, a, G)
  BY <1>2, <1>5, CourseInExists, Zenon
<1>7. PICK S, g : /\ g \in [0..n -> S] /\ g[0] = a
                  /\ \A k \in 1..n : g[k] = G[k][g[k - 1]]
                  /\ \A k \in 0..n : g[k] \in T[k]
  BY <1>6, Zenon DEF HasCourse
<1>8. \A k \in 1..n : g[k] = Step(g[k - 1], k)
  <2>1. \A k \in 1..n : k - 1 \in 0..n
    BY <1>2
  <2> QED
    BY <1>4, <1>7, <2>1
<1>9. g = [k \in 0..n |-> IF k = 0 THEN a ELSE Step(g[k - 1], k)]
  BY <1>7, <1>8
<1>10. f = [k \in 0..n |-> IF k = 0 THEN a ELSE Step(f[k - 1], k)]
  BY <1>9, Zenon
<1> HIDE DEF f
<1>11. f[0] \in T[0] /\ \A k \in 1..n : f[k - 1] \in T[k - 1] => f[k] \in T[k]
  <2>1. 0 \in 0..n /\ \A k \in 1..n : k \in 0..n /\ k # 0
    BY <1>2
  <2>2. f[0] = a /\ \A k \in 1..n : f[k] = Step(f[k - 1], k)
    BY <1>10, <2>1, Zenon
  <2> QED
    BY <1>2, <1>3, <2>2, Zenon
<1>12. f[n] \in T[n]
  BY <1>2, <1>11, TurnByTurnIn, Zenon
<1> QED
  <2>1. f[n] = Gotten(blocks, Upto(blocks, pieces, m))
    BY <1>2, <1>12, <1>k DEF T, n
  <2>2. m \in 1..Len(pieces) /\ pieces[m].n > 0 /\ (~del => m = Len(pieces))
    <3>1. m \in 1..Len(chain) /\ Len(pieces) = Len(chain) /\ pieces[m].n = size
      BY <1>d, <1>j, Zenon
    <3>2. size \in Nat \ {0}
      BY <1>a, Zenon
    <3>3. size > 0
      BY ONLY <3>2
    <3> QED
      BY <1>j, <3>1, <3>3, Zenon
  <2>3. Extracts(Gotten(blocks, Upto(blocks, pieces, m)).data, blocks, del)
    BY <1>a, <1>d, <2>2, ExtractedUpto
  <2> QED
    BY <1>1, <2>1, <2>3, Zenon
-----------------------------------------------------------------------------
(* A directory of m slots: its entries, and behind them ends.                  *)
Padded(entries, m) == [p \in 1..m |-> IF p <= Len(entries) THEN entries[p] ELSE [t |-> "end"]]

(* A directory filled up with end marks, place by place.                     *)
LEMMA PaddedIs ==
  ASSUME NEW U, [t |-> "end"] \in U, NEW entries \in Seq(U), NEW m \in Nat
  PROVE  /\ Padded(entries, m) \in Seq(U) /\ Len(Padded(entries, m)) = m
         /\ \A p \in 1..m : Padded(entries, m)[p] = IF p <= Len(entries) THEN entries[p] ELSE [t |-> "end"]
<1> DEFINE s == Padded(entries, m)
<1>1. \A p \in 1..m : s[p] = IF p <= Len(entries) THEN entries[p] ELSE [t |-> "end"]
  BY DEF Padded
<1>2. ASSUME NEW p \in 1..m PROVE (IF p <= Len(entries) THEN entries[p] ELSE [t |-> "end"]) \in U
  <2>1. CASE p <= Len(entries)
    <3>1. p \in 1..Len(entries)
      BY <2>1
    <3> QED
      BY <2>1, <3>1, ElementOfSeq
  <2>2. CASE ~(p <= Len(entries))
    BY <2>2
  <2> QED
    BY <2>1, <2>2
<1>3. s \in [1..m -> U]
  BY <1>2 DEF Padded
<1> HIDE DEF s
<1>4. s \in Seq(U) /\ Len(s) = m
  BY <1>3
<1> QED
  BY <1>1, <1>4 DEF s

(* A directory cluster that can be read is read as it is.                      *)
LEMMA DirectorySlotsInOrder ==
  ASSUME NEW img, img.size \in Nat, NEW off \in Nat, NEW n \in Nat \ {0}, Readable(img, off, n),
         NEW slots, Len(slots) \in Nat, NEW held
  PROVE  /\ DirectorySlots(img, off, n, slots, held) = Padded(slots, n)
         /\ DirectorySlots(img, off, n, slots, held) # <<>>
<1> DEFINE inside == Min({n, img.size - off})
           buffer == IF Readable(img, off, inside) THEN slots ELSE held
           read == [j \in 1..n |-> IF j <= Len(buffer) /\ j <= inside
                                   THEN buffer[j] ELSE [t |-> "end"]]
<1>1. DirectorySlots(img, off, n, slots, held) =
        IF inside <= 0 \/ (inside = n /\ ~Readable(img, off, n)) THEN <<>> ELSE read
  BY Zenon DEF DirectorySlots
<1>2. inside = n
  <2>1. n <= img.size - off
    BY DEF Readable
  <2>2. n \in Int /\ img.size - off \in Int
    OBVIOUS
  <2>3. inside \in {n, img.size - off} /\ inside <= n /\ inside <= img.size - off
    BY <2>2, LeastOfTwo, Zenon
  <2> HIDE DEF inside
  <2> QED
    BY <2>1, <2>2, <2>3
<1> HIDE DEF inside
<1>3. buffer = slots
  BY <1>2
<1> HIDE DEF buffer
<1>4. read = Padded(slots, n)
  <2>1. \A j \in 1..n : (j <= Len(buffer) /\ j <= inside) <=> j <= Len(slots)
    BY <1>2, <1>3
  <2> QED
    BY <1>3, <2>1 DEF Padded
<1>5. Padded(slots, n) # <<>>
  BY DEF Padded
<1> HIDE DEF read
<1>6. ~(inside <= 0 \/ (inside = n /\ ~Readable(img, off, n)))
  BY <1>2
<1> QED
  BY <1>1, <1>4, <1>5, <1>6

Continued(entries, m, slots, n) ==
  \A o \in 1..n : /\ o <= Len(slots) <=> m + o <= Len(entries)
                  /\ m + o <= Len(entries) => slots[o] = entries[m + o]

Joined(entries, m, slots, n) == Padded(entries, m) \o Padded(slots, n) = Padded(entries, m + n)

(* One cluster more of a directory, filled up likewise.                      *)
LEMMA PaddedGrows ==
  ASSUME NEW U, [t |-> "end"] \in U, NEW entries \in Seq(U), NEW m \in Nat,
         NEW slots \in Seq(U), NEW n \in Nat, Continued(entries, m, slots, n)
  PROVE  Joined(entries, m, slots, n)
<1> DEFINE u == Padded(entries, m)
           w == Padded(slots, n)
           t == Padded(entries, m + n)
           s == u \o w
<1>1. u \in Seq(U) /\ Len(u) = m
  BY PaddedIs
<1>2. w \in Seq(U) /\ Len(w) = n
  BY PaddedIs
<1>3. t \in Seq(U) /\ Len(t) = m + n
  <2>1. m + n \in Nat
    OBVIOUS
  <2> QED
    BY <2>1, PaddedIs
<1>4. \A p \in 1..m : u[p] = IF p <= Len(entries) THEN entries[p] ELSE [t |-> "end"]
  BY DEF Padded
<1>5. \A p \in 1..n : w[p] = IF p <= Len(slots) THEN slots[p] ELSE [t |-> "end"]
  BY DEF Padded
<1>6. \A p \in 1..(m + n) : t[p] = IF p <= Len(entries) THEN entries[p] ELSE [t |-> "end"]
  BY DEF Padded
<1> HIDE DEF u, w, t
<1>7. /\ s \in Seq(U) /\ Len(s) = Len(u) + Len(w)
      /\ \A k \in 1..(Len(u) + Len(w)) : s[k] = IF k <= Len(u) THEN u[k] ELSE w[k - Len(u)]
  BY <1>1, <1>2, ConcatProperties, Zenon
<1> HIDE DEF s
<1>8. ASSUME NEW k \in 1..(m + n) PROVE s[k] = t[k]
  <2>1. CASE k <= m
    <3>1. k \in 1..m
      BY <2>1
    <3> QED
      BY <1>1, <1>2, <1>4, <1>6, <1>7, <2>1, <3>1
  <2>2. CASE k > m
    <3>1. k - m \in 1..n /\ m + (k - m) = k
      BY <2>2
    <3>2. s[k] = w[k - m]
      BY <1>1, <1>2, <1>7, <2>2
    <3>3. /\ k - m <= Len(slots) <=> k <= Len(entries)
          /\ k <= Len(entries) => slots[k - m] = entries[k]
      BY <3>1 DEF Continued
    <3>4. w[k - m] = IF k - m <= Len(slots) THEN slots[k - m] ELSE [t |-> "end"]
      BY <1>5, <3>1
    <3>5. t[k] = IF k <= Len(entries) THEN entries[k] ELSE [t |-> "end"]
      BY <1>6
    <3> QED
      BY <3>2, <3>3, <3>4, <3>5
  <2> QED
    BY <2>1, <2>2
<1>9. s = t
  <2>1. Len(s) = Len(t) /\ \A k \in 1..Len(s) : s[k] = t[k]
    BY <1>1, <1>2, <1>3, <1>7, <1>8
  <2> QED
    BY <1>3, <1>7, <2>1, SeqEqual, Zenon
<1> QED
  BY <1>9, Zenon DEF Joined, s, u, w, t

(* The walk through the root directory of a volume in order.                   *)
Walking(img, k) ==
  {x \in [at : Nat, held : Seq(Fat32Entries), slots : Seq(Fat32Entries)] :
     IF k < Len(img.root)
       THEN /\ x.at = img.root[k + 1]
            /\ x.slots = Padded(img.entries, k * (img.boot.bps * img.boot.spc))
       ELSE /\ x.at >= EndMarks
            /\ x.slots = Padded(img.entries, Len(img.root) * (img.boot.bps * img.boot.spc))}

(* A cluster of the root directory: readable, in the chain, with the entries *)
(* of its place.                                                             *)
LEMMA RootCluster ==
  ASSUME NEW img, Fat32InOrder(img), NEW k \in DOMAIN img.root, NEW n, n = img.boot.bps * img.boot.spc
  PROVE  /\ Readable(img, Fat32At(img, img.root[k]), n)
         /\ img.root[k] \in DOMAIN img.dir
         /\ Continued(img.entries, (k - 1) * n, img.dir[img.root[k]], n)
         /\ Chained(img, img.part + img.boot.reserved * img.boot.bps, img.root, FALSE)
<1>1. /\ Readable(img, Fat32At(img, img.root[k]), n)
      /\ img.root[k] \in DOMAIN img.dir
      /\ \A o \in 1..n :
           /\ o <= Len(img.dir[img.root[k]]) <=> (k - 1) * n + o <= Len(img.entries)
           /\ (k - 1) * n + o <= Len(img.entries) =>
                img.dir[img.root[k]][o] = img.entries[(k - 1) * n + o]
  BY Zenon DEF Fat32InOrder
<1>2. Chained(img, img.part + img.boot.reserved * img.boot.bps, img.root, FALSE)
  BY Zenon DEF Fat32InOrder
<1> QED
  BY <1>1, <1>2, Zenon DEF Continued

(* One turn of the walk over the root directory reads the next of its        *)
(* clusters.                                                                 *)
LEMMA WalkInOrder ==
  ASSUME NEW img, img.size \in Nat, img.boot \in Fat32Boots, img.part \in Nat,
         Linking(img), Filed(img, Fat32Entries), img.root \in Seq(Nat), img.entries \in Seq(Fat32Entries),
         Fat32InOrder(img), NEW v, IsFat32(v), Fat32Finds(img, v),
         NEW k \in Nat, NEW x \in Walking(img, k)
  PROVE  Fat32Walk(img, v, x) \in Walking(img, k + 1)
<1> DEFINE n == img.boot.bps * img.boot.spc
           here == SlotsOf(img, x.at)
           slots == DirectorySlots(img, Fat32Offset(v, x.at), v.size, here, x.held)
           y == [at |-> Fat32Next(img, v, x.at), held |-> slots, slots |-> x.slots \o slots]
           E == Fat32Entries
<1>1. Fat32Walk(img, v, x) = IF x.at < 2 \/ x.at >= EndMarks \/ slots = <<>> THEN [x EXCEPT !.at = Eoc] ELSE y
  BY Zenon DEF Fat32Walk
<1>2. /\ x \in [at : Nat, held : Seq(E), slots : Seq(E)]
      /\ k < Len(img.root) => x.at = img.root[k + 1] /\ x.slots = Padded(img.entries, k * n)
      /\ ~(k < Len(img.root)) => x.at >= EndMarks /\ x.slots = Padded(img.entries, Len(img.root) * n)
  BY Zenon DEF Walking
<1>3. n \in Nat \ {0} /\ v.size = n
  BY Zenon DEF Fat32Finds, IsFat32
<1>4. [t |-> "end"] \in E
  BY DEF Fat32Entries
<1>5. Len(img.root) \in Nat
  OBVIOUS
<1> HIDE DEF n, E
<1>6. CASE ~(k < Len(img.root))
  <2> DEFINE z == [x EXCEPT !.at = Eoc]
  <2>1. Fat32Walk(img, v, x) = z
    BY <1>1, <1>2, <1>6
  <2>2. z.at = Eoc /\ z.slots = x.slots /\ z \in [at : Nat, held : Seq(E), slots : Seq(E)]
    <3>1. Eoc \in Nat
      BY VolumeAssumption DEF Eoc
    <3> QED
      BY <1>2, <3>1
  <2>3. Eoc >= EndMarks /\ ~(k + 1 < Len(img.root))
    BY <1>5, <1>6, VolumeAssumption DEF Eoc, EndMarks
  <2> HIDE DEF z
  <2>4. z \in Walking(img, k + 1)
    BY <1>2, <1>6, <2>2, <2>3 DEF Walking, E, n
  <2> QED
    BY <2>1, <2>4
<1>7. CASE k < Len(img.root)
  <2>1. k + 1 \in 1..Len(img.root) /\ k + 1 \in DOMAIN img.root /\ (k + 1) - 1 = k
    BY <1>5, <1>7
  <2>2. /\ Readable(img, Fat32At(img, x.at), n) /\ x.at \in DOMAIN img.dir
        /\ Continued(img.entries, k * n, img.dir[x.at], n)
        /\ Chained(img, v.fat, img.root, FALSE)
    <3>1. x.at = img.root[k + 1]
      BY <1>2, <1>7
    <3>2. v.fat = img.part + img.boot.reserved * img.boot.bps
      BY Zenon DEF Fat32Finds
    <3>3. /\ Readable(img, Fat32At(img, img.root[k + 1]), n)
          /\ img.root[k + 1] \in DOMAIN img.dir
          /\ Continued(img.entries, ((k + 1) - 1) * n, img.dir[img.root[k + 1]], n)
          /\ Chained(img, img.part + img.boot.reserved * img.boot.bps, img.root, FALSE)
      BY <2>1, RootCluster, Zenon DEF n
    <3> QED
      BY <2>1, <3>1, <3>2, <3>3
  <2>3. /\ x.at \in 2..(Bad - 1) /\ x.at \in Nat /\ TableEntry(img, v.fat, x.at) \in Nat
        /\ \/ k + 1 < Len(img.root) /\ TableEntry(img, v.fat, x.at) = img.root[k + 1 + 1]
           \/ k + 1 = Len(img.root) /\ TableEntry(img, v.fat, x.at) >= EndMarks
    <3>1. x.at = img.root[k + 1]
      BY <1>2, <1>7
    <3> DEFINE to == TableEntry(img, v.fat, img.root[k + 1])
    <3>2. /\ img.root[k + 1] \in 2..(Bad - 1) /\ img.root[k + 1] \in Nat /\ to \in Nat
          /\ \/ k + 1 < Len(img.root) /\ to = img.root[k + 1 + 1]
             \/ k + 1 = Len(img.root) /\ to >= EndMarks
             \/ FALSE /\ to = 0
      BY <2>1, <2>2, TableEntryInOrder, Zenon
    <3> QED
      BY <3>1, <3>2, Zenon
  <2>4. x.at >= 2 /\ ~(x.at < 2) /\ ~(x.at >= EndMarks)
    BY <2>3, VolumeAssumption, SMTT(20) DEF EndMarks
  <2>5. Fat32Offset(v, x.at) = Fat32At(img, x.at) /\ Fat32At(img, x.at) \in Nat
    BY <2>3, <2>4, Fat32OffsetInOrder, Zenon
  <2>6. here = img.dir[x.at] /\ here \in Seq(E) /\ Len(here) \in Nat
    <3>1. here = img.dir[x.at]
      BY <2>2 DEF SlotsOf
    <3>2. here \in Seq(E)
      BY SlotsOfAreSlots, Zenon DEF E
    <3> HIDE DEF here
    <3> QED
      BY <3>1, <3>2
  <2> HIDE DEF here
  <2>7. slots = Padded(here, n) /\ slots # <<>>
    BY <1>3, <2>2, <2>5, <2>6, DirectorySlotsInOrder
  <2>8. slots \in Seq(E)
    BY <1>3, <1>4, <2>6, <2>7, PaddedIs
  <2> HIDE DEF slots
  <2>9. Fat32Walk(img, v, x) = y
    BY <1>1, <2>4, <2>7
  <2>10. y.at = TableEntry(img, v.fat, x.at)
    BY <2>4 DEF Fat32Next
  <2>11. y.slots = Padded(img.entries, (k + 1) * n)
    <3>1. k * n \in Nat /\ k * n + n = (k + 1) * n
      BY <1>3
    <3>2. Padded(img.entries, k * n) \o Padded(here, n) = Padded(img.entries, k * n + n)
      <4> DEFINE q == k * n
      <4>1. Continued(img.entries, q, here, n) /\ q \in Nat /\ n \in Nat
        BY <1>3, <2>2, <2>6, <3>1
      <4>2. img.entries \in Seq(E)
        BY Zenon DEF E
      <4> HIDE DEF q
      <4>3. Joined(img.entries, q, here, n)
        BY <1>4, <2>6, <4>1, <4>2, PaddedGrows, Zenon
      <4> QED
        BY <4>3, Zenon DEF q, Joined
    <3> QED
      BY <1>2, <1>7, <2>7, <3>1, <3>2
  <2>12. y \in [at : Nat, held : Seq(E), slots : Seq(E)]
    <3>1. x.slots \o slots \in Seq(E) /\ Fat32Next(img, v, x.at) \in Nat
      <4>1. Fat32Next(img, v, x.at) \in Nat
        BY Fat32NextIsNat, Zenon
      <4>2. x.slots \in Seq(E)
        BY <1>2
      <4> QED
        BY <2>8, <4>1, <4>2
    <3> QED
      BY <2>8, <3>1
  <2> HIDE DEF y
  <2>13. y \in Walking(img, k + 1)
    <3>1. CASE k + 1 < Len(img.root)
      <4>1. y.at = img.root[k + 1 + 1]
        BY <1>5, <2>3, <2>10, <3>1
      <4> QED
        BY <2>11, <2>12, <3>1, <4>1 DEF Walking, E, n
    <3>2. CASE ~(k + 1 < Len(img.root))
      <4>1. k + 1 = Len(img.root) /\ y.at >= EndMarks
        BY <1>5, <2>1, <2>3, <2>10, <3>2
      <4> QED
        BY <2>11, <2>12, <3>2, <4>1 DEF Walking, E, n
    <3> QED
      BY <3>1, <3>2
  <2> QED
    BY <2>9, <2>13
<1> QED
  BY <1>6, <1>7

(* The walk over the root directory gives its entries, and end marks behind  *)
(* them.                                                                     *)
LEMMA Fat32SlotsInOrder ==
  ASSUME NEW img, img.size \in Nat, img.boot \in Fat32Boots, img.part \in Nat,
         Linking(img), Filed(img, Fat32Entries), img.root \in Seq(Nat), img.entries \in Seq(Fat32Entries),
         Fat32InOrder(img), NEW v, IsFat32(v), Fat32Finds(img, v)
  PROVE  Fat32Slots(img, v) = Padded(img.entries, Len(img.root) * (img.boot.bps * img.boot.spc))
<1> DEFINE n == DirGuard
           a == [at |-> v.root, held |-> <<>>, slots |-> <<>>]
           T == [k \in 0..n |-> Walking(img, k)]
           Step(x, k) == Fat32Walk(img, v, x)
           f[k \in 0..n] == IF k = 0 THEN a ELSE Step(f[k - 1], k)
           G == [k \in 1..n |-> [x \in T[k - 1] |-> Step(x, k)]]
<1>1. Fat32Slots(img, v) = f[n].slots
  BY Zenon DEF Fat32Slots, Iterate
<1>2. n \in Nat /\ a \in T[0]
  <2> DEFINE E == Fat32Entries
             size == img.boot.bps * img.boot.spc
  <2>1. v.root = img.boot.root /\ img.boot.root \in Nat /\ Len(img.root) \in Nat \ {0}
    BY Fat32RootIs, Zenon DEF Fat32Finds
  <2>2. img.root[1] = img.boot.root
    BY Zenon DEF Fat32InOrder
  <2>3. a \in [at : Nat, held : Seq(E), slots : Seq(E)]
    <3>1. <<>> \in Seq(E)
      BY EmptySeq, Zenon
    <3> HIDE DEF E
    <3> QED
      BY <2>1, <3>1
  <2>4. a.at = img.root[0 + 1] /\ a.slots = <<>>
    BY <2>1, <2>2
  <2>5. size \in Nat
    BY Zenon DEF Fat32Finds, IsFat32
  <2>6. Padded(img.entries, 0 * size) = <<>>
    <3> HIDE DEF size
    <3>1. 0 * size = 0
      BY <2>5
    <3> QED
      BY <3>1 DEF Padded
  <2>7. 0 < Len(img.root)
    BY <2>1
  <2> HIDE DEF a
  <2>8. a \in Walking(img, 0)
    BY <2>3, <2>4, <2>6, <2>7, Zenon DEF Walking
  <2> QED
    BY <2>8, Fat32Assumption
<1>3. ASSUME NEW k \in 1..n, NEW x \in T[k - 1] PROVE Step(x, k) \in T[k]
  <2>1. k - 1 \in 0..n /\ k - 1 \in Nat /\ (k - 1) + 1 = k
    BY <1>2
  <2>2. x \in Walking(img, k - 1)
    BY <2>1
  <2>3. Fat32Walk(img, v, x) \in Walking(img, (k - 1) + 1)
    BY <2>1, <2>2, WalkInOrder, Zenon
  <2> QED
    BY <2>1, <2>3
<1>4. \A k \in 1..n : \A x \in T[k - 1] : G[k][x] = Step(x, k)
  OBVIOUS
<1> HIDE DEF n, a, T, Step, G
<1>5. \A k \in 1..n : \A x \in T[k - 1] : G[k][x] \in T[k]
  BY <1>3, <1>4
<1>6. HasCourse(n, T, a, G)
  BY <1>2, <1>5, CourseInExists, Zenon
<1>7. PICK S, g : /\ g \in [0..n -> S] /\ g[0] = a
                  /\ \A k \in 1..n : g[k] = G[k][g[k - 1]]
                  /\ \A k \in 0..n : g[k] \in T[k]
  BY <1>6, Zenon DEF HasCourse
<1>8. \A k \in 1..n : g[k] = Step(g[k - 1], k)
  <2>1. \A k \in 1..n : k - 1 \in 0..n
    BY <1>2
  <2> QED
    BY <1>4, <1>7, <2>1
<1>9. g = [k \in 0..n |-> IF k = 0 THEN a ELSE Step(g[k - 1], k)]
  BY <1>7, <1>8
<1>10. f = [k \in 0..n |-> IF k = 0 THEN a ELSE Step(f[k - 1], k)]
  BY <1>9, Zenon
<1> HIDE DEF f
<1>11. f[0] \in T[0] /\ \A k \in 1..n : f[k - 1] \in T[k - 1] => f[k] \in T[k]
  <2>1. 0 \in 0..n /\ \A k \in 1..n : k \in 0..n /\ k # 0
    BY <1>2
  <2>2. f[0] = a /\ \A k \in 1..n : f[k] = Step(f[k - 1], k)
    BY <1>10, <2>1, Zenon
  <2> QED
    BY <1>2, <1>3, <2>2, Zenon
<1>12. f[n] \in T[n]
  BY <1>2, <1>11, TurnByTurnIn, Zenon
<1> QED
  <2>1. f[n] \in Walking(img, n)
    BY <1>2, <1>12 DEF T
  <2>2. ~(n < Len(img.root))
    <3>1. Len(img.root) \in 1..DirGuard
      BY Zenon DEF Fat32InOrder
    <3> QED
      BY <3>1, Fat32Assumption DEF n
  <2>3. f[n].slots = Padded(img.entries, Len(img.root) * (img.boot.bps * img.boot.spc))
    BY <2>1, <2>2, Zenon DEF Walking
  <2> QED
    BY <1>1, <2>3
-----------------------------------------------------------------------------
(* The parts of a name that stand before position p.                          *)
PartsBefore(entries, p, lfn) ==
  \E n \in 0..(p - 1) :
    /\ \A q \in (p - n)..(p - 1) : entries[q].t = "lfn"
    /\ n < p - 1 => entries[p - n - 1].t # "lfn"
    /\ lfn = [j \in 1..n |-> entries[p - j].part]

(* Behind an entry that is no part of a name there are no parts.             *)
LEMMA NoPartsBefore ==
  ASSUME NEW entries, NEW p \in Nat \ {0}, p > 1 => entries[p - 1].t # "lfn"
  PROVE  PartsBefore(entries, p, <<>>)
<1>1. 0 \in 0..(p - 1) /\ \A q \in (p - 0)..(p - 1) : FALSE
  OBVIOUS
<1>2. 0 < p - 1 => entries[p - 0 - 1].t # "lfn"
  BY SMT
<1>3. <<>> = [j \in 1..0 |-> entries[p - j].part]
  BY SMT
<1> QED
  BY <1>1, <1>2, <1>3, Zenon DEF PartsBefore

(* Behind one more part of a name there is one more.                         *)
LEMMA OnePartMore ==
  ASSUME NEW entries \in Seq(Fat32Entries), NEW p \in 1..Len(entries), entries[p].t = "lfn",
         NEW lfn \in Seq(Nat), PartsBefore(entries, p, lfn)
  PROVE  /\ <<entries[p].part>> \o lfn \in Seq(Nat)
         /\ PartsBefore(entries, p + 1, <<entries[p].part>> \o lfn)
<1>1. PICK n \in 0..(p - 1) :
        /\ \A q \in (p - n)..(p - 1) : entries[q].t = "lfn"
        /\ n < p - 1 => entries[p - n - 1].t # "lfn"
        /\ lfn = [j \in 1..n |-> entries[p - j].part]
  BY DEF PartsBefore
<1> DEFINE u == <<entries[p].part>>
           w == u \o lfn
           t == [j \in 1..(n + 1) |-> entries[p + 1 - j].part]
<1>2. entries[p].part \in Nat
  <2>1. entries[p] \in Fat32Entries
    BY ElementOfSeq
  <2> QED
    BY <2>1 DEF Fat32Entries, Fat32Files
<1>3. u \in Seq(Nat) /\ Len(u) = 1 /\ u[1] = entries[p].part
  BY <1>2
<1>4. Len(lfn) = n /\ n \in Nat /\ p \in Nat
  BY <1>1
<1>5. \A j \in 1..n : lfn[j] = entries[p - j].part
  BY <1>1
<1>6. DOMAIN t = 1..(n + 1) /\ \A j \in 1..(n + 1) : t[j] = entries[p + 1 - j].part
  OBVIOUS
<1> HIDE DEF u, t
<1>7. /\ w \in Seq(Nat) /\ Len(w) = Len(u) + Len(lfn)
      /\ \A k \in 1..(Len(u) + Len(lfn)) : w[k] = IF k <= Len(u) THEN u[k] ELSE lfn[k - Len(u)]
  BY <1>3, ConcatProperties, Zenon
<1> HIDE DEF w
<1>8. ASSUME NEW k \in 1..(n + 1) PROVE w[k] = t[k]
  <2>1. CASE k = 1
    BY <1>3, <1>4, <1>6, <1>7, <2>1
  <2>2. CASE k # 1
    <3>1. k - 1 \in 1..n /\ p - (k - 1) = p + 1 - k
      BY <1>4, <2>2
    <3>2. k \in 1..(Len(u) + Len(lfn)) /\ ~(k <= Len(u)) /\ k - Len(u) = k - 1
      BY <1>3, <1>4, <2>2
    <3>3. w[k] = lfn[k - 1]
      BY <1>7, <3>2
    <3> QED
      BY <1>5, <1>6, <3>1, <3>3
  <2> QED
    BY <2>1, <2>2
<1>9. w = t
  <2>1. DOMAIN w = 1..(n + 1)
    BY <1>3, <1>4, <1>7
  <2>2. t = [k \in DOMAIN t |-> t[k]] /\ w = [k \in DOMAIN w |-> w[k]]
    <3>1. t = [k \in DOMAIN t |-> t[k]]
      BY DEF t
    <3>2. w = [k \in DOMAIN w |-> w[k]]
      BY <1>7
    <3> QED
      BY <3>1, <3>2
  <2> QED
    BY <1>6, <1>8, <2>1, <2>2
<1>10. n + 1 \in 0..((p + 1) - 1)
  BY <1>4
<1>11. \A q \in ((p + 1) - (n + 1))..((p + 1) - 1) : entries[q].t = "lfn"
  <2> TAKE q \in ((p + 1) - (n + 1))..((p + 1) - 1)
  <2>1. q = p \/ q \in (p - n)..(p - 1)
    BY <1>4
  <2> QED
    BY <1>1, <2>1
<1>12. n + 1 < (p + 1) - 1 => entries[(p + 1) - (n + 1) - 1].t # "lfn"
  <2>1. (p + 1) - (n + 1) - 1 = p - n - 1
    BY <1>4
  <2> QED
    BY <1>1, <1>4, <2>1
<1>13. w = [j \in 1..(n + 1) |-> entries[(p + 1) - j].part]
  BY <1>9 DEF t
<1>14. PartsBefore(entries, p + 1, w)
  BY <1>10, <1>11, <1>12, <1>13 DEF PartsBefore
<1> QED
  BY <1>7, <1>14 DEF w, u

(* What a file is listed as is what its name was spelled.                      *)
LEMMA SpelledOut ==
  ASSUME NEW entries, NEW p \in Nat \ {0}, NEW name, Spelled(entries, p, name),
         NEW lfn, PartsBefore(entries, p, lfn)
  PROVE  name = IF lfn # <<>> THEN lfn ELSE <<entries[p].name>>
<1>1. PICK n \in 0..(p - 1) :
        /\ \A q \in (p - n)..(p - 1) : entries[q].t = "lfn"
        /\ n < p - 1 => entries[p - n - 1].t # "lfn"
        /\ lfn = [j \in 1..n |-> entries[p - j].part]
  BY DEF PartsBefore
<1>2. PICK m \in 0..(p - 1) :
        /\ \A q \in (p - m)..(p - 1) : entries[q].t = "lfn"
        /\ m < p - 1 => entries[p - m - 1].t # "lfn"
        /\ name = IF m = 0 THEN <<entries[p].name>> ELSE [j \in 1..m |-> entries[p - j].part]
  BY DEF Spelled
<1>3. ASSUME n < m PROVE FALSE
  <2>1. p - n - 1 \in (p - m)..(p - 1) /\ n < p - 1
    BY <1>3
  <2> QED
    BY <1>1, <1>2, <2>1
<1>4. ASSUME m < n PROVE FALSE
  <2>1. p - m - 1 \in (p - n)..(p - 1) /\ m < p - 1
    BY <1>4
  <2> QED
    BY <1>1, <1>2, <2>1
<1>5. n = m
  BY <1>3, <1>4
<1>6. lfn = <<>> <=> n = 0
  <2>1. Len(lfn) = n
    BY <1>1
  <2> QED
    BY <1>1, <2>1
<1> QED
  BY <1>1, <1>2, <1>5, <1>6

(* The records that are right for a file: its name, and where and how much its *)
(* content is.                                                               *)
Fat32Right(img, v, file) ==
  {r \in Fat32Listable(img, v) :
     /\ r.name = file.name
     /\ r.size = img.entries[file.slot].size /\ r.start = img.entries[file.slot].start}

Fat32AllRight(img, v, files) == [j \in 1..Len(files) |-> Fat32Right(img, v, files[j])]

Fat32FileSlots(img, del) ==
  {p \in DOMAIN img.entries : /\ img.entries[p].t = "file" /\ ~img.entries[p].dot
                              /\ img.entries[p].deleted = del}

(* The listing of the root directory after k slots.                            *)
Fat32Listing(img, v, del, k) ==
  {x \in [lfn : Seq(Nat), ended : BOOLEAN, out : Seq(Fat32Listable(img, v))] :
     /\ SeenUpTo(img.truth[del], Fat32AllRight(img, v, img.truth[del]), x.out, k)
     /\ k <= Len(img.entries) => ~x.ended /\ PartsBefore(img.entries, k + 1, x.lfn)}

(* What an image says of its files has the form that the lemmas on lists ask *)
(* for.                                                                      *)
LEMMA FilesInOrder ==
  ASSUME NEW img, Described(img), NEW del \in BOOLEAN
  PROVE  IsFiles(img.truth[del])
BY DEF Described, IsFiles

(* The files of a FAT32 image are those of its entries.                      *)
LEMMA Fat32FilesPlaced ==
  ASSUME NEW img, Fat32InOrder(img), NEW del \in BOOLEAN
  PROVE  /\ Placed(img.truth[del], Fat32FileSlots(img, del))
         /\ \A j \in DOMAIN img.truth[del] : Fat32FileInOrder(img, img.truth[del][j], del)
         /\ \A p \in DOMAIN img.entries : img.entries[p].t # "end"
BY Zenon DEF Fat32InOrder, Fat32FileSlots

(* One turn of the loop over the entries lists the file of that entry, if it *)
(* is one.                                                                   *)
LEMMA Fat32SlotInOrder ==
  ASSUME NEW img, Described(img), img.entries \in Seq(Fat32Entries), Fat32InOrder(img),
         NEW v, NEW del \in BOOLEAN, NEW k \in Nat \ {0}, NEW x \in Fat32Listing(img, v, del, k - 1),
         NEW e, e = IF k <= Len(img.entries) THEN img.entries[k] ELSE [t |-> "end"]
  PROVE  Fat32Slot(img, v, del, x, e) \in Fat32Listing(img, v, del, k)
<1> DEFINE L == Fat32Listable(img, v)
           files == img.truth[del]
           P == Fat32AllRight(img, v, files)
           S == Fat32FileSlots(img, del)
           entries == img.entries
           N == Seq(Nat)
           r == Fat32Record(img, v, e, x.lfn)
           to == Fat32Slot(img, v, del, x, e)
<1>1. /\ x \in [lfn : N, ended : BOOLEAN, out : Seq(L)] /\ SeenUpTo(files, P, x.out, k - 1)
      /\ k - 1 <= Len(entries) => ~x.ended /\ PartsBefore(entries, (k - 1) + 1, x.lfn)
  BY Zenon DEF Fat32Listing
<1>2. IsFiles(files) /\ Placed(files, S)
  BY FilesInOrder, Fat32FilesPlaced, Zenon
<1>3. Len(entries) \in Nat /\ DOMAIN entries = 1..Len(entries)
  OBVIOUS
<1>4. k \in Int /\ k - 1 \in Int /\ k - 1 <= k /\ k - 1 < k /\ k \in Nat /\ (k - 1) + 1 = k
      /\ \A p \in S : ~(k - 1 < p /\ p < k)
  <2>1. S \subseteq Int
    BY <1>3 DEF Fat32FileSlots
  <2> HIDE DEF S
  <2> QED
    BY <2>1
<1>5. x.lfn \in Seq(Nat) /\ x.ended \in BOOLEAN /\ x.out \in Seq(L)
  BY <1>1, Zenon DEF N
<1>6. ASSUME k \notin S PROVE SeenUpTo(files, P, x.out, k)
  <2>1. \A p \in S : ~(k - 1 < p /\ p <= k)
    <3>1. S \subseteq Int
      BY <1>3 DEF Fat32FileSlots
    <3> HIDE DEF S
    <3> QED
      BY <1>6, <3>1
  <2> HIDE DEF S
  <2> QED
    BY <1>1, <1>2, <1>4, <2>1, SeenNone, Zenon
<1>7. CASE k > Len(entries)
  <2>1. k \notin S
    BY <1>3, <1>7 DEF Fat32FileSlots
  <2>2. e.t = "end"
    BY <1>3, <1>7
  <2>3. SeenUpTo(files, P, x.out, k) /\ ~(k <= Len(entries))
    BY <1>3, <1>6, <1>7, <2>1
  <2>4. CASE x.ended
    <3>1. to = x
      BY <2>4, Zenon DEF Fat32Slot
    <3>2. x \in Fat32Listing(img, v, del, k)
      BY <1>1, <2>3, Zenon DEF Fat32Listing
    <3> QED
      BY <3>1, <3>2
  <2>5. CASE ~x.ended
    <3> DEFINE y == [x EXCEPT !.lfn = <<>>, !.ended = ~del]
    <3>1. to = y
      BY <2>2, <2>5, Zenon DEF Fat32Slot
    <3>2. y \in [lfn : N, ended : BOOLEAN, out : Seq(L)]
      BY <1>1, SlotStates, Zenon DEF N
    <3>3. y.out = x.out
      BY <1>1
    <3> HIDE DEF y
    <3>4. y \in Fat32Listing(img, v, del, k)
      BY <2>3, <3>2, <3>3, Zenon DEF Fat32Listing
    <3> QED
      BY <3>1, <3>4
  <2> QED
    BY <2>4, <2>5
<1>8. CASE k <= Len(entries)
  <2>1. k \in 1..Len(entries) /\ k \in DOMAIN entries /\ k - 1 <= Len(entries)
    BY <1>3, <1>8
  <2>2. e = entries[k] /\ e \in Fat32Entries /\ e.t # "end"
    <3>1. e = entries[k]
      BY <1>8
    <3>2. entries[k] \in Fat32Entries
      BY <2>1, ElementOfSeq, Zenon
    <3>3. entries[k].t # "end"
      BY <2>1, Fat32FilesPlaced, Zenon
    <3> QED
      BY <3>1, <3>2, <3>3
  <2>3. ~x.ended /\ PartsBefore(entries, k, x.lfn)
    BY <1>1, <1>4, <2>1
  <2>4. CASE e.t = "lfn"
    <3> DEFINE l == <<e.part>> \o x.lfn
               y == [x EXCEPT !.lfn = l]
    <3>1. to = y
      BY <2>3, <2>4, Zenon DEF Fat32Slot
    <3>2. l \in Seq(Nat) /\ PartsBefore(entries, k + 1, l)
      BY <1>5, <2>1, <2>2, <2>3, <2>4, OnePartMore
    <3> HIDE DEF l
    <3>3. y \in [lfn : N, ended : BOOLEAN, out : Seq(L)]
      BY <1>1, <3>2, SlotStates, Zenon DEF N
    <3>4. y.out = x.out /\ y.lfn = l /\ y.ended = x.ended
      BY <1>1
    <3>5. k \notin S
      BY <2>2, <2>4 DEF Fat32FileSlots
    <3> HIDE DEF y
    <3>6. y \in Fat32Listing(img, v, del, k)
      BY <1>6, <2>3, <3>2, <3>3, <3>4, <3>5, Zenon DEF Fat32Listing
    <3> QED
      BY <3>1, <3>6
  <2>5. CASE e.t # "lfn"
    <3>1. e \in Fat32Files /\ e.t = "file"
      BY <2>2, <2>5 DEF Fat32Entries, Fat32Files
    <3>2. PartsBefore(entries, k + 1, <<>>)
      <4>1. k + 1 \in Nat \ {0} /\ (k + 1 > 1 => entries[(k + 1) - 1].t # "lfn")
        BY <2>2, <2>5
      <4> QED
        BY <4>1, NoPartsBefore, Zenon
    <3>3. to = IF e.deleted # del \/ e.dot THEN [x EXCEPT !.lfn = <<>>]
               ELSE [x EXCEPT !.lfn = <<>>, !.out = Append(x.out, r)]
      BY <2>3, <3>1, Zenon DEF Fat32Slot
    <3>4. CASE e.deleted # del \/ e.dot
      <4> DEFINE y == [x EXCEPT !.lfn = <<>>]
      <4>1. y \in [lfn : N, ended : BOOLEAN, out : Seq(L)]
        BY <1>1, EmptySeq, SlotStates, Zenon DEF N
      <4>2. y.out = x.out /\ y.lfn = <<>> /\ y.ended = x.ended
        BY <1>1
      <4>3. k \notin S
        BY <2>2, <3>4 DEF Fat32FileSlots
      <4> HIDE DEF y
      <4>4. y \in Fat32Listing(img, v, del, k)
        BY <1>6, <2>3, <3>2, <4>1, <4>2, <4>3, Zenon DEF Fat32Listing
      <4> QED
        BY <3>3, <3>4, <4>4 DEF y
    <3>5. CASE ~(e.deleted # del \/ e.dot)
      <4> DEFINE more == Append(x.out, r)
                 y == [x EXCEPT !.lfn = <<>>, !.out = more]
      <4>1. r \in L
        BY <1>5, <3>1 DEF Fat32Listable
      <4>2. more \in Seq(L)
        <5> HIDE DEF r, L
        <5> QED
          BY <1>5, <4>1
      <4>3. k \in S
        BY <2>1, <2>2, <3>1, <3>5 DEF Fat32FileSlots
      <4>4. ASSUME NEW j \in 1..Len(files), files[j].slot = k PROVE r \in P[j]
        <5>1. Fat32FileInOrder(img, files[j], del)
          <6>1. j \in DOMAIN files
            BY <1>2 DEF IsFiles
          <6> QED
            BY <6>1, Fat32FilesPlaced, Zenon
        <5>2. Spelled(entries, k, files[j].name)
          BY <4>4, <5>1, Zenon DEF Fat32FileInOrder
        <5>3. files[j].name = IF x.lfn # <<>> THEN x.lfn ELSE <<entries[k].name>>
          BY <1>4, <2>3, <5>2, SpelledOut
        <5>4. r.name = files[j].name /\ r.size = entries[k].size /\ r.start = entries[k].start
          BY <2>2, <5>3 DEF Fat32Record
        <5> HIDE DEF r
        <5>5. P[j] = Fat32Right(img, v, files[j])
          BY DEF Fat32AllRight
        <5>6. r \in Fat32Right(img, v, files[j])
          BY <4>1, <4>4, <5>4, Zenon DEF Fat32Right
        <5> QED
          BY <5>5, <5>6
      <4> HIDE DEF r, L, P, S
      <4>5. SeenUpTo(files, P, more, k)
        BY <1>1, <1>2, <1>4, <1>5, <4>1, <4>3, <4>4, SeenOne
      <4> HIDE DEF more
      <4>6. y \in [lfn : N, ended : BOOLEAN, out : Seq(L)]
        BY <1>1, <4>2, SlotStates, Zenon DEF N
      <4>7. y.out = more /\ y.lfn = <<>> /\ y.ended = x.ended
        BY <1>1
      <4> HIDE DEF y
      <4>8. y \in Fat32Listing(img, v, del, k)
        BY <2>3, <3>2, <4>5, <4>6, <4>7, Zenon DEF Fat32Listing, L, P
      <4> QED
        BY <3>3, <3>5, <4>8 DEF y, more
    <3> QED
      BY <3>4, <3>5
  <2> QED
    BY <2>4, <2>5
<1> QED
  BY <1>3, <1>7, <1>8

(* listDirectory and findDeletedFiles of FAT32 list the files, each under its*)
(* name.                                                                     *)
LEMMA Fat32ListInOrder ==
  ASSUME NEW img, img.size \in Nat, img.boot \in Fat32Boots, img.part \in Nat,
         Linking(img), Filed(img, Fat32Entries), img.root \in Seq(Nat), img.entries \in Seq(Fat32Entries),
         Described(img), Fat32InOrder(img), NEW v, IsFat32(v), Fat32Finds(img, v), NEW del \in BOOLEAN
  PROVE  /\ Len(Fat32List(img, v, del)) = Len(img.truth[del])
         /\ \A j \in 1..Len(img.truth[del]) :
              Fat32List(img, v, del)[j] \in Fat32Right(img, v, img.truth[del][j])
<1> DEFINE slots == Fat32Slots(img, v)
           N == Len(img.root) * (img.boot.bps * img.boot.spc)
           files == img.truth[del]
           P == Fat32AllRight(img, v, files)
           entries == img.entries
<1>a. slots = Padded(entries, N)
  BY Fat32SlotsInOrder, Zenon
<1>b. N \in Nat /\ Len(entries) <= N /\ ~(v.size > MaxCluster) /\ Len(entries) \in Nat
  <2> DEFINE size == img.boot.bps * img.boot.spc
  <2>1. size \in Nat /\ v.size = size
    BY Zenon DEF Fat32Finds, IsFat32
  <2>2. size <= MaxCluster /\ Len(entries) <= N
    BY Zenon DEF Fat32InOrder
  <2>3. Len(img.root) \in Nat /\ Len(entries) \in Nat
    OBVIOUS
  <2> HIDE DEF size
  <2>4. ~(v.size > MaxCluster)
    BY <2>1, <2>2, VolumeAssumption
  <2>5. Len(img.root) * size \in Nat
    BY <2>1, <2>3
  <2> QED
    BY <2>2, <2>3, <2>4, <2>5 DEF size
<1> HIDE DEF N
<1>c. /\ Len(slots) = N
      /\ \A k \in 1..N : slots[k] = IF k <= Len(entries) THEN entries[k] ELSE [t |-> "end"]
  <2>1. [t |-> "end"] \in Fat32Entries
    BY DEF Fat32Entries
  <2>2. entries \in Seq(Fat32Entries) /\ N \in Nat
    BY <1>b
  <2> HIDE DEF slots, entries
  <2>3. /\ Len(Padded(entries, N)) = N
        /\ \A k \in 1..N : Padded(entries, N)[k] = IF k <= Len(entries) THEN entries[k] ELSE [t |-> "end"]
    BY <2>1, <2>2, PaddedIs, Zenon
  <2> QED
    BY <1>a, <2>3, Zenon
<1>d. IsFiles(files) /\ Placed(files, Fat32FileSlots(img, del))
  BY FilesInOrder, Fat32FilesPlaced, Zenon
<1>e. \A j \in 1..Len(files) : files[j].slot \in 1..Len(entries)
  <2>1. DOMAIN files = 1..Len(files)
    BY <1>d DEF IsFiles
  <2>2. \A j \in DOMAIN files : files[j].slot \in Fat32FileSlots(img, del)
    BY <1>d DEF Placed
  <2>3. Fat32FileSlots(img, del) \subseteq 1..Len(entries)
    BY DEF Fat32FileSlots
  <2> QED
    BY <2>1, <2>2, <2>3
<1> DEFINE n == Len(slots)
           a == [lfn |-> <<>>, ended |-> FALSE, out |-> <<>>]
           T == [k \in 0..n |-> Fat32Listing(img, v, del, k)]
           Step(x, k) == Fat32Slot(img, v, del, x, slots[k])
           f[k \in 0..n] == IF k = 0 THEN a ELSE Step(f[k - 1], k)
           G == [k \in 1..n |-> [x \in T[k - 1] |-> Step(x, k)]]
<1>1. Fat32List(img, v, del) = f[n].out
  BY <1>b, Zenon DEF Fat32List, slots, Iterate
<1>2. n \in Nat /\ a \in T[0]
  <2> DEFINE L == Fat32Listable(img, v)
  <2>1. a \in [lfn : Seq(Nat), ended : BOOLEAN, out : Seq(L)]
    <3> HIDE DEF L
    <3> QED
      OBVIOUS
  <2>2. a.out = <<>> /\ a.lfn = <<>> /\ ~a.ended
    OBVIOUS
  <2> HIDE DEF a, slots
  <2>3. SeenUpTo(files, P, <<>>, 0)
    <3>1. \A j \in 1..Len(files) : files[j].slot > 0
      BY <1>b, <1>e
    <3>2. 0 \in Int
      OBVIOUS
    <3> HIDE DEF files, P
    <3> QED
      BY <1>d, <3>1, <3>2, SeenNothing
  <2>4. PartsBefore(entries, 0 + 1, <<>>)
    <3>1. 0 + 1 \in Nat \ {0} /\ (0 + 1 > 1 => entries[(0 + 1) - 1].t # "lfn")
      OBVIOUS
    <3> QED
      BY <3>1, NoPartsBefore, Zenon
  <2>5. a \in Fat32Listing(img, v, del, 0)
    BY <2>1, <2>2, <2>3, <2>4, Zenon DEF Fat32Listing
  <2> QED
    BY <1>b, <1>c, <2>5 DEF n
<1>3. ASSUME NEW k \in 1..n, NEW x \in T[k - 1] PROVE Step(x, k) \in T[k]
  <2>1. k - 1 \in 0..n /\ k \in 0..n /\ k \in Nat \ {0} /\ k \in 1..N
    BY <1>b, <1>c
  <2>2. x \in Fat32Listing(img, v, del, k - 1)
    BY <2>1
  <2>3. slots[k] = IF k <= Len(entries) THEN entries[k] ELSE [t |-> "end"]
    BY <1>c, <2>1
  <2> DEFINE e == slots[k]
  <2> HIDE DEF e
  <2>4. Fat32Slot(img, v, del, x, e) \in Fat32Listing(img, v, del, k)
    BY <2>1, <2>2, <2>3, Fat32SlotInOrder, Zenon DEF e
  <2> QED
    BY <2>1, <2>4 DEF e
<1>4. \A k \in 1..n : \A x \in T[k - 1] : G[k][x] = Step(x, k)
  OBVIOUS
<1> HIDE DEF n, a, T, Step, G
<1>5. \A k \in 1..n : \A x \in T[k - 1] : G[k][x] \in T[k]
  BY <1>3, <1>4
<1>6. HasCourse(n, T, a, G)
  BY <1>2, <1>5, CourseInExists, Zenon
<1>7. PICK S, g : /\ g \in [0..n -> S] /\ g[0] = a
                  /\ \A k \in 1..n : g[k] = G[k][g[k - 1]]
                  /\ \A k \in 0..n : g[k] \in T[k]
  BY <1>6, Zenon DEF HasCourse
<1>8. \A k \in 1..n : g[k] = Step(g[k - 1], k)
  <2>1. \A k \in 1..n : k - 1 \in 0..n
    BY <1>2
  <2> QED
    BY <1>4, <1>7, <2>1
<1>9. g = [k \in 0..n |-> IF k = 0 THEN a ELSE Step(g[k - 1], k)]
  BY <1>7, <1>8
<1>10. f = [k \in 0..n |-> IF k = 0 THEN a ELSE Step(f[k - 1], k)]
  BY <1>9, Zenon
<1> HIDE DEF f
<1>11. f[0] \in T[0] /\ \A k \in 1..n : f[k - 1] \in T[k - 1] => f[k] \in T[k]
  <2>1. 0 \in 0..n /\ \A k \in 1..n : k \in 0..n /\ k # 0
    BY <1>2
  <2>2. f[0] = a /\ \A k \in 1..n : f[k] = Step(f[k - 1], k)
    BY <1>10, <2>1, Zenon
  <2> QED
    BY <1>2, <1>3, <2>2, Zenon
<1>12. f[n] \in T[n]
  BY <1>2, <1>11, TurnByTurnIn, Zenon
<1> QED
  <2>1. f[n] \in Fat32Listing(img, v, del, n)
    BY <1>2, <1>12 DEF T
  <2> DEFINE out == f[n].out
  <2>2. SeenUpTo(files, P, out, n)
    BY <2>1, Zenon DEF Fat32Listing
  <2>3. n \in Int /\ \A j \in 1..Len(files) : files[j].slot <= n
    BY <1>b, <1>c, <1>e DEF n
  <2> HIDE DEF out, files, P
  <2>4. Len(out) = Len(files) /\ \A j \in 1..Len(files) : out[j] \in P[j]
    BY <1>d, <2>2, <2>3, SeenAll, Zenon
  <2>5. \A j \in 1..Len(files) : P[j] = Fat32Right(img, v, files[j])
    BY DEF P, Fat32AllRight
  <2> QED
    BY <1>1, <2>4, <2>5 DEF out, files

(* What is listed and extracted of a FAT32 volume in order is right for the    *)
(* files, in their order.                                                     *)
LEMMA Fat32ReadsRightly ==
  ASSUME NEW img, img.size \in Nat, img.boot \in Fat32Boots, img.part \in Nat, img.kind = "fat32",
         Linking(img), Filed(img, Fat32Entries), Described(img), Fat32InOrder(img),
         NEW v, v = Fat32Probe(img, img.part), v # NoVolume, NEW del \in BOOLEAN
  PROVE  /\ Len(Fat32List(img, v, del)) = Len(img.truth[del])
         /\ \A j \in 1..Len(img.truth[del]) :
              /\ Fat32List(img, v, del)[j].name = img.truth[del][j].name
              /\ Extracts(Fat32Extract(img, v, Fat32List(img, v, del)[j]), img.truth[del][j].blocks, del)
<1> DEFINE out == Fat32List(img, v, del)
           files == img.truth[del]
<1>1. img.root \in Seq(Nat) /\ img.entries \in Seq(Fat32Entries)
  BY Zenon DEF Described
<1>2. IsFat32(v)
  BY Fat32ProbeFinds, Zenon
<1>3. Fat32Finds(img, v)
  BY <1>1, Fat32ProbeInOrder, Zenon
<1>4. /\ Len(out) = Len(files)
      /\ \A j \in 1..Len(files) : out[j] \in Fat32Right(img, v, files[j])
  BY <1>1, <1>2, <1>3, Fat32ListInOrder, Zenon
<1> HIDE DEF out
<1>5. ASSUME NEW j \in 1..Len(files)
      PROVE  out[j].name = files[j].name /\ Extracts(Fat32Extract(img, v, out[j]), files[j].blocks, del)
  <2> DEFINE r == out[j]
             file == files[j]
             e == img.entries[file.slot]
  <2>1. j \in DOMAIN files
    BY FilesInOrder DEF IsFiles
  <2>2. r.name = file.name /\ r.size = e.size /\ r.start = e.start
    BY <1>4, Zenon DEF Fat32Right
  <2>3. Fat32FileInOrder(img, file, del)
    BY <2>1, Fat32FilesPlaced, Zenon
  <2>4. /\ e.size = Len(file.blocks) /\ Len(file.chain) < ChainGuard
        /\ file.chain # <<>> => e.start = file.chain[1]
        /\ Chained(img, img.part + img.boot.reserved * img.boot.bps, file.chain, del)
        /\ StandsIn(img, file.blocks, Clusters([k \in DOMAIN file.chain |-> Fat32At(img, file.chain[k])],
                                               img.boot.bps * img.boot.spc))
    BY <2>3, Zenon DEF Fat32FileInOrder
  <2>5. file.blocks \in Seq(Nat) /\ Len(file.blocks) <= MaxExtract /\ file.chain \in Seq(Nat)
    <3>1. "fat32" # "ntfs"
      OBVIOUS
    <3> QED
      BY <2>1, <3>1, Zenon DEF Described, Promised
  <2> HIDE DEF r, e, file
  <2>6. Fat32Content(img, file.blocks, file.chain, del)
    BY <2>4, <2>5, Zenon DEF Fat32Content
  <2>7. r.size = Len(file.blocks) /\ (file.chain # <<>> => r.start = file.chain[1])
    BY <2>2, <2>4
  <2>8. Extracts(Fat32Extract(img, v, r), file.blocks, del)
    BY <1>1, <1>2, <1>3, <2>6, <2>7, Fat32ExtractInOrder, Zenon
  <2> QED
    BY <2>2, <2>8, Zenon DEF r, file
<1> QED
  BY <1>4, <1>5, Zenon DEF out
-----------------------------------------------------------------------------
(* exFAT.  The geometry of a volume in order is that of its boot sector.       *)
ExFatFinds(img, v) ==
  LET b == img.boot
  IN /\ v.part = img.part /\ v.bps = Shifted(b.bpsShift - 9) /\ v.spc = Shifted(b.spcShift)
     /\ v.size = Shifted(b.bpsShift - 9) * Shifted(b.spcShift)
     /\ v.clusters = b.count /\ v.fat = img.part + b.fatOffset * Shifted(b.bpsShift - 9)
     /\ v.root = b.root /\ v.data = b.heap

(* An exFAT volume that was recognised has the places that the boot sector   *)
(* says.                                                                     *)
LEMMA ExFatProbeInOrder ==
  ASSUME NEW img, img.boot \in ExFatBoots, ExFatInOrder(img), ExFatProbe(img, img.part) # NoVolume
  PROVE  ExFatFinds(img, ExFatProbe(img, img.part))
<1> DEFINE b == img.boot
           bps == Shifted(b.bpsShift - 9)
           spc == Shifted(b.spcShift)
           v == ExFatProbe(img, img.part)
<1>1. /\ v.part = img.part /\ v.bps = bps /\ v.spc = spc /\ v.size = bps * spc
      /\ v.clusters = b.count /\ v.fat = img.part + b.fatOffset * bps
      /\ v.root = Max({b.root, 2}) /\ v.data = b.heap
  <2> HIDE DEF bps, spc
  <2> QED
    BY DEF ExFatProbe, bps, spc
<1>2. b.root \in Nat /\ b.root >= 2
  BY DEF ExFatInOrder, ExFatBoots
<1> HIDE DEF v, b, bps, spc
<1>3. Max({b.root, 2}) = b.root
  <2>1. b.root \in Int /\ 2 \in Int
    BY <1>2
  <2>2. Max({b.root, 2}) \in {b.root, 2} /\ Max({b.root, 2}) >= b.root
    BY <2>1, GreatestOfTwo, Zenon
  <2> QED
    BY <1>2, <2>2
<1>4. ExFatFinds(img, v)
  BY <1>1, <1>3, Zenon DEF ExFatFinds, b, bps, spc
<1> QED
  BY <1>4, Zenon DEF v

(* So its clusters are read where they stand.                                *)
LEMMA ExFatOffsetInOrder ==
  ASSUME NEW img, NEW v, IsExFat(v), ExFatFinds(img, v), NEW c \in Nat, c >= 2
  PROVE  ExFatOffset(v, c) = ExFatAt(img, c) /\ ExFatAt(img, c) \in Nat
<1> DEFINE over == Max({c - 2, 0})
<1>1. over = c - 2
  <2>1. c - 2 \in Int /\ 0 \in Int
    OBVIOUS
  <2>2. over \in {c - 2, 0} /\ over >= c - 2
    BY <2>1, GreatestOfTwo, Zenon
  <2> HIDE DEF over
  <2> QED
    BY <2>2
<1>2. ExFatOffset(v, c) = v.part + (v.data + over * v.spc) * v.bps
  BY Zenon DEF ExFatOffset
<1>3. ExFatOffset(v, c) = ExFatAt(img, c)
  BY <1>1, <1>2, Zenon DEF ExFatAt, ExFatFinds
<1>4. ExFatOffset(v, c) \in Nat
  BY ExFatOffsetIsNat, Zenon
<1> QED
  BY <1>3, <1>4

(* One link of a chain of exFAT.                                             *)
LEMMA ExFatFollowInOrder ==
  ASSUME NEW img, Linking(img), NEW v, IsExFat(v), NEW chain \in Seq(Nat), NEW del,
         Chained(img, v.fat, chain, del), \A k \in 1..Len(chain) : InHeap(v, chain[k]),
         NEW k \in Nat, NEW x \in Following(chain, del, {0}, k)
  PROVE  ExFatFollow(img, v, x) \in Following(chain, del, {0}, k + 1)
<1> DEFINE succ == ExFatNext(img, v, x.at)
           to == IF succ >= Bad THEN 0 ELSE succ
           y == [at |-> to, chain |-> Append(x.chain, x.at)]
<1>1. ExFatFollow(img, v, x) = IF ~InHeap(v, x.at) THEN x ELSE y
  BY Zenon DEF ExFatFollow
<1>2. x.at \in Nat /\ x.chain \in Seq(Nat)
  BY DEF Following
<1>3. PICK m \in 0..Len(chain) :
        /\ x.chain = SubSeq(chain, 1, m)
        /\ \/ m = k /\ m < Len(chain) /\ x.at = chain[m + 1]
           \/ m >= 1 /\ (~del => m = Len(chain)) /\ x.at = 0
  BY DEF Following
<1>4. CASE ~InHeap(v, x.at)
  <2>1. ~(m = k /\ m < Len(chain) /\ x.at = chain[m + 1])
    <3>1. ASSUME m = k, m < Len(chain), x.at = chain[m + 1] PROVE FALSE
      <4>1. m + 1 \in 1..Len(chain)
        BY <3>1
      <4> QED
        BY <1>4, <3>1, <4>1
    <3> QED
      BY <3>1
  <2>2. x \in Following(chain, del, {0}, k + 1)
    BY <1>3, <2>1 DEF Following
  <2> QED
    BY <1>1, <1>4, <2>2
<1>5. CASE InHeap(v, x.at)
  <2>1. m = k /\ m < Len(chain) /\ x.at = chain[m + 1]
    <3>1. x.at # 0
      BY <1>5 DEF InHeap
    <3> QED
      BY <1>3, <3>1
  <2>2. m + 1 \in 1..Len(chain) /\ m + 1 \in 0..Len(chain) /\ m \in 0..(Len(chain) - 1) /\ m \in Nat
    BY <2>1
  <2>3. /\ succ \in Nat
        /\ \/ m + 1 < Len(chain) /\ succ = chain[m + 1 + 1]
           \/ m + 1 = Len(chain) /\ succ >= EndMarks
           \/ del /\ succ = 0
    <3>1. succ = TableEntry(img, v.fat, chain[m + 1])
      BY <1>5, <2>1, Zenon DEF ExFatNext
    <3> QED
      BY <2>2, <3>1, TableEntryInOrder
  <2>4. m + 1 < Len(chain) => chain[m + 1 + 1] \in 2..(Bad - 1)
    <3> HAVE m + 1 < Len(chain)
    <3>1. m + 1 + 1 \in 1..Len(chain)
      BY <2>2
    <3> QED
      BY <3>1, TableEntryInOrder
  <2>5. Append(x.chain, x.at) = SubSeq(chain, 1, m + 1)
    BY <1>3, <2>1, <2>2, PrefixAppends, Zenon
  <2> HIDE DEF succ
  <2>6. /\ to \in Nat
        /\ \/ m + 1 = k + 1 /\ m + 1 < Len(chain) /\ to = chain[m + 1 + 1]
           \/ m + 1 >= 1 /\ (~del => m + 1 = Len(chain)) /\ to = 0
    BY <2>1, <2>2, <2>3, <2>4, VolumeAssumption DEF EndMarks
  <2>7. Append(x.chain, x.at) \in Seq(Nat)
    BY <1>2
  <2> HIDE DEF to
  <2>8. y.at = to /\ y.chain = SubSeq(chain, 1, m + 1) /\ y \in [at : Nat, chain : Seq(Nat)]
    BY <2>5, <2>6, <2>7
  <2> HIDE DEF y
  <2>9. y \in Following(chain, del, {0}, k + 1)
    BY <2>2, <2>6, <2>8 DEF Following
  <2> QED
    BY <1>1, <1>5, <2>9
<1> QED
  BY <1>4, <1>5

(* getClusterChain of exFAT reads the chain, or of a deleted file its        *)
(* beginning.                                                                *)
LEMMA ExFatChainInOrder ==
  ASSUME NEW img, Linking(img), NEW v, IsExFat(v), NEW chain \in Seq(Nat), chain # <<>>, NEW del,
         Chained(img, v.fat, chain, del), \A k \in 1..Len(chain) : InHeap(v, chain[k]),
         NEW most \in Nat, most >= Len(chain)
  PROVE  ReadAs(ExFatChain(img, v, chain[1], most), chain, del)
<1> DEFINE n == most
           a == [at |-> chain[1], chain |-> <<>>]
           T == [k \in 0..n |-> Following(chain, del, {0}, k)]
           Step(x, k) == ExFatFollow(img, v, x)
           f[k \in 0..n] == IF k = 0 THEN a ELSE Step(f[k - 1], k)
           G == [k \in 1..n |-> [x \in T[k - 1] |-> Step(x, k)]]
<1>1. ExFatChain(img, v, chain[1], most) = f[n].chain
  BY Zenon DEF ExFatChain, Iterate
<1>2. n \in Nat /\ a \in T[0]
  <2>1. Len(chain) \in Nat /\ 0 < Len(chain) /\ chain[1] \in Nat /\ SubSeq(chain, 1, 0) = <<>>
    OBVIOUS
  <2>2. a \in [at : Nat, chain : Seq(Nat)]
    BY <2>1
  <2>3. a.at = chain[0 + 1] /\ a.chain = SubSeq(chain, 1, 0) /\ 0 \in 0..Len(chain) /\ 0 < Len(chain)
    BY <2>1
  <2> HIDE DEF a
  <2>4. \E m \in 0..Len(chain) :
          a.chain = SubSeq(chain, 1, m) /\ m = 0 /\ m < Len(chain) /\ a.at = chain[m + 1]
    BY <2>3, Zenon
  <2>5. a \in Following(chain, del, {0}, 0)
    BY <2>2, <2>4, Zenon DEF Following
  <2> QED
    BY <2>5
<1>3. ASSUME NEW k \in 1..n, NEW x \in T[k - 1] PROVE Step(x, k) \in T[k]
  <2>1. k - 1 \in 0..n /\ k - 1 \in Nat /\ (k - 1) + 1 = k
    OBVIOUS
  <2>2. x \in Following(chain, del, {0}, k - 1)
    BY <2>1
  <2>3. ExFatFollow(img, v, x) \in Following(chain, del, {0}, (k - 1) + 1)
    BY <2>1, <2>2, ExFatFollowInOrder, Zenon
  <2> QED
    BY <2>1, <2>3
<1>4. \A k \in 1..n : \A x \in T[k - 1] : G[k][x] = Step(x, k)
  OBVIOUS
<1> HIDE DEF n, a, T, Step, G
<1>5. \A k \in 1..n : \A x \in T[k - 1] : G[k][x] \in T[k]
  BY <1>3, <1>4
<1>6. HasCourse(n, T, a, G)
  BY <1>2, <1>5, CourseInExists, Zenon
<1>7. PICK S, g : /\ g \in [0..n -> S] /\ g[0] = a
                  /\ \A k \in 1..n : g[k] = G[k][g[k - 1]]
                  /\ \A k \in 0..n : g[k] \in T[k]
  BY <1>6, Zenon DEF HasCourse
<1>8. \A k \in 1..n : g[k] = Step(g[k - 1], k)
  <2>1. \A k \in 1..n : k - 1 \in 0..n
    BY <1>2
  <2> QED
    BY <1>4, <1>7, <2>1
<1>9. g = [k \in 0..n |-> IF k = 0 THEN a ELSE Step(g[k - 1], k)]
  BY <1>7, <1>8
<1>10. f = [k \in 0..n |-> IF k = 0 THEN a ELSE Step(f[k - 1], k)]
  BY <1>9, Zenon
<1> HIDE DEF f
<1>11. f[0] \in T[0] /\ \A k \in 1..n : f[k - 1] \in T[k - 1] => f[k] \in T[k]
  <2>1. 0 \in 0..n /\ \A k \in 1..n : k \in 0..n /\ k # 0
    BY <1>2
  <2>2. f[0] = a /\ \A k \in 1..n : f[k] = Step(f[k - 1], k)
    BY <1>10, <2>1, Zenon
  <2> QED
    BY <1>2, <1>3, <2>2, Zenon
<1>12. f[n] \in T[n]
  BY <1>2, <1>11, TurnByTurnIn, Zenon
<1> QED
  <2>1. f[n] \in Following(chain, del, {0}, most)
    BY <1>2, <1>12 DEF T, n
  <2> QED
    BY <1>1, <2>1, FollowedToTheEnd

(* Runs that spell the first m clusters of a chain; ends says how many of them *)
(* the runs up to each stand for.                                             *)
Before(ends, k) == IF k = 0 THEN 0 ELSE ends[k]

Spells(runs, ends, chain, m) ==
  /\ runs \in Seq([start : Nat, count : Nat]) /\ ends \in Seq(Nat) /\ Len(ends) = Len(runs)
  /\ Before(ends, Len(runs)) = m
  /\ \A k \in 1..Len(runs) :
       /\ Before(ends, k - 1) + runs[k].count = ends[k] /\ ends[k] <= Len(chain)
       /\ \A o \in 1..runs[k].count : chain[Before(ends, k - 1) + o] = runs[k].start + o - 1

SpelledUpto(chain, m) == {runs \in Seq([start : Nat, count : Nat]) :
                            (m > 0 => runs # <<>>) /\ \E ends \in Seq(Nat) : Spells(runs, ends, chain, m)}

(* A cluster that begins a run of its own.                                   *)
LEMMA RunAdded ==
  ASSUME NEW chain \in Seq(Nat), NEW m \in 0..(Len(chain) - 1),
         NEW runs, NEW ends, Spells(runs, ends, chain, m)
  PROVE  LET more == Append(runs, [start |-> chain[m + 1], count |-> 1])
         IN /\ Spells(more, Append(ends, m + 1), chain, m + 1)
            /\ more # <<>> /\ Append(ends, m + 1) \in Seq(Nat)
            /\ more \in Seq([start : Nat, count : Nat])
<1> DEFINE R == [start : Nat, count : Nat]
           run == [start |-> chain[m + 1], count |-> 1]
           more == Append(runs, run)
           E == Append(ends, m + 1)
           l == Len(runs)
<1>1. /\ runs \in Seq(R) /\ ends \in Seq(Nat) /\ Len(ends) = l /\ Before(ends, l) = m
      /\ \A k \in 1..l :
           /\ Before(ends, k - 1) + runs[k].count = ends[k] /\ ends[k] <= Len(chain)
           /\ \A o \in 1..runs[k].count : chain[Before(ends, k - 1) + o] = runs[k].start + o - 1
  BY Zenon DEF Spells
<1>2. chain[m + 1] \in Nat /\ m \in Nat /\ m + 1 <= Len(chain) /\ m + 1 \in Nat /\ Len(chain) \in Nat
  <2>1. m + 1 \in 1..Len(chain)
    OBVIOUS
  <2> QED
    BY <2>1, ElementOfSeq
<1>3. run \in R /\ run.start = chain[m + 1] /\ run.count = 1 /\ l \in Nat
  BY <1>1, <1>2
<1> HIDE DEF run, R
<1>4. /\ more \in Seq(R) /\ Len(more) = l + 1 /\ more[l + 1] = run /\ more # <<>>
      /\ \A k \in 1..l : more[k] = runs[k]
  <2>1. runs \in Seq(R) /\ run \in R
    BY <1>1, <1>3
  <2>2. /\ more \in Seq(R) /\ Len(more) = l + 1 /\ more[l + 1] = run
        /\ \A k \in 1..l : more[k] = runs[k]
    BY <2>1, AppendProperties
  <2>3. more # <<>>
    BY <2>1, AppendProperties
  <2> QED
    BY <2>2, <2>3
<1>5. /\ E \in Seq(Nat) /\ Len(E) = l + 1 /\ E[l + 1] = m + 1
      /\ \A k \in 1..l : E[k] = ends[k]
  BY <1>1, <1>2
<1> HIDE DEF more, E, l
<1>6. \A k \in 0..l : Before(E, k) = Before(ends, k)
  <2> TAKE k \in 0..l
  <2>1. k # 0 => k \in 1..l
    BY <1>3
  <2> QED
    BY <1>5, <2>1 DEF Before
<1>7. Before(E, l + 1) = m + 1
  BY <1>3, <1>5 DEF Before
<1>8. ASSUME NEW k \in 1..(l + 1)
      PROVE  /\ Before(E, k - 1) + more[k].count = E[k] /\ E[k] <= Len(chain)
             /\ \A o \in 1..more[k].count : chain[Before(E, k - 1) + o] = more[k].start + o - 1
  <2>1. CASE k = l + 1
    <3>1. Before(E, k - 1) = m /\ more[k] = run /\ E[k] = m + 1
      BY <1>1, <1>3, <1>4, <1>5, <1>6, <2>1
    <3>2. \A o \in 1..1 : chain[m + o] = chain[m + 1] + o - 1
      BY <1>2
    <3> QED
      BY <1>2, <1>3, <3>1, <3>2
  <2>2. CASE k # l + 1
    <3>1. k \in 1..l /\ k - 1 \in 0..l
      BY <1>3, <2>2
    <3>2. Before(E, k - 1) = Before(ends, k - 1) /\ more[k] = runs[k] /\ E[k] = ends[k]
      BY <1>4, <1>5, <1>6, <3>1
    <3> QED
      BY <1>1, <3>1, <3>2
  <2> QED
    BY <2>1, <2>2
<1>9. Spells(more, E, chain, m + 1)
  BY <1>4, <1>5, <1>7, <1>8, Zenon DEF Spells, R
<1> QED
  BY <1>4, <1>5, <1>9, Zenon DEF more, E, R, run

(* A cluster that continues the last run.                                    *)
LEMMA RunGrown ==
  ASSUME NEW chain \in Seq(Nat), NEW m \in 0..(Len(chain) - 1),
         NEW runs, NEW ends, Spells(runs, ends, chain, m), runs # <<>>,
         chain[m + 1] = runs[Len(runs)].start + runs[Len(runs)].count
  PROVE  LET l == Len(runs)
             longer == [start |-> runs[l].start, count |-> runs[l].count + 1]
             more == [runs EXCEPT ![l] = longer]
             E == [ends EXCEPT ![l] = m + 1]
         IN /\ Spells(more, E, chain, m + 1)
            /\ more # <<>> /\ E \in Seq(Nat)
            /\ more \in Seq([start : Nat, count : Nat])
<1> DEFINE R == [start : Nat, count : Nat]
           l == Len(runs)
           r == runs[l]
           longer == [start |-> r.start, count |-> r.count + 1]
           more == [runs EXCEPT ![l] = longer]
           E == [ends EXCEPT ![l] = m + 1]
<1>1. /\ runs \in Seq(R) /\ ends \in Seq(Nat) /\ Len(ends) = l /\ Before(ends, l) = m
      /\ \A k \in 1..l :
           /\ Before(ends, k - 1) + runs[k].count = ends[k] /\ ends[k] <= Len(chain)
           /\ \A o \in 1..runs[k].count : chain[Before(ends, k - 1) + o] = runs[k].start + o - 1
  BY Zenon DEF Spells
<1>2. chain[m + 1] \in Nat /\ m \in Nat /\ m + 1 <= Len(chain) /\ m + 1 \in Nat /\ Len(chain) \in Nat
  <2>1. m + 1 \in 1..Len(chain)
    OBVIOUS
  <2> QED
    BY <2>1, ElementOfSeq
<1>3. l \in Nat \ {0} /\ l \in 1..l /\ l \in 1..Len(runs)
  <2> HIDE DEF R
  <2> QED
    BY <1>1
<1>4. r \in R
  BY <1>1, <1>3, ElementOfSeq, Zenon
<1>5. r.start \in Nat /\ r.count \in Nat /\ chain[m + 1] = r.start + r.count
  <2>1. chain[m + 1] = r.start + r.count
    OBVIOUS
  <2> HIDE DEF r
  <2> QED
    BY <1>4, <2>1
<1>6. longer \in R /\ longer.start = r.start /\ longer.count = r.count + 1
  <2> HIDE DEF r
  <2> QED
    BY <1>5
<1> HIDE DEF longer
<1>7. ends[l] = m /\ Before(ends, l - 1) + r.count = m
  BY <1>1, <1>3 DEF Before
<1> HIDE DEF R, r
<1>8. /\ more \in Seq(R) /\ Len(more) = l /\ more[l] = longer /\ more # <<>>
      /\ \A k \in 1..l : k # l => more[k] = runs[k]
  <2>1. more \in Seq(R)
    BY <1>1, <1>3, <1>6, ExceptSeq
  <2>2. Len(more) = l /\ more[l] = longer /\ \A k \in 1..l : k # l => more[k] = runs[k]
    BY <1>1, <1>3, <1>6, ExceptSeq
  <2>3. more # <<>>
    <3> HIDE DEF more, l
    <3> QED
      BY <1>3, <2>1, <2>2
  <2> QED
    BY <2>1, <2>2, <2>3
<1>9. /\ E \in Seq(Nat) /\ Len(E) = l /\ E[l] = m + 1
      /\ \A k \in 1..l : k # l => E[k] = ends[k]
  BY <1>1, <1>2, <1>3, ExceptSeq
<1> HIDE DEF more, E, l
<1>10. \A k \in 0..(l - 1) : Before(E, k) = Before(ends, k)
  <2> TAKE k \in 0..(l - 1)
  <2>1. k # 0 => k \in 1..l /\ k # l
    BY <1>3
  <2> QED
    BY <1>9, <2>1 DEF Before
<1>11. Before(E, l) = m + 1
  BY <1>3, <1>9 DEF Before
<1>12. ASSUME NEW k \in 1..l
       PROVE  /\ Before(E, k - 1) + more[k].count = E[k] /\ E[k] <= Len(chain)
              /\ \A o \in 1..more[k].count : chain[Before(E, k - 1) + o] = more[k].start + o - 1
  <2>0. k - 1 \in 0..(l - 1) /\ Before(E, k - 1) = Before(ends, k - 1)
    BY <1>3, <1>10, SMTT(20)
  <2>1. CASE k = l
    <3> DEFINE base == Before(ends, l - 1)
    <3>1. base \in Nat
      <4>1. l - 1 = 0 \/ l - 1 \in 1..Len(ends)
        BY <1>1, <1>3
      <4>2. l - 1 \in 1..Len(ends) => ends[l - 1] \in Nat
        BY <1>1, ElementOfSeq, Zenon
      <4> QED
        BY <1>3, <4>1, <4>2 DEF Before
    <3>2. Before(E, k - 1) = base /\ more[k] = longer /\ E[k] = m + 1 /\ runs[k] = r
      BY <1>8, <1>9, <2>0, <2>1 DEF r, l
    <3>3. \A o \in 1..r.count : chain[base + o] = r.start + o - 1
      BY <1>1, <1>3, <2>1, <3>2
    <3> HIDE DEF base
    <3>4. base + r.count = m
      BY <1>7 DEF base
    <3>5. ASSUME NEW o \in 1..(r.count + 1) PROVE chain[base + o] = r.start + o - 1
      <4>1. CASE o = r.count + 1
        <5> DEFINE count == r.count
                   start == r.start
        <5>1. count \in Nat /\ start \in Nat /\ base + count = m /\ o = count + 1
          BY <1>5, <3>4, <4>1
        <5>2. chain[m + 1] = start + count
          BY <1>5
        <5> HIDE DEF count, start
        <5>3. base + o = m + 1 /\ start + o - 1 = start + count
          BY <3>1, <5>1
        <5> QED
          BY <5>2, <5>3 DEF start
      <4>2. CASE o # r.count + 1
        <5>1. o \in 1..r.count
          <6> DEFINE count == r.count
          <6>1. count \in Nat /\ o \in 1..(count + 1) /\ o # count + 1
            BY <1>5, <4>2, Zenon
          <6> HIDE DEF count
          <6>2. o \in 1..count
            BY ONLY <6>1
          <6> QED
            BY <6>2, Zenon DEF count
        <5> QED
          BY <3>3, <5>1
      <4> QED
        BY <4>1, <4>2
    <3>6. base + (r.count + 1) = m + 1
      <4> DEFINE count == r.count
      <4>1. count \in Nat /\ base + count = m
        BY <1>5, <3>4, Zenon
      <4> HIDE DEF count
      <4>2. base + (count + 1) = m + 1
        BY <3>1, <4>1
      <4> QED
        BY <4>2, Zenon DEF count
    <3> QED
      BY <1>2, <1>6, <3>2, <3>5, <3>6
  <2>2. CASE k # l
    <3>1. Before(E, k - 1) = Before(ends, k - 1) /\ more[k] = runs[k] /\ E[k] = ends[k]
      BY <1>8, <1>9, <2>0, <2>2
    <3>2. /\ Before(ends, k - 1) + runs[k].count = ends[k] /\ ends[k] <= Len(chain)
          /\ \A o \in 1..runs[k].count : chain[Before(ends, k - 1) + o] = runs[k].start + o - 1
      BY <1>1, Zenon
    <3> HIDE DEF E, more
    <3> QED
      BY <3>1, <3>2, Zenon
  <2> QED
    BY <2>1, <2>2
<1>13. Spells(more, E, chain, m + 1)
  BY <1>8, <1>9, <1>11, <1>12, Zenon DEF Spells, R
<1> QED
  BY <1>8, <1>9, <1>13, Zenon DEF more, E, R, longer, r, l

(* Joining clusters to runs goes on spelling the chain.                       *)
LEMMA GrowSpells ==
  ASSUME NEW chain \in Seq(Nat), NEW m \in 0..(Len(chain) - 1), NEW runs \in SpelledUpto(chain, m)
  PROVE  Grow(runs, chain[m + 1]) \in SpelledUpto(chain, m + 1)
<1> DEFINE R == [start : Nat, count : Nat]
           c == chain[m + 1]
           l == Len(runs)
           r == runs[l]
           longer == [start |-> r.start, count |-> r.count + 1]
           one == [start |-> c, count |-> 1]
<1>1. runs \in Seq(R)
  BY DEF SpelledUpto
<1>2. PICK ends \in Seq(Nat) : Spells(runs, ends, chain, m)
  BY DEF SpelledUpto
<1>3. CASE runs # <<>> /\ c = Last(runs).start + Last(runs).count
  <2>1. Last(runs) = r
    BY Zenon DEF Last
  <2>2. r \in R
    <3>1. l \in 1..Len(runs)
      <4> HIDE DEF R
      <4> QED
        BY <1>1, <1>3
    <3> QED
      BY <1>1, <3>1, ElementOfSeq, Zenon
  <2>3. [r EXCEPT !.count = @ + 1] = longer
    <3> HIDE DEF r
    <3> QED
      BY <2>2
  <2>4. Grow(runs, c) = [runs EXCEPT ![l] = [r EXCEPT !.count = @ + 1]]
    BY <1>3, Zenon DEF Grow
  <2> DEFINE more == [runs EXCEPT ![l] = longer]
             E == [ends EXCEPT ![l] = m + 1]
  <2>5. Spells(more, E, chain, m + 1) /\ more # <<>> /\ E \in Seq(Nat) /\ more \in Seq(R)
    BY <1>2, <1>3, <2>1, RunGrown
  <2> HIDE DEF more, E
  <2>6. more \in SpelledUpto(chain, m + 1)
    BY <2>5, Zenon DEF SpelledUpto
  <2> QED
    BY <2>3, <2>4, <2>6 DEF more
<1>4. CASE ~(runs # <<>> /\ c = Last(runs).start + Last(runs).count)
  <2>1. Grow(runs, c) = Append(runs, one)
    BY <1>4, Zenon DEF Grow
  <2> DEFINE more == Append(runs, one)
             E == Append(ends, m + 1)
  <2>2. Spells(more, E, chain, m + 1) /\ more # <<>> /\ E \in Seq(Nat) /\ more \in Seq(R)
    BY <1>2, RunAdded, Zenon
  <2> HIDE DEF more, E
  <2>3. more \in SpelledUpto(chain, m + 1)
    BY <2>2, Zenon DEF SpelledUpto
  <2> QED
    BY <2>1, <2>3 DEF more
<1> QED
  BY <1>3, <1>4

(* The runs of a chain spell it.                                             *)
LEMMA RunsOfSpell ==
  ASSUME NEW chain \in Seq(Nat)
  PROVE  RunsOf(chain) \in SpelledUpto(chain, Len(chain))
<1> DEFINE n == Len(chain)
           a == <<>>
           T == [k \in 0..n |-> SpelledUpto(chain, k)]
           Step(x, k) == Grow(x, chain[k])
           f[k \in 0..n] == IF k = 0 THEN a ELSE Step(f[k - 1], k)
           G == [k \in 1..n |-> [x \in T[k - 1] |-> Step(x, k)]]
<1>1. RunsOf(chain) = f[n]
  BY Zenon DEF RunsOf, Iterate
<1>2. n \in Nat /\ a \in T[0]
  <2>1. a \in Seq([start : Nat, count : Nat]) /\ Len(a) = 0
    OBVIOUS
  <2>2. Spells(a, <<>>, chain, 0)
    BY <2>1 DEF Spells, Before
  <2>3. <<>> \in Seq(Nat) /\ ~(0 > 0)
    OBVIOUS
  <2> HIDE DEF a
  <2>4. a \in SpelledUpto(chain, 0)
    BY <2>1, <2>2, <2>3, Zenon DEF SpelledUpto
  <2> QED
    BY <2>4
<1>3. ASSUME NEW k \in 1..n, NEW x \in T[k - 1] PROVE Step(x, k) \in T[k]
  <2>1. k - 1 \in 0..(Len(chain) - 1) /\ (k - 1) + 1 = k /\ k - 1 \in 0..n /\ k \in 0..n
    OBVIOUS
  <2>2. x \in SpelledUpto(chain, k - 1)
    BY <2>1
  <2>3. Grow(x, chain[(k - 1) + 1]) \in SpelledUpto(chain, (k - 1) + 1)
    BY <2>1, <2>2, GrowSpells, Zenon
  <2> QED
    BY <2>1, <2>3
<1>4. \A k \in 1..n : \A x \in T[k - 1] : G[k][x] = Step(x, k)
  OBVIOUS
<1> HIDE DEF n, a, T, Step, G
<1>5. \A k \in 1..n : \A x \in T[k - 1] : G[k][x] \in T[k]
  BY <1>3, <1>4
<1>6. HasCourse(n, T, a, G)
  BY <1>2, <1>5, CourseInExists, Zenon
<1>7. PICK S, g : /\ g \in [0..n -> S] /\ g[0] = a
                  /\ \A k \in 1..n : g[k] = G[k][g[k - 1]]
                  /\ \A k \in 0..n : g[k] \in T[k]
  BY <1>6, Zenon DEF HasCourse
<1>8. \A k \in 1..n : g[k] = Step(g[k - 1], k)
  <2>1. \A k \in 1..n : k - 1 \in 0..n
    BY <1>2
  <2> QED
    BY <1>4, <1>7, <2>1
<1>9. g = [k \in 0..n |-> IF k = 0 THEN a ELSE Step(g[k - 1], k)]
  BY <1>7, <1>8
<1>10. f = [k \in 0..n |-> IF k = 0 THEN a ELSE Step(f[k - 1], k)]
  BY <1>9, Zenon
<1> HIDE DEF f
<1>11. f[0] \in T[0] /\ \A k \in 1..n : f[k - 1] \in T[k - 1] => f[k] \in T[k]
  <2>1. 0 \in 0..n /\ \A k \in 1..n : k \in 0..n /\ k # 0
    BY <1>2
  <2>2. f[0] = a /\ \A k \in 1..n : f[k] = Step(f[k - 1], k)
    BY <1>10, <2>1, Zenon
  <2> QED
    BY <1>2, <1>3, <2>2, Zenon
<1>12. f[n] \in T[n]
  BY <1>2, <1>11, TurnByTurnIn, Zenon
<1> QED
  <2>1. f[n] \in SpelledUpto(chain, Len(chain))
    BY <1>2, <1>12 DEF T, n
  <2> QED
    BY <1>1, <2>1

(* Clusters of an exFAT file that stand in the pieces of its content.          *)
ExFatReading(img, v, blocks, pieces, chain) ==
  /\ img.size \in Nat /\ blocks \in Seq(Nat) /\ IsPieces(pieces) /\ StandsIn(img, blocks, pieces)
  /\ chain \in Seq(Nat) /\ Len(chain) <= Len(pieces)
  /\ \A k \in 1..Len(chain) : /\ InHeap(v, chain[k]) /\ ExFatOffset(v, chain[k]) = pieces[k].at
                              /\ v.size = pieces[k].n

ReadBy(img, v, blocks, pieces, run, from, to) ==
  ExFatRun(img, v, Gotten(blocks, Upto(blocks, pieces, from)), run)
    = Gotten(blocks, Upto(blocks, pieces, to))

(* A beginning that was gotten without a fault is gone on with.              *)
LEMMA GoesOn ==
  ASSUME NEW blocks, NEW m
  PROVE  [Gotten(blocks, m) EXCEPT !.go = TRUE] = Gotten(blocks, m)
<1> DEFINE x == Gotten(blocks, m)
<1>1. x \in [data : {x.data}, left : {x.left}, go : BOOLEAN] /\ x.go = TRUE
  BY DEF Gotten
<1> HIDE DEF x
<1>2. [x EXCEPT !.go = TRUE] = x
  BY <1>1
<1> QED
  BY <1>2 DEF x

(* The loop over the clusters of one run reads them, up to the end of the    *)
(* content.                                                                  *)
LEMMA ExFatRunInOrder ==
  ASSUME NEW img, NEW v, NEW blocks, NEW pieces, NEW chain,
         ExFatReading(img, v, blocks, pieces, chain),
         NEW run \in [start : Nat, count : Nat], NEW base \in Nat, base + run.count <= Len(chain),
         \A o \in 1..run.count : chain[base + o] = run.start + o - 1
  PROVE  ReadBy(img, v, blocks, pieces, run, base, base + run.count)
<1> DEFINE count == run.count
           first == Gotten(blocks, Upto(blocks, pieces, base))
           inner == Iterate(run.count, first, LAMBDA y, j : ExFatPiece(img, v, y, run.start + j - 1))
<1>a. /\ img.size \in Nat /\ blocks \in Seq(Nat) /\ IsPieces(pieces) /\ StandsIn(img, blocks, pieces)
      /\ chain \in Seq(Nat) /\ Len(chain) <= Len(pieces)
      /\ \A k \in 1..Len(chain) : /\ InHeap(v, chain[k]) /\ ExFatOffset(v, chain[k]) = pieces[k].at
                                  /\ v.size = pieces[k].n
  BY Zenon DEF ExFatReading
<1>b. count \in Nat /\ base + count <= Len(chain) /\ Len(chain) \in Nat /\ Len(pieces) \in Nat
  BY <1>a DEF IsPieces
<1>c. ExFatRun(img, v, first, run) = [inner EXCEPT !.go = TRUE]
  BY Zenon DEF ExFatRun
<1> DEFINE n == run.count
           a == first
           T == [k \in 0..n |-> {Gotten(blocks, Upto(blocks, pieces, base + k))}]
           Step(x, k) == ExFatPiece(img, v, x, run.start + k - 1)
           f[k \in 0..n] == IF k = 0 THEN a ELSE Step(f[k - 1], k)
           G == [k \in 1..n |-> [x \in T[k - 1] |-> Step(x, k)]]
<1>1. inner = f[n]
  BY Zenon DEF inner, Iterate
<1>2. n \in Nat /\ a \in T[0]
  <2>1. base + 0 = base
    OBVIOUS
  <2> QED
    BY <1>b, <2>1
<1>3. ASSUME NEW k \in 1..n, NEW x \in T[k - 1] PROVE Step(x, k) \in T[k]
  <2>0. count = n /\ k - 1 \in 0..n /\ k \in 0..n
    <3>1. n \in Nat /\ count = n
      BY <1>2
    <3> HIDE DEF n, count
    <3> QED
      BY <3>1
  <2> HIDE DEF count, n
  <2>1. /\ base + k \in 1..Len(chain) /\ base + k \in 1..Len(pieces)
        /\ base + (k - 1) = (base + k) - 1
    <3>1. k \in 1..count /\ Len(chain) <= Len(pieces)
      BY <1>a, <2>0
    <3> HIDE DEF first, inner, a, T, Step, f, G
    <3> QED
      BY <1>b, <3>1
  <2>2. x = Gotten(blocks, Upto(blocks, pieces, base + (k - 1)))
    BY <2>0
  <2>3. chain[base + k] = run.start + k - 1
    BY <2>0 DEF count
  <2>4. InHeap(v, run.start + k - 1) /\ ExFatOffset(v, run.start + k - 1) = pieces[base + k].at
        /\ v.size = pieces[base + k].n
    BY <1>a, <2>1, <2>3
  <2>5. ExFatPiece(img, v, x, run.start + k - 1) = Piece(img, x, pieces[base + k].at, pieces[base + k].n)
    BY <2>4, Zenon DEF ExFatPiece
  <2>6. Piece(img, Gotten(blocks, Upto(blocks, pieces, (base + k) - 1)), pieces[base + k].at, pieces[base + k].n)
           = Gotten(blocks, Upto(blocks, pieces, base + k))
    <3>1. Continues(img, blocks, pieces, base + k)
      BY <1>a, <2>1, NextPiece, Zenon
    <3> QED
      BY <3>1, Zenon DEF Continues
  <2>7. Step(x, k) = Gotten(blocks, Upto(blocks, pieces, base + k))
    BY <2>1, <2>2, <2>5, <2>6
  <2> QED
    BY <2>0, <2>7
<1>4. \A k \in 1..n : \A x \in T[k - 1] : G[k][x] = Step(x, k)
  OBVIOUS
<1> HIDE DEF n, a, T, Step, G
<1>5. \A k \in 1..n : \A x \in T[k - 1] : G[k][x] \in T[k]
  BY <1>3, <1>4
<1>6. HasCourse(n, T, a, G)
  BY <1>2, <1>5, CourseInExists, Zenon
<1>7. PICK S, g : /\ g \in [0..n -> S] /\ g[0] = a
                  /\ \A k \in 1..n : g[k] = G[k][g[k - 1]]
                  /\ \A k \in 0..n : g[k] \in T[k]
  BY <1>6, Zenon DEF HasCourse
<1>8. \A k \in 1..n : g[k] = Step(g[k - 1], k)
  <2>1. \A k \in 1..n : k - 1 \in 0..n
    BY <1>2
  <2> QED
    BY <1>4, <1>7, <2>1
<1>9. g = [k \in 0..n |-> IF k = 0 THEN a ELSE Step(g[k - 1], k)]
  BY <1>7, <1>8
<1>10. f = [k \in 0..n |-> IF k = 0 THEN a ELSE Step(f[k - 1], k)]
  BY <1>9, Zenon
<1> HIDE DEF f
<1>11. f[0] \in T[0] /\ \A k \in 1..n : f[k - 1] \in T[k - 1] => f[k] \in T[k]
  <2>1. 0 \in 0..n /\ \A k \in 1..n : k \in 0..n /\ k # 0
    BY <1>2
  <2>2. f[0] = a /\ \A k \in 1..n : f[k] = Step(f[k - 1], k)
    BY <1>10, <2>1, Zenon
  <2> QED
    BY <1>2, <1>3, <2>2, Zenon
<1>12. f[n] \in T[n]
  BY <1>2, <1>11, TurnByTurnIn, Zenon
<1> QED
  <2>1. inner = Gotten(blocks, Upto(blocks, pieces, base + count))
    <3> HIDE DEF inner
    <3> QED
      BY <1>1, <1>2, <1>12 DEF T, n
  <2>2. [Gotten(blocks, Upto(blocks, pieces, base + count)) EXCEPT !.go = TRUE]
          = Gotten(blocks, Upto(blocks, pieces, base + count))
    BY GoesOn, Zenon
  <2>3. ExFatRun(img, v, first, run) = Gotten(blocks, Upto(blocks, pieces, base + count))
    BY <1>c, <2>1, <2>2
  <2> QED
    BY <2>3, Zenon DEF ReadBy, first, count

(* A run begins somewhere in the chain.                                      *)
LEMMA BeforeIsNat ==
  ASSUME NEW ends \in Seq(Nat), NEW k \in 0..Len(ends)
  PROVE  Before(ends, k) \in Nat
<1>1. k = 0 \/ k \in 1..Len(ends)
  OBVIOUS
<1>2. k \in 1..Len(ends) => ends[k] \in Nat
  BY ElementOfSeq, Zenon
<1> QED
  BY <1>1, <1>2 DEF Before

ReadAsFarAs(img, v, r, blocks, pieces, n) ==
  ExFatExtract(img, v, r) = Gotten(blocks, Upto(blocks, pieces, n)).data

(* A file is read through runs that spell its clusters.                       *)
LEMMA ExFatRunsInOrder ==
  ASSUME NEW img, NEW v, NEW blocks, NEW pieces, NEW chain,
         ExFatReading(img, v, blocks, pieces, chain), Len(blocks) <= MaxExtract,
         NEW runs, NEW ends, Spells(runs, ends, chain, Len(chain)),
         NEW r, r.size = Len(blocks), r.size # 0, ~(r.start < 2), RunsToRead(v, r) = runs
  PROVE  ReadAsFarAs(img, v, r, blocks, pieces, Len(chain))
<1>a. /\ img.size \in Nat /\ blocks \in Seq(Nat) /\ IsPieces(pieces) /\ StandsIn(img, blocks, pieces)
      /\ chain \in Seq(Nat) /\ Len(chain) <= Len(pieces)
  BY Zenon DEF ExFatReading
<1>b. /\ runs \in Seq([start : Nat, count : Nat]) /\ ends \in Seq(Nat) /\ Len(ends) = Len(runs)
      /\ Before(ends, Len(runs)) = Len(chain)
      /\ \A k \in 1..Len(runs) :
           /\ Before(ends, k - 1) + runs[k].count = ends[k] /\ ends[k] <= Len(chain)
           /\ \A o \in 1..runs[k].count : chain[Before(ends, k - 1) + o] = runs[k].start + o - 1
  BY Zenon DEF Spells
<1>c. Len(runs) \in Nat
  BY <1>b
<1> DEFINE n == Len(RunsToRead(v, r))
           a == Extraction(r.size)
           T == [k \in 0..n |-> {Gotten(blocks, Upto(blocks, pieces, Before(ends, k)))}]
           Step(x, k) == ExFatRun(img, v, x, RunsToRead(v, r)[k])
           f[k \in 0..n] == IF k = 0 THEN a ELSE Step(f[k - 1], k)
           G == [k \in 1..n |-> [x \in T[k - 1] |-> Step(x, k)]]
<1>1. ExFatExtract(img, v, r) = f[n].data
  BY Zenon DEF ExFatExtract, Iterate
<1>2. n \in Nat /\ a \in T[0]
  <2>1. a = Gotten(blocks, 0)
    BY <1>a, GottenNothing
  <2>2. Upto(blocks, pieces, 0) = 0
    <3>1. End(pieces, 0) = 0 /\ 0 \in 0..Len(pieces) /\ Len(blocks) \in Nat
      BY <1>a DEF End, IsPieces
    <3>2. End(pieces, 0) <= Len(blocks) => Upto(blocks, pieces, 0) = End(pieces, 0)
      BY <1>a, <3>1, UptoIs
    <3> QED
      BY <3>1, <3>2
  <2>3. Before(ends, 0) = 0
    BY DEF Before
  <2> QED
    BY <1>c, <2>1, <2>2, <2>3
<1>3. ASSUME NEW k \in 1..n, NEW x \in T[k - 1] PROVE Step(x, k) \in T[k]
  <2>1. k \in 1..Len(runs) /\ k - 1 \in 0..n /\ k \in 0..n /\ k - 1 \in 0..Len(ends) /\ k # 0
    BY <1>b, <1>c
  <2>2. x = Gotten(blocks, Upto(blocks, pieces, Before(ends, k - 1)))
    BY <2>1
  <2> DEFINE run == runs[k]
             base == Before(ends, k - 1)
  <2>3. run \in [start : Nat, count : Nat]
    BY <1>b, <2>1, ElementOfSeq, Zenon
  <2>4. base \in Nat
    BY <1>b, <2>1, BeforeIsNat, Zenon
  <2>5. base + run.count = ends[k] /\ ends[k] <= Len(chain)
        /\ \A o \in 1..run.count : chain[base + o] = run.start + o - 1
    BY <1>b, <2>1
  <2>6. ends[k] = Before(ends, k)
    BY <2>1 DEF Before
  <2>7. base + run.count <= Len(chain)
    BY <2>5
  <2>8. Step(x, k) = ExFatRun(img, v, Gotten(blocks, Upto(blocks, pieces, base)), run)
    BY <2>2
  <2> HIDE DEF run, base, n, Step
  <2>9. ReadBy(img, v, blocks, pieces, run, base, base + run.count)
    BY <2>3, <2>4, <2>5, <2>7, ExFatRunInOrder, Zenon
  <2>10. Step(x, k) = Gotten(blocks, Upto(blocks, pieces, Before(ends, k)))
    BY <2>5, <2>6, <2>8, <2>9 DEF ReadBy
  <2> QED
    BY <2>1, <2>10
<1>4. \A k \in 1..n : \A x \in T[k - 1] : G[k][x] = Step(x, k)
  OBVIOUS
<1> HIDE DEF n, a, T, Step, G
<1>5. \A k \in 1..n : \A x \in T[k - 1] : G[k][x] \in T[k]
  BY <1>3, <1>4
<1>6. HasCourse(n, T, a, G)
  BY <1>2, <1>5, CourseInExists, Zenon
<1>7. PICK S, g : /\ g \in [0..n -> S] /\ g[0] = a
                  /\ \A k \in 1..n : g[k] = G[k][g[k - 1]]
                  /\ \A k \in 0..n : g[k] \in T[k]
  BY <1>6, Zenon DEF HasCourse
<1>8. \A k \in 1..n : g[k] = Step(g[k - 1], k)
  <2>1. \A k \in 1..n : k - 1 \in 0..n
    BY <1>2
  <2> QED
    BY <1>4, <1>7, <2>1
<1>9. g = [k \in 0..n |-> IF k = 0 THEN a ELSE Step(g[k - 1], k)]
  BY <1>7, <1>8
<1>10. f = [k \in 0..n |-> IF k = 0 THEN a ELSE Step(f[k - 1], k)]
  BY <1>9, Zenon
<1> HIDE DEF f
<1>11. f[0] \in T[0] /\ \A k \in 1..n : f[k - 1] \in T[k - 1] => f[k] \in T[k]
  <2>1. 0 \in 0..n /\ \A k \in 1..n : k \in 0..n /\ k # 0
    BY <1>2
  <2>2. f[0] = a /\ \A k \in 1..n : f[k] = Step(f[k - 1], k)
    BY <1>10, <2>1, Zenon
  <2> QED
    BY <1>2, <1>3, <2>2, Zenon
<1>12. f[n] \in T[n]
  BY <1>2, <1>11, TurnByTurnIn, Zenon
<1> QED
  <2>1. f[n] = Gotten(blocks, Upto(blocks, pieces, Len(chain)))
    BY <1>2, <1>12, <1>b DEF T, n
  <2> QED
    BY <1>1, <2>1, Zenon DEF ReadAsFarAs

(* The content of an exFAT file: its clusters follow each other, or they are    *)
(* linked.                                                                    *)
ExFatContent(img, blocks, chain, s, del) ==
  /\ blocks \in Seq(Nat) /\ Len(blocks) <= MaxExtract /\ chain \in Seq(Nat)
  /\ \A k \in DOMAIN chain : chain[k] >= 2 /\ chain[k] < 2 + img.boot.count
  /\ IF s.noFatChain THEN \A k \in DOMAIN chain : chain[k] = chain[1] + k - 1
     ELSE Chained(img, img.part + img.boot.fatOffset * Shifted(img.boot.bpsShift - 9), chain, del)
  /\ StandsIn(img, blocks, Clusters([k \in DOMAIN chain |-> ExFatAt(img, chain[k])],
                                    Shifted(img.boot.bpsShift - 9) * Shifted(img.boot.spcShift)))

ExFatRuns(img, v, s) ==
  IF ~(s.first >= 2) THEN <<>>
  ELSE IF s.noFatChain THEN <<[start |-> s.first, count |-> ClusterCount(v, s.length)]>>
  ELSE RunsOf(ExFatChain(img, v, s.first, ClusterCount(v, s.length)))

(* A record r of the stream s of that content.                                *)
ExFatStreamed(img, v, s, blocks, chain, r) ==
  /\ s.length = Len(blocks) /\ (chain # <<>> => s.first = chain[1])
  /\ r.size = s.length /\ r.start = s.first /\ r.runs = ExFatRuns(img, v, s)

(* extractFile of exFAT gives the content, or of a deleted file its          *)
(* beginning.                                                                *)
LEMMA ExFatExtractInOrder ==
  ASSUME NEW img, img.size \in Nat, Linking(img), NEW v, IsExFat(v), ExFatFinds(img, v),
         NEW s,
         NEW blocks, NEW chain, NEW del, ExFatContent(img, blocks, chain, s, del),
         NEW r, ExFatStreamed(img, v, s, blocks, chain, r)
  PROVE  Extracts(ExFatExtract(img, v, r), blocks, del)
<1> DEFINE at == [k \in DOMAIN chain |-> ExFatAt(img, chain[k])]
           size == Shifted(img.boot.bpsShift - 9) * Shifted(img.boot.spcShift)
           pieces == Clusters(at, size)
           need == ClusterCount(v, s.length)
<1>0. /\ s.length = Len(blocks) /\ (chain # <<>> => s.first = chain[1])
      /\ r.size = s.length /\ r.start = s.first /\ r.runs = ExFatRuns(img, v, s)
  BY Zenon DEF ExFatStreamed
<1> USE <1>0
<1>1. /\ blocks \in Seq(Nat) /\ Len(blocks) <= MaxExtract /\ chain \in Seq(Nat)
      /\ \A k \in DOMAIN chain : chain[k] >= 2 /\ chain[k] < 2 + img.boot.count
      /\ s.noFatChain => \A k \in DOMAIN chain : chain[k] = chain[1] + k - 1
      /\ ~s.noFatChain => Chained(img, v.fat, chain, del)
      /\ StandsIn(img, blocks, pieces) /\ v.size = size
  BY Zenon DEF ExFatContent, ExFatFinds
<1>2. size \in Nat \ {0} /\ v.clusters = img.boot.count
  BY <1>1, Zenon DEF ExFatFinds, IsExFat
<1>3. Len(chain) \in Nat /\ DOMAIN chain = 1..Len(chain)
  BY <1>1
<1>4. \A k \in 1..Len(chain) : /\ chain[k] \in Nat /\ InHeap(v, chain[k])
                               /\ ExFatOffset(v, chain[k]) = at[k] /\ at[k] \in Nat
  <2> TAKE k \in 1..Len(chain)
  <2>1. chain[k] \in Nat /\ chain[k] >= 2 /\ k \in DOMAIN chain
    BY <1>1, <1>3, ElementOfSeq
  <2>2. InHeap(v, chain[k])
    BY <1>1, <1>2, <2>1, Zenon DEF InHeap
  <2>3. ExFatOffset(v, chain[k]) = ExFatAt(img, chain[k]) /\ ExFatAt(img, chain[k]) \in Nat
    BY <2>1, ExFatOffsetInOrder, Zenon
  <2> QED
    BY <2>1, <2>2, <2>3
<1>5. at \in Seq(Nat) /\ Len(at) = Len(chain)
  <2>1. at \in [1..Len(chain) -> Nat]
    BY <1>3, <1>4
  <2> HIDE DEF at
  <2> QED
    BY <1>3, <2>1
<1> HIDE DEF at, size
<1>6. /\ IsPieces(pieces) /\ Len(pieces) = Len(chain)
      /\ \A k \in 1..Len(chain) : pieces[k].at = at[k] /\ pieces[k].n = size
  BY <1>2, <1>5, ClustersArePieces
<1> HIDE DEF pieces
<1>7. CASE chain = <<>>
  <2>1. pieces = <<>>
    BY <1>6, <1>7 DEF IsPieces
  <2>2. blocks = <<>>
    BY <1>1, <2>1, NoPiecesNoContent
  <2>3. ExFatExtract(img, v, r) = <<>>
    BY <2>2 DEF ExFatExtract
  <2> QED
    BY <2>2, <2>3 DEF Extracts
<1>8. CASE chain # <<>>
  <2>1. blocks # <<>> /\ need = Len(chain)
    <3>1. at # <<>>
      BY <1>1, <1>3, <1>5, <1>8
    <3>2. blocks # <<>> /\ (Len(blocks) + size - 1) \div size = Len(at)
      BY <1>1, <1>2, <1>5, <3>1, ClustersNeeded DEF pieces
    <3> QED
      BY <1>1, <1>5, <3>2, Zenon DEF ClusterCount
  <2>2. Len(chain) > 0 /\ 1 \in 1..Len(chain) /\ s.first = chain[1] /\ s.first \in Nat /\ s.first >= 2
    <3>1. Len(chain) > 0 /\ 1 \in 1..Len(chain)
      BY <1>1, <1>3, <1>8
    <3>2. s.first = chain[1] /\ s.first \in Nat /\ s.first >= 2
      BY <1>1, <1>3, <1>4, <1>8, <3>1
    <3> QED
      BY <3>1, <3>2
  <2> HIDE DEF need
  <2>3. ASSUME NEW m \in 1..Len(chain), ~del => m = Len(chain),
               NEW read, read = SubSeq(chain, 1, m), NEW runs \in SpelledUpto(read, m), r.runs = runs
        PROVE  Extracts(ExFatExtract(img, v, r), blocks, del)
    <3>1. read \in Seq(Nat) /\ Len(read) = m /\ \A k \in 1..m : read[k] = chain[k]
      <4> DEFINE u == SubSeq(chain, 1, m)
      <4>1. u \in Seq(Nat) /\ Len(u) = m /\ \A k \in 1..m : u[k] = chain[k]
        BY <1>1, <1>3
      <4>2. read = u
        BY <2>3
      <4> HIDE DEF u
      <4> QED
        BY <4>1, <4>2
    <3>2. ExFatReading(img, v, blocks, pieces, read)
      <4>1. m \in Nat /\ m <= Len(pieces) /\ \A k \in 1..m : k \in 1..Len(chain)
        BY <1>3, <1>6
      <4>2. \A k \in 1..Len(read) : /\ InHeap(v, read[k]) /\ ExFatOffset(v, read[k]) = pieces[k].at
                                    /\ v.size = pieces[k].n
        BY <1>1, <1>4, <1>6, <3>1, <4>1
      <4> QED
        BY <1>1, <1>6, <3>1, <4>1, <4>2 DEF ExFatReading
    <3>3. PICK ends \in Seq(Nat) : Spells(runs, ends, read, m)
      BY DEF SpelledUpto
    <3>4. runs # <<>>
      BY DEF SpelledUpto
    <3>5. RunsToRead(v, r) = runs
      BY <2>3, <3>4 DEF RunsToRead
    <3>6. r.size = Len(blocks) /\ r.size # 0 /\ ~(r.start < 2)
      BY <1>1, <2>1, <2>2
    <3>7. Spells(runs, ends, read, Len(read))
      BY <3>1, <3>3
    <3>8. ReadAsFarAs(img, v, r, blocks, pieces, Len(read))
      BY <1>1, <3>2, <3>5, <3>6, <3>7, ExFatRunsInOrder, Zenon
    <3>9. m \in 1..Len(pieces) /\ pieces[m].n > 0 /\ (~del => m = Len(pieces))
      BY <1>2, <1>6, <2>3
    <3>10. Extracts(Gotten(blocks, Upto(blocks, pieces, m)).data, blocks, del)
      BY <1>1, <1>6, <3>9, ExtractedUpto
    <3> QED
      BY <3>1, <3>8, <3>10 DEF ReadAsFarAs
  <2>4. CASE s.noFatChain
    <3> DEFINE run == [start |-> s.first, count |-> need]
               runs == <<run>>
               ends == <<need>>
    <3>1. r.runs = runs
      BY <2>2, <2>4 DEF ExFatRuns, need
    <3>2. run \in [start : Nat, count : Nat] /\ run.start = s.first /\ run.count = need /\ need \in Nat
      BY <1>3, <2>1, <2>2
    <3> HIDE DEF run
    <3>3. runs \in Seq([start : Nat, count : Nat]) /\ runs # <<>> /\ ends \in Seq(Nat)
      BY <3>2
    <3>4. Len(runs) = 1 /\ Len(ends) = 1 /\ runs[1] = run /\ ends[1] = need
      OBVIOUS
    <3> HIDE DEF runs, ends
    <3>5. Before(ends, 1) = need /\ Before(ends, 0) = 0
      BY <3>4 DEF Before
    <3>6. \A o \in 1..need : chain[o] = s.first + o - 1
      BY <1>1, <1>3, <2>1, <2>2, <2>4
    <3>7. ASSUME NEW k \in 1..1
          PROVE  /\ Before(ends, k - 1) + runs[k].count = ends[k] /\ ends[k] <= Len(chain)
                 /\ \A o \in 1..runs[k].count : chain[Before(ends, k - 1) + o] = runs[k].start + o - 1
      <4>1. k = 1
        OBVIOUS
      <4> QED
        BY <1>3, <2>1, <3>2, <3>4, <3>5, <3>6, <4>1
    <3>8. Spells(runs, ends, chain, Len(chain))
      BY <2>1, <3>3, <3>4, <3>5, <3>7 DEF Spells
    <3>9. runs \in SpelledUpto(chain, Len(chain))
      BY <3>3, <3>8 DEF SpelledUpto
    <3>10. Len(chain) \in 1..Len(chain) /\ chain = SubSeq(chain, 1, Len(chain))
      BY <1>1, <1>3, <2>2
    <3> QED
      BY <2>3, <3>1, <3>9, <3>10
  <2>5. CASE ~s.noFatChain
    <3> DEFINE read == ExFatChain(img, v, s.first, need)
    <3>1. r.runs = RunsOf(read)
      BY <2>2, <2>5 DEF ExFatRuns, need
    <3>2. ReadAs(ExFatChain(img, v, chain[1], need), chain, del)
      <4>1. need \in Nat /\ need >= Len(chain)
        BY <1>3, <2>1
      <4>2. \A k \in 1..Len(chain) : InHeap(v, chain[k])
        BY <1>4
      <4> QED
        BY <1>1, <1>8, <2>5, <4>1, <4>2, ExFatChainInOrder, Zenon
    <3>3. PICK m \in 1..Len(chain) : read = SubSeq(chain, 1, m) /\ (~del => m = Len(chain))
      BY <2>2, <3>2 DEF ReadAs
    <3> HIDE DEF read
    <3>4. read \in Seq(Nat) /\ Len(read) = m
      <4> DEFINE u == SubSeq(chain, 1, m)
      <4>1. u \in Seq(Nat) /\ Len(u) = m
        BY <1>1, <1>3
      <4>2. read = u
        BY <3>3
      <4> HIDE DEF u
      <4> QED
        BY <4>1, <4>2
    <3>5. RunsOf(read) \in SpelledUpto(read, m)
      BY <3>4, RunsOfSpell
    <3> QED
      BY <2>3, <3>1, <3>3, <3>5
  <2> QED
    BY <2>4, <2>5
<1> QED
  BY <1>7, <1>8

(* The slots of a directory as they are read: those kept, and then the end.     *)
KeptSlots(kept, slots) ==
  /\ kept \in Seq(ExFatSlots) /\ slots \in Seq(ExFatSlots) /\ ExFatSetsInOrder(kept)
  /\ Len(kept) <= Len(slots)
  /\ \A k \in 1..Len(slots) : slots[k] = IF k <= Len(kept) THEN kept[k] ELSE [t |-> "end"]

SameNames(kept, slots, p, n) == NameSlots(slots, p, n) = NameSlots(kept, p, n)

(* The name parts of an entry set are those of the directory.                *)
LEMMA NamesKept ==
  ASSUME NEW kept, NEW slots, KeptSlots(kept, slots), NEW p \in Nat \ {0}, NEW n \in Nat \ {0},
         p + n <= Len(kept)
  PROVE  SameNames(kept, slots, p, n)
<1> DEFINE u == SubSeq(slots, p + 2, p + n)
           w == SubSeq(kept, p + 2, p + n)
<1>1. /\ kept \in Seq(ExFatSlots) /\ slots \in Seq(ExFatSlots) /\ Len(kept) <= Len(slots)
      /\ \A k \in 1..Len(kept) : slots[k] = kept[k]
  BY DEF KeptSlots
<1>2. Len(kept) \in Nat /\ Len(slots) \in Nat
  BY <1>1
<1>3. u = [k \in 1..(n - 1) |-> slots[k + p + 1]] /\ w = [k \in 1..(n - 1) |-> kept[k + p + 1]]
  <2>1. n - 1 = 1 + (p + n) - (p + 2) /\ \A k \in 1..(n - 1) : k + p + 1 = k + (p + 2) - 1
    BY SMT
  <2>2. u = [k \in 1..(n - 1) |-> slots[k + (p + 2) - 1]] /\ w = [k \in 1..(n - 1) |-> kept[k + (p + 2) - 1]]
    BY <1>1, <1>2, <2>1
  <2> HIDE DEF u, w
  <2> QED
    BY <2>1, <2>2
<1>4. \A k \in 1..(n - 1) : slots[k + p + 1] = kept[k + p + 1]
  <2> TAKE k \in 1..(n - 1)
  <2>1. k + p + 1 \in 1..Len(kept)
    BY <1>2
  <2> QED
    BY <1>1, <2>1
<1>5. u = w
  <2> HIDE DEF u, w
  <2> QED
    BY <1>3, <1>4
<1> QED
  BY <1>5, Zenon DEF SameNames, NameSlots

(* An entry set of a directory in order: its entry, stream extension and name*)
(* parts.                                                                    *)
LEMMA SetInOrder ==
  ASSUME NEW kept, NEW slots, KeptSlots(kept, slots), NEW p \in 1..Len(slots), slots[p].t = "file"
  PROVE  /\ p \in 1..Len(kept) /\ slots[p] = kept[p] /\ slots[p] \in ExFatEntries
         /\ slots[p].secondary \in Nat \ {0} /\ p + slots[p].secondary <= Len(kept)
         /\ p + 1 \in 1..Len(kept) /\ slots[p + 1] = kept[p + 1]
         /\ slots[p + 1] \in ExFatStreams /\ slots[p + 1].t = "stream"
         /\ SameNames(kept, slots, p, slots[p].secondary)
         /\ \A q \in (p + 1)..(p + slots[p].secondary) : kept[q].t # "file"
<1>1. /\ kept \in Seq(ExFatSlots) /\ slots \in Seq(ExFatSlots) /\ Len(kept) <= Len(slots)
      /\ \A k \in 1..Len(slots) : slots[k] = IF k <= Len(kept) THEN kept[k] ELSE [t |-> "end"]
  BY DEF KeptSlots
<1>2. Len(kept) \in Nat /\ Len(slots) \in Nat /\ DOMAIN kept = 1..Len(kept)
  BY <1>1
<1>3. p \in 1..Len(kept) /\ slots[p] = kept[p]
  BY <1>1, <1>2
<1>4. /\ kept[p].secondary >= 1 /\ p + kept[p].secondary <= Len(kept)
      /\ kept[p + 1].t = "stream"
      /\ \A q \in (p + 1)..(p + kept[p].secondary) : kept[q].t # "file"
  BY <1>2, <1>3 DEF KeptSlots, ExFatSetsInOrder
<1>5. kept[p] \in ExFatEntries
  <2>1. kept[p] \in ExFatSlots
    BY <1>1, <1>3, ElementOfSeq, Zenon
  <2> QED
    BY <1>3, <2>1 DEF ExFatSlots, ExFatStreams
<1>6. kept[p].secondary \in Nat \ {0}
  <2>1. kept[p].secondary \in Nat
    BY <1>5 DEF ExFatEntries
  <2> QED
    BY <1>4, <2>1
<1>7. p + 1 \in 1..Len(kept) /\ p + 1 \in 1..Len(slots)
  BY <1>1, <1>2, <1>3, <1>4, <1>6
<1>8. slots[p + 1] = kept[p + 1]
  BY <1>1, <1>7
<1>9. kept[p + 1] \in ExFatStreams
  <2>1. kept[p + 1] \in ExFatSlots
    BY <1>1, <1>7, ElementOfSeq, Zenon
  <2> QED
    BY <1>4, <2>1 DEF ExFatSlots, ExFatEntries
<1>10. SameNames(kept, slots, p, kept[p].secondary)
  <2>1. p \in Nat \ {0}
    OBVIOUS
  <2> QED
    BY <1>4, <1>6, <2>1, NamesKept, Zenon
<1> QED
  BY <1>3, <1>4, <1>5, <1>6, <1>7, <1>8, <1>9, <1>10

(* The records that are right for a file.                                     *)
ExFatRight(img, v, kept, slots, file) ==
  {r \in ExFatListable(img, v, slots) :
     /\ r.name = file.name
     /\ r.size = kept[file.slot + 1].length /\ r.start = kept[file.slot + 1].first
     /\ r.runs = ExFatRuns(img, v, kept[file.slot + 1])}

ExFatAllRight(img, v, kept, slots, files) ==
  [j \in 1..Len(files) |-> ExFatRight(img, v, kept, slots, files[j])]

ExFatFileSlots(kept, del) == {p \in DOMAIN kept : kept[p].t = "file" /\ kept[p].deleted = del}

(* The listing after k turns has come past slot k.                             *)
ExFatListing(img, v, kept, slots, del, k) ==
  {x \in [i : Nat \ {0}, out : Seq(ExFatListable(img, v, slots))] :
     /\ x.i >= k + 1
     /\ SeenUpTo(img.truth[del], ExFatAllRight(img, v, kept, slots, img.truth[del]), x.out, x.i - 1)}

(* The files of an exFAT image are those of its entries.                     *)
LEMMA ExFatFilesPlaced ==
  ASSUME NEW img, ExFatInOrder(img), NEW del \in BOOLEAN
  PROVE  /\ Placed(img.truth[del], ExFatFileSlots(img.dir[img.boot.root], del))
         /\ \A j \in DOMAIN img.truth[del] :
              ExFatFileInOrder(img, img.dir[img.boot.root], img.truth[del][j], del)
BY Zenon DEF ExFatInOrder, ExFatFileSlots

(* A record is that of the file whose entry stands there.                      *)
LEMMA ExFatRecordRight ==
  ASSUME NEW img, NEW v, NEW kept, NEW slots, KeptSlots(kept, slots),
         NEW p \in 1..Len(slots), slots[p].t = "file",
         NEW file, file.slot = p, NEW del, ExFatFileInOrder(img, kept, file, del)
  PROVE  ExFatRecord(img, v, slots[p], slots[p + 1], NameSlots(slots, p, slots[p].secondary))
           \in ExFatRight(img, v, kept, slots, file)
<1> DEFINE e == slots[p]
           s == slots[p + 1]
           names == NameSlots(slots, p, e.secondary)
           r == ExFatRecord(img, v, e, s, names)
<1>1. /\ e = kept[p] /\ e \in ExFatEntries /\ e.secondary \in Nat \ {0} /\ s = kept[p + 1]
      /\ s \in ExFatStreams /\ SameNames(kept, slots, p, e.secondary)
  BY SetInOrder
<1>2. r \in ExFatListable(img, v, slots)
  <2>1. p \in Nat /\ e.secondary \in Nat
    BY <1>1
  <2> HIDE DEF e, s
  <2> QED
    BY <1>1, <2>1 DEF ExFatListable
<1>3. names = NameSlots(kept, p, e.secondary)
  BY <1>1, Zenon DEF SameNames
<1>4. file.name = NameSlots(kept, p, kept[p].secondary)
  BY Zenon DEF ExFatFileInOrder
<1>5. file.name = names
  BY <1>1, <1>3, <1>4, Zenon
<1> HIDE DEF e, s, names
<1>6. r.name = names /\ r.size = s.length /\ r.start = s.first
  BY DEF ExFatRecord
<1>7. r.runs = ExFatRuns(img, v, s)
  <2>1. r.runs = IF ~(s.first >= 2) THEN <<>>
                 ELSE IF s.noFatChain
                   THEN <<[start |-> s.first, count |-> ClusterCount(v, s.length)]>>
                   ELSE RunsOf(ExFatChain(img, v, s.first, ClusterCount(v, s.length)))
    BY DEF ExFatRecord
  <2> QED
    BY <2>1, Zenon DEF ExFatRuns
<1> HIDE DEF r
<1>8. r \in ExFatRight(img, v, kept, slots, file)
  BY <1>1, <1>2, <1>5, <1>6, <1>7, Zenon DEF ExFatRight
<1> QED
  BY <1>8, Zenon DEF r, e, s, names

(* A turn of the listing steps over a slot, over a set, or lists a set.        *)
LEMMA ExFatSetInOrder ==
  ASSUME NEW img, NEW v, NEW kept, NEW slots, KeptSlots(kept, slots), NEW del \in BOOLEAN,
         IsFiles(img.truth[del]), Placed(img.truth[del], ExFatFileSlots(kept, del)),
         \A j \in DOMAIN img.truth[del] : ExFatFileInOrder(img, kept, img.truth[del][j], del),
         NEW k \in 1..Len(slots), NEW x \in ExFatListing(img, v, kept, slots, del, k - 1)
  PROVE  ExFatSet(img, v, slots, del, x) \in ExFatListing(img, v, kept, slots, del, k)
<1> DEFINE L == ExFatListable(img, v, slots)
           files == img.truth[del]
           P == ExFatAllRight(img, v, kept, slots, files)
           F == ExFatFileSlots(kept, del)
           p == x.i
           e == slots[p]
           s == slots[p + 1]
           beyond == Len(slots) + 1
           set == 1 + e.secondary
           file == ExFatRecord(img, v, e, s, NameSlots(slots, p, e.secondary))
           to == ExFatSet(img, v, slots, del, x)
           X == [i : Nat \ {0}, out : Seq(L)]
<1>1. x \in X /\ p >= (k - 1) + 1 /\ SeenUpTo(files, P, x.out, p - 1)
  BY Zenon DEF ExFatListing
<1>2. p \in Nat \ {0} /\ x.out \in Seq(L) /\ p >= k
  BY <1>1
<1>3. Len(slots) \in Nat /\ Len(kept) \in Nat /\ Len(kept) <= Len(slots) /\ DOMAIN kept = 1..Len(kept)
      /\ \A q \in 1..Len(slots) : slots[q] = IF q <= Len(kept) THEN kept[q] ELSE [t |-> "end"]
  BY DEF KeptSlots
<1>4. \A q \in F : q \in 1..Len(kept) /\ q \in Nat /\ kept[q].t = "file" /\ kept[q].deleted = del
  BY <1>3 DEF ExFatFileSlots
<1>5. to = IF p >= beyond THEN x
           ELSE IF e.t # "file"
             THEN [x EXCEPT !.i = IF e.t = "end" /\ ~del THEN beyond ELSE p + 1]
           ELSE IF e.deleted # del THEN [x EXCEPT !.i = p + set]
           ELSE IF p + set > beyond THEN [x EXCEPT !.i = beyond]
           ELSE IF p + 1 >= beyond \/ s.t # "stream" THEN [x EXCEPT !.i = p + 1]
           ELSE [i |-> p + set, out |-> Append(x.out, file)]
  BY Zenon DEF ExFatSet
<1>6. ASSUME NEW out \in Seq(L), NEW c \in Nat \ {0}, c >= k + 1, SeenUpTo(files, P, out, c - 1)
      PROVE  [i |-> c, out |-> out] \in ExFatListing(img, v, kept, slots, del, k)
  <2> DEFINE y == [i |-> c, out |-> out]
  <2>1. y.i = c /\ y.out = out /\ y \in [i : Nat \ {0}, out : Seq(L)]
    <3> HIDE DEF L
    <3> QED
      OBVIOUS
  <2> HIDE DEF y
  <2>2. y \in ExFatListing(img, v, kept, slots, del, k)
    BY <1>6, <2>1, Zenon DEF ExFatListing
  <2> QED
    BY <2>2 DEF y
<1>7. ASSUME NEW c \in Nat, c > p, \A q \in F : ~(p - 1 < q /\ q <= c - 1)
      PROVE  [x EXCEPT !.i = c] \in ExFatListing(img, v, kept, slots, del, k)
  <2>1. c \in Nat \ {0} /\ c >= k + 1 /\ c - 1 \in Int /\ p - 1 \in Int /\ p - 1 <= c - 1
    BY <1>2, <1>7
  <2> HIDE DEF files, P, F, p
  <2>2. SeenUpTo(files, P, x.out, c - 1)
    <3>1. IsFiles(files) /\ Placed(files, F)
      BY DEF files, F
    <3> QED
      BY <1>1, <1>7, <2>1, <3>1, SeenNone, Zenon
  <2>3. [i |-> c, out |-> x.out] \in ExFatListing(img, v, kept, slots, del, k)
    BY <1>2, <1>6, <2>1, <2>2, Zenon
  <2>4. [x EXCEPT !.i = c] = [i |-> c, out |-> x.out]
    <3> HIDE DEF L
    <3> QED
      BY <1>1, <2>1
  <2> QED
    BY <2>3, <2>4
<1>8. CASE p >= beyond
  <2>1. p >= k + 1
    BY <1>2, <1>3, <1>8
  <2>2. x = [i |-> p, out |-> x.out]
    <3> HIDE DEF L
    <3> QED
      BY <1>1
  <2>3. [i |-> p, out |-> x.out] \in ExFatListing(img, v, kept, slots, del, k)
    <3> HIDE DEF p, L, P, files
    <3> QED
      BY <1>1, <1>2, <1>6, <2>1, Zenon
  <2> HIDE DEF to
  <2> QED
    BY <1>5, <1>8, <2>2, <2>3 DEF to
<1>9. CASE ~(p >= beyond) /\ e.t # "file"
  <2> DEFINE c == IF e.t = "end" /\ ~del THEN beyond ELSE p + 1
  <2>1. p \in 1..Len(slots)
    BY <1>2, <1>3, <1>9
  <2>2. p \notin F
    BY <1>3, <1>4, <1>9, <2>1
  <2>3. ASSUME e.t = "end" PROVE p > Len(kept)
    <3>1. ASSUME p <= Len(kept) PROVE FALSE
      <4>1. p \in DOMAIN kept /\ e = kept[p]
        BY <1>3, <2>1, <3>1
      <4>2. kept[p].t # "end"
        BY <4>1 DEF KeptSlots, ExFatSetsInOrder
      <4> QED
        BY <2>3, <4>1, <4>2
    <3> QED
      BY <1>3, <2>1, <3>1
  <2> HIDE DEF e, F, p, to, s
  <2>4. c \in Nat /\ c > p /\ \A q \in F : ~(p - 1 < q /\ q <= c - 1)
    <3>1. CASE e.t = "end" /\ ~del
      <4>1. c = beyond
        BY <3>1
      <4> HIDE DEF c
      <4> QED
        BY <1>3, <1>4, <1>9, <2>1, <2>3, <3>1, <4>1
    <3>2. CASE ~(e.t = "end" /\ ~del)
      <4>1. c = p + 1
        BY <3>2
      <4> HIDE DEF c
      <4> QED
        BY <1>2, <1>4, <2>2, <4>1
    <3> QED
      BY <3>1, <3>2
  <2>5. to = [x EXCEPT !.i = c]
    BY <1>5, <1>9
  <2> HIDE DEF c
  <2>6. [x EXCEPT !.i = c] \in ExFatListing(img, v, kept, slots, del, k)
    BY <1>7, <2>4, Zenon
  <2> QED
    BY <2>5, <2>6 DEF to
<1>10. CASE ~(p >= beyond) /\ e.t = "file"
  <2>1. p \in 1..Len(slots)
    BY <1>2, <1>3, <1>10
  <2>2. /\ p \in 1..Len(kept) /\ e = kept[p] /\ e \in ExFatEntries
        /\ e.secondary \in Nat \ {0} /\ p + e.secondary <= Len(kept) /\ s.t = "stream"
        /\ \A q \in (p + 1)..(p + e.secondary) : kept[q].t # "file"
    BY <1>10, <2>1, SetInOrder, SMTT(20)
  <2> DEFINE c == p + set
  <2>3. /\ c \in Nat \ {0} /\ c > p /\ ~(c > beyond) /\ ~(p + 1 >= beyond) /\ c >= k + 1 /\ c = p + 1 + e.secondary
        /\ c - 1 = p + e.secondary /\ c - 1 \in Int /\ p <= c - 1
    <3> DEFINE more == e.secondary
    <3>1. more \in Nat \ {0} /\ p + more <= Len(kept) /\ c = p + (1 + more)
      BY <2>2
    <3> HIDE DEF more, c, p, e
    <3>2. c \in Nat \ {0} /\ c > p /\ ~(c > beyond) /\ ~(p + 1 >= beyond) /\ c >= k + 1 /\ c = p + 1 + more
          /\ c - 1 = p + more /\ c - 1 \in Int /\ p <= c - 1
      BY <1>2, <1>3, <3>1
    <3> QED
      BY <3>2 DEF more
  <2>4. \A q \in F : ~(p < q /\ q <= c - 1)
    <3> TAKE q \in F
    <3>1. ASSUME p < q, q <= c - 1 PROVE FALSE
      <4>1. q \in (p + 1)..(p + e.secondary)
        <5> HIDE DEF c
        <5> QED
          BY <1>2, <1>4, <2>3, <3>1
      <4> QED
        BY <1>4, <2>2, <4>1
    <3> QED
      BY <3>1
  <2>5. to = IF e.deleted # del THEN [x EXCEPT !.i = c] ELSE [i |-> c, out |-> Append(x.out, file)]
    <3> HIDE DEF c, e, s, file, p, beyond, to
    <3>1. to = IF e.deleted # del THEN [x EXCEPT !.i = c]
               ELSE IF c > beyond THEN [x EXCEPT !.i = beyond]
               ELSE IF p + 1 >= beyond \/ s.t # "stream" THEN [x EXCEPT !.i = p + 1]
               ELSE [i |-> c, out |-> Append(x.out, file)]
      BY <1>5, <1>10, Zenon DEF c
    <3> QED
      BY <2>2, <2>3, <3>1, Zenon
  <2>6. CASE e.deleted # del
    <3>1. p \notin F
      BY <1>4, <2>2, <2>6
    <3> HIDE DEF c, F, p
    <3>2. \A q \in F : ~(p - 1 < q /\ q <= c - 1)
      BY <1>2, <1>4, <2>4, <3>1
    <3>3. [x EXCEPT !.i = c] \in ExFatListing(img, v, kept, slots, del, k)
      <4>1. c \in Nat /\ c > p
        BY <2>3
      <4> QED
        BY <1>7, <3>2, <4>1, Zenon
    <3> HIDE DEF to
    <3> QED
      BY <2>5, <2>6, <3>3 DEF to
  <2>7. CASE e.deleted = del
    <3> DEFINE more == Append(x.out, file)
    <3>1. p \in F
      BY <1>3, <1>10, <2>2, <2>7 DEF ExFatFileSlots
    <3>2. IsFiles(files) /\ Placed(files, F) /\ DOMAIN files = 1..Len(files)
      BY DEF IsFiles
    <3>3. ASSUME NEW j \in 1..Len(files), files[j].slot = p PROVE file \in P[j]
      <4>1. ExFatFileInOrder(img, kept, files[j], del)
        BY <3>2
      <4>2. file \in ExFatRight(img, v, kept, slots, files[j])
        BY <1>10, <2>1, <3>3, <4>1, ExFatRecordRight, Zenon
      <4>3. P[j] = ExFatRight(img, v, kept, slots, files[j])
        BY DEF ExFatAllRight
      <4> QED
        BY <4>2, <4>3
    <3>4. file \in L
      <4>1. s \in ExFatStreams
        BY <1>10, <2>1, SetInOrder
      <4>2. p \in Nat /\ e.secondary \in Nat
        BY <1>2, <2>2
      <4> HIDE DEF e, s, p
      <4> QED
        BY <2>2, <4>1, <4>2 DEF ExFatListable
    <3> HIDE DEF file, L, P, F, files, p, c
    <3>5. more \in Seq(L)
      BY <1>2, <3>4
    <3>6. SeenUpTo(files, P, more, p)
      <4>1. p \in Nat /\ p - 1 \in Int /\ p - 1 < p
        BY <1>2
      <4>2. \A q \in F : ~(p - 1 < q /\ q < p)
        BY <1>2, <1>4
      <4> QED
        BY <1>1, <1>2, <3>1, <3>2, <3>3, <3>4, <4>1, <4>2, SeenOne
    <3> HIDE DEF more
    <3>7. SeenUpTo(files, P, more, c - 1)
      <4>1. p \in Int
        BY <1>2
      <4> QED
        BY <2>3, <2>4, <3>2, <3>6, <4>1, SeenNone, Zenon
    <3>8. [i |-> c, out |-> more] \in ExFatListing(img, v, kept, slots, del, k)
      BY <1>6, <2>3, <3>5, <3>7, Zenon
    <3> HIDE DEF to
    <3> QED
      BY <2>5, <2>7, <3>8 DEF to, more
  <2> QED
    BY <2>6, <2>7
<1> QED
  BY <1>8, <1>9, <1>10

(* The cluster of the root directory is read whole, and end marks stand      *)
(* behind its slots.                                                         *)
LEMMA ExFatSlotsKept ==
  ASSUME NEW img, img.size \in Nat, img.part \in Nat, img.boot \in ExFatBoots, Filed(img, ExFatSlots),
         ExFatInOrder(img), NEW v, IsExFat(v), ExFatFinds(img, v)
  PROVE  KeptSlots(img.dir[img.boot.root], ExFatDirectory(img, v)) /\ ~(v.size > MaxCluster)
<1> DEFINE kept == img.dir[img.boot.root]
           root == img.boot.root
           n == Shifted(img.boot.bpsShift - 9) * Shifted(img.boot.spcShift)
           slots == ExFatDirectory(img, v)
<1>1. /\ root >= 2 /\ root \in DOMAIN img.dir /\ Readable(img, ExFatAt(img, root), n) /\ n <= MaxCluster
      /\ Len(kept) <= n /\ ExFatSetsInOrder(kept)
  BY Zenon DEF ExFatInOrder
<1>2. kept \in Seq(ExFatSlots) /\ root \in Nat
  <2>1. root \in Nat
    BY DEF ExFatBoots
  <2> HIDE DEF root
  <2> QED
    BY <1>1, <2>1 DEF Filed, root
<1>3. v.size = n /\ v.root = root /\ n \in Nat \ {0}
  <2>1. v.size = n /\ v.root = root
    BY Zenon DEF ExFatFinds
  <2>2. v.size \in Nat \ {0}
    BY Zenon DEF IsExFat
  <2> QED
    BY <2>1, <2>2
<1>4. ExFatOffset(v, v.root) = ExFatAt(img, root) /\ ExFatAt(img, root) \in Nat
  <2>1. ExFatOffset(v, root) = ExFatAt(img, root) /\ ExFatAt(img, root) \in Nat
    BY <1>1, <1>2, ExFatOffsetInOrder, Zenon
  <2> QED
    BY <1>3, <2>1
<1>5. SlotsOf(img, v.root) = kept
  BY <1>1, <1>3, Zenon DEF SlotsOf
<1> HIDE DEF kept, n
<1>6. Len(kept) \in Nat
  BY <1>2
<1>7. DirectorySlots(img, ExFatAt(img, root), n, kept, <<>>) = Padded(kept, n)
  BY <1>1, <1>3, <1>4, <1>6, DirectorySlotsInOrder
<1>8. slots = Padded(kept, n)
  BY <1>3, <1>4, <1>5, <1>7, Zenon DEF ExFatDirectory
<1> HIDE DEF slots
<1>9. [t |-> "end"] \in ExFatSlots
  BY DEF ExFatSlots
<1>10. /\ slots \in Seq(ExFatSlots) /\ Len(slots) = n
       /\ \A k \in 1..n : slots[k] = IF k <= Len(kept) THEN kept[k] ELSE [t |-> "end"]
  <2>1. n \in Nat
    BY <1>3
  <2>2. /\ Padded(kept, n) \in Seq(ExFatSlots) /\ Len(Padded(kept, n)) = n
        /\ \A k \in 1..n : Padded(kept, n)[k] = IF k <= Len(kept) THEN kept[k] ELSE [t |-> "end"]
    BY <1>2, <1>9, <2>1, PaddedIs, Zenon
  <2> QED
    BY <1>8, <2>2, Zenon
<1>11. KeptSlots(kept, slots)
  BY <1>1, <1>2, <1>10 DEF KeptSlots
<1>12. ~(v.size > MaxCluster)
  BY <1>1, <1>3, VolumeAssumption
<1> QED
  BY <1>11, <1>12 DEF kept, slots

(* listDirectory and findDeletedFiles of exFAT list the files, each under its*)
(* name.                                                                     *)
LEMMA ExFatListInOrder ==
  ASSUME NEW img, NEW v, NEW kept, KeptSlots(kept, ExFatDirectory(img, v)), ~(v.size > MaxCluster),
         NEW del \in BOOLEAN, IsFiles(img.truth[del]), Placed(img.truth[del], ExFatFileSlots(kept, del)),
         \A j \in DOMAIN img.truth[del] : ExFatFileInOrder(img, kept, img.truth[del][j], del)
  PROVE  /\ Len(ExFatList(img, v, del)) = Len(img.truth[del])
         /\ \A j \in 1..Len(img.truth[del]) :
              ExFatList(img, v, del)[j] \in
                ExFatRight(img, v, kept, ExFatDirectory(img, v), img.truth[del][j])
<1> DEFINE slots == ExFatDirectory(img, v)
           files == img.truth[del]
           P == ExFatAllRight(img, v, kept, slots, files)
<1>a. Len(slots) \in Nat /\ Len(kept) \in Nat /\ Len(kept) <= Len(slots) /\ DOMAIN kept = 1..Len(kept)
  BY DEF KeptSlots
<1>b. \A j \in 1..Len(files) : files[j].slot \in 1..Len(kept)
  <2>1. DOMAIN files = 1..Len(files)
    BY DEF IsFiles
  <2>2. \A j \in DOMAIN files : files[j].slot \in ExFatFileSlots(kept, del)
    BY DEF Placed
  <2>3. ExFatFileSlots(kept, del) \subseteq 1..Len(kept)
    BY <1>a DEF ExFatFileSlots
  <2> QED
    BY <2>1, <2>2, <2>3
<1>c. ExFatList(img, v, del) = ExFatSets(img, v, slots, del)
  BY Zenon DEF ExFatList, ExFatDirectory
<1> DEFINE n == Len(slots)
           a == [i |-> 1, out |-> <<>>]
           T == [k \in 0..n |-> ExFatListing(img, v, kept, slots, del, k)]
           Step(x, k) == ExFatSet(img, v, slots, del, x)
           f[k \in 0..n] == IF k = 0 THEN a ELSE Step(f[k - 1], k)
           G == [k \in 1..n |-> [x \in T[k - 1] |-> Step(x, k)]]
<1>1. ExFatSets(img, v, slots, del) = f[n].out
  BY Zenon DEF ExFatSets, Iterate
<1>2. n \in Nat /\ a \in T[0]
  <2> DEFINE L == ExFatListable(img, v, slots)
  <2>1. a \in [i : Nat \ {0}, out : Seq(L)] /\ a.out = <<>> /\ a.i = 1
    <3> HIDE DEF L
    <3> QED
      OBVIOUS
  <2> HIDE DEF a
  <2>2. SeenUpTo(files, P, <<>>, 1 - 1)
    <3>1. \A j \in 1..Len(files) : files[j].slot > 1 - 1
      BY <1>a, <1>b
    <3>2. 1 - 1 \in Int
      OBVIOUS
    <3> HIDE DEF files, P
    <3>3. IsFiles(files)
      BY DEF files
    <3> QED
      BY <3>1, <3>2, <3>3, SeenNothing, Zenon
  <2>3. 1 >= 0 + 1
    OBVIOUS
  <2>4. a \in ExFatListing(img, v, kept, slots, del, 0)
    BY <2>1, <2>2, <2>3, Zenon DEF ExFatListing
  <2> QED
    BY <1>a, <2>4
<1>3. ASSUME NEW k \in 1..n, NEW x \in T[k - 1] PROVE Step(x, k) \in T[k]
  <2>1. k - 1 \in 0..n /\ k \in 0..n /\ k \in 1..Len(slots)
    BY <1>a
  <2>2. x \in ExFatListing(img, v, kept, slots, del, k - 1)
    BY <2>1
  <2>3. ExFatSet(img, v, slots, del, x) \in ExFatListing(img, v, kept, slots, del, k)
    BY <2>1, <2>2, ExFatSetInOrder, Zenon
  <2> QED
    BY <2>1, <2>3
<1>4. \A k \in 1..n : \A x \in T[k - 1] : G[k][x] = Step(x, k)
  OBVIOUS
<1> HIDE DEF n, a, T, Step, G
<1>5. \A k \in 1..n : \A x \in T[k - 1] : G[k][x] \in T[k]
  BY <1>3, <1>4
<1>6. HasCourse(n, T, a, G)
  BY <1>2, <1>5, CourseInExists, Zenon
<1>7. PICK S, g : /\ g \in [0..n -> S] /\ g[0] = a
                  /\ \A k \in 1..n : g[k] = G[k][g[k - 1]]
                  /\ \A k \in 0..n : g[k] \in T[k]
  BY <1>6, Zenon DEF HasCourse
<1>8. \A k \in 1..n : g[k] = Step(g[k - 1], k)
  <2>1. \A k \in 1..n : k - 1 \in 0..n
    BY <1>2
  <2> QED
    BY <1>4, <1>7, <2>1
<1>9. g = [k \in 0..n |-> IF k = 0 THEN a ELSE Step(g[k - 1], k)]
  BY <1>7, <1>8
<1>10. f = [k \in 0..n |-> IF k = 0 THEN a ELSE Step(f[k - 1], k)]
  BY <1>9, Zenon
<1> HIDE DEF f
<1>11. f[0] \in T[0] /\ \A k \in 1..n : f[k - 1] \in T[k - 1] => f[k] \in T[k]
  <2>1. 0 \in 0..n /\ \A k \in 1..n : k \in 0..n /\ k # 0
    BY <1>2
  <2>2. f[0] = a /\ \A k \in 1..n : f[k] = Step(f[k - 1], k)
    BY <1>10, <2>1, Zenon
  <2> QED
    BY <1>2, <1>3, <2>2, Zenon
<1>12. f[n] \in T[n]
  BY <1>2, <1>11, TurnByTurnIn, Zenon
<1> QED
  <2>1. f[n] \in ExFatListing(img, v, kept, slots, del, n)
    BY <1>2, <1>12 DEF T
  <2> DEFINE out == f[n].out
             last == f[n].i
  <2>2. SeenUpTo(files, P, out, last - 1) /\ last >= n + 1
    BY <2>1, Zenon DEF ExFatListing
  <2>3. last \in Nat
    BY <2>1 DEF ExFatListing
  <2>4. n = Len(slots)
    BY DEF n
  <2> HIDE DEF out, last, n, slots
  <2>5. last - 1 \in Int /\ \A j \in 1..Len(files) : files[j].slot <= last - 1
    BY <1>a, <1>b, <2>2, <2>3, <2>4
  <2>6. IsFiles(files)
    OBVIOUS
  <2> HIDE DEF files, P
  <2>7. Len(out) = Len(files) /\ \A j \in 1..Len(files) : out[j] \in P[j]
    BY <2>2, <2>5, <2>6, SeenAll, Zenon
  <2>8. \A j \in 1..Len(files) : P[j] = ExFatRight(img, v, kept, slots, files[j])
    BY DEF P, ExFatAllRight
  <2>9. ExFatList(img, v, del) = out
    BY <1>1, <1>c, Zenon DEF out
  <2> QED
    BY <2>7, <2>8, <2>9 DEF files, slots

(* What is listed and extracted of an exFAT volume in order is right for the   *)
(* files, in their order.                                                     *)
LEMMA ExFatReadsRightly ==
  ASSUME NEW img, img.size \in Nat, img.boot \in ExFatBoots, img.part \in Nat, img.kind = "exfat",
         Linking(img), Filed(img, ExFatSlots), Described(img), ExFatInOrder(img),
         NEW v, v = ExFatProbe(img, img.part), v # NoVolume, NEW del \in BOOLEAN
  PROVE  /\ Len(ExFatList(img, v, del)) = Len(img.truth[del])
         /\ \A j \in 1..Len(img.truth[del]) :
              /\ ExFatList(img, v, del)[j].name = img.truth[del][j].name
              /\ Extracts(ExFatExtract(img, v, ExFatList(img, v, del)[j]), img.truth[del][j].blocks, del)
<1> DEFINE out == ExFatList(img, v, del)
           files == img.truth[del]
           kept == img.dir[img.boot.root]
           slots == ExFatDirectory(img, v)
<1>1. IsExFat(v)
  BY ExFatProbeFinds, Zenon
<1>2. ExFatFinds(img, v)
  BY ExFatProbeInOrder, Zenon
<1>3. KeptSlots(kept, slots) /\ ~(v.size > MaxCluster)
  BY <1>1, <1>2, ExFatSlotsKept, Zenon
<1>4. IsFiles(files) /\ Placed(files, ExFatFileSlots(kept, del))
      /\ \A j \in DOMAIN files : ExFatFileInOrder(img, kept, files[j], del)
  BY FilesInOrder, ExFatFilesPlaced, Zenon
<1>5. /\ Len(out) = Len(files)
      /\ \A j \in 1..Len(files) : out[j] \in ExFatRight(img, v, kept, slots, files[j])
  BY <1>3, <1>4, ExFatListInOrder, Zenon
<1> HIDE DEF out, slots, kept
<1>6. ASSUME NEW j \in 1..Len(files)
      PROVE  out[j].name = files[j].name /\ Extracts(ExFatExtract(img, v, out[j]), files[j].blocks, del)
  <2> DEFINE r == out[j]
             file == files[j]
             s == kept[file.slot + 1]
  <2>1. j \in DOMAIN files
    BY <1>4 DEF IsFiles
  <2>2. r.name = file.name /\ r.size = s.length /\ r.start = s.first /\ r.runs = ExFatRuns(img, v, s)
    BY <1>5, Zenon DEF ExFatRight
  <2>3. ExFatFileInOrder(img, kept, file, del)
    BY <1>4, <2>1
  <2>4. /\ s.length = Len(file.blocks) /\ (file.chain # <<>> => s.first = file.chain[1])
        /\ \A k \in DOMAIN file.chain : file.chain[k] >= 2 /\ file.chain[k] < 2 + img.boot.count
        /\ IF s.noFatChain THEN \A k \in DOMAIN file.chain : file.chain[k] = s.first + k - 1
           ELSE Chained(img, img.part + img.boot.fatOffset * Shifted(img.boot.bpsShift - 9), file.chain, del)
        /\ StandsIn(img, file.blocks, Clusters([k \in DOMAIN file.chain |-> ExFatAt(img, file.chain[k])],
                                               Shifted(img.boot.bpsShift - 9) * Shifted(img.boot.spcShift)))
    BY <2>3, Zenon DEF ExFatFileInOrder
  <2>5. file.blocks \in Seq(Nat) /\ Len(file.blocks) <= MaxExtract /\ file.chain \in Seq(Nat)
    <3>1. "exfat" # "ntfs"
      OBVIOUS
    <3> QED
      BY <2>1, <3>1, Zenon DEF Described, Promised
  <2> HIDE DEF r, s, file, files
  <2>6. s.noFatChain => \A k \in DOMAIN file.chain : file.chain[k] = file.chain[1] + k - 1
    <3>1. CASE file.chain = <<>>
      BY <3>1
    <3>2. CASE file.chain # <<>>
      BY <2>4, <3>2
    <3> QED
      BY <3>1, <3>2
  <2>7. ExFatContent(img, file.blocks, file.chain, s, del)
    BY <2>4, <2>5, <2>6, Zenon DEF ExFatContent
  <2>8. Extracts(ExFatExtract(img, v, r), file.blocks, del)
    <3>1. ExFatStreamed(img, v, s, file.blocks, file.chain, r)
      BY <2>2, <2>4, Zenon DEF ExFatStreamed
    <3> QED
      BY <1>1, <1>2, <2>7, <3>1, ExFatExtractInOrder, Zenon
  <2> QED
    BY <2>2, <2>8, Zenon DEF r, file
<1> QED
  BY <1>5, <1>6, Zenon DEF out
-----------------------------------------------------------------------------
(* NTFS.  A run list that spells runs is read as them.                         *)
PlainUpto(runs, k) == [j \in 1..k |-> [start |-> runs[j].start, count |-> runs[j].count]]

RunsOfFiles == [vcn : Nat, start : Nat, count : Nat \ {0}]

(* The first k runs are the first k - 1 and one more.                        *)
LEMMA PlainGrows ==
  ASSUME NEW runs \in Seq(RunsOfFiles), NEW k \in 1..Len(runs)
  PROVE  /\ PlainUpto(runs, k - 1) \in Seq(NtfsRuns) /\ PlainUpto(runs, k) \in Seq(NtfsRuns)
         /\ Append(PlainUpto(runs, k - 1), [start |-> runs[k].start, count |-> runs[k].count])
              = PlainUpto(runs, k)
<1> DEFINE p == PlainUpto(runs, k - 1)
           q == PlainUpto(runs, k)
           r == [start |-> runs[k].start, count |-> runs[k].count]
           w == Append(p, r)
<1>1. \A j \in 1..Len(runs) : [start |-> runs[j].start, count |-> runs[j].count] \in NtfsRuns
  <2> TAKE j \in 1..Len(runs)
  <2>1. runs[j] \in RunsOfFiles
    BY ElementOfSeq, Zenon
  <2> QED
    BY <2>1 DEF NtfsRuns, RunsOfFiles
<1>2. k - 1 \in Nat /\ k \in Nat /\ (\A j \in 1..k : j \in 1..Len(runs)) /\ (\A j \in 1..(k - 1) : j \in 1..k)
  OBVIOUS
<1>3. p \in [1..(k - 1) -> NtfsRuns] /\ q \in [1..k -> NtfsRuns]
  BY <1>1, <1>2 DEF PlainUpto
<1>4. q[k] = r /\ \A j \in 1..(k - 1) : p[j] = q[j]
  BY <1>2 DEF PlainUpto
<1>5. r \in NtfsRuns
  BY <1>1
<1> HIDE DEF p, q, r
<1>6. p \in Seq(NtfsRuns) /\ Len(p) = k - 1 /\ q \in Seq(NtfsRuns) /\ Len(q) = k
  BY <1>2, <1>3
<1>7. w \in Seq(NtfsRuns) /\ Len(w) = k /\ w[k] = r /\ \A j \in 1..(k - 1) : w[j] = p[j]
  BY <1>2, <1>5, <1>6
<1> HIDE DEF w
<1>8. \A j \in 1..Len(w) : w[j] = q[j]
  BY <1>2, <1>4, <1>7
<1>9. w = q
  BY <1>6, <1>7, <1>8, SeqEqual, Zenon
<1> QED
  BY <1>6, <1>9 DEF w, p, q, r

DecodedUpto(runs, k) ==
  [lcn |-> IF k = 0 THEN 0 ELSE runs[k].start, runs |-> PlainUpto(runs, k), go |-> TRUE]

ReadsRuns(list, runs) == ParseRunlist(list) = PlainUpto(runs, Len(runs))

(* parseRunlist sums up the differences to the runs the list was made of.    *)
LEMMA RunlistSpells ==
  ASSUME NEW runs \in Seq(RunsOfFiles), NEW list \in Seq(RunHeaders), ListSpells(list, runs)
  PROVE  ReadsRuns(list, runs)
<1>a. Len(list) = Len(runs) /\ Len(runs) \in Nat /\ DOMAIN list = 1..Len(list)
      /\ \A k \in 1..Len(runs) :
           /\ list[k].valid /\ ~list[k].sparse /\ list[k].length = runs[k].count
           /\ list[k].delta = runs[k].start - (IF k = 1 THEN 0 ELSE runs[k - 1].start)
  BY DEF ListSpells
<1> DEFINE n == Len(list)
           a == [lcn |-> 0, runs |-> <<>>, go |-> TRUE]
           T == [k \in 0..n |-> {DecodedUpto(runs, k)}]
           Step(x, k) == Decoded(x, list[k])
           f[k \in 0..n] == IF k = 0 THEN a ELSE Step(f[k - 1], k)
           G == [k \in 1..n |-> [x \in T[k - 1] |-> Step(x, k)]]
<1>1. ParseRunlist(list) = f[n].runs
  BY Zenon DEF ParseRunlist, Iterate
<1>2. n \in Nat /\ a \in T[0]
  <2>1. PlainUpto(runs, 0) = <<>>
    BY DEF PlainUpto
  <2>2. a = DecodedUpto(runs, 0)
    BY <2>1 DEF DecodedUpto
  <2> QED
    BY <1>a, <2>2
<1>3. ASSUME NEW k \in 1..n, NEW x \in T[k - 1] PROVE Step(x, k) \in T[k]
  <2> DEFINE h == list[k]
             to == runs[k].start
             by == IF k = 1 THEN 0 ELSE runs[k - 1].start
             lcn == x.lcn + (IF h.sparse THEN 0 ELSE h.delta)
             grown == IF lcn < 0 THEN x.runs ELSE Append(x.runs, [start |-> lcn, count |-> h.length])
  <2>1. k \in 1..Len(runs) /\ k - 1 \in 0..n /\ k \in 0..n /\ k # 0
    BY <1>a
  <2>2. x = DecodedUpto(runs, k - 1)
    BY <2>1
  <2>3. to \in Nat /\ by \in Nat
    <3>1. runs[k] \in RunsOfFiles
      BY <2>1, ElementOfSeq, Zenon
    <3>2. k # 1 => k - 1 \in 1..Len(runs)
      BY <1>a, <2>1
    <3>3. k # 1 => runs[k - 1] \in RunsOfFiles
      BY <3>2, ElementOfSeq, Zenon
    <3> QED
      BY <3>1, <3>3 DEF RunsOfFiles
  <2>4. x.lcn = by /\ x.runs = PlainUpto(runs, k - 1) /\ x.go = TRUE
    <3>1. (IF k - 1 = 0 THEN 0 ELSE runs[k - 1].start) = by
      BY <2>1
    <3> QED
      BY <2>2, <3>1 DEF DecodedUpto
  <2>5. h.valid /\ ~h.sparse /\ h.length = runs[k].count /\ h.delta = to - by
    BY <1>a, <2>1
  <2>6. Decoded(x, h) = IF ~x.go \/ ~h.valid THEN [x EXCEPT !.go = FALSE]
                        ELSE [lcn |-> lcn, go |-> TRUE, runs |-> grown]
    BY Zenon DEF Decoded
  <2> DEFINE d == h.delta
  <2>7. lcn = x.lcn + d
    BY <2>5
  <2> HIDE DEF to, by, lcn, h, d
  <2>8. lcn = to /\ ~(lcn < 0)
    <3>1. d = to - by /\ x.lcn = by
      BY <2>4, <2>5 DEF d
    <3> QED
      BY <2>3, <2>7, <3>1
  <2>9. grown = PlainUpto(runs, k)
    <3>1. Append(PlainUpto(runs, k - 1), [start |-> runs[k].start, count |-> runs[k].count])
              = PlainUpto(runs, k)
      BY <2>1, PlainGrows
    <3> QED
      BY <2>4, <2>5, <2>8, <3>1 DEF to
  <2> HIDE DEF grown
  <2>10. Decoded(x, h) = DecodedUpto(runs, k)
    BY <2>1, <2>4, <2>5, <2>6, <2>8, <2>9 DEF DecodedUpto, to
  <2> QED
    BY <2>1, <2>10 DEF h
<1>4. \A k \in 1..n : \A x \in T[k - 1] : G[k][x] = Step(x, k)
  OBVIOUS
<1> HIDE DEF n, a, T, Step, G
<1>5. \A k \in 1..n : \A x \in T[k - 1] : G[k][x] \in T[k]
  BY <1>3, <1>4
<1>6. HasCourse(n, T, a, G)
  BY <1>2, <1>5, CourseInExists, Zenon
<1>7. PICK S, g : /\ g \in [0..n -> S] /\ g[0] = a
                  /\ \A k \in 1..n : g[k] = G[k][g[k - 1]]
                  /\ \A k \in 0..n : g[k] \in T[k]
  BY <1>6, Zenon DEF HasCourse
<1>8. \A k \in 1..n : g[k] = Step(g[k - 1], k)
  <2>1. \A k \in 1..n : k - 1 \in 0..n
    BY <1>2
  <2> QED
    BY <1>4, <1>7, <2>1
<1>9. g = [k \in 0..n |-> IF k = 0 THEN a ELSE Step(g[k - 1], k)]
  BY <1>7, <1>8
<1>10. f = [k \in 0..n |-> IF k = 0 THEN a ELSE Step(f[k - 1], k)]
  BY <1>9, Zenon
<1> HIDE DEF f
<1>11. f[0] \in T[0] /\ \A k \in 1..n : f[k - 1] \in T[k - 1] => f[k] \in T[k]
  <2>1. 0 \in 0..n /\ \A k \in 1..n : k \in 0..n /\ k # 0
    BY <1>2
  <2>2. f[0] = a /\ \A k \in 1..n : f[k] = Step(f[k - 1], k)
    BY <1>10, <2>1, Zenon
  <2> QED
    BY <1>2, <1>3, <2>2, Zenon
<1>12. f[n] \in T[n]
  BY <1>2, <1>11, TurnByTurnIn, Zenon
<1> QED
  <2>1. f[n] = DecodedUpto(runs, Len(runs))
    BY <1>a, <1>2, <1>12 DEF T, n
  <2>2. DecodedUpto(runs, Len(runs)).runs = PlainUpto(runs, Len(runs))
    BY DEF DecodedUpto
  <2> QED
    BY <1>1, <2>1, <2>2 DEF ReadsRuns

(* Of a record without broken attributes all are walked.                       *)
WalkedWhole(rec) == Walked(rec) = rec.attrs

(* The walk over attributes of which none is broken sees them all.           *)
LEMMA WalksAll ==
  ASSUME NEW rec, rec.attrs \in Seq(NtfsAttributes), \A q \in DOMAIN rec.attrs : ~rec.attrs[q].broken
  PROVE  WalkedWhole(rec)
<1> DEFINE broken == {k \in DOMAIN rec.attrs : rec.attrs[k].broken}
           n == Len(rec.attrs)
<1>1. Walked(rec) = SubSeq(rec.attrs, 1, Min(broken \cup {n + 1}) - 1)
  BY Zenon DEF Walked
<1>2. broken = {} /\ n \in Nat
  OBVIOUS
<1> HIDE DEF broken
<1>3. broken \cup {n + 1} = {n + 1}
  BY <1>2
<1>4. Min({n + 1}) = n + 1
  <2>1. {n + 1} \in SUBSET Nat /\ {n + 1} # {}
    BY <1>2
  <2> DEFINE m == Min({n + 1})
  <2>2. m \in {n + 1}
    BY <2>1, LeastOfSet, Zenon
  <2> HIDE DEF m
  <2>3. m = n + 1
    BY <2>2
  <2> QED
    BY <2>3 DEF m
<1>5. Min({n + 1}) - 1 = n
  BY <1>2, <1>4
<1>6. SubSeq(rec.attrs, 1, n) = rec.attrs
  OBVIOUS
<1> QED
  BY <1>1, <1>3, <1>5, <1>6 DEF WalkedWhole
-----------------------------------------------------------------------------
(* What an attribute changes of what was gathered.                             *)
Changes(x, a, y) ==
  /\ IsName(a) =>
       /\ y.name = IF x.name = "" \/ ~a.dos THEN a.name ELSE x.name
       /\ y.size = IF x.size = 0 THEN a.size ELSE x.size
       /\ y.runs = x.runs /\ y.resident = x.resident /\ y.at = x.at
  /\ ~IsName(a) => y.name = x.name
  /\ a.t = "data" /\ a.fits /\ a.resident =>
       /\ y.size = a.size /\ y.resident = a.size /\ y.at = a.at /\ y.runs = x.runs
  /\ a.t = "data" /\ a.fits /\ ~a.resident =>
       /\ y.size = a.size /\ y.runs = ParseRunlist(a.list)
       /\ y.resident = x.resident /\ y.at = x.at
  /\ ~IsName(a) /\ a.t # "data" => y = x

(* What one attribute changes: a name the name, the content size, runs and   *)
(* place.                                                                    *)
LEMMA AttributeTells ==
  ASSUME NEW x \in Gathered, NEW a
  PROVE  Changes(x, a, Attribute(x, a))
<1> DEFINE Q == Seq(NtfsRuns)
           y == Attribute(x, a)
           nm == IF x.name = "" \/ ~a.dos THEN a.name ELSE x.name
           sz == IF x.size = 0 THEN a.size ELSE x.size
<1>1. x \in [name : RecordNames, size : Nat, runs : Q, resident : Nat, at : Nat]
  BY Zenon DEF Gathered
<1> HIDE DEF Q
<1>2. IsName(a) <=> a.t = "name" /\ a.resident /\ a.fits
  BY DEF IsName
<1>3. CASE IsName(a)
  <2>1. y = [x EXCEPT !.name = IF @ = "" \/ ~a.dos THEN a.name ELSE @,
                      !.size = IF @ = 0 THEN a.size ELSE @]
    BY <1>2, <1>3 DEF Attribute
  <2>2. [x EXCEPT !.name = IF @ = "" \/ ~a.dos THEN a.name ELSE @,
                  !.size = IF @ = 0 THEN a.size ELSE @] = [x EXCEPT !.name = nm, !.size = sz]
    BY <1>1
  <2>3. a.t # "data"
    BY <1>2, <1>3
  <2> HIDE DEF nm, sz, y
  <2>4. y = [x EXCEPT !.name = nm, !.size = sz]
    BY <2>1, <2>2, Zenon
  <2>5. y.name = nm /\ y.size = sz /\ y.runs = x.runs /\ y.resident = x.resident /\ y.at = x.at
    BY <1>1, <2>4
  <2> QED
    BY <1>3, <2>3, <2>5 DEF nm, sz, y, Changes
<1>4. CASE ~IsName(a) /\ a.t = "data" /\ a.fits /\ a.resident
  <2>1. y = [x EXCEPT !.size = a.size, !.resident = a.size, !.at = a.at]
    BY <1>2, <1>4 DEF Attribute
  <2> HIDE DEF y
  <2>2. y.name = x.name /\ y.size = a.size /\ y.resident = a.size /\ y.at = a.at /\ y.runs = x.runs
    BY <1>1, <2>1
  <2> QED
    BY <1>4, <2>2 DEF y, Changes
<1>5. CASE ~IsName(a) /\ a.t = "data" /\ ~a.resident
  <2> DEFINE rs == IF a.fits THEN ParseRunlist(a.list) ELSE x.runs
  <2>1. y = [x EXCEPT !.size = a.size, !.runs = IF a.fits THEN ParseRunlist(a.list) ELSE @]
    BY <1>2, <1>5 DEF Attribute
  <2>2. [x EXCEPT !.size = a.size, !.runs = IF a.fits THEN ParseRunlist(a.list) ELSE @]
          = [x EXCEPT !.size = a.size, !.runs = rs]
    BY Zenon
  <2> HIDE DEF y, rs
  <2>3. y = [x EXCEPT !.size = a.size, !.runs = rs]
    BY <2>1, <2>2, Zenon
  <2>4. y.name = x.name /\ y.size = a.size /\ y.resident = x.resident /\ y.at = x.at /\ y.runs = rs
    BY <1>1, <2>3
  <2> QED
    BY <1>5, <2>4 DEF y, rs, Changes
<1>6. CASE ~IsName(a) /\ ~(a.t = "data" /\ a.resident /\ a.fits) /\ ~(a.t = "data" /\ ~a.resident)
  <2>1. y = x
    BY <1>2, <1>6 DEF Attribute
  <2> HIDE DEF y
  <2> QED
    BY <1>6, <2>1 DEF y, Changes
<1> QED
  BY <1>3, <1>4, <1>5, <1>6

(* What holds of what was gathered, attribute by attribute.                    *)
NothingGathered == [name |-> "", size |-> 0, runs |-> <<>>, resident |-> 0, at |-> 0]

(* Before the first attribute nothing is known.                              *)
LEMMA NothingIsGathered ==
  NothingGathered \in Gathered /\ NothingGathered.name = "" /\ NothingGathered.size = 0
  /\ NothingGathered.runs = <<>> /\ NothingGathered.resident = 0 /\ NothingGathered.at = 0
<1> DEFINE Q == Seq(NtfsRuns)
<1>1. <<>> \in Q
  BY EmptySeq
<1>2. "" \in RecordNames
  BY Zenon DEF RecordNames
<1> HIDE DEF Q
<1>3. NothingGathered \in [name : RecordNames, size : Nat, runs : Q, resident : Nat, at : Nat]
  BY <1>1, <1>2 DEF NothingGathered
<1>4. NothingGathered \in Gathered
  BY <1>3, Zenon DEF Gathered, Q
<1> QED
  BY <1>4 DEF NothingGathered

(* What every attribute keeps, the walk over all of them ends with.          *)
LEMMA GatheredByTurns ==
  ASSUME NEW rec, rec.attrs \in Seq(NtfsAttributes), WalkedWhole(rec), NEW Q,
         NothingGathered \in Q[0],
         \A k \in 1..Len(rec.attrs) : \A x \in Q[k - 1] : Attribute(x, rec.attrs[k]) \in Q[k]
  PROVE  Attributes(rec) \in Q[Len(rec.attrs)]
<1>a. Walked(rec) = rec.attrs
  BY DEF WalkedWhole
<1> DEFINE attrs == Walked(rec)
           n == Len(attrs)
           a == NothingGathered
           T == [k \in 0..n |-> Q[k]]
           Step(x, k) == Attribute(x, attrs[k])
           f[k \in 0..n] == IF k = 0 THEN a ELSE Step(f[k - 1], k)
           G == [k \in 1..n |-> [x \in T[k - 1] |-> Step(x, k)]]
<1>1. Attributes(rec) = f[n]
  BY Zenon DEF Attributes, NothingGathered, Iterate
<1>2. n \in Nat /\ a \in T[0]
  <2>1. n = Len(rec.attrs) /\ n \in Nat
    BY <1>a
  <2> QED
    BY <2>1
<1>3. ASSUME NEW k \in 1..n, NEW x \in T[k - 1] PROVE Step(x, k) \in T[k]
  <2>1. n = Len(rec.attrs) /\ n \in Nat /\ attrs[k] = rec.attrs[k]
    BY <1>a, <1>2
  <2> HIDE DEF n, attrs
  <2>2. k - 1 \in 0..n /\ k \in 0..n /\ k \in 1..Len(rec.attrs)
    BY <2>1
  <2> QED
    BY <2>1, <2>2
<1>4. \A k \in 1..n : \A x \in T[k - 1] : G[k][x] = Step(x, k)
  OBVIOUS
<1> HIDE DEF n, a, T, Step, G, attrs
<1>5. \A k \in 1..n : \A x \in T[k - 1] : G[k][x] \in T[k]
  BY <1>3, <1>4
<1>6. HasCourse(n, T, a, G)
  BY <1>2, <1>5, CourseInExists, Zenon
<1>7. PICK S, g : /\ g \in [0..n -> S] /\ g[0] = a
                  /\ \A k \in 1..n : g[k] = G[k][g[k - 1]]
                  /\ \A k \in 0..n : g[k] \in T[k]
  BY <1>6, Zenon DEF HasCourse
<1>8. \A k \in 1..n : g[k] = Step(g[k - 1], k)
  <2>1. \A k \in 1..n : k - 1 \in 0..n
    BY <1>2
  <2> QED
    BY <1>4, <1>7, <2>1
<1>9. g = [k \in 0..n |-> IF k = 0 THEN a ELSE Step(g[k - 1], k)]
  BY <1>7, <1>8
<1>10. f = [k \in 0..n |-> IF k = 0 THEN a ELSE Step(f[k - 1], k)]
  BY <1>9, Zenon
<1> HIDE DEF f
<1>11. f[0] \in T[0] /\ \A k \in 1..n : f[k - 1] \in T[k - 1] => f[k] \in T[k]
  <2>1. 0 \in 0..n /\ \A k \in 1..n : k \in 0..n /\ k # 0
    BY <1>2
  <2>2. f[0] = a /\ \A k \in 1..n : f[k] = Step(f[k - 1], k)
    BY <1>10, <2>1, Zenon
  <2> QED
    BY <1>2, <1>3, <2>2, Zenon
<1>12. f[n] \in T[n]
  BY <1>2, <1>11, TurnByTurnIn, Zenon
<1> QED
  <2>1. n = Len(rec.attrs) /\ n \in Nat
    BY <1>2, <1>a DEF n, attrs
  <2>2. f[n] \in Q[n]
    BY <1>12, <2>1 DEF T
  <2> QED
    BY <1>1, <2>1, <2>2

(* Without a name.                                                            *)
NoName(x) == x.name = ""

Unnamed(a) == IsName(a) => a.name = ""

(* The name of a record is the last one that is not a DOS name.                *)
LEMMA NameOfRecord ==
  ASSUME NEW rec, rec.attrs \in Seq(NtfsAttributes), WalkedWhole(rec), NEW q \in 1..Len(rec.attrs),
         IsName(rec.attrs[q]), ~rec.attrs[q].dos,
         \A r \in 1..Len(rec.attrs) : IsName(rec.attrs[r]) /\ r > q => rec.attrs[r].dos,
         ~NoName(rec.attrs[q])
  PROVE  Attributes(rec).name = rec.attrs[q].name
<1> DEFINE n == Len(rec.attrs)
           nm == rec.attrs[q].name
           Q == [k \in 0..n |-> {x \in Gathered : k >= q => x.name = nm}]
<1>1. n \in Nat /\ q \in 1..n
  OBVIOUS
<1>2. NothingGathered \in Q[0]
  <2>1. ~(0 >= q) /\ 0 \in 0..n
    BY <1>1
  <2> QED
    BY <2>1, NothingIsGathered
<1>3. ASSUME NEW k \in 1..n, NEW x \in Q[k - 1] PROVE Attribute(x, rec.attrs[k]) \in Q[k]
  <2> DEFINE a == rec.attrs[k]
             y == Attribute(x, a)
  <2>1. k - 1 \in 0..n /\ k \in 0..n
    BY <1>1
  <2>2. x \in Gathered /\ (k - 1 >= q => x.name = nm)
    BY <2>1
  <2>3. a \in NtfsAttributes
    BY ElementOfSeq, Zenon
  <2>4. y \in Gathered
    BY <2>2, <2>3, AttributeStays, Zenon
  <2>5. Changes(x, a, y)
    BY <2>2, AttributeTells, Zenon
  <2>6. IsName(a) /\ k > q => a.dos
    BY <1>1
  <2>7. k = q => IsName(a) /\ ~a.dos /\ a.name = nm
    BY <1>1
  <2> HIDE DEF y, a, nm
  <2>8. k >= q => y.name = nm
    <3>1. CASE k = q
      BY <2>5, <2>7, <3>1 DEF Changes
    <3>2. CASE k # q
      <4>1. ASSUME k >= q PROVE x.name = nm
        <5>1. k - 1 >= q
          BY <1>1, <3>2, <4>1
        <5> QED
          BY <2>2, <5>1
      <4>2. nm # ""
        BY DEF nm, NoName
      <4> QED
        <5>1. ASSUME k >= q, IsName(a) PROVE a.dos
          BY <1>1, <2>6, <3>2, <5>1
        <5> QED
          BY <2>5, <4>1, <4>2, <5>1, Zenon DEF Changes
    <3> QED
      BY <3>1, <3>2
  <2>9. y \in Q[k]
    BY <2>1, <2>4, <2>8
  <2> QED
    BY <2>9 DEF y, a
<1> HIDE DEF Q
<1>4. Attributes(rec) \in Q[n]
  BY <1>2, <1>3, GatheredByTurns, Zenon
<1> QED
  BY <1>1, <1>4 DEF Q

(* A record without a name is listed under none.                               *)
LEMMA NoNameOfRecord ==
  ASSUME NEW rec, rec.attrs \in Seq(NtfsAttributes), WalkedWhole(rec),
         \A r \in 1..Len(rec.attrs) : Unnamed(rec.attrs[r])
  PROVE  NoName(Attributes(rec))
<1> DEFINE n == Len(rec.attrs)
           Q == [k \in 0..n |-> {x \in Gathered : NoName(x)}]
<1>1. n \in Nat
  OBVIOUS
<1>2. NothingGathered \in Q[0]
  <2>1. 0 \in 0..n
    BY <1>1
  <2> QED
    BY <2>1, NothingIsGathered DEF NoName
<1>3. ASSUME NEW k \in 1..n, NEW x \in Q[k - 1] PROVE Attribute(x, rec.attrs[k]) \in Q[k]
  <2> DEFINE a == rec.attrs[k]
             y == Attribute(x, a)
  <2>1. k - 1 \in 0..n /\ k \in 0..n
    BY <1>1
  <2>2. x \in Gathered /\ NoName(x)
    BY <2>1
  <2>3. a \in NtfsAttributes
    BY ElementOfSeq, Zenon
  <2>4. y \in Gathered
    BY <2>2, <2>3, AttributeStays, Zenon
  <2>5. Changes(x, a, y)
    BY <2>2, AttributeTells, Zenon
  <2>6. Unnamed(a)
    OBVIOUS
  <2> HIDE DEF y, a
  <2>7. NoName(y)
    BY <2>2, <2>5, <2>6 DEF NoName, Unnamed, Changes
  <2>8. y \in Q[k]
    BY <2>1, <2>4, <2>7
  <2> QED
    BY <2>8 DEF y, a
<1> HIDE DEF Q
<1>4. Attributes(rec) \in Q[n]
  BY <1>2, <1>3, GatheredByTurns, Zenon
<1> QED
  BY <1>1, <1>4 DEF Q

(* The content of a record is what its only data attribute behind its names     *)
(* tells.                                                                     *)
Tells(x, a) ==
  /\ x.size = a.size
  /\ a.resident => x.resident = a.size /\ x.at = a.at /\ x.runs = <<>>
  /\ ~a.resident => x.runs = ParseRunlist(a.list) /\ x.resident = 0 /\ x.at = 0

(* The walk ends with what the one attribute of the content says.            *)
LEMMA ContentOfRecord ==
  ASSUME NEW rec, rec.attrs \in Seq(NtfsAttributes), WalkedWhole(rec), NEW q \in 1..Len(rec.attrs),
         rec.attrs[q].t = "data", rec.attrs[q].fits,
         \A r \in 1..Len(rec.attrs) :
           (rec.attrs[r].t = "data" => r = q) /\ (IsName(rec.attrs[r]) => r < q)
  PROVE  Tells(Attributes(rec), rec.attrs[q])
<1> DEFINE n == Len(rec.attrs)
           b == rec.attrs[q]
           Q == [k \in 0..n |-> {x \in Gathered : IF k >= q THEN Tells(x, b)
                                                ELSE x.runs = <<>> /\ x.resident = 0 /\ x.at = 0}]
<1>1. n \in Nat /\ q \in 1..n
  OBVIOUS
<1>2. NothingGathered \in Q[0]
  <2>1. ~(0 >= q) /\ 0 \in 0..n
    BY <1>1
  <2> QED
    BY <2>1, NothingIsGathered
<1>3. ASSUME NEW k \in 1..n, NEW x \in Q[k - 1] PROVE Attribute(x, rec.attrs[k]) \in Q[k]
  <2> DEFINE a == rec.attrs[k]
             y == Attribute(x, a)
  <2>1. k - 1 \in 0..n /\ k \in 0..n
    BY <1>1
  <2>2. x \in Gathered /\ IF k - 1 >= q THEN Tells(x, b)
                          ELSE x.runs = <<>> /\ x.resident = 0 /\ x.at = 0
    BY <2>1
  <2>3. a \in NtfsAttributes
    BY ElementOfSeq, Zenon
  <2>4. y \in Gathered
    BY <2>2, <2>3, AttributeStays, Zenon
  <2>5. Changes(x, a, y)
    BY <2>2, AttributeTells, Zenon
  <2>6. (a.t = "data" => k = q) /\ (IsName(a) => k < q)
    BY <1>1
  <2>7. k = q => a.t = "data" /\ a.fits /\ a = b
    BY <1>1
  <2> HIDE DEF y, a, b
  <2>8. IF k >= q THEN Tells(y, b) ELSE y.runs = <<>> /\ y.resident = 0 /\ y.at = 0
    <3>1. CASE k = q
      <4>1. ~(k - 1 >= q) /\ k >= q
        BY <1>1, <3>1
      <4>2. Tells(y, a)
        BY <2>2, <2>5, <2>7, <3>1, <4>1 DEF Tells, Changes
      <4> QED
        BY <2>7, <3>1, <4>1, <4>2
    <3>2. CASE k > q
      <4>1. k - 1 >= q /\ k >= q
        BY <1>1, <3>2
      <4>2. y = x
        <5>1. a.t # "data" /\ ~IsName(a)
          BY <1>1, <2>6, <3>2
        <5> QED
          BY <2>5, <5>1 DEF Changes
      <4> QED
        BY <2>2, <4>1, <4>2
    <3>3. CASE k < q
      <4>1. ~(k - 1 >= q) /\ ~(k >= q) /\ a.t # "data"
        BY <1>1, <2>6, <3>3
      <4> QED
        BY <2>2, <2>5, <4>1 DEF Changes
    <3> QED
      BY <1>1, <3>1, <3>2, <3>3
  <2>9. y \in Q[k]
    BY <2>1, <2>4, <2>8
  <2> QED
    BY <2>9 DEF y, a
<1> HIDE DEF Q
<1>4. Attributes(rec) \in Q[n]
  BY <1>2, <1>3, GatheredByTurns, Zenon
<1>5. n >= q
  BY <1>1
<1> QED
  BY <1>1, <1>4, <1>5 DEF Q, b

(* Without one, and with names of size 0, the size is 0.                     *)
LEMMA NoContentOfRecord ==
  ASSUME NEW rec, rec.attrs \in Seq(NtfsAttributes), WalkedWhole(rec),
         \A r \in 1..Len(rec.attrs) :
           rec.attrs[r].t # "data" /\ (IsName(rec.attrs[r]) => rec.attrs[r].size = 0)
  PROVE  Attributes(rec).size = 0
<1> DEFINE n == Len(rec.attrs)
           Q == [k \in 0..n |-> {x \in Gathered : x.size = 0}]
<1>1. n \in Nat
  OBVIOUS
<1>2. NothingGathered \in Q[0]
  <2>1. 0 \in 0..n
    BY <1>1
  <2> QED
    BY <2>1, NothingIsGathered
<1>3. ASSUME NEW k \in 1..n, NEW x \in Q[k - 1] PROVE Attribute(x, rec.attrs[k]) \in Q[k]
  <2> DEFINE a == rec.attrs[k]
             y == Attribute(x, a)
  <2>1. k - 1 \in 0..n /\ k \in 0..n
    BY <1>1
  <2>2. x \in Gathered /\ x.size = 0
    BY <2>1
  <2>3. a \in NtfsAttributes
    BY ElementOfSeq, Zenon
  <2>4. y \in Gathered
    BY <2>2, <2>3, AttributeStays, Zenon
  <2>5. Changes(x, a, y)
    BY <2>2, AttributeTells, Zenon
  <2>6. a.t # "data" /\ (IsName(a) => a.size = 0)
    OBVIOUS
  <2> HIDE DEF y, a
  <2>7. y.size = 0
    BY <2>2, <2>5, <2>6 DEF Changes
  <2>8. y \in Q[k]
    BY <2>1, <2>4, <2>7
  <2> QED
    BY <2>8 DEF y, a
<1> HIDE DEF Q
<1>4. Attributes(rec) \in Q[n]
  BY <1>2, <1>3, GatheredByTurns, Zenon
<1> QED
  BY <1>1, <1>4 DEF Q

(* What is gathered of the record of a file in order: its name, its size and    *)
(* the places of its content.                                                 *)
NtfsGathers(img, x, p, file) ==
  /\ x.name = file.name /\ file.name # ""
  /\ file.plain =>
       /\ x.size = Len(file.blocks)
       /\ file.blocks # <<>> =>
            \/ x.runs = PlainUpto(file.runs, Len(file.runs)) /\ InRuns(img, file.blocks, file.runs)
            \/ x.runs = <<>> /\ x.resident = x.size /\ InRecord(img, file.blocks, p + x.at)

(* The walk over the record of a file gathers its name and its content.      *)
LEMMA NtfsFileGathered ==
  ASSUME NEW img, NEW rec, rec.attrs \in Seq(NtfsAttributes), WalkedWhole(rec), NEW p,
         NEW file, file.runs \in Seq(RunsOfFiles), NtfsFileInOrder(img, rec, p, file)
  PROVE  NtfsGathers(img, Attributes(rec), p, file)
<1> DEFINE x == Attributes(rec)
<1>1. /\ \E q \in DOMAIN rec.attrs :
           /\ IsName(rec.attrs[q]) /\ ~rec.attrs[q].dos /\ rec.attrs[q].name = file.name /\ file.name # ""
           /\ \A r \in DOMAIN rec.attrs : IsName(rec.attrs[r]) /\ r > q => rec.attrs[r].dos
      /\ file.plain =>
           \/ \E q \in DOMAIN rec.attrs :
                /\ rec.attrs[q].t = "data" /\ NtfsContent(img, rec.attrs[q], p, file)
                /\ \A r \in DOMAIN rec.attrs :
                     (rec.attrs[r].t = "data" => r = q) /\ (IsName(rec.attrs[r]) => r < q)
           \/ /\ file.blocks = <<>>
              /\ \A r \in DOMAIN rec.attrs :
                   rec.attrs[r].t # "data" /\ (IsName(rec.attrs[r]) => rec.attrs[r].size = 0)
  BY Zenon DEF NtfsFileInOrder
<1>2. DOMAIN rec.attrs = 1..Len(rec.attrs)
  OBVIOUS
<1>3. x.name = file.name /\ file.name # ""
  <2>1. PICK q \in 1..Len(rec.attrs) :
          /\ IsName(rec.attrs[q]) /\ ~rec.attrs[q].dos /\ rec.attrs[q].name = file.name /\ file.name # ""
          /\ \A r \in 1..Len(rec.attrs) : IsName(rec.attrs[r]) /\ r > q => rec.attrs[r].dos
    BY <1>1, <1>2
  <2>2. ~NoName(rec.attrs[q])
    BY <2>1 DEF NoName
  <2> HIDE DEF x
  <2>3. Attributes(rec).name = rec.attrs[q].name
    BY <2>1, <2>2, NameOfRecord
  <2> QED
    BY <2>1, <2>3 DEF x
<1>4. CASE \E q \in DOMAIN rec.attrs :
             /\ rec.attrs[q].t = "data" /\ NtfsContent(img, rec.attrs[q], p, file)
             /\ \A r \in DOMAIN rec.attrs :
                  (rec.attrs[r].t = "data" => r = q) /\ (IsName(rec.attrs[r]) => r < q)
  <2>1. PICK q \in 1..Len(rec.attrs) :
          /\ rec.attrs[q].t = "data" /\ NtfsContent(img, rec.attrs[q], p, file)
          /\ \A r \in 1..Len(rec.attrs) :
               (rec.attrs[r].t = "data" => r = q) /\ (IsName(rec.attrs[r]) => r < q)
    BY <1>2, <1>4
  <2> DEFINE a == rec.attrs[q]
  <2>2. a.fits /\ a.size = Len(file.blocks)
    BY <2>1, Zenon DEF NtfsContent
  <2>3. Tells(x, a)
    BY <2>1, <2>2, ContentOfRecord, Zenon
  <2>4. a \in NtfsAttributes /\ a.t = "data"
    BY <2>1, ElementOfSeq, Zenon
  <2>5. IF a.resident THEN InRecord(img, file.blocks, p + a.at)
        ELSE ListSpells(a.list, file.runs) /\ InRuns(img, file.blocks, file.runs)
    BY <2>1, Zenon DEF NtfsContent
  <2> HIDE DEF a, x
  <2>6. CASE a.resident
    BY <1>3, <2>2, <2>3, <2>5, <2>6 DEF Tells, NtfsGathers, x
  <2>7. CASE ~a.resident
    <3>1. a.list \in Seq(RunHeaders)
      BY <2>4, <2>7 DEF NtfsAttributes
    <3>2. ReadsRuns(a.list, file.runs)
      BY <2>5, <2>7, <3>1, RunlistSpells, Zenon
    <3> QED
      BY <1>3, <2>2, <2>3, <2>5, <2>7, <3>2 DEF Tells, NtfsGathers, x, ReadsRuns
  <2> QED
    BY <2>6, <2>7
<1>5. CASE /\ file.blocks = <<>>
           /\ \A r \in DOMAIN rec.attrs :
                rec.attrs[r].t # "data" /\ (IsName(rec.attrs[r]) => rec.attrs[r].size = 0)
  <2>1. x.size = 0
    BY <1>2, <1>5, NoContentOfRecord
  <2>2. Len(file.blocks) = 0
    BY <1>5
  <2> HIDE DEF x
  <2> QED
    BY <1>3, <1>5, <2>1, <2>2 DEF NtfsGathers, x
<1> QED
  BY <1>1, <1>3, <1>4, <1>5 DEF NtfsGathers
-----------------------------------------------------------------------------
(* The table of records lies where its own first record says.                  *)
LEMMA OnlyOne ==
  ASSUME NEW q \in Nat
  PROVE  Min({q}) = q
<1> DEFINE m == Min({q})
<1>1. {q} \in SUBSET Nat /\ {q} # {}
  OBVIOUS
<1>2. m \in {q}
  BY <1>1, LeastOfSet, Zenon
<1> HIDE DEF m
<1>3. m = q
  BY <1>2
<1> QED
  BY <1>3 DEF m

Owned(img, w, file) ==
  /\ InitMft(img, w).runs = PlainUpto(file.runs, Len(file.runs))
  /\ InitMft(img, w).total = Len(file.blocks) \div w.recsize

(* Runs without their place in the file are runs all the same.               *)
LEMMA PlainIsSome ==
  ASSUME NEW runs \in Seq(RunsOfFiles), runs # <<>>
  PROVE  PlainUpto(runs, Len(runs)) # <<>>
<1> DEFINE p == PlainUpto(runs, Len(runs))
<1>1. Len(runs) \in Nat /\ Len(runs) # 0
  OBVIOUS
<1>2. DOMAIN p = 1..Len(runs)
  BY DEF PlainUpto
<1> HIDE DEF p
<1>3. 1 \in DOMAIN p
  BY <1>1, <1>2
<1>4. p # <<>>
  BY <1>3
<1> QED
  BY <1>4 DEF p

(* initializeMFT takes the runs of the table of records from its own record. *)
LEMMA InitMftInOrder ==
  ASSUME NEW img, NEW w, RecordAt(img, w.mft).sig, RecordAt(img, w.mft).attrs \in Seq(NtfsAttributes),
         WalkedWhole(RecordAt(img, w.mft)), Readable(img, w.mft, w.recsize),
         NEW p, NEW file, NtfsFileInOrder(img, RecordAt(img, w.mft), p, file),
         file.plain, file.runs \in Seq(RunsOfFiles), file.runs # <<>>, file.blocks # <<>>,
         Len(file.blocks) \div w.recsize > 0
  PROVE  Owned(img, w, file)
<1> DEFINE rec == RecordAt(img, w.mft)
           readable == Readable(img, w.mft, w.recsize) /\ rec.sig
           data == {j \in DOMAIN Walked(rec) : rec.attrs[j].t = "data"}
           own == IF readable /\ data # {} THEN <<rec.attrs[Min(data)]>> ELSE <<>>
           told == IF own # <<>> /\ ~own[1].resident /\ own[1].fits
                     THEN ParseRunlist(own[1].list) ELSE <<>>
           most == IF w.sectors > 0 THEN w.sectors \div w.spc ELSE UnknownClusters
           rest == <<[start |-> w.lcn, count |-> IF w.lcn < most THEN most - w.lcn ELSE UnknownTable]>>
           runs == IF told # <<>> THEN told ELSE rest
           held == (SumRuns(runs) * w.size) \div w.recsize
           claimed == IF own # <<>> THEN own[1].size \div w.recsize ELSE 0
           total == IF claimed > 0 THEN claimed
                    ELSE IF told = <<>> THEN Min({held, GuessedRecords}) ELSE held
           plain == PlainUpto(file.runs, Len(file.runs))
<1>1. InitMft(img, w) = IF ~readable THEN [runs |-> <<>>, total |-> 0]
                        ELSE [runs |-> runs, total |-> total]
  BY Zenon DEF InitMft
<1>2. Walked(rec) = rec.attrs /\ rec.attrs \in Seq(NtfsAttributes) /\ readable
  BY DEF WalkedWhole
<1>3. \E q \in DOMAIN rec.attrs :
        /\ rec.attrs[q].t = "data" /\ NtfsContent(img, rec.attrs[q], p, file)
        /\ \A r \in DOMAIN rec.attrs :
             (rec.attrs[r].t = "data" => r = q) /\ (IsName(rec.attrs[r]) => r < q)
  BY Zenon DEF NtfsFileInOrder
<1> HIDE DEF rec, readable
<1>4. DOMAIN rec.attrs = 1..Len(rec.attrs) /\ Len(rec.attrs) \in Nat
  BY <1>2
<1>5. PICK q \in 1..Len(rec.attrs) :
        /\ rec.attrs[q].t = "data" /\ NtfsContent(img, rec.attrs[q], p, file)
        /\ \A r \in 1..Len(rec.attrs) : rec.attrs[r].t = "data" => r = q
  BY <1>3, <1>4
<1> DEFINE a == rec.attrs[q]
<1>6. a \in NtfsAttributes /\ a.t = "data"
  BY <1>2, <1>5, ElementOfSeq, Zenon
<1>7. a.fits /\ a.size = Len(file.blocks) /\ ~a.resident /\ ListSpells(a.list, file.runs)
  BY <1>5, Zenon DEF NtfsContent
<1>8. a.list \in Seq(RunHeaders)
  <2> HIDE DEF a
  <2> QED
    BY <1>6, <1>7 DEF NtfsAttributes
<1>9. ParseRunlist(a.list) = plain
  BY <1>7, <1>8, RunlistSpells, Zenon DEF ReadsRuns
<1>10. data = {q} /\ q \in Nat
  BY <1>2, <1>4, <1>5
<1>11. Min(data) = q /\ data # {}
  <2>1. Min({q}) = q
    BY <1>10, OnlyOne
  <2> QED
    BY <1>10, <2>1
<1> HIDE DEF data
<1>12. own = <<a>>
  BY <1>2, <1>11, Zenon
<1> HIDE DEF a, own
<1>13. own # <<>> /\ own[1] = a
  BY <1>12
<1>14. told = plain
  BY <1>7, <1>9, <1>13, Zenon
<1>15. plain # <<>>
  BY PlainIsSome, Zenon
<1> HIDE DEF told, rest, plain
<1>16. runs = plain
  BY <1>14, <1>15, Zenon
<1>17. claimed = Len(file.blocks) \div w.recsize
  BY <1>7, <1>13, Zenon
<1> HIDE DEF claimed, held, runs
<1>18. total = claimed
  <2>1. claimed > 0
    BY <1>17, Zenon
  <2> QED
    BY <2>1, Zenon
<1> HIDE DEF total
<1>19. InitMft(img, w) = [runs |-> runs, total |-> total]
  BY <1>1, <1>2, Zenon
<1>20. InitMft(img, w).runs = plain /\ InitMft(img, w).total = Len(file.blocks) \div w.recsize
  BY <1>16, <1>17, <1>18, <1>19
<1> QED
  BY <1>20, Zenon DEF Owned, plain
-----------------------------------------------------------------------------
(* An NTFS volume in order, piece by piece.                                    *)
ClusterSize(img) == img.boot.bps * img.boot.spc

RunPieces(img, runs) ==
  [k \in DOMAIN runs |-> [at |-> img.part + runs[k].start * ClusterSize(img),
                          from |-> runs[k].vcn * ClusterSize(img),
                          n |-> runs[k].count * ClusterSize(img)]]

(* The runs of a file as pieces of its content.                              *)
LEMMA RunsArePieces ==
  ASSUME NEW img, img.part \in Nat, ClusterSize(img) \in Nat, NEW runs \in Seq(RunsOfFiles)
  PROVE  /\ IsPieces(RunPieces(img, runs)) /\ Len(RunPieces(img, runs)) = Len(runs)
         /\ \A k \in 1..Len(runs) :
              /\ runs[k].start \in Nat /\ runs[k].vcn \in Nat /\ runs[k].count \in Nat \ {0}
              /\ RunPieces(img, runs)[k].at = img.part + runs[k].start * ClusterSize(img)
              /\ RunPieces(img, runs)[k].from = runs[k].vcn * ClusterSize(img)
              /\ RunPieces(img, runs)[k].n = runs[k].count * ClusterSize(img)
<1> DEFINE p == RunPieces(img, runs)
           c == ClusterSize(img)
<1>1. Len(runs) \in Nat /\ DOMAIN runs = 1..Len(runs)
  OBVIOUS
<1>2. \A k \in 1..Len(runs) : runs[k].start \in Nat /\ runs[k].vcn \in Nat /\ runs[k].count \in Nat \ {0}
  <2> TAKE k \in 1..Len(runs)
  <2>1. runs[k] \in RunsOfFiles
    BY ElementOfSeq, Zenon
  <2> QED
    BY <2>1 DEF RunsOfFiles
<1>3. \A k \in 1..Len(runs) : /\ p[k].at = img.part + runs[k].start * c
                              /\ p[k].from = runs[k].vcn * c /\ p[k].n = runs[k].count * c
  BY <1>1 DEF RunPieces
<1>4. DOMAIN p = 1..Len(runs) /\ p = [k \in 1..Len(runs) |-> p[k]]
  BY <1>1 DEF RunPieces
<1>5. Len(p) = Len(runs)
  <2> HIDE DEF p
  <2> QED
    BY <1>1, <1>4
<1>6. \A k \in 1..Len(runs) : p[k].at \in Nat /\ p[k].from \in Nat /\ p[k].n \in Nat
  <2> TAKE k \in 1..Len(runs)
  <2> DEFINE s == runs[k].start
             w == runs[k].vcn
             m == runs[k].count
  <2>1. s \in Nat /\ w \in Nat /\ m \in Nat /\ c \in Nat /\ img.part \in Nat
    BY <1>2
  <2>2. p[k].at = img.part + s * c /\ p[k].from = w * c /\ p[k].n = m * c
    BY <1>3
  <2> HIDE DEF p, c, s, w, m
  <2>3. s * c \in Nat /\ w * c \in Nat /\ m * c \in Nat
    BY <2>1
  <2> QED
    BY <2>1, <2>2, <2>3
<1> HIDE DEF p
<1>7. IsPieces(p)
  BY <1>1, <1>4, <1>5, <1>6 DEF IsPieces
<1> QED
  BY <1>2, <1>3, <1>5, <1>7 DEF p

(* Content in runs stands in these pieces.                                   *)
LEMMA RunsStand ==
  ASSUME NEW img, NEW blocks, NEW runs, InRuns(img, blocks, runs)
  PROVE  StandsIn(img, blocks, RunPieces(img, runs))
BY Zenon DEF InRuns, RunPieces, ClusterSize

(* The table of an NTFS volume in order: where its records stand, and which of  *)
(* them are files.                                                            *)
Mft(img) == img.truth[FALSE][1]

MftTotal(img) == Len(Mft(img).blocks) \div RecordSize(img)

MftPlace(img, k) == Mft(img).blocks[k * RecordSize(img) + 1]

MftRecord(img, k) == RecordAt(img, MftPlace(img, k))

Nameable(rec) == \E q \in DOMAIN rec.attrs : IsName(rec.attrs[q]) /\ ~NoName(rec.attrs[q])

NtfsSlots(img, del) ==
  {k \in 0..(MftTotal(img) - 1) :
     MftRecord(img, k).sig /\ MftRecord(img, k).alloc # del /\ Nameable(MftRecord(img, k))}

Multiple(a, s) == a % s = 0

NtfsTable(img) ==
  /\ Mft(img).slot = 0 /\ Mft(img).plain /\ Mft(img).runs # <<>> /\ img.boot.mft = Mft(img).runs[1].start
  /\ MftTotal(img) \in 1..MaxRecords /\ Multiple(Len(Mft(img).blocks), RecordSize(img))
  /\ \A k \in DOMAIN Mft(img).runs :
       /\ Multiple(Mft(img).runs[k].vcn * ClusterSize(img), RecordSize(img))
       /\ Multiple(Mft(img).runs[k].count * ClusterSize(img), RecordSize(img))
  /\ \A k \in 0..(MftTotal(img) - 1) :
       MftRecord(img, k).sig =>
         \A q \in DOMAIN MftRecord(img, k).attrs : ~MftRecord(img, k).attrs[q].broken
  /\ \A del \in BOOLEAN :
       /\ Placed(img.truth[del], NtfsSlots(img, del))
       /\ \A j \in DOMAIN img.truth[del] :
            NtfsFileInOrder(img, MftRecord(img, img.truth[del][j].slot),
                            MftPlace(img, img.truth[del][j].slot), img.truth[del][j])

NtfsVolume(img) ==
  /\ Readable(img, img.part, 1) /\ img.boot.signature /\ img.boot.label
  /\ img.boot.bps \in {1, 2, 4, 8} /\ img.boot.spc > 0
  /\ IF img.boot.recshift < 0 THEN -img.boot.recshift \in 9..16 ELSE RecordSize(img) \in 1..128
  /\ Len(img.truth[FALSE]) \in 1..MaxActive /\ Len(img.truth[TRUE]) <= MaxDeleted

(* An NTFS image in order: its boot sector and its table of records.         *)
LEMMA NtfsIsInOrder ==
  ASSUME NEW img, NtfsInOrder(img)
  PROVE  NtfsVolume(img) /\ NtfsTable(img)
<1>1. NtfsVolume(img)
  BY Zenon DEF NtfsInOrder, NtfsVolume
<1>2. NtfsTable(img)
  BY Zenon DEF NtfsInOrder, NtfsTable, Mft, MftTotal, MftPlace, MftRecord, NtfsSlots, Nameable,
               NoName, Multiple, ClusterSize
<1> QED
  BY <1>1, <1>2

(* The size of a record is the one that the boot sector is read to mean.     *)
LEMMA RecordSizeIs ==
  ASSUME NEW img, img.boot \in NtfsBoots, NtfsVolume(img)
  PROVE  /\ RecordSize(img) \in Nat \ {0} /\ ClusterSize(img) \in Nat \ {0}
         /\ RecordSize(img) =
              IF img.boot.recshift < 0
                THEN IF -img.boot.recshift \in 9..16 THEN Shifted(-img.boot.recshift - 9) ELSE 2
                ELSE IF img.boot.recshift * ClusterSize(img) \in 1..128
                       THEN img.boot.recshift * ClusterSize(img) ELSE 2
<1> DEFINE b == img.boot
           r == b.recshift
           c == ClusterSize(img)
<1>1. b.bps \in Nat /\ b.spc \in Nat /\ r \in Int
  BY DEF NtfsBoots
<1>2. b.bps \in {1, 2, 4, 8} /\ b.spc > 0
      /\ IF r < 0 THEN -r \in 9..16 ELSE RecordSize(img) \in 1..128
  BY Zenon DEF NtfsVolume
<1>3. c = b.bps * b.spc
  BY DEF ClusterSize
<1>4. RecordSize(img) = IF r < 0 THEN Shifted(-r - 9) ELSE r * b.bps * b.spc
  BY Zenon DEF RecordSize
<1> DEFINE m == b.bps
           s == b.spc
<1> HIDE DEF b, r, c
<1>5. c \in Nat \ {0}
  <2>1. m \in Nat \ {0} /\ s \in Nat \ {0} /\ c = m * s
    BY <1>1, <1>2, <1>3
  <2> HIDE DEF m, s
  <2> QED
    BY <2>1
<1>6. CASE r < 0
  <2>1. -r \in 9..16 /\ RecordSize(img) = Shifted(-r - 9)
    BY <1>2, <1>4, <1>6
  <2>2. -r - 9 \in Nat
    BY <1>1, <2>1
  <2>3. RecordSize(img) \in Nat \ {0}
    BY <2>1, <2>2, ShiftedIsPositive, Zenon
  <2> QED
    BY <1>5, <1>6, <2>1, <2>3 DEF c, r, b
<1>7. CASE ~(r < 0)
  <2>1. RecordSize(img) \in 1..128 /\ RecordSize(img) = r * m * s
    BY <1>2, <1>4, <1>7
  <2>2. r * c = r * m * s
    <3>1. c = m * s /\ m \in Int /\ s \in Int /\ r \in Int
      BY <1>1, <1>3
    <3> HIDE DEF m, s
    <3> QED
      BY <3>1
  <2> DEFINE product == r * c
  <2>3. RecordSize(img) = product /\ product \in 1..128
    BY <2>1, <2>2
  <2> HIDE DEF product, m, s
  <2>4. RecordSize(img) \in Nat \ {0} /\ RecordSize(img) = IF product \in 1..128 THEN product ELSE 2
    BY <2>3
  <2> QED
    BY <1>5, <1>7, <2>4 DEF c, r, b, product
<1> QED
  BY <1>6, <1>7

(* Behind the first blocks of a piece as many are readable as it has.          *)
LEMMA ReadableInside ==
  ASSUME NEW img, img.size \in Nat, NEW at \in Nat, NEW n \in Nat, Readable(img, at, n),
         NEW o \in Nat, NEW m \in Nat, o + m <= n
  PROVE  Readable(img, at + o, m)
<1>1. at + n <= img.size /\ \A b \in img.bad : b \notin at..(at + n - 1)
  BY DEF Readable
<1>2. at + o + m <= img.size
  BY <1>1
<1>3. \A b : b \in (at + o)..(at + o + m - 1) => b \in at..(at + n - 1)
  OBVIOUS
<1> QED
  BY <1>1, <1>2, <1>3 DEF Readable

(* A multiple is its quotient times the divisor.                             *)
LEMMA MultipleIs ==
  ASSUME NEW a \in Nat, NEW s \in Nat \ {0}, Multiple(a, s)
  PROVE  a \div s \in Nat /\ a = (a \div s) * s
<1>1. a % s = 0
  BY DEF Multiple
<1>2. a \div s \in Nat /\ a = (a \div s) * s + (a % s)
  BY SMT
<1> DEFINE q == a \div s
           p == q * s
           r == a % s
<1>3. q \in Nat /\ a = p + r /\ r = 0
  BY <1>1, <1>2
<1>4. p \in Int
  BY <1>2
<1> HIDE DEF p, q, r
<1>5. a = p
  BY <1>3, <1>4
<1> QED
  BY <1>3, <1>5 DEF p, q

(* A multiple that is not 0 holds the divisor once.                          *)
LEMMA MultipleAtLeast ==
  ASSUME NEW a \in Nat, NEW s \in Nat \ {0}, Multiple(a, s), a > 0
  PROVE  a >= s /\ a \div s > 0
<1> DEFINE q == a \div s
<1>1. q \in Nat /\ a = q * s
  BY MultipleIs, Zenon
<1> HIDE DEF q
<1>2. q # 0
  BY <1>1
<1>3. q - 1 \in Nat /\ (q - 1) * s >= 0
  BY <1>1, <1>2
<1>4. a = (q - 1) * s + s
  BY <1>1
<1>5. a >= s
  BY <1>3, <1>4
<1> QED
  BY <1>1, <1>2, <1>5 DEF q

(* The files an NTFS volume holds, as they are described.                      *)
Fits(file) == file.plain => Len(file.blocks) <= MaxExtract

NtfsFilesAre(img) ==
  \A del \in BOOLEAN :
    /\ IsFiles(img.truth[del])
    /\ \A j \in 1..Len(img.truth[del]) :
         /\ img.truth[del][j].blocks \in Seq(Nat) /\ Fits(img.truth[del][j])
         /\ img.truth[del][j].runs \in Seq(RunsOfFiles)

(* What an NTFS image says of its files has the form that is asked for.      *)
LEMMA NtfsFilesDescribed ==
  ASSUME NEW img, img.kind = "ntfs", Described(img)
  PROVE  NtfsFilesAre(img)
<1>1. ASSUME NEW del \in BOOLEAN
      PROVE  /\ IsFiles(img.truth[del])
             /\ \A j \in 1..Len(img.truth[del]) :
                  /\ img.truth[del][j].blocks \in Seq(Nat) /\ Fits(img.truth[del][j])
                  /\ img.truth[del][j].runs \in Seq(RunsOfFiles)
  <2>1. IsFiles(img.truth[del])
    BY FilesInOrder, Zenon
  <2>2. DOMAIN img.truth[del] = 1..Len(img.truth[del])
    BY <2>1 DEF IsFiles
  <2>3. \A j \in DOMAIN img.truth[del] :
          /\ img.truth[del][j].blocks \in Seq(Nat) /\ Fits(img.truth[del][j])
          /\ img.truth[del][j].runs \in Seq(RunsOfFiles)
    BY Zenon DEF Described, RunsOfFiles, Promised, Fits
  <2> QED
    BY <2>1, <2>2, <2>3, Zenon
<1> QED
  BY <1>1, Zenon DEF NtfsFilesAre

(* The table has a file of its own, the first living one.                      *)
LEMMA MftIsFile ==
  ASSUME NEW img, NtfsFilesAre(img), NtfsVolume(img), NtfsTable(img), RecordSize(img) \in Nat \ {0}
  PROVE  /\ Mft(img).blocks \in Seq(Nat) /\ Mft(img).runs \in Seq(RunsOfFiles)
         /\ MftTotal(img) \in Nat \ {0}
         /\ Len(Mft(img).blocks) = MftTotal(img) * RecordSize(img)
         /\ Mft(img).blocks # <<>> /\ Mft(img).plain
         /\ NtfsFileInOrder(img, MftRecord(img, 0), MftPlace(img, 0), Mft(img))
         /\ MftRecord(img, 0).sig
<1>1. Len(img.truth[FALSE]) \in 1..MaxActive /\ FALSE \in BOOLEAN
  BY Zenon DEF NtfsVolume
<1>2. 1 \in 1..Len(img.truth[FALSE])
  <2> DEFINE m == Len(img.truth[FALSE])
  <2>1. m \in 1..MaxActive
    BY <1>1
  <2> HIDE DEF m
  <2>2. 1 \in 1..m
    BY <2>1, NtfsAssumption
  <2> QED
    BY <2>2 DEF m
<1>3. Mft(img).blocks \in Seq(Nat) /\ Mft(img).runs \in Seq(RunsOfFiles)
  BY <1>1, <1>2, Zenon DEF NtfsFilesAre, Mft
<1>4. DOMAIN img.truth[FALSE] = 1..Len(img.truth[FALSE])
  BY <1>1 DEF NtfsFilesAre, IsFiles
<1>5. MftTotal(img) \in 1..MaxRecords /\ Multiple(Len(Mft(img).blocks), RecordSize(img)) /\ Mft(img).slot = 0
      /\ Mft(img).plain
  BY Zenon DEF NtfsTable
<1>6. MftTotal(img) \in Nat \ {0}
  BY <1>5, NtfsAssumption
<1>7. Len(Mft(img).blocks) \in Nat
  BY <1>3, LenProperties
<1>8. Len(Mft(img).blocks) = MftTotal(img) * RecordSize(img)
  BY <1>5, <1>7, MultipleIs, Zenon DEF MftTotal
<1>9. Mft(img).blocks # <<>>
  <2>1. ASSUME Mft(img).blocks = <<>> PROVE FALSE
    <3> DEFINE t == MftTotal(img)
               s == RecordSize(img)
    <3>1. Len(Mft(img).blocks) = 0
      BY <2>1
    <3>2. t * s = 0 /\ t \in Nat \ {0} /\ s \in Nat \ {0}
      BY <1>6, <1>8, <3>1
    <3> HIDE DEF t, s
    <3> QED
      BY <3>2
  <2> QED
    BY <2>1
<1>10. NtfsFileInOrder(img, MftRecord(img, img.truth[FALSE][1].slot),
                       MftPlace(img, img.truth[FALSE][1].slot), img.truth[FALSE][1])
  BY <1>1, <1>2, <1>4, Zenon DEF NtfsTable
<1>11. Placed(img.truth[FALSE], NtfsSlots(img, FALSE))
  BY <1>1, Zenon DEF NtfsTable
<1>12. img.truth[FALSE][1].slot \in NtfsSlots(img, FALSE)
  BY <1>2, <1>4, <1>11 DEF Placed
<1>13. img.truth[FALSE][1].slot = 0
  BY <1>5 DEF Mft
<1>14. MftRecord(img, 0).sig
  BY <1>12, <1>13 DEF NtfsSlots
<1> QED
  BY <1>3, <1>5, <1>6, <1>8, <1>9, <1>10, <1>13, <1>14 DEF Mft

(* Its first record stands where the boot sector says.                         *)
LEMMA FirstRecordStands ==
  ASSUME NEW img, img.size \in Nat, img.part \in Nat, img.boot \in NtfsBoots,
         NtfsFilesAre(img), NtfsVolume(img), NtfsTable(img)
  PROVE  /\ MftPlace(img, 0) = img.part + img.boot.mft * ClusterSize(img)
         /\ Readable(img, MftPlace(img, 0), RecordSize(img))
         /\ InRuns(img, Mft(img).blocks, Mft(img).runs)
<1> DEFINE blocks == Mft(img).blocks
           runs == Mft(img).runs
           c == ClusterSize(img)
           s == RecordSize(img)
           p == RunPieces(img, runs)
           rec == MftRecord(img, 0)
<1>1. s \in Nat \ {0} /\ c \in Nat \ {0}
  BY RecordSizeIs, Zenon
<1>2. blocks \in Seq(Nat) /\ runs \in Seq(RunsOfFiles) /\ blocks # <<>>
      /\ NtfsFileInOrder(img, rec, MftPlace(img, 0), Mft(img)) /\ Mft(img).plain
  BY <1>1, MftIsFile, Zenon
<1>3. runs # <<>> /\ img.boot.mft = runs[1].start
      /\ \A k \in DOMAIN runs : Multiple(runs[k].count * c, s)
  BY Zenon DEF NtfsTable
<1>4. 1 \in 1..Len(runs) /\ 1 \in DOMAIN runs
  <2> HIDE DEF runs
  <2> QED
    BY <1>2, <1>3
<1>5. InRuns(img, blocks, runs)
  <2>1. \E q \in DOMAIN rec.attrs :
          LET a == rec.attrs[q]
          IN IF a.resident THEN runs = <<>> ELSE InRuns(img, blocks, runs)
    BY <1>2, Zenon DEF NtfsFileInOrder, NtfsContent
  <2> HIDE DEF runs, blocks, rec
  <2> QED
    BY <1>3, <2>1, Zenon
<1>6. StandsIn(img, blocks, p)
  BY <1>5, RunsStand, Zenon
<1>7. /\ IsPieces(p) /\ Len(p) = Len(runs)
      /\ runs[1].start \in Nat /\ runs[1].count \in Nat \ {0}
      /\ p[1].at = img.part + runs[1].start * c /\ p[1].n = runs[1].count * c
  <2>1. c \in Nat
    BY <1>1
  <2> QED
    BY <1>2, <1>4, <2>1, RunsArePieces, Zenon
<1>8. 1 \in DOMAIN p
  BY <1>4, <1>7 DEF IsPieces
<1>9. /\ p[1].from = End(p, 1 - 1) /\ p[1].from < Len(blocks) /\ Readable(img, p[1].at, p[1].n)
      /\ \A o \in 0..(p[1].n - 1) : p[1].from + o < Len(blocks) => blocks[p[1].from + o + 1] = p[1].at + o
  <2> HIDE DEF p, blocks
  <2> QED
    BY <1>6, <1>8, StandingPiece
<1> DEFINE at == p[1].at
           n == p[1].n
           start == runs[1].start
           count == runs[1].count
<1>10. n \in Nat \ {0} /\ at \in Nat
  <2>1. n = count * c /\ count \in Nat \ {0} /\ c \in Nat \ {0}
    BY <1>1, <1>7
  <2>2. p[1].at \in Nat
    BY <1>7, <1>8 DEF IsPieces
  <2> HIDE DEF n, count, c
  <2> QED
    BY <2>1, <2>2
<1>11. p[1].from = 0
  BY <1>9 DEF End
<1> HIDE DEF p
<1>12. blocks[1] = at
  <2>1. 0 \in 0..(n - 1)
    BY <1>10
  <2>2. p[1].from + 0 < Len(blocks)
    BY <1>9, <1>11
  <2>3. blocks[p[1].from + 0 + 1] = at + 0
    BY <1>9, <2>1, <2>2
  <2>4. p[1].from + 0 + 1 = 1 /\ at + 0 = at
    BY <1>10, <1>11
  <2> QED
    BY <2>3, <2>4
<1>13. MftPlace(img, 0) = at
  <2>1. 0 * s + 1 = 1
    BY <1>1
  <2> QED
    BY <1>12, <2>1 DEF MftPlace
<1>14. n >= s
  <2>1. Multiple(count * c, s) /\ n = count * c
    BY <1>3, <1>4, <1>7
  <2>2. Multiple(n, s) /\ n > 0 /\ n \in Nat
    BY <1>10, <2>1
  <2> HIDE DEF n
  <2> QED
    BY <1>1, <2>2, MultipleAtLeast, Zenon
<1>15. Readable(img, at, s)
  <2>1. Readable(img, at, n) /\ at \in Nat /\ n \in Nat /\ s \in Nat /\ 0 \in Nat /\ 0 + s <= n /\ at + 0 = at
    BY <1>1, <1>9, <1>10, <1>14
  <2> HIDE DEF at, n, s
  <2>2. Readable(img, at + 0, s)
    BY <2>1, ReadableInside, Zenon
  <2> QED
    BY <2>1, <2>2
<1> HIDE DEF s, runs, blocks
<1>16. at = img.part + img.boot.mft * c
  BY <1>3, <1>7
<1> QED
  BY <1>5, <1>13, <1>15, <1>16 DEF s, runs, blocks

(* The attributes of a record in use are walked over to the end.             *)
LEMMA MftRecordWalks ==
  ASSUME NEW img, img.mft \in [DOMAIN img.mft -> NtfsRecords], NtfsTable(img),
         NEW k \in 0..(MftTotal(img) - 1), MftRecord(img, k).sig
  PROVE  MftRecord(img, k).attrs \in Seq(NtfsAttributes) /\ WalkedWhole(MftRecord(img, k))
<1> DEFINE rec == MftRecord(img, k)
<1>1. rec.attrs \in Seq(NtfsAttributes)
  BY RecordHasAttributes, Zenon DEF MftRecord
<1>2. \A q \in DOMAIN rec.attrs : ~rec.attrs[q].broken
  BY Zenon DEF NtfsTable
<1> HIDE DEF rec
<1>3. WalkedWhole(rec)
  BY <1>1, <1>2, WalksAll, Zenon
<1> QED
  BY <1>1, <1>3 DEF rec

(* The analyzer finds a volume in order as it is.                              *)
NtfsFinds(img, v) ==
  /\ v.part = img.part /\ v.size = ClusterSize(img) /\ v.recsize = RecordSize(img)
  /\ v.runs = PlainUpto(Mft(img).runs, Len(Mft(img).runs)) /\ v.records = MftTotal(img)

(* An NTFS volume that was recognised has the places and the runs of the     *)
(* image.                                                                    *)
LEMMA NtfsProbeInOrder ==
  ASSUME NEW img, img.size \in Nat, img.part \in Nat, img.boot \in NtfsBoots,
         img.mft \in [DOMAIN img.mft -> NtfsRecords],
         NtfsFilesAre(img), NtfsVolume(img), NtfsTable(img),
         NEW v, v = NtfsProbe(img, img.part), v # NoVolume
  PROVE  NtfsFinds(img, v)
<1> DEFINE b == img.boot
           part == img.part
           c == ClusterSize(img)
           size == b.bps * b.spc
           recsize == IF b.recshift < 0
                        THEN IF -b.recshift \in 9..16 THEN Shifted(-b.recshift - 9) ELSE 2
                        ELSE IF b.recshift * size \in 1..128 THEN b.recshift * size ELSE 2
           w == [valid |-> TRUE, fs |-> "ntfs", part |-> part, bps |-> b.bps, spc |-> b.spc,
                 size |-> size, sectors |-> b.total, lcn |-> b.mft,
                 mft |-> part + b.mft * size, recsize |-> recsize,
                 runs |-> <<>>, records |-> 0]
           m == InitMft(img, w)
           bad == \/ ~Readable(img, part, 1) \/ ~b.signature \/ ~b.label
                  \/ b.bps \notin {1, 2, 4, 8} \/ b.spc = 0
<1>1. v = IF bad THEN NoVolume ELSE [w EXCEPT !.runs = m.runs, !.records = m.total]
  BY Zenon DEF NtfsProbe
<1>2. v = [w EXCEPT !.runs = m.runs, !.records = m.total]
  BY <1>1, Zenon
<1>3. size = c
  BY Zenon DEF ClusterSize
<1>4. recsize = RecordSize(img) /\ RecordSize(img) \in Nat \ {0}
  <2>1. recsize = IF b.recshift < 0
                    THEN IF -b.recshift \in 9..16 THEN Shifted(-b.recshift - 9) ELSE 2
                    ELSE IF b.recshift * c \in 1..128 THEN b.recshift * c ELSE 2
    BY <1>3, Zenon
  <2> QED
    BY <2>1, RecordSizeIs, Zenon
<1> HIDE DEF size, recsize, bad
<1>5. w.mft = part + b.mft * c /\ w.recsize = RecordSize(img)
  BY <1>3, <1>4
<1>6. MftPlace(img, 0) = part + b.mft * c /\ Readable(img, MftPlace(img, 0), RecordSize(img))
  BY FirstRecordStands, Zenon
<1> DEFINE file == Mft(img)
<1>7. /\ file.blocks \in Seq(Nat) /\ file.runs \in Seq(RunsOfFiles) /\ MftTotal(img) \in Nat \ {0}
      /\ file.blocks # <<>> /\ file.plain /\ MftRecord(img, 0).sig
      /\ NtfsFileInOrder(img, MftRecord(img, 0), MftPlace(img, 0), file)
  BY <1>4, MftIsFile, Zenon
<1>8. file.runs # <<>>
  BY Zenon DEF NtfsTable
<1>9. MftRecord(img, 0).attrs \in Seq(NtfsAttributes) /\ WalkedWhole(MftRecord(img, 0))
  <2>1. 0 \in 0..(MftTotal(img) - 1)
    BY <1>7
  <2> QED
    BY <1>7, <2>1, MftRecordWalks, Zenon
<1>10. w.mft = MftPlace(img, 0) /\ MftRecord(img, 0) = RecordAt(img, w.mft)
  BY <1>5, <1>6, Zenon DEF MftRecord
<1> HIDE DEF w
<1>11. Len(file.blocks) \div w.recsize > 0 /\ Len(file.blocks) \div w.recsize = MftTotal(img)
  BY <1>5, <1>7 DEF MftTotal
<1> HIDE DEF file
<1>12. Owned(img, w, file)
  <2>1. Readable(img, w.mft, w.recsize)
    BY <1>5, <1>6, <1>10, Zenon
  <2> QED
    BY <1>7, <1>8, <1>9, <1>10, <1>11, <2>1, InitMftInOrder, Zenon
<1>13. m.runs = PlainUpto(file.runs, Len(file.runs)) /\ m.total = MftTotal(img)
  BY <1>11, <1>12 DEF Owned
<1> HIDE DEF m
<1>14. LET u == [w EXCEPT !.runs = m.runs, !.records = m.total]
       IN u.part = part /\ u.size = size /\ u.recsize = recsize /\ u.runs = m.runs /\ u.records = m.total
  BY DEF w
<1> QED
  BY <1>2, <1>3, <1>4, <1>13, <1>14, Zenon DEF NtfsFinds, file
-----------------------------------------------------------------------------
(* The records that are right for a file.                                     *)
NtfsReads(img, r, file) ==
  /\ r.name = file.name
  /\ file.plain =>
       /\ r.size = Len(file.blocks)
       /\ file.blocks # <<>> =>
            \/ r.runs = PlainUpto(file.runs, Len(file.runs)) /\ InRuns(img, file.blocks, file.runs)
            \/ r.runs = <<>> /\ InRecord(img, file.blocks, r.at)

NtfsRight(img, v, file) == {r \in NtfsListable(img, v) : NtfsReads(img, r, file)}

NtfsAllRight(img, v, files) == [j \in 1..Len(files) |-> NtfsRight(img, v, files[j])]

(* An NTFS image in order, with what the proofs use of it.                      *)
NtfsSound(img) ==
  /\ img.size \in Nat /\ img.part \in Nat /\ img.boot \in NtfsBoots
  /\ img.mft \in [DOMAIN img.mft -> NtfsRecords] /\ DOMAIN img.mft \subseteq Nat
  /\ NtfsFilesAre(img) /\ NtfsVolume(img) /\ NtfsTable(img)

(* What is listed of the record of a file is the file.                       *)
LEMMA NtfsRecordRight ==
  ASSUME NEW img, NtfsSound(img), NEW v, NEW del \in BOOLEAN,
         NEW j \in 1..Len(img.truth[del]), NEW k, k = img.truth[del][j].slot, NEW n \in Nat
  PROVE  /\ NtfsRecord(v, MftRecord(img, k), MftPlace(img, k), n) \in NtfsRight(img, v, img.truth[del][j])
         /\ ~NoName(Attributes(MftRecord(img, k)))
<1> DEFINE rec == MftRecord(img, k)
           p == MftPlace(img, k)
           file == img.truth[del][j]
           x == Attributes(rec)
           r == NtfsRecord(v, rec, p, n)
<1>1. /\ img.mft \in [DOMAIN img.mft -> NtfsRecords] /\ DOMAIN img.mft \subseteq Nat
      /\ NtfsFilesAre(img) /\ NtfsVolume(img) /\ NtfsTable(img)
  BY Zenon DEF NtfsSound
<1>2. DOMAIN img.truth[del] = 1..Len(img.truth[del]) /\ file.runs \in Seq(RunsOfFiles)
      /\ file.blocks \in Seq(Nat)
  BY <1>1 DEF NtfsFilesAre, IsFiles
<1>3. Placed(img.truth[del], NtfsSlots(img, del)) /\ NtfsFileInOrder(img, rec, p, file)
  BY <1>1, <1>2, Zenon DEF NtfsTable
<1>4. k \in NtfsSlots(img, del)
  BY <1>2, <1>3 DEF Placed
<1>5. k \in 0..(MftTotal(img) - 1) /\ rec.sig
  BY <1>4 DEF NtfsSlots
<1>6. rec.attrs \in Seq(NtfsAttributes) /\ WalkedWhole(rec)
  BY <1>1, <1>5, MftRecordWalks, Zenon
<1>7. p \in DOMAIN img.mft /\ rec = img.mft[p]
  BY <1>1, <1>5, RecordHasAttributes, Zenon DEF MftRecord
<1>8. p \in Nat
  BY <1>1, <1>7
<1>9. r \in NtfsListable(img, v)
  <2>1. p \in {q \in DOMAIN img.mft : img.mft[q].sig}
    BY <1>5, <1>7, Zenon
  <2>2. r = NtfsRecord(v, img.mft[p], p, n)
    BY <1>7, Zenon
  <2> HIDE DEF r, p
  <2> QED
    BY <2>1, <2>2 DEF NtfsListable
<1> HIDE DEF rec, p
<1>10. NtfsGathers(img, x, p, file)
  BY <1>2, <1>3, <1>6, NtfsFileGathered, Zenon
<1>11. x \in Gathered
  BY <1>6, AttributesAreGathered, Zenon
<1>12. /\ r.name = x.name /\ r.size = x.size /\ r.runs = x.runs
       /\ r.at = IF x.runs = <<>> /\ x.resident > 0 THEN p + x.at ELSE 0
  BY DEF NtfsRecord
<1> HIDE DEF x, r
<1>13. ~NoName(x)
  BY <1>10, Zenon DEF NtfsGathers, NoName
<1>14. NtfsReads(img, r, file)
  <2>1. r.name = file.name
    BY <1>10, <1>12, Zenon DEF NtfsGathers
  <2>2. ASSUME file.plain PROVE r.size = Len(file.blocks) /\ r.size = x.size
    BY <1>10, <1>12, <2>2, Zenon DEF NtfsGathers
  <2>3. ASSUME file.plain, file.blocks # <<>>
        PROVE  \/ r.runs = PlainUpto(file.runs, Len(file.runs)) /\ InRuns(img, file.blocks, file.runs)
               \/ r.runs = <<>> /\ InRecord(img, file.blocks, r.at)
    <3>1. CASE x.runs = PlainUpto(file.runs, Len(file.runs)) /\ InRuns(img, file.blocks, file.runs)
      BY <1>12, <3>1, Zenon
    <3>2. CASE x.runs = <<>> /\ x.resident = x.size /\ InRecord(img, file.blocks, p + x.at)
      <4>1. x.resident > 0
        <5>1. Len(file.blocks) \in Nat /\ Len(file.blocks) # 0
          <6> HIDE DEF file
          <6> QED
            BY <1>2, <2>3
        <5> DEFINE m == Len(file.blocks)
        <5>2. x.resident = m /\ m \in Nat /\ m # 0
          BY <2>2, <2>3, <3>2, <5>1
        <5> HIDE DEF m
        <5> QED
          BY <5>2
      <4>2. r.runs = <<>> /\ r.at = p + x.at
        BY <1>12, <3>2, <4>1, Zenon
      <4> QED
        BY <3>2, <4>2, Zenon
    <3> QED
      BY <1>10, <2>3, <3>1, <3>2, Zenon DEF NtfsGathers
  <2> QED
    BY <2>1, <2>2, <2>3, Zenon DEF NtfsReads
<1>15. r \in NtfsRight(img, v, file)
  BY <1>9, <1>14 DEF NtfsRight
<1> QED
  BY <1>13, <1>15 DEF x, r, rec, p

(* What the scan takes for a file is one.                                      *)
Found(img, del, k) ==
  MftRecord(img, k).sig /\ MftRecord(img, k).alloc # del /\ ~NoName(Attributes(MftRecord(img, k)))

(* A record is listed exactly when it is that of a file.                     *)
LEMMA FoundAreFiles ==
  ASSUME NEW img, NtfsSound(img), NEW del \in BOOLEAN, NEW k \in 0..(MftTotal(img) - 1)
  PROVE  Found(img, del, k) <=> k \in NtfsSlots(img, del)
<1> DEFINE rec == MftRecord(img, k)
<1>1. /\ img.mft \in [DOMAIN img.mft -> NtfsRecords]
      /\ NtfsFilesAre(img) /\ NtfsTable(img)
  BY Zenon DEF NtfsSound
<1>2. k \in NtfsSlots(img, del) <=> rec.sig /\ rec.alloc # del /\ Nameable(rec)
  BY DEF NtfsSlots
<1>3. ASSUME rec.sig, ~Nameable(rec) PROVE NoName(Attributes(rec))
  <2>1. rec.attrs \in Seq(NtfsAttributes) /\ WalkedWhole(rec)
    BY <1>1, <1>3, MftRecordWalks, Zenon
  <2> HIDE DEF rec
  <2>2. DOMAIN rec.attrs = 1..Len(rec.attrs)
    BY <2>1
  <2>3. \A r \in 1..Len(rec.attrs) : Unnamed(rec.attrs[r])
    BY <1>3, <2>2, Zenon DEF Nameable, NoName, Unnamed
  <2> QED
    BY <2>1, <2>3, NoNameOfRecord, Zenon
<1>4. ASSUME k \in NtfsSlots(img, del) PROVE ~NoName(Attributes(rec))
  <2>1. Placed(img.truth[del], NtfsSlots(img, del)) /\ DOMAIN img.truth[del] = 1..Len(img.truth[del])
    BY <1>1 DEF NtfsTable, NtfsFilesAre, IsFiles
  <2>2. PICK j \in 1..Len(img.truth[del]) : k = img.truth[del][j].slot
    BY <1>4, <2>1 DEF Placed
  <2>3. 0 \in Nat
    OBVIOUS
  <2> QED
    BY <2>2, <2>3, NtfsRecordRight, Zenon
<1> QED
  BY <1>2, <1>3, <1>4, Zenon DEF Found
-----------------------------------------------------------------------------
(* The scan of the table has come to record i, or has ended behind the last     *)
(* file.                                                                      *)
NtfsListing(img, v, del, k) ==
  {x \in NtfsFound(img, v) :
     IF x.stop THEN SeenUpTo(img.truth[del], NtfsAllRight(img, v, img.truth[del]), x.out, MftTotal(img) - 1)
     ELSE /\ x.index = k /\ k <= MftTotal(img)
          /\ SeenUpTo(img.truth[del], NtfsAllRight(img, v, img.truth[del]), x.out, k - 1)}

(* When there are as many as there are files, no later place matters.          *)
LEMMA SeenLater ==
  ASSUME NEW files, IsFiles(files), NEW P, NEW out, NEW k \in Int, NEW m \in Int, k <= m,
         SeenUpTo(files, P, out, k), Len(out) >= Len(files)
  PROVE  SeenUpTo(files, P, out, m)
<1>1. Len(out) \in 0..Len(files) /\ Len(files) \in Nat
  BY DEF SeenUpTo, IsFiles
<1>2. ASSUME NEW j \in 1..Len(files)
      PROVE  IF j <= Len(out) THEN files[j].slot <= m /\ out[j] \in P[j] ELSE files[j].slot > m
  <2>1. IF j <= Len(out) THEN files[j].slot <= k /\ out[j] \in P[j] ELSE files[j].slot > k
    BY DEF SeenUpTo
  <2>2. files[j].slot \in Nat
    BY DEF IsFiles
  <2>3. j <= Len(out)
    BY <1>1
  <2> QED
    BY <2>1, <2>2, <2>3
<1> QED
  BY <1>1, <1>2 DEF SeenUpTo

(* One turn of the loop over records lists the file of that record, if it is *)
(* one.                                                                      *)
LEMMA NtfsRecordInOrder ==
  ASSUME NEW img, NtfsSound(img), NEW v, NtfsFinds(img, v), NEW del \in BOOLEAN,
         NEW k \in Nat, NEW p, k < MftTotal(img) => p = MftPlace(img, k),
         NEW x \in NtfsListing(img, v, del, k)
  PROVE  ScanRecord(img, v, del, x, p) \in NtfsListing(img, v, del, k + 1)
<1> DEFINE files == img.truth[del]
           P == NtfsAllRight(img, v, files)
           L == NtfsListable(img, v)
           S == NtfsSlots(img, del)
           total == MftTotal(img)
           rec == RecordAt(img, p)
           file == NtfsRecord(v, rec, p, x.index)
           listable == rec.sig /\ rec.alloc # del /\ Attributes(rec).name # ""
           more == IF listable THEN Append(x.out, file) ELSE x.out
           limit == IF del THEN MaxDeleted ELSE MaxActive
           full == Len(more) >= limit
           past == v.records > 0 /\ x.index >= v.records
           to == ScanRecord(img, v, del, x, p)
<1>1. /\ img.mft \in [DOMAIN img.mft -> NtfsRecords]
      /\ NtfsFilesAre(img) /\ NtfsVolume(img) /\ NtfsTable(img)
      /\ img.boot \in NtfsBoots
  BY Zenon DEF NtfsSound
<1>2. RecordSize(img) \in Nat \ {0} /\ total \in Nat \ {0}
  BY <1>1, RecordSizeIs, MftIsFile, Zenon
<1>3. IsFiles(files) /\ Placed(files, S)
  BY <1>1, Zenon DEF NtfsFilesAre, NtfsTable
<1>4. Len(files) \in Nat /\ Len(files) <= limit /\ limit \in Nat
  <2>1. Len(files) \in Nat
    BY <1>3 DEF IsFiles
  <2>2. Len(img.truth[FALSE]) \in 1..MaxActive /\ Len(img.truth[TRUE]) <= MaxDeleted
    BY <1>1, Zenon DEF NtfsVolume
  <2>3. MaxActive \in Nat /\ MaxDeleted \in Nat
    BY NtfsAssumption
  <2>4. Len(img.truth[FALSE]) <= MaxActive
    <3> DEFINE m == Len(img.truth[FALSE])
    <3>1. m \in 1..MaxActive
      BY <2>2
    <3> HIDE DEF m
    <3>2. m <= MaxActive
      BY <2>3, <3>1
    <3> QED
      BY <3>2 DEF m
  <2>5. CASE del
    <3>1. del = TRUE
      BY <2>5
    <3> QED
      BY <2>1, <2>2, <2>3, <3>1
  <2>6. CASE ~del
    <3>1. del = FALSE
      BY <2>6
    <3> QED
      BY <2>1, <2>3, <2>4, <3>1
  <2> QED
    BY <2>5, <2>6
<1>5. x \in NtfsFound(img, v) /\ x.index \in Nat /\ x.out \in Seq(L) /\ x.stop \in BOOLEAN
  <2>1. x \in NtfsFound(img, v)
    BY DEF NtfsListing
  <2> QED
    BY <2>1, Zenon DEF NtfsFound
<1>6. IF x.stop THEN SeenUpTo(files, P, x.out, total - 1)
      ELSE x.index = k /\ k <= total /\ SeenUpTo(files, P, x.out, k - 1)
  BY Zenon DEF NtfsListing
<1>7. to = IF x.stop THEN x
           ELSE IF past THEN [x EXCEPT !.stop = TRUE]
           ELSE [index |-> x.index + 1, out |-> more, stop |-> full]
  BY Zenon DEF ScanRecord
<1>8. past <=> x.index >= total
  <2>1. v.records = total
    BY Zenon DEF NtfsFinds
  <2> HIDE DEF total
  <2> QED
    BY <1>2, <2>1
<1> HIDE DEF files, P, S, total
<1>9. ASSUME NEW y \in NtfsFound(img, v),
             IF y.stop THEN SeenUpTo(files, P, y.out, total - 1)
             ELSE y.index = k + 1 /\ k + 1 <= total /\ SeenUpTo(files, P, y.out, (k + 1) - 1)
      PROVE  y \in NtfsListing(img, v, del, k + 1)
  BY <1>9 DEF NtfsListing, files, P, total
<1>10. CASE x.stop
  <2>1. x \in NtfsListing(img, v, del, k + 1)
    BY <1>5, <1>6, <1>9, <1>10, Zenon
  <2> HIDE DEF to
  <2> QED
    BY <1>7, <1>10, <2>1 DEF to
<1>11. CASE ~x.stop /\ past
  <2> DEFINE y == [x EXCEPT !.stop = TRUE]
  <2>1. y \in NtfsFound(img, v)
    BY <1>5 DEF NtfsFound
  <2>2. y.stop = TRUE /\ y.out = x.out
    <3>1. x \in [index : Nat, out : Seq(L), stop : BOOLEAN]
      BY <1>5, Zenon DEF NtfsFound
    <3> HIDE DEF L
    <3> QED
      BY <3>1
  <2>3. k = total /\ SeenUpTo(files, P, x.out, k - 1)
    BY <1>2, <1>6, <1>8, <1>11
  <2> HIDE DEF y, past
  <2>4. y \in NtfsListing(img, v, del, k + 1)
    BY <1>9, <2>1, <2>2, <2>3
  <2> HIDE DEF to
  <2> QED
    BY <1>7, <1>11, <2>4 DEF to, y
<1>12. CASE ~x.stop /\ ~past
  <2>1. x.index = k /\ k < total /\ SeenUpTo(files, P, x.out, k - 1)
    BY <1>2, <1>6, <1>8, <1>12
  <2>2. k \in 0..(total - 1) /\ p = MftPlace(img, k)
    BY <1>2, <2>1 DEF total
  <2>3. rec = MftRecord(img, k)
    BY <2>2, Zenon DEF MftRecord
  <2>4. listable <=> k \in S
    <3>1. Found(img, del, k) <=> k \in NtfsSlots(img, del)
      BY <2>2, FoundAreFiles, Zenon DEF total
    <3> QED
      BY <2>3, <3>1, Zenon DEF Found, NoName, S
  <2>5. \A q \in S : ~(k - 1 < q /\ q < k)
    <3>1. \A q \in S : q \in Nat
      BY DEF S, NtfsSlots
    <3> QED
      BY <3>1
  <2> DEFINE y == [index |-> x.index + 1, out |-> more, stop |-> full]
  <2>6. SeenUpTo(files, P, more, k) /\ more \in Seq(L)
    <3>1. CASE listable
      <4>1. k \in S
        BY <2>4, <3>1
      <4>2. DOMAIN files = 1..Len(files)
        BY <1>3 DEF IsFiles
      <4>3. \A j \in 1..Len(files) : files[j].slot = k => file \in P[j]
        <5> TAKE j \in 1..Len(files)
        <5>1. ASSUME files[j].slot = k PROVE file \in P[j]
          <6>1. file \in NtfsRight(img, v, files[j])
            <7>1. k = img.truth[del][j].slot /\ j \in 1..Len(img.truth[del])
              BY <5>1 DEF files
            <7>2. NtfsRecord(v, MftRecord(img, k), MftPlace(img, k), x.index) \in NtfsRight(img, v, img.truth[del][j])
              BY <1>5, <7>1, NtfsRecordRight, Zenon
            <7> QED
              BY <2>2, <2>3, <7>2, Zenon DEF files
          <6>2. P[j] = NtfsRight(img, v, files[j])
            BY DEF P, NtfsAllRight
          <6> QED
            BY <6>1, <6>2
        <5> QED
          BY <5>1
      <4>4. file \in L
        <5>1. PICK j \in 1..Len(files) : files[j].slot = k
          BY <1>3, <4>1, <4>2 DEF Placed
        <5>2. file \in P[j]
          BY <4>3, <5>1
        <5>3. P[j] = NtfsRight(img, v, files[j])
          BY DEF P, NtfsAllRight
        <5> QED
          BY <5>2, <5>3 DEF NtfsRight
      <4>5. more = Append(x.out, file)
        BY <3>1
      <4> HIDE DEF file, L, more
      <4>6. SeenUpTo(files, P, Append(x.out, file), k)
        <5>1. k - 1 \in Int /\ k - 1 < k
          OBVIOUS
        <5> QED
          BY <1>3, <1>5, <2>1, <2>5, <4>1, <4>3, <4>4, <5>1, SeenOne
      <4>7. Append(x.out, file) \in Seq(L)
        BY <1>5, <4>4
      <4> QED
        BY <4>5, <4>6, <4>7, Zenon
    <3>2. CASE ~listable
      <4>1. k \notin S
        BY <2>4, <3>2
      <4>2. \A q \in S : q \in Nat
        BY DEF S, NtfsSlots
      <4>3. \A q \in S : ~(k - 1 < q /\ q <= k)
        BY <4>1, <4>2
      <4>4. more = x.out
        BY <3>2
      <4> HIDE DEF more
      <4>5. SeenUpTo(files, P, x.out, k)
        <5>1. k - 1 \in Int /\ k \in Int /\ k - 1 <= k
          OBVIOUS
        <5> QED
          BY <1>3, <2>1, <4>3, <5>1, SeenNone, Zenon
      <4> QED
        BY <1>5, <4>4, <4>5, Zenon
    <3> QED
      BY <3>1, <3>2
  <2>7. full \in BOOLEAN /\ (full => Len(more) >= Len(files))
    <3>1. Len(more) \in Nat
      <4> HIDE DEF more
      <4> QED
        BY <2>6, LenProperties
    <3> HIDE DEF more, limit
    <3> QED
      BY <1>4, <3>1
  <2> HIDE DEF more, full, listable, L
  <2>8. y.index = k + 1 /\ y.out = more /\ y.stop = full
    BY <2>1
  <2>9. y \in NtfsFound(img, v)
    <3>1. x.index + 1 \in Nat
      BY <1>5
    <3> QED
      BY <2>6, <2>7, <3>1, Zenon DEF NtfsFound, L
  <2> HIDE DEF y
  <2>10. k \in Int /\ total - 1 \in Int /\ k <= total - 1 /\ k + 1 <= total /\ (k + 1) - 1 = k
    BY <1>2, <2>1
  <2>11. full => SeenUpTo(files, P, more, total - 1)
    BY <1>3, <2>6, <2>7, <2>10, SeenLater, Zenon
  <2>12. y \in NtfsListing(img, v, del, k + 1)
    BY <1>9, <2>6, <2>8, <2>9, <2>10, <2>11
  <2> HIDE DEF to, past
  <2> QED
    BY <1>7, <1>12, <2>12 DEF to, y
<1> QED
  BY <1>10, <1>11, <1>12

(* A chunk of the table is as many records in order.                           *)
LEMMA NtfsChunkInOrder ==
  ASSUME NEW img, NtfsSound(img), NEW v, NtfsFinds(img, v), NEW del \in BOOLEAN,
         NEW first \in Nat, NEW from, NEW many, many \div v.recsize \in Nat,
         \A t \in 0..((many \div v.recsize) - 1) :
           first + t < MftTotal(img) => MftPlace(img, first + t) = from + t * v.recsize,
         NEW x0 \in NtfsListing(img, v, del, first)
  PROVE  ChunkOfRecords(img, v, del, x0, from, many)
           \in NtfsListing(img, v, del, first + (many \div v.recsize))
<1> DEFINE n == many \div v.recsize
           a == x0
           T == [k \in 0..n |-> NtfsListing(img, v, del, first + k)]
           Step(x, k) == ScanRecord(img, v, del, x, from + (k - 1) * v.recsize)
           f[k \in 0..n] == IF k = 0 THEN a ELSE Step(f[k - 1], k)
           G == [k \in 1..n |-> [x \in T[k - 1] |-> Step(x, k)]]
<1>1. ChunkOfRecords(img, v, del, x0, from, many) = f[n]
  BY Zenon DEF ChunkOfRecords, Iterate
<1>2. n \in Nat /\ a \in T[0]
  <2>1. n \in Nat
    OBVIOUS
  <2> HIDE DEF n
  <2>2. 0 \in 0..n /\ first + 0 = first
    BY <2>1
  <2> QED
    BY <2>1, <2>2
<1>3. ASSUME NEW k \in 1..n, NEW x \in T[k - 1] PROVE Step(x, k) \in T[k]
  <2> HIDE DEF n
  <2>1. k - 1 \in 0..n /\ k \in 0..n /\ k - 1 \in 0..(n - 1) /\ first + (k - 1) \in Nat
        /\ (first + (k - 1)) + 1 = first + k
    BY <1>2
  <2>2. x \in NtfsListing(img, v, del, first + (k - 1))
    BY <2>1
  <2> DEFINE p == from + (k - 1) * v.recsize
  <2>3. first + (k - 1) < MftTotal(img) => p = MftPlace(img, first + (k - 1))
    BY <2>1 DEF n
  <2> HIDE DEF p
  <2>4. ScanRecord(img, v, del, x, p) \in NtfsListing(img, v, del, (first + (k - 1)) + 1)
    BY <2>1, <2>2, <2>3, NtfsRecordInOrder, Zenon
  <2> QED
    BY <2>1, <2>4 DEF p
<1>4. \A k \in 1..n : \A x \in T[k - 1] : G[k][x] = Step(x, k)
  OBVIOUS
<1> HIDE DEF n, a, T, Step, G
<1>5. \A k \in 1..n : \A x \in T[k - 1] : G[k][x] \in T[k]
  BY <1>3, <1>4
<1>6. HasCourse(n, T, a, G)
  BY <1>2, <1>5, CourseInExists, Zenon
<1>7. PICK S, g : /\ g \in [0..n -> S] /\ g[0] = a
                  /\ \A k \in 1..n : g[k] = G[k][g[k - 1]]
                  /\ \A k \in 0..n : g[k] \in T[k]
  BY <1>6, Zenon DEF HasCourse
<1>8. \A k \in 1..n : g[k] = Step(g[k - 1], k)
  <2>1. \A k \in 1..n : k - 1 \in 0..n
    BY <1>2
  <2> QED
    BY <1>4, <1>7, <2>1
<1>9. g = [k \in 0..n |-> IF k = 0 THEN a ELSE Step(g[k - 1], k)]
  BY <1>7, <1>8
<1>10. f = [k \in 0..n |-> IF k = 0 THEN a ELSE Step(f[k - 1], k)]
  BY <1>9, Zenon
<1> HIDE DEF f
<1>11. f[0] \in T[0] /\ \A k \in 1..n : f[k - 1] \in T[k - 1] => f[k] \in T[k]
  <2>1. 0 \in 0..n /\ \A k \in 1..n : k \in 0..n /\ k # 0
    BY <1>2
  <2>2. f[0] = a /\ \A k \in 1..n : f[k] = Step(f[k - 1], k)
    BY <1>10, <2>1, Zenon
  <2> QED
    BY <1>2, <1>3, <2>2, Zenon
<1>12. f[n] \in T[n]
  BY <1>2, <1>11, TurnByTurnIn, Zenon
<1> QED
  <2>1. f[n] \in NtfsListing(img, v, del, first + n)
    BY <1>2, <1>12 DEF T
  <2> QED
    BY <1>1, <2>1 DEF n

(* The lesser of two multiples is a multiple.                                *)
LEMMA LeastProduct ==
  ASSUME NEW a \in Nat, NEW b \in Nat, NEW s \in Nat \ {0}
  PROVE  \E m \in {a, b} : Min({a * s, b * s}) = m * s /\ m <= b
<1> DEFINE p == a * s
           q == b * s
           least == Min({p, q})
<1>1. p \in Nat /\ q \in Nat /\ p \in Int /\ q \in Int
  OBVIOUS
<1>2. ASSUME a > b PROVE p > q
  <2>1. a - b - 1 \in Nat
    BY <1>2
  <2>2. (a - b - 1) * s >= 0
    BY <2>1
  <2>3. a * s = (a - b - 1) * s + b * s + s
    BY <2>1
  <2> QED
    BY <2>2, <2>3
<1> HIDE DEF p, q
<1>3. least \in {p, q} /\ least <= p /\ least <= q
  BY <1>1, LeastOfTwo, Zenon
<1> HIDE DEF least
<1>4. CASE a <= b /\ least = p
  BY <1>4 DEF least, p, q
<1>5. CASE least = q
  BY <1>5 DEF least, p, q
<1>6. CASE ~(a <= b) /\ least = p
  BY <1>1, <1>2, <1>3, <1>6
<1> QED
  BY <1>3, <1>4, <1>5, <1>6

(* A number of whole records is cut to itself.                               *)
LEMMA WholeAre ==
  ASSUME NEW v, NEW s \in Nat \ {0}, v.recsize = s, NEW m \in Nat
  PROVE  (m * s) \div s = m /\ WholeRecords(v, m * s) = m * s
<1> DEFINE a == m * s
<1>1. a \in Nat /\ m * s <= a /\ a < m * s + s
  OBVIOUS
<1> HIDE DEF a
<1>2. a \div s = m
  BY <1>1, QuotientIs, Zenon
<1> QED
  BY <1>2 DEF WholeRecords, a

(* A run of the table holds whole records, as many as Q, from record F on.      *)
RunHolds(img, at, F, Q) ==
  /\ at \in Nat /\ F \in Nat /\ Q \in Nat /\ Readable(img, at, Q * RecordSize(img))
  /\ \A t \in 0..(Q - 1) :
       F + t < MftTotal(img) => MftPlace(img, F + t) = at + t * RecordSize(img)

StandsAt(img, v, del, at, F, Q, s, c) ==
  /\ s.from = at + c * RecordSize(img) /\ s.left = (Q - c) * RecordSize(img)
  /\ s.x \in NtfsListing(img, v, del, F + c)

(* A scan of it has ended, or has come to the record c of the run.              *)
NtfsScanning(img, v, del, at, F, Q, t) ==
  {s \in NtfsScan(img, v) :
     \/ s.x.stop /\ s.x \in NtfsListing(img, v, del, F + Q)
     \/ \E c \in 0..Q : (c >= t \/ c = Q) /\ StandsAt(img, v, del, at, F, Q, s, c)}

(* A list that is full, or complete, stays as it is.                         *)
LEMMA StoppedStays ==
  ASSUME NEW img, NEW v, NEW del, NEW k, NEW m, NEW x \in NtfsListing(img, v, del, k), x.stop
  PROVE  x \in NtfsListing(img, v, del, m)
BY DEF NtfsListing

(* The arithmetic of a chunk of m records from record c of a run of Q.           *)
LEMMA ChunkInRun ==
  ASSUME NEW at \in Nat, NEW Q \in Nat, NEW c \in Nat, NEW m \in Nat, c + m <= Q,
         NEW s \in Nat \ {0}, NEW size \in Nat, at + Q * s <= size
  PROVE  /\ c * s \in Nat /\ m * s \in Nat /\ Q * s \in Nat /\ c * s + m * s <= Q * s
         /\ (at + c * s) + m * s = at + (c + m) * s /\ at + c * s + m * s <= size
         /\ (Q - c) * s - m * s = (Q - (c + m)) * s
         /\ m # 0 => m * s > 0 /\ at + c * s < size /\ (Q - c) * s > 0
<1>1. c * s \in Nat /\ m * s \in Nat /\ Q * s \in Nat
  OBVIOUS
<1>2. Q - c - m \in Nat /\ (Q - c - m) * s >= 0
  OBVIOUS
<1>3. (Q - c - m) * s = Q * s - c * s - m * s
  BY <1>1
<1>4. (c + m) * s = c * s + m * s
  OBVIOUS
<1>5. (Q - (c + m)) * s = Q * s - c * s - m * s
  OBVIOUS
<1>6. (Q - c) * s = Q * s - c * s
  OBVIOUS
<1> DEFINE p == c * s
           q == m * s
           r == Q * s
           l == (Q - c) * s
           u == (Q - (c + m)) * s
           w == (c + m) * s
           z == (Q - c - m) * s
<1>7. m # 0 => q > 0
  OBVIOUS
<1>8. p \in Nat /\ q \in Nat /\ r \in Nat /\ z >= 0 /\ z = r - p - q /\ w = p + q /\ u = r - p - q
      /\ l = r - p /\ at + r <= size
  BY <1>1, <1>2, <1>3, <1>4, <1>5, <1>6
<1> HIDE DEF p, q, r, l, u, w, z
<1>9. p + q <= r /\ (at + p) + q = at + w /\ at + p + q <= size /\ l - q = u
      /\ (m # 0 => at + p < size /\ l > 0)
  BY <1>7, <1>8
<1> QED
  BY <1>7, <1>8, <1>9 DEF p, q, r, l, u, w

(* One buffer of a run: its records are those that follow in the table.      *)
LEMMA NtfsScanChunkInOrder ==
  ASSUME NEW img, NtfsSound(img), NEW v, NtfsFinds(img, v), IsNtfs(v), NEW del \in BOOLEAN,
         NEW at, NEW F, NEW Q, RunHolds(img, at, F, Q),
         NEW t \in Nat \ {0}, NEW s \in NtfsScanning(img, v, del, at, F, Q, t - 1)
  PROVE  ScanChunk(img, v, del, s) \in NtfsScanning(img, v, del, at, F, Q, t)
<1> DEFINE rs == RecordSize(img)
           total == MftTotal(img)
           least == Min({ChunkRecords * v.recsize, s.left})
           want == WholeRecords(v, least)
           n == IF s.from + want > img.size THEN WholeRecords(v, img.size - s.from) ELSE want
           ended == [index |-> s.x.index, out |-> s.x.out, stop |-> TRUE]
           over == (v.records > 0 /\ s.x.index >= v.records) \/ s.x.index >= MaxRecords
           bad == want = 0 \/ s.from >= img.size \/ n = 0 \/ ~Readable(img, s.from, n)
           chunk == ChunkOfRecords(img, v, del, s.x, s.from, n)
           to == ScanChunk(img, v, del, s)
           Upon(c) == NtfsListing(img, v, del, c)
<1>1. /\ img.size \in Nat /\ img.boot \in NtfsBoots /\ NtfsFilesAre(img) /\ NtfsVolume(img)
      /\ NtfsTable(img) /\ img.mft \in [DOMAIN img.mft -> NtfsRecords]
  BY Zenon DEF NtfsSound
<1>2. rs \in Nat \ {0} /\ v.recsize = rs
  BY <1>1, RecordSizeIs, Zenon DEF NtfsFinds
<1>3. total \in Nat \ {0} /\ v.records = total
  BY <1>1, <1>2, MftIsFile, Zenon DEF NtfsFinds
<1>4. total <= MaxRecords
  <2>1. total \in 1..MaxRecords
    BY <1>1, Zenon DEF NtfsTable
  <2> HIDE DEF total
  <2> QED
    BY <2>1, NtfsAssumption
<1>5. /\ at \in Nat /\ F \in Nat /\ Q \in Nat /\ Readable(img, at, Q * rs)
      /\ \A u \in 0..(Q - 1) : F + u < total => MftPlace(img, F + u) = at + u * rs
  BY Zenon DEF RunHolds
<1>6. to = IF s.left <= 0 \/ s.x.stop THEN s
           ELSE IF over THEN [s EXCEPT !.x = ended]
           ELSE IF bad THEN [s EXCEPT !.left = 0]
           ELSE [x |-> chunk, from |-> s.from + n, left |-> s.left - n]
  BY Zenon DEF ScanChunk
<1>7. s \in NtfsScan(img, v) /\ to \in NtfsScan(img, v)
  <2>1. s \in NtfsScan(img, v)
    BY DEF NtfsScanning
  <2> QED
    BY <1>1, <2>1, ChunkStays, Zenon
<1>8. s.x \in NtfsFound(img, v) /\ s.x.index \in Nat
  <2>1. s.x \in NtfsFound(img, v)
    BY <1>7, Zenon DEF NtfsScan
  <2> QED
    BY <2>1, Zenon DEF NtfsFound
<1> HIDE DEF rs, total, Upon
<1>9. ASSUME to.x.stop, to.x \in Upon(F + Q)
      PROVE  to \in NtfsScanning(img, v, del, at, F, Q, t)
  <2> HIDE DEF to
  <2> QED
    BY <1>7, <1>9, Zenon DEF NtfsScanning, Upon
<1>10. ASSUME NEW c \in 0..Q, c >= t \/ c = Q, to.from = at + c * rs, to.left = (Q - c) * rs,
              to.x \in Upon(F + c)
       PROVE  to \in NtfsScanning(img, v, del, at, F, Q, t)
  <2> HIDE DEF to
  <2>1. StandsAt(img, v, del, at, F, Q, to, c)
    BY <1>10, Zenon DEF StandsAt, Upon, rs
  <2> QED
    BY <1>7, <1>10, <2>1, Zenon DEF NtfsScanning
<1>11. ASSUME s.x.stop PROVE to \in NtfsScanning(img, v, del, at, F, Q, t)
  <2>1. to = s
    BY <1>6, <1>11, Zenon
  <2>2. s.x \in Upon(F + Q)
    <3>1. CASE s.x \in NtfsListing(img, v, del, F + Q)
      BY <3>1, Zenon DEF Upon
    <3>2. CASE \E c \in 0..Q : StandsAt(img, v, del, at, F, Q, s, c)
      <4>1. PICK c \in 0..Q : s.x \in NtfsListing(img, v, del, F + c)
        BY <3>2, Zenon DEF StandsAt
      <4> QED
        BY <1>11, <4>1, StoppedStays, Zenon DEF Upon
    <3>3. \/ s.x \in NtfsListing(img, v, del, F + Q)
          \/ \E c \in 0..Q : StandsAt(img, v, del, at, F, Q, s, c)
      BY Zenon DEF NtfsScanning
    <3> QED
      BY <3>1, <3>2, <3>3
  <2> HIDE DEF to
  <2>3. to.x.stop /\ to.x \in Upon(F + Q)
    BY <1>11, <2>1, <2>2, Zenon
  <2> QED
    BY <1>9, <2>3, Zenon
<1>12. ASSUME ~s.x.stop PROVE to \in NtfsScanning(img, v, del, at, F, Q, t)
  <2>1. PICK c \in 0..Q : (c >= t - 1 \/ c = Q) /\ StandsAt(img, v, del, at, F, Q, s, c)
    BY <1>12, Zenon DEF NtfsScanning
  <2>2. s.from = at + c * rs /\ s.left = (Q - c) * rs /\ s.x \in Upon(F + c)
    BY <2>1, Zenon DEF StandsAt, Upon, rs
  <2>3. s.x.index = F + c /\ F + c <= total
        /\ SeenUpTo(img.truth[del], NtfsAllRight(img, v, img.truth[del]), s.x.out, (F + c) - 1)
    BY <1>12, <2>2, Zenon DEF Upon, NtfsListing, total
  <2>4. c \in Nat /\ c <= Q
    BY <1>5
  <2>5. CASE c = Q
    <3>1. s.left = 0
      <4>1. (Q - c) * rs = 0
        BY <1>2, <1>5, <2>5
      <4> QED
        BY <2>2, <4>1
    <3>2. to = s
      <4>1. s.left <= 0
        BY <3>1
      <4> QED
        BY <1>6, <4>1, Zenon
    <3> HIDE DEF to
    <3> QED
      BY <1>10, <2>2, <2>5, <3>2, Zenon
  <2>6. CASE c # Q /\ over
    <3>1. 0 + 1 = 1 /\ Q - c \in Nat \ {0} /\ 1 # 0 /\ c + 1 <= Q
      BY <1>5, <2>4, <2>6
    <3>2. ~(s.left <= 0)
      <4> DEFINE l == (Q - c) * rs
      <4>1. l > 0
        BY <1>2, <3>1
      <4>2. s.left = l
        BY <2>2
      <4> HIDE DEF l
      <4>3. l \in Int
        BY <1>2, <3>1 DEF l
      <4> QED
        BY <4>1, <4>2, <4>3
    <3>3. to = [s EXCEPT !.x = ended]
      BY <1>6, <1>12, <2>6, <3>2, Zenon
    <3>4. F + c = total
      BY <1>3, <1>4, <1>5, <1>8, <2>3, <2>4, <2>6, NtfsAssumption
    <3>5. to.x = ended
      <4>1. s \in [x : NtfsFound(img, v), from : Nat, left : Int]
        BY <1>7, Zenon DEF NtfsScan
      <4> HIDE DEF to, ended
      <4> QED
        BY <3>3, <4>1
    <3>6. ended.stop = TRUE /\ ended.out = s.x.out
      OBVIOUS
    <3>7. ended \in NtfsFound(img, v)
      BY <1>8 DEF NtfsFound
    <3> HIDE DEF ended, to, over
    <3>8. ended \in Upon(F + Q)
      BY <2>3, <3>4, <3>6, <3>7 DEF Upon, NtfsListing, total
    <3> QED
      BY <1>9, <3>5, <3>6, <3>8
  <2>7. CASE c # Q /\ ~over
    <3> DEFINE rest == Q - c
    <3>1. rest \in Nat \ {0} /\ ChunkRecords \in Nat \ {0}
      <4>1. c # Q /\ Q \in Nat
        BY <1>5, <2>7
      <4> QED
        BY <2>4, <4>1, NtfsAssumption
    <3>2. PICK m \in {ChunkRecords, rest} : Min({ChunkRecords * rs, rest * rs}) = m * rs /\ m <= rest
      <4>1. rest \in Nat /\ ChunkRecords \in Nat
        BY <3>1
      <4>2. \E m \in {ChunkRecords, rest} : Min({ChunkRecords * rs, rest * rs}) = m * rs /\ m <= rest
        <5> HIDE DEF rest
        <5> QED
          BY <1>2, <4>1, LeastProduct
      <4> QED
        BY <4>2
    <3>3. m \in Nat \ {0} /\ c + m <= Q
      BY <1>5, <2>4, <3>1, <3>2
    <3>4. want = m * rs /\ (m * rs) \div rs = m
      <4>1. least = m * rs
        BY <1>2, <2>2, <3>2
      <4>2. m \in Nat
        BY <3>3
      <4>3. (m * rs) \div rs = m /\ WholeRecords(v, m * rs) = m * rs
        BY <1>2, <4>2, WholeAre, Zenon
      <4> QED
        BY <4>1, <4>3, Zenon
    <3>5. /\ c * rs \in Nat /\ m * rs \in Nat /\ Q * rs \in Nat /\ c * rs + m * rs <= Q * rs
          /\ (at + c * rs) + m * rs = at + (c + m) * rs /\ at + c * rs + m * rs <= img.size
          /\ (Q - c) * rs - m * rs = (Q - (c + m)) * rs
          /\ m * rs > 0 /\ at + c * rs < img.size /\ (Q - c) * rs > 0
      <4>1. at + Q * rs <= img.size
        BY <1>5 DEF Readable
      <4>2. m \in Nat /\ m # 0
        BY <3>3
      <4> QED
        BY <1>1, <1>2, <1>5, <2>4, <3>3, <4>1, <4>2, ChunkInRun
    <3> DEFINE p == c * rs
               q == m * rs
               l == (Q - c) * rs
               w == (c + m) * rs
               r == Q * rs
               y == (Q - (c + m)) * rs
    <3>6. p \in Nat /\ q \in Nat /\ q > 0 /\ (at + p) + q = at + w /\ at + p + q <= img.size
          /\ l - q = y /\ at + p < img.size /\ l > 0 /\ r \in Nat /\ p + q <= r /\ l \in Int
      <4>1. l \in Int
        BY <1>2, <3>1
      <4> QED
        BY <3>5, <4>1
    <3>7. s.from = at + p /\ s.left = l /\ want = q
      BY <2>2, <3>4
    <3> HIDE DEF p, q, l, w, y, r, rest, least, want
    <3>8. n = q
      <4>1. ~(s.from + want > img.size)
        BY <1>1, <1>5, <3>6, <3>7
      <4> QED
        BY <3>7, <4>1
    <3> HIDE DEF n, over
    <3>9. ~bad
      <4>1. Readable(img, at + p, q)
        <5>1. Readable(img, at, r)
          BY <1>5 DEF r
        <5> QED
          BY <1>1, <1>5, <3>6, <5>1, ReadableInside, Zenon
      <4> QED
        BY <1>1, <1>5, <3>6, <3>7, <3>8, <4>1
    <3> HIDE DEF bad
    <3>10. ~(s.left <= 0)
      BY <3>6, <3>7
    <3>11. to = [x |-> chunk, from |-> s.from + n, left |-> s.left - n]
      BY <1>6, <1>12, <2>7, <3>9, <3>10, Zenon
    <3>12. to.x = chunk /\ to.from = s.from + n /\ to.left = s.left - n
      <4> HIDE DEF to, chunk
      <4> QED
        BY <3>11
    <3>13. n \div v.recsize = m
      BY <1>2, <3>4, <3>8 DEF q
    <3>14. chunk \in NtfsListing(img, v, del, (F + c) + (n \div v.recsize))
      <4>1. \A u \in 0..((n \div v.recsize) - 1) :
              (F + c) + u < MftTotal(img) => MftPlace(img, (F + c) + u) = s.from + u * v.recsize
        <5> TAKE u \in 0..((n \div v.recsize) - 1)
        <5>1. u \in 0..(m - 1)
          BY <3>13
        <5>2. c + u \in 0..(Q - 1) /\ (F + c) + u = F + (c + u)
          BY <1>5, <2>4, <3>3, <5>1
        <5>3. F + (c + u) < total => MftPlace(img, F + (c + u)) = at + (c + u) * rs
          BY <1>5, <5>2
        <5>4. at + (c + u) * rs = (at + p) + u * rs
          <6>1. (c + u) * rs = c * rs + u * rs
            BY <1>2, <2>4, <5>1
          <6> DEFINE e == u * rs
                     g == (c + u) * rs
          <6>2. g = p + e /\ e \in Int
            BY <1>2, <5>1, <6>1 DEF p
          <6> HIDE DEF e, g
          <6>3. at + g = (at + p) + e
            BY <1>5, <3>6, <6>2
          <6> QED
            BY <6>3 DEF e, g
        <5> QED
          BY <1>2, <3>7, <5>2, <5>3, <5>4 DEF total
      <4>2. F + c \in Nat
        BY <1>5, <2>4
      <4>3. n \div v.recsize \in Nat
        BY <3>3, <3>13
      <4>4. s.x \in NtfsListing(img, v, del, F + c)
        BY <2>2, Zenon DEF Upon
      <4> HIDE DEF n
      <4> QED
        BY <4>1, <4>2, <4>3, <4>4, NtfsChunkInOrder, Zenon
    <3>15. chunk \in Upon(F + (c + m))
      <4>1. (F + c) + m = F + (c + m)
        BY <1>5, <2>4, <3>3
      <4> QED
        BY <3>13, <3>14, <4>1 DEF Upon
    <3> HIDE DEF chunk, to
    <3>16. c + m \in 0..Q /\ c + m >= t
      BY <1>5, <2>1, <2>4, <2>7, <3>3
    <3>17. to.from = at + (c + m) * rs /\ to.left = (Q - (c + m)) * rs
      <4>1. to.from = at + w /\ to.left = y
        BY <1>5, <3>6, <3>7, <3>8, <3>12
      <4> QED
        BY <4>1 DEF w, y
    <3> QED
      BY <1>10, <3>12, <3>15, <3>16, <3>17
  <2> QED
    BY <2>5, <2>6, <2>7
<1> HIDE DEF to
<1>13. to \in NtfsScanning(img, v, del, at, F, Q, t)
  BY <1>11, <1>12, Zenon
<1> QED
  BY <1>13, Zenon DEF to

(* One run: its records are those that follow in the table.                  *)
LEMMA NtfsScanRunInOrder ==
  ASSUME NEW img, NtfsSound(img), NEW v, NtfsFinds(img, v), IsNtfs(v), NEW del \in BOOLEAN,
         NEW at, NEW F, NEW Q, RunHolds(img, at, F, Q), NEW run,
         NtfsOffset(v, run.start) = at, run.count * v.size = Q * RecordSize(img),
         NEW x0 \in NtfsListing(img, v, del, F)
  PROVE  ScanRun(img, v, del, x0, run) \in NtfsListing(img, v, del, F + Q)
<1>a. at \in Nat /\ F \in Nat /\ Q \in Nat
  BY Zenon DEF RunHolds
<1>b. RecordSize(img) \in Nat \ {0}
  BY RecordSizeIs, Zenon DEF NtfsSound
<1>c. Q * RecordSize(img) \in Nat /\ Q * RecordSize(img) >= Q
  <2> DEFINE rs == RecordSize(img)
  <2>1. rs \in Nat \ {0} /\ Q \in Nat
    BY <1>a, <1>b
  <2> HIDE DEF rs
  <2>2. rs - 1 \in Nat
    BY <2>1
  <2>3. Q * (rs - 1) >= 0
    BY <2>1, <2>2
  <2>4. Q * rs = Q * (rs - 1) + Q
    BY <2>1
  <2>5. Q * rs \in Nat
    BY <2>1
  <2> DEFINE p == Q * (rs - 1)
             q == Q * rs
  <2>6. p >= 0 /\ q = p + Q /\ q \in Nat
    BY <2>3, <2>4, <2>5
  <2>7. p \in Int
    BY <2>1
  <2> HIDE DEF p, q
  <2>8. q \in Nat /\ q >= Q
    BY <2>1, <2>6, <2>7
  <2> QED
    BY <2>8 DEF q, rs
<1> DEFINE n == run.count * v.size
           a == [x |-> x0, from |-> NtfsOffset(v, run.start), left |-> run.count * v.size]
           T == [k \in 0..n |-> NtfsScanning(img, v, del, at, F, Q, k)]
           Step(x, k) == ScanChunk(img, v, del, x)
           f[k \in 0..n] == IF k = 0 THEN a ELSE Step(f[k - 1], k)
           G == [k \in 1..n |-> [x \in T[k - 1] |-> Step(x, k)]]
<1>1. ScanRun(img, v, del, x0, run) = f[n].x
  BY Zenon DEF ScanRun, Iterate
<1>2. n \in Nat /\ a \in T[0]
  <2> DEFINE rs == RecordSize(img)
             l == Q * rs
  <2>1. n = l /\ a = [x |-> x0, from |-> at, left |-> l] /\ l \in Nat
    BY <1>c
  <2>2. at = at + 0 * rs /\ l = (Q - 0) * rs /\ F + 0 = F
    BY <1>a, <1>b
  <2> HIDE DEF n, a, l
  <2>3. a.x = x0 /\ a.from = at /\ a.left = l
    BY <2>1
  <2>4. a \in NtfsScan(img, v)
    <3>1. x0 \in NtfsFound(img, v)
      BY DEF NtfsListing
    <3>2. l \in Int
      BY <2>1
    <3> QED
      BY <1>a, <2>1, <3>1, <3>2 DEF NtfsScan
  <2>5. StandsAt(img, v, del, at, F, Q, a, 0)
    BY <2>2, <2>3 DEF StandsAt
  <2>6. 0 \in 0..Q /\ 0 >= 0 /\ 0 \in 0..n
    BY <1>a, <2>1
  <2>7. a \in NtfsScanning(img, v, del, at, F, Q, 0)
    BY <2>4, <2>5, <2>6 DEF NtfsScanning
  <2> QED
    BY <2>1, <2>6, <2>7
<1>3. ASSUME NEW k \in 1..n, NEW x \in T[k - 1] PROVE Step(x, k) \in T[k]
  <2> HIDE DEF n
  <2>1. k - 1 \in 0..n /\ k \in 0..n /\ k \in Nat \ {0}
    BY <1>2
  <2>2. x \in NtfsScanning(img, v, del, at, F, Q, k - 1)
    BY <2>1
  <2>3. ScanChunk(img, v, del, x) \in NtfsScanning(img, v, del, at, F, Q, k)
    BY <2>1, <2>2, NtfsScanChunkInOrder, Zenon
  <2> QED
    BY <2>1, <2>3
<1>4. \A k \in 1..n : \A x \in T[k - 1] : G[k][x] = Step(x, k)
  OBVIOUS
<1> HIDE DEF n, a, T, Step, G
<1>5. \A k \in 1..n : \A x \in T[k - 1] : G[k][x] \in T[k]
  BY <1>3, <1>4
<1>6. HasCourse(n, T, a, G)
  BY <1>2, <1>5, CourseInExists, Zenon
<1>7. PICK S, g : /\ g \in [0..n -> S] /\ g[0] = a
                  /\ \A k \in 1..n : g[k] = G[k][g[k - 1]]
                  /\ \A k \in 0..n : g[k] \in T[k]
  BY <1>6, Zenon DEF HasCourse
<1>8. \A k \in 1..n : g[k] = Step(g[k - 1], k)
  <2>1. \A k \in 1..n : k - 1 \in 0..n
    BY <1>2
  <2> QED
    BY <1>4, <1>7, <2>1
<1>9. g = [k \in 0..n |-> IF k = 0 THEN a ELSE Step(g[k - 1], k)]
  BY <1>7, <1>8
<1>10. f = [k \in 0..n |-> IF k = 0 THEN a ELSE Step(f[k - 1], k)]
  BY <1>9, Zenon
<1> HIDE DEF f
<1>11. f[0] \in T[0] /\ \A k \in 1..n : f[k - 1] \in T[k - 1] => f[k] \in T[k]
  <2>1. 0 \in 0..n /\ \A k \in 1..n : k \in 0..n /\ k # 0
    BY <1>2
  <2>2. f[0] = a /\ \A k \in 1..n : f[k] = Step(f[k - 1], k)
    BY <1>10, <2>1, Zenon
  <2> QED
    BY <1>2, <1>3, <2>2, Zenon
<1>12. f[n] \in T[n]
  BY <1>2, <1>11, TurnByTurnIn, Zenon
<1> QED
  <2>1. f[n] \in NtfsScanning(img, v, del, at, F, Q, n)
    BY <1>2, <1>12 DEF T
  <2> DEFINE s == f[n]
  <2>2. \/ s.x.stop /\ s.x \in NtfsListing(img, v, del, F + Q)
        \/ \E c \in 0..Q : (c >= n \/ c = Q) /\ StandsAt(img, v, del, at, F, Q, s, c)
    BY <2>1, Zenon DEF NtfsScanning
  <2> HIDE DEF s
  <2>3. ASSUME NEW c \in 0..Q, c >= n \/ c = Q, StandsAt(img, v, del, at, F, Q, s, c)
        PROVE  s.x \in NtfsListing(img, v, del, F + Q)
    <3>1. n >= Q
      <4> DEFINE l == Q * RecordSize(img)
      <4>1. n = l /\ l >= Q
        BY <1>c DEF n
      <4> HIDE DEF l
      <4> QED
        BY <4>1
    <3>2. c = Q
      BY <1>2, <1>a, <2>3, <3>1
    <3> QED
      BY <2>3, <3>2 DEF StandsAt
  <2>4. s.x \in NtfsListing(img, v, del, F + Q)
    BY <2>2, <2>3, Zenon
  <2> QED
    BY <1>1, <2>4 DEF s

(* The runs of the table hold its records, one run behind the other.           *)
Reaches(img, k) == End(RunPieces(img, Mft(img).runs), k) \div RecordSize(img)

Holds(img, v, k, Q) ==
  /\ RunHolds(img, NtfsOffset(v, v.runs[k].start), Reaches(img, k - 1), Q)
  /\ v.runs[k].count * v.size = Q * RecordSize(img)
  /\ Reaches(img, k - 1) + Q = Reaches(img, k)

(* Every run of the table of records holds whole records of it.              *)
LEMMA RunsHoldRecords ==
  ASSUME NEW img, NtfsSound(img), NEW v, NtfsFinds(img, v), NEW k \in 1..Len(Mft(img).runs)
  PROVE  \E Q \in Nat : Holds(img, v, k, Q)
<1> DEFINE runs == Mft(img).runs
           blocks == Mft(img).blocks
           p == RunPieces(img, runs)
           c == ClusterSize(img)
           rs == RecordSize(img)
           start == runs[k].start
           vcn == runs[k].vcn
           count == runs[k].count
           Q == (count * c) \div rs
           F == (vcn * c) \div rs
           at == p[k].at
           total == MftTotal(img)
<1>1. /\ img.size \in Nat /\ img.part \in Nat /\ img.boot \in NtfsBoots
      /\ NtfsFilesAre(img) /\ NtfsVolume(img) /\ NtfsTable(img)
  BY Zenon DEF NtfsSound
<1>2. rs \in Nat \ {0} /\ c \in Nat \ {0}
  BY <1>1, RecordSizeIs, Zenon
<1>3. /\ blocks \in Seq(Nat) /\ runs \in Seq(RunsOfFiles) /\ total \in Nat \ {0}
      /\ Len(blocks) = total * rs
  BY <1>1, <1>2, MftIsFile, Zenon
<1>4. StandsIn(img, blocks, p)
  BY <1>1, FirstRecordStands, RunsStand, Zenon
<1>5. /\ IsPieces(p) /\ Len(p) = Len(runs)
      /\ start \in Nat /\ vcn \in Nat /\ count \in Nat \ {0}
      /\ p[k].at = img.part + start * c /\ p[k].from = vcn * c /\ p[k].n = count * c
  <2>1. c \in Nat
    BY <1>2
  <2> QED
    BY <1>1, <1>3, <2>1, RunsArePieces, Zenon
<1>6. k \in DOMAIN p /\ k \in DOMAIN runs /\ Len(runs) \in Nat /\ k \in Nat \ {0}
  <2>1. Len(runs) \in Nat /\ DOMAIN runs = 1..Len(runs)
    BY <1>3, LenProperties
  <2> QED
    BY <1>5, <2>1 DEF IsPieces
<1>7. /\ p[k].from = End(p, k - 1) /\ p[k].from < Len(blocks) /\ Readable(img, p[k].at, p[k].n)
      /\ \A o \in 0..(p[k].n - 1) : p[k].from + o < Len(blocks) => blocks[p[k].from + o + 1] = p[k].at + o
  <2> HIDE DEF p, blocks
  <2> QED
    BY <1>4, <1>6, StandingPiece
<1>8. Multiple(vcn * c, rs) /\ Multiple(count * c, rs)
  BY <1>1, <1>6, Zenon DEF NtfsTable
<1> DEFINE a == vcn * c
           n == count * c
<1>9. a \in Nat /\ n \in Nat
  <2> HIDE DEF vcn, count, c
  <2> QED
    BY <1>2, <1>5
<1>10. Q \in Nat /\ n = Q * rs /\ F \in Nat /\ a = F * rs
  <2>1. Multiple(a, rs) /\ Multiple(n, rs)
    BY <1>8
  <2> HIDE DEF a, n
  <2>2. n \div rs \in Nat /\ n = (n \div rs) * rs /\ a \div rs \in Nat /\ a = (a \div rs) * rs
    BY <1>2, <1>9, <2>1, MultipleIs, Zenon
  <2> QED
    BY <2>2 DEF a, n
<1>11. v.part = img.part /\ v.size = c /\ v.runs = PlainUpto(runs, Len(runs))
  BY Zenon DEF NtfsFinds
<1>12. v.runs[k].start = start /\ v.runs[k].count = count
  BY <1>11 DEF PlainUpto
<1>13. NtfsOffset(v, v.runs[k].start) = at
  BY <1>5, <1>11, <1>12 DEF NtfsOffset
<1>14. v.runs[k].count * v.size = Q * rs
  BY <1>10, <1>11, <1>12
<1>15. Reaches(img, k - 1) = F
  BY <1>5, <1>7 DEF Reaches
<1>16. End(p, k) = a + n
  BY <1>5, <1>6 DEF End
<1> HIDE DEF p
<1>17. at \in Nat /\ Readable(img, at, Q * rs)
  <2>1. at \in Nat
    BY <1>5, <1>6 DEF IsPieces
  <2> QED
    BY <1>5, <1>7, <1>10, <2>1
<1> HIDE DEF Q, F, blocks, runs, start, vcn, count, a, n, at
<1>18. Reaches(img, k) = F + Q
  <2> DEFINE e == a + n
  <2>1. (F + Q) * rs = F * rs + Q * rs
    BY <1>2, <1>10
  <2>2. e \in Nat /\ F + Q \in Nat /\ (F + Q) * rs <= e /\ e < (F + Q) * rs + rs
    <3> DEFINE g == F * rs
               h == Q * rs
               j == (F + Q) * rs
    <3>1. j = g + h /\ a = g /\ n = h
      BY <1>10, <2>1
    <3> HIDE DEF g, h, j
    <3>2. rs \in Nat /\ a \in Nat /\ n \in Nat /\ F \in Nat /\ Q \in Nat
      BY <1>2, <1>9, <1>10
    <3>3. rs > 0 /\ e = j
      BY <1>2, <3>1
    <3>4. e \in Nat /\ F + Q \in Nat /\ j <= e /\ e < j + rs
      BY ONLY <3>2, <3>3
    <3> QED
      BY <3>4, Zenon DEF j
  <2> HIDE DEF e
  <2> DEFINE m == F + Q
  <2>3. m \in Nat /\ m * rs <= e /\ e < m * rs + rs
    BY <2>2
  <2> HIDE DEF m
  <2>4. e \div rs = m
    BY <1>2, <2>2, <2>3, QuotientIs, Zenon
  <2> QED
    BY <1>16, <2>4 DEF Reaches, p, e, m, runs
<1>19. \A t \in 0..(Q - 1) : F + t < total => MftPlace(img, F + t) = at + t * rs
  <2> TAKE t \in 0..(Q - 1)
  <2>1. ASSUME F + t < total PROVE MftPlace(img, F + t) = at + t * rs
    <3> DEFINE o == t * rs
               l == total * rs
               q == Q * rs
               b == F * rs
               y == (F + t) * rs
    <3>1. t \in Nat /\ F + t \in Nat
      BY <1>10
    <3>2. y = b + o
      BY <1>2, <1>10, <3>1
    <3>3. o \in Nat /\ o < q
      <4>1. Q - t - 1 \in Nat /\ (Q - t - 1) * rs >= 0
        BY <1>2, <1>10, <3>1
      <4>2. Q * rs = (Q - t - 1) * rs + t * rs + rs
        BY <1>2, <1>10, <3>1
      <4>3. t * rs \in Nat
        BY <1>2, <3>1
      <4> QED
        BY <1>2, <4>1, <4>2, <4>3
    <3>4. y < l
      <4>1. total - (F + t) - 1 \in Nat /\ (total - (F + t) - 1) * rs >= 0
        BY <1>2, <1>3, <2>1, <3>1
      <4>2. total * rs = (total - (F + t) - 1) * rs + (F + t) * rs + rs
        BY <1>2, <1>3, <3>1
      <4>3. (F + t) * rs \in Nat
        BY <1>2, <3>1
      <4> QED
        BY <1>2, <4>1, <4>2, <4>3
    <3>5. b \in Nat /\ q \in Nat /\ b = a /\ n = q /\ Len(blocks) = l
      BY <1>2, <1>3, <1>9, <1>10
    <3>6. p[k].from = a /\ p[k].n = n /\ p[k].at = at
      BY <1>5 DEF a, n, at
    <3>7. MftPlace(img, F + t) = blocks[y + 1]
      BY DEF MftPlace, blocks
    <3> HIDE DEF o, l, q, b, y
    <3>8. o \in 0..(p[k].n - 1) /\ p[k].from + o < Len(blocks) /\ p[k].from + o + 1 = y + 1
      BY <3>2, <3>3, <3>4, <3>5, <3>6
    <3>9. blocks[p[k].from + o + 1] = p[k].at + o
      BY <1>7, <3>8
    <3> QED
      BY <3>6, <3>7, <3>8, <3>9 DEF o
  <2> QED
    BY <2>1
<1>20. RunHolds(img, at, F, Q)
  BY <1>10, <1>17, <1>19 DEF RunHolds, total
<1>21. Holds(img, v, k, Q)
  BY <1>13, <1>14, <1>15, <1>18, <1>20, Zenon DEF Holds
<1> QED
  BY <1>10, <1>21
-----------------------------------------------------------------------------
(* The whole table scanned, what is listed are the files.                      *)
LEMMA TableReached ==
  ASSUME NEW img, NtfsSound(img)
  PROVE  /\ Reaches(img, 0) = 0 /\ Len(Mft(img).runs) \in Nat
         /\ Reaches(img, Len(Mft(img).runs)) >= MftTotal(img)
         /\ \A k \in 0..Len(Mft(img).runs) : Reaches(img, k) \in Nat
<1> DEFINE runs == Mft(img).runs
           blocks == Mft(img).blocks
           p == RunPieces(img, runs)
           rs == RecordSize(img)
           total == MftTotal(img)
<1>1. /\ img.size \in Nat /\ img.part \in Nat /\ img.boot \in NtfsBoots
      /\ NtfsFilesAre(img) /\ NtfsVolume(img) /\ NtfsTable(img)
  BY Zenon DEF NtfsSound
<1>2. rs \in Nat \ {0} /\ ClusterSize(img) \in Nat
  <2>1. rs \in Nat \ {0} /\ ClusterSize(img) \in Nat \ {0}
    BY <1>1, RecordSizeIs, Zenon
  <2> QED
    BY <2>1
<1>3. blocks \in Seq(Nat) /\ runs \in Seq(RunsOfFiles) /\ total \in Nat /\ Len(blocks) = total * rs
  <2>1. /\ blocks \in Seq(Nat) /\ runs \in Seq(RunsOfFiles) /\ total \in Nat \ {0}
        /\ Len(blocks) = total * rs
    BY <1>1, <1>2, MftIsFile, Zenon
  <2> QED
    BY <2>1
<1>4. StandsIn(img, blocks, p)
  BY <1>1, FirstRecordStands, RunsStand, Zenon
<1>5. IsPieces(p) /\ Len(p) = Len(runs) /\ Len(runs) \in Nat
  <2>1. IsPieces(p) /\ Len(p) = Len(runs)
    BY <1>1, <1>2, <1>3, RunsArePieces, Zenon
  <2> QED
    BY <1>3, <2>1
<1> HIDE DEF p, rs, total, runs, blocks
<1>6. \A k \in 0..Len(runs) : End(p, k) \in Nat /\ Reaches(img, k) = End(p, k) \div rs
  BY <1>5, EndIsNat DEF Reaches, p, rs, runs
<1>7. Len(blocks) <= End(p, Len(p))
  BY <1>4, Zenon DEF StandsIn, End
<1>8. ASSUME NEW k \in 0..Len(runs) PROVE Reaches(img, k) \in Nat
  <2> DEFINE e == End(p, k)
  <2>1. e \in Nat /\ Reaches(img, k) = e \div rs
    BY <1>6
  <2> HIDE DEF e
  <2>2. e \div rs \in Nat
    BY <1>2, <2>1
  <2> QED
    BY <2>1, <2>2
<1>9. Reaches(img, Len(runs)) >= total
  <2> DEFINE e == End(p, Len(runs))
  <2>1. Len(runs) \in 0..Len(runs)
    BY <1>5
  <2>2. e \in Nat /\ Reaches(img, Len(runs)) = e \div rs
    BY <1>6, <2>1
  <2>3. total * rs <= e
    BY <1>3, <1>5, <1>7
  <2> HIDE DEF e
  <2>4. e \div rs >= total
    BY <1>2, <1>3, <2>2, <2>3, QuotientAtLeast, Zenon
  <2> QED
    BY <2>2, <2>4
<1>10. Reaches(img, 0) = 0
  <2>1. End(p, 0) = 0 /\ 0 \in 0..Len(runs)
    BY <1>5 DEF End
  <2> QED
    BY <1>2, <1>6, <2>1
<1> QED
  BY <1>5, <1>8, <1>9, <1>10 DEF runs, total

(* The files of the table are listed, each with a record that is right for it.  *)
NtfsLists(img, v, del, out) ==
  /\ Len(out) = Len(img.truth[del])
  /\ \A j \in 1..Len(img.truth[del]) : out[j] \in NtfsRight(img, v, img.truth[del][j])

(* listDirectory and findDeletedFiles of NTFS list the files, each under its *)
(* name.                                                                     *)
LEMMA NtfsListInOrder ==
  ASSUME NEW img, NtfsSound(img), NEW v, NtfsFinds(img, v), IsNtfs(v), NEW del \in BOOLEAN
  PROVE  NtfsLists(img, v, del, NtfsList(img, v, del))
<1>a. /\ Reaches(img, 0) = 0 /\ Len(Mft(img).runs) \in Nat
      /\ Reaches(img, Len(Mft(img).runs)) >= MftTotal(img)
      /\ \A k \in 0..Len(Mft(img).runs) : Reaches(img, k) \in Nat
  BY TableReached, Zenon
<1>b. v.runs = PlainUpto(Mft(img).runs, Len(Mft(img).runs))
  BY Zenon DEF NtfsFinds
<1>c. Len(v.runs) = Len(Mft(img).runs)
  <2> DEFINE runs == Mft(img).runs
  <2>1. Len(PlainUpto(runs, Len(runs))) = Len(runs)
    <3> HIDE DEF runs
    <3> QED
      BY <1>a DEF PlainUpto, runs
  <2> QED
    BY <1>b, <2>1
<1>d. /\ IsFiles(img.truth[del]) /\ Placed(img.truth[del], NtfsSlots(img, del))
      /\ MftTotal(img) \in Nat
  <2>1. NtfsFilesAre(img) /\ NtfsTable(img)
    BY Zenon DEF NtfsSound
  <2>2. MftTotal(img) \in 1..MaxRecords
    BY <2>1, Zenon DEF NtfsTable
  <2>3. MftTotal(img) \in Nat
    BY <2>2
  <2> QED
    BY <2>1, <2>3, Zenon DEF NtfsFilesAre, NtfsTable
<1> DEFINE n == Len(v.runs)
           a == [index |-> 0, out |-> <<>>, stop |-> FALSE]
           T == [k \in 0..n |-> NtfsListing(img, v, del, Reaches(img, k))]
           Step(x, k) == ScanRun(img, v, del, x, v.runs[k])
           f[k \in 0..n] == IF k = 0 THEN a ELSE Step(f[k - 1], k)
           G == [k \in 1..n |-> [x \in T[k - 1] |-> Step(x, k)]]
<1>1. NtfsList(img, v, del) = f[n].out
  BY Zenon DEF NtfsList, Iterate
<1>2. n \in Nat /\ a \in T[0]
  <2> DEFINE P == NtfsAllRight(img, v, img.truth[del])
  <2>1. n \in Nat /\ 0 \in 0..n
    BY <1>a, <1>c
  <2>2. \A j \in 1..Len(img.truth[del]) : img.truth[del][j].slot > -1
    <3>1. \A j \in 1..Len(img.truth[del]) : img.truth[del][j].slot \in Nat
      BY <1>d DEF IsFiles
    <3> QED
      BY <3>1
  <2> HIDE DEF P, n
  <2>3. SeenUpTo(img.truth[del], P, <<>>, -1)
    <3>1. -1 \in Int
      OBVIOUS
    <3> QED
      BY <1>d, <2>2, <3>1, SeenNothing, Zenon
  <2>4. a \in NtfsFound(img, v)
    <3> DEFINE L == NtfsListable(img, v)
    <3>1. <<>> \in Seq(L) /\ 0 \in Nat /\ FALSE \in BOOLEAN
      <4> HIDE DEF L
      <4> QED
        OBVIOUS
    <3> QED
      BY <3>1, Zenon DEF NtfsFound
  <2>5. a.stop = FALSE /\ a.index = 0 /\ a.out = <<>>
    OBVIOUS
  <2> HIDE DEF a
  <2>6. 0 - 1 = -1 /\ 0 <= MftTotal(img)
    BY <1>d
  <2>7. a \in NtfsListing(img, v, del, 0)
    BY <2>3, <2>4, <2>5, <2>6 DEF NtfsListing, P
  <2>8. T[0] = NtfsListing(img, v, del, Reaches(img, 0))
    BY <2>1, Zenon
  <2> QED
    BY <1>a, <2>1, <2>7, <2>8
<1>3. ASSUME NEW k \in 1..n, NEW x \in T[k - 1] PROVE Step(x, k) \in T[k]
  <2>1. k - 1 \in 0..n /\ k \in 0..n /\ k \in 1..Len(Mft(img).runs)
    BY <1>2, <1>c
  <2>2. x \in NtfsListing(img, v, del, Reaches(img, k - 1))
    BY <2>1
  <2> DEFINE F == Reaches(img, k - 1)
             at == NtfsOffset(v, v.runs[k].start)
  <2>3. PICK Q \in Nat : Holds(img, v, k, Q)
    BY <2>1, RunsHoldRecords, Zenon
  <2>4. RunHolds(img, at, F, Q) /\ v.runs[k].count * v.size = Q * RecordSize(img)
        /\ F + Q = Reaches(img, k)
    BY <2>3, Zenon DEF Holds
  <2> DEFINE to == ScanRun(img, v, del, x, v.runs[k])
             run == v.runs[k]
  <2>5. NtfsOffset(v, run.start) = at /\ run.count * v.size = Q * RecordSize(img)
    BY <2>4
  <2>6. to \in NtfsListing(img, v, del, F + Q)
    <3>1. x \in NtfsListing(img, v, del, F)
      BY <2>2
    <3> HIDE DEF F, at
    <3>2. ScanRun(img, v, del, x, run) \in NtfsListing(img, v, del, F + Q)
      <4> HIDE DEF run
      <4> QED
        BY <2>4, <2>5, <3>1, NtfsScanRunInOrder, Zenon
    <3> QED
      BY <3>2
  <2> HIDE DEF to, F
  <2>7. to \in NtfsListing(img, v, del, Reaches(img, k))
    BY <2>4, <2>6, Zenon
  <2>8. T[k] = NtfsListing(img, v, del, Reaches(img, k))
    BY <2>1, Zenon
  <2> QED
    BY <2>7, <2>8, Zenon DEF to
<1>4. \A k \in 1..n : \A x \in T[k - 1] : G[k][x] = Step(x, k)
  OBVIOUS
<1> HIDE DEF n, a, T, Step, G
<1>5. \A k \in 1..n : \A x \in T[k - 1] : G[k][x] \in T[k]
  BY <1>3, <1>4
<1>6. HasCourse(n, T, a, G)
  BY <1>2, <1>5, CourseInExists, Zenon
<1>7. PICK S, g : /\ g \in [0..n -> S] /\ g[0] = a
                  /\ \A k \in 1..n : g[k] = G[k][g[k - 1]]
                  /\ \A k \in 0..n : g[k] \in T[k]
  BY <1>6, Zenon DEF HasCourse
<1>8. \A k \in 1..n : g[k] = Step(g[k - 1], k)
  <2>1. \A k \in 1..n : k - 1 \in 0..n
    BY <1>2
  <2> QED
    BY <1>4, <1>7, <2>1
<1>9. g = [k \in 0..n |-> IF k = 0 THEN a ELSE Step(g[k - 1], k)]
  BY <1>7, <1>8
<1>10. f = [k \in 0..n |-> IF k = 0 THEN a ELSE Step(f[k - 1], k)]
  BY <1>9, Zenon
<1> HIDE DEF f
<1>11. f[0] \in T[0] /\ \A k \in 1..n : f[k - 1] \in T[k - 1] => f[k] \in T[k]
  <2>1. 0 \in 0..n /\ \A k \in 1..n : k \in 0..n /\ k # 0
    BY <1>2
  <2>2. f[0] = a /\ \A k \in 1..n : f[k] = Step(f[k - 1], k)
    BY <1>10, <2>1, Zenon
  <2> QED
    BY <1>2, <1>3, <2>2, Zenon
<1>12. f[n] \in T[n]
  BY <1>2, <1>11, TurnByTurnIn, Zenon
<1> QED
  <2> DEFINE files == img.truth[del]
             P == NtfsAllRight(img, v, files)
             total == MftTotal(img)
             x == f[n]
  <2>1. n \in 0..n /\ n = Len(Mft(img).runs)
    BY <1>2, <1>c DEF n
  <2>2. x \in NtfsListing(img, v, del, Reaches(img, n))
    BY <1>12, <2>1 DEF T
  <2>3. Reaches(img, n) \in Nat /\ Reaches(img, n) >= total
    BY <1>a, <2>1
  <2> HIDE DEF x
  <2>4. SeenUpTo(files, P, x.out, total - 1)
    <3>1. CASE x.stop
      BY <2>2, <3>1 DEF NtfsListing
    <3>2. CASE ~x.stop
      <4> DEFINE k == Reaches(img, n)
      <4>1. k <= total /\ SeenUpTo(files, P, x.out, k - 1)
        BY <2>2, <3>2 DEF NtfsListing
      <4>2. k = total
        BY <1>d, <2>3, <4>1
      <4> QED
        BY <4>1, <4>2
    <3> QED
      BY <3>1, <3>2
  <2>5. \A j \in 1..Len(files) : files[j].slot <= total - 1
    <3> TAKE j \in 1..Len(files)
    <3>1. files[j].slot \in NtfsSlots(img, del)
      BY <1>d DEF Placed, IsFiles
    <3> QED
      BY <1>d, <3>1 DEF NtfsSlots
  <2>6. total - 1 \in Int
    BY <1>d
  <2> HIDE DEF files, P, total
  <2>7. Len(x.out) = Len(files) /\ \A j \in 1..Len(files) : x.out[j] \in P[j]
    BY <1>d, <2>4, <2>5, <2>6, SeenAll, Zenon DEF files
  <2>8. \A j \in 1..Len(files) : x.out[j] \in NtfsRight(img, v, files[j])
    BY <2>7 DEF P, NtfsAllRight
  <2>9. NtfsLists(img, v, del, x.out)
    BY <2>7, <2>8, Zenon DEF NtfsLists, files
  <2> QED
    BY <1>1, <2>9, Zenon DEF x
-----------------------------------------------------------------------------
(* What is extracted of a file is its content, in runs or in its record.       *)
LEMMA NtfsRunsExtracted ==
  ASSUME NEW img, NtfsSound(img), NEW v, NtfsFinds(img, v), NEW runs \in Seq(RunsOfFiles),
         NEW blocks \in Seq(Nat), blocks # <<>>, Len(blocks) <= MaxExtract, InRuns(img, blocks, runs),
         NEW r, r.runs = PlainUpto(runs, Len(runs)), r.size = Len(blocks)
  PROVE  NtfsExtract(img, v, r) = blocks
<1> DEFINE p == RunPieces(img, runs)
           c == ClusterSize(img)
<1>a. /\ img.size \in Nat /\ img.part \in Nat /\ c \in Nat
  <2>1. c \in Nat \ {0}
    BY RecordSizeIs, Zenon DEF NtfsSound
  <2> QED
    BY <2>1, Zenon DEF NtfsSound
<1>b. /\ IsPieces(p) /\ Len(p) = Len(runs)
      /\ \A k \in 1..Len(runs) : p[k].at = img.part + runs[k].start * c /\ p[k].n = runs[k].count * c
  BY <1>a, RunsArePieces, Zenon
<1>c. StandsIn(img, blocks, p)
  BY RunsStand, Zenon
<1> HIDE DEF p
<1>d. runs # <<>>
  <2> SUFFICES ASSUME runs = <<>> PROVE FALSE
    OBVIOUS
  <2>1. p = <<>>
    BY <1>b DEF IsPieces
  <2> QED
    BY <1>c, <2>1, NoPiecesNoContent
<1>e. r.runs # <<>> /\ Len(r.runs) = Len(runs) /\ Len(runs) \in Nat /\ Len(runs) > 0
  <2>1. PlainUpto(runs, Len(runs)) # <<>>
    BY <1>d, PlainIsSome, Zenon
  <2>2. Len(runs) \in Nat /\ Len(runs) > 0
    BY <1>d
  <2>3. Len(PlainUpto(runs, Len(runs))) = Len(runs)
    BY <2>2 DEF PlainUpto
  <2> QED
    BY <2>1, <2>2, <2>3, Zenon
<1>f. r.size # 0
  BY EmptySeq, LenProperties
<1>g. \A k \in 1..Len(runs) : /\ NtfsOffset(v, r.runs[k].start) = p[k].at
                              /\ r.runs[k].count * v.size = p[k].n
  <2> TAKE k \in 1..Len(runs)
  <2>1. r.runs[k].start = runs[k].start /\ r.runs[k].count = runs[k].count
    BY DEF PlainUpto
  <2>2. v.part = img.part /\ v.size = c
    BY Zenon DEF NtfsFinds
  <2> QED
    BY <1>b, <2>1, <2>2 DEF NtfsOffset
<1> DEFINE n == Len(r.runs)
           a == Extraction(r.size)
           T == [k \in 0..n |-> {Gotten(blocks, Upto(blocks, p, k))}]
           Step(x, k) == Piece(img, x, NtfsOffset(v, r.runs[k].start),
                          r.runs[k].count * v.size)
           f[k \in 0..n] == IF k = 0 THEN a ELSE Step(f[k - 1], k)
           G == [k \in 1..n |-> [x \in T[k - 1] |-> Step(x, k)]]
<1>1. NtfsExtract(img, v, r) = f[n].data
  BY <1>e, <1>f, Zenon DEF NtfsExtract, Iterate
<1>2. n \in Nat /\ a \in T[0]
  <2>1. n \in Nat /\ 0 \in 0..n /\ 0 \in 0..Len(p)
    BY <1>b, <1>e
  <2>2. Upto(blocks, p, 0) = 0
    <3>1. End(p, 0) = 0 /\ End(p, 0) <= Len(blocks)
      BY DEF End
    <3> QED
      BY <1>b, <2>1, <3>1, UptoIs
  <2>3. a = Gotten(blocks, 0)
    BY GottenNothing, Zenon
  <2> HIDE DEF n, a
  <2> QED
    BY <2>1, <2>2, <2>3
<1>3. ASSUME NEW k \in 1..n, NEW x \in T[k - 1] PROVE Step(x, k) \in T[k]
  <2>1. k - 1 \in 0..n /\ k \in 0..n /\ k \in 1..Len(runs) /\ k \in 1..Len(p)
    BY <1>2, <1>b, <1>e
  <2>2. x = Gotten(blocks, Upto(blocks, p, k - 1))
    BY <2>1
  <2>3. Continues(img, blocks, p, k)
    BY <1>a, <1>b, <1>c, <2>1, NextPiece, Zenon
  <2>4. Step(x, k) = Gotten(blocks, Upto(blocks, p, k))
    BY <1>g, <2>1, <2>2, <2>3, Zenon DEF Continues
  <2> HIDE DEF Step
  <2> QED
    BY <2>1, <2>4
<1>4. \A k \in 1..n : \A x \in T[k - 1] : G[k][x] = Step(x, k)
  OBVIOUS
<1> HIDE DEF n, a, T, Step, G
<1>5. \A k \in 1..n : \A x \in T[k - 1] : G[k][x] \in T[k]
  BY <1>3, <1>4
<1>6. HasCourse(n, T, a, G)
  BY <1>2, <1>5, CourseInExists, Zenon
<1>7. PICK S, g : /\ g \in [0..n -> S] /\ g[0] = a
                  /\ \A k \in 1..n : g[k] = G[k][g[k - 1]]
                  /\ \A k \in 0..n : g[k] \in T[k]
  BY <1>6, Zenon DEF HasCourse
<1>8. \A k \in 1..n : g[k] = Step(g[k - 1], k)
  <2>1. \A k \in 1..n : k - 1 \in 0..n
    BY <1>2
  <2> QED
    BY <1>4, <1>7, <2>1
<1>9. g = [k \in 0..n |-> IF k = 0 THEN a ELSE Step(g[k - 1], k)]
  BY <1>7, <1>8
<1>10. f = [k \in 0..n |-> IF k = 0 THEN a ELSE Step(f[k - 1], k)]
  BY <1>9, Zenon
<1> HIDE DEF f
<1>11. f[0] \in T[0] /\ \A k \in 1..n : f[k - 1] \in T[k - 1] => f[k] \in T[k]
  <2>1. 0 \in 0..n /\ \A k \in 1..n : k \in 0..n /\ k # 0
    BY <1>2
  <2>2. f[0] = a /\ \A k \in 1..n : f[k] = Step(f[k - 1], k)
    BY <1>10, <2>1, Zenon
  <2> QED
    BY <1>2, <1>3, <2>2, Zenon
<1>12. f[n] \in T[n]
  BY <1>2, <1>11, TurnByTurnIn, Zenon
<1> QED
  <2> DEFINE m == Len(p)
  <2>1. n = m /\ m \in 0..m /\ m \in 0..n /\ n \in 0..n
    BY <1>2, <1>b, <1>e DEF n
  <2>2. f[n] = Gotten(blocks, Upto(blocks, p, m))
    BY <1>12, <2>1 DEF T
  <2>3. Upto(blocks, p, m) = Len(blocks)
    BY <1>a, <1>b, <1>c, <2>1, GottenUpto
  <2>4. f[n].data = blocks
    BY <2>2, <2>3, GottenAll
  <2> QED
    BY <1>1, <2>4

(* Content in the record is extracted from it.                               *)
LEMMA NtfsResidentExtracted ==
  ASSUME NEW img, img.size \in Nat, NEW v,
         NEW blocks \in Seq(Nat), blocks # <<>>, Len(blocks) <= MaxExtract,
         NEW r, r.runs = <<>>, r.at \in Nat, r.at > 0, r.size = Len(blocks),
         blocks = Blocks(r.at, r.size), Readable(img, r.at, r.size)
  PROVE  NtfsExtract(img, v, r) = blocks
<1> DEFINE m == Len(blocks)
<1>1. m \in Nat /\ m > 0
  BY EmptySeq, LenProperties
<1>2. NtfsExtract(img, v, r) = Piece(img, Extraction(r.size), r.at, r.size).data
  BY <1>1 DEF NtfsExtract
<1>3. Extraction(r.size) = Gotten(blocks, 0)
  BY GottenNothing, Zenon
<1>4. StandHere(blocks, 0, r.at, m)
  <2>1. ASSUME NEW o \in 0..(m - 1) PROVE blocks[0 + o + 1] = r.at + o
    <3> HIDE DEF m
    <3>1. o \in Nat /\ 0 + o + 1 \in 1..m
      BY <1>1
    <3>2. Blocks(r.at, m)[0 + o + 1] = r.at + o
      BY <3>1 DEF Blocks
    <3> QED
      BY <3>2 DEF m
  <2> QED
    BY <2>1 DEF StandHere
<1>5. Adding(img, blocks, 0, m, r.at)
  <2>1. Readable(img, r.at, m)
    BY Zenon
  <2> QED
    BY <1>1, <1>4, <2>1 DEF Adding
<1>6. Adds(img, blocks, 0, m, r.at)
  BY <1>5, PieceAdds, Zenon
<1>7. Min({0 + m, Len(blocks)}) = m
  <2>1. 0 + m = m /\ {m, m} = {m}
    BY <1>1
  <2> QED
    BY <1>1, <2>1, OnlyOne
<1>8. Piece(img, Gotten(blocks, 0), r.at, m) = Gotten(blocks, m)
  BY <1>6, <1>7 DEF Adds
<1> QED
  BY <1>2, <1>3, <1>8, GottenAll

(* extractFile of NTFS gives the content.                                    *)
LEMMA NtfsExtractInOrder ==
  ASSUME NEW img, img.kind = "ntfs", NtfsSound(img), NEW v, NtfsFinds(img, v), NEW file,
         file.runs \in Seq(RunsOfFiles), file.blocks \in Seq(Nat), Fits(file),
         NEW r \in NtfsRight(img, v, file), NEW del
  PROVE  Returns(img, NtfsExtract(img, v, r), file, del)
<1> DEFINE blocks == file.blocks
           out == NtfsExtract(img, v, r)
<1>1. NtfsReads(img, r, file) /\ r \in NtfsListable(img, v)
  BY DEF NtfsRight
<1>2. img.size \in Nat
  BY Zenon DEF NtfsSound
<1> SUFFICES ASSUME file.plain PROVE Returns(img, out, file, del)
  BY DEF Returns, Promised
<1>3. r.size = Len(blocks) /\ Len(blocks) <= MaxExtract
  BY <1>1, Zenon DEF NtfsReads, Fits
<1>4. ASSUME out = blocks PROVE Returns(img, out, file, del)
  <2>1. Len(blocks) \in Nat /\ Extracts(blocks, blocks, del)
    BY DEF Extracts
  <2> QED
    BY <1>4, <2>1, ExtractedReturns, Zenon
<1>5. CASE blocks = <<>>
  <2>1. r.size = 0
    BY <1>3, <1>5
  <2> QED
    BY <1>4, <1>5, <2>1 DEF NtfsExtract
<1>6. CASE blocks # <<>>
  <2>1. \/ r.runs = PlainUpto(file.runs, Len(file.runs)) /\ InRuns(img, blocks, file.runs)
        \/ r.runs = <<>> /\ InRecord(img, blocks, r.at)
    BY <1>1, <1>6, Zenon DEF NtfsReads
  <2>2. CASE r.runs = PlainUpto(file.runs, Len(file.runs)) /\ InRuns(img, blocks, file.runs)
    <3>1. blocks \in Seq(Nat) /\ Len(blocks) <= MaxExtract /\ file.runs \in Seq(RunsOfFiles)
      BY <1>3
    <3>2. out = blocks
      <4> HIDE DEF blocks
      <4> QED
        BY <1>3, <1>6, <2>2, <3>1, NtfsRunsExtracted
    <3> QED
      BY <1>4, <3>2, Zenon
  <2>3. CASE r.runs = <<>> /\ InRecord(img, blocks, r.at)
    <3> DEFINE raw == Blocks(r.at, r.size)
               m == Len(blocks)
    <3>1. r.at \in Nat
      BY <1>1, RecordFileIs, Zenon DEF NtfsSound
    <3>2. /\ r.at > 0 /\ Readable(img, r.at, r.size)
          /\ \A o \in 1..m : blocks[o] \in {r.at + o - 1, Mended(img, r.at + o - 1)}
      BY <1>3, <2>3, Zenon DEF InRecord
    <3>3. m \in Nat /\ m > 0 /\ m <= MaxExtract /\ r.size = m
      BY <1>3, <1>6, EmptySeq, LenProperties
    <3> HIDE DEF blocks, m
    <3>4. raw \in Seq(Nat) /\ Len(raw) = m /\ raw # <<>> /\ \A o \in 1..m : raw[o] = r.at + o - 1
      <4>1. raw = [o \in 1..m |-> r.at + o - 1]
        BY <3>3 DEF Blocks
      <4> HIDE DEF raw
      <4>2. \A o \in 1..m : raw[o] = r.at + o - 1 /\ r.at + o - 1 \in Nat
        BY <3>1, <3>2, <4>1
      <4>3. raw \in [1..m -> Nat]
        BY <4>1, <4>2, Zenon
      <4>4. raw \in Seq(Nat) /\ Len(raw) = m
        BY <3>3, <4>3
      <4>5. raw # <<>>
        BY <3>3, <4>4
      <4> QED
        BY <4>2, <4>4, <4>5, Zenon
    <3>5. NtfsExtract(img, v, r) = raw
      <4> HIDE DEF raw
      <4>1. raw = Blocks(r.at, r.size)
        BY DEF raw
      <4>2. /\ raw \in Seq(Nat) /\ raw # <<>> /\ Len(raw) <= MaxExtract /\ r.size = Len(raw)
            /\ r.runs = <<>> /\ r.at \in Nat /\ r.at > 0 /\ Readable(img, r.at, r.size)
        BY <2>3, <3>1, <3>2, <3>3, <3>4, Zenon
      <4> QED
        BY <1>2, <4>1, <4>2, NtfsResidentExtracted, ZenonT(40)
    <3>6. out = raw
      BY <3>5
    <3> HIDE DEF raw, out
    <3>7. /\ Len(out) <= m /\ Len(out) = m /\ out # <<>>
          /\ \A o \in 1..Len(out) : out[o] = blocks[o] \/ Mended(img, out[o]) = blocks[o]
      BY <3>2, <3>3, <3>4, <3>6
    <3> QED
      BY <3>7 DEF Returns, Begins, blocks, m
  <2> QED
    BY <2>1, <2>2, <2>3, Zenon
<1> QED
  BY <1>5, <1>6

(* What is listed and extracted of an NTFS volume in order is right for the    *)
(* files, in their order.                                                     *)
LEMMA NtfsReadsRightly ==
  ASSUME NEW img, img.size \in Nat, img.boot \in NtfsBoots, img.part \in Nat, img.kind = "ntfs",
         img.mft \in [DOMAIN img.mft -> NtfsRecords], DOMAIN img.mft \subseteq Nat,
         Described(img), NtfsInOrder(img),
         NEW v, v = NtfsProbe(img, img.part), v # NoVolume, NEW del \in BOOLEAN
  PROVE  /\ Len(NtfsList(img, v, del)) = Len(img.truth[del])
         /\ \A j \in 1..Len(img.truth[del]) :
              /\ NtfsList(img, v, del)[j].name = img.truth[del][j].name
              /\ Returns(img, NtfsExtract(img, v, NtfsList(img, v, del)[j]), img.truth[del][j], del)
<1> DEFINE out == NtfsList(img, v, del)
           files == img.truth[del]
<1>1. NtfsFilesAre(img) /\ NtfsVolume(img) /\ NtfsTable(img)
  BY NtfsFilesDescribed, NtfsIsInOrder, Zenon
<1>2. NtfsSound(img)
  BY <1>1, Zenon DEF NtfsSound
<1>3. NtfsFinds(img, v)
  BY <1>1, NtfsProbeInOrder, Zenon
<1>4. IsNtfs(v)
  BY NtfsProbeFinds, Zenon
<1>5. NtfsLists(img, v, del, out)
  BY <1>2, <1>3, <1>4, NtfsListInOrder, Zenon
<1>6. /\ Len(out) = Len(files)
      /\ \A j \in 1..Len(files) : out[j] \in NtfsRight(img, v, files[j])
  BY <1>5, Zenon DEF NtfsLists
<1>7. \A j \in 1..Len(files) : /\ files[j].blocks \in Seq(Nat) /\ Fits(files[j])
                               /\ files[j].runs \in Seq(RunsOfFiles)
  BY <1>1, Zenon DEF NtfsFilesAre
<1> HIDE DEF out
<1>8. ASSUME NEW j \in 1..Len(files)
      PROVE  out[j].name = files[j].name /\ Returns(img, NtfsExtract(img, v, out[j]), files[j], del)
  <2> DEFINE file == files[j]
             r == out[j]
  <2>1. /\ r \in NtfsRight(img, v, file) /\ file.runs \in Seq(RunsOfFiles)
        /\ file.blocks \in Seq(Nat) /\ Fits(file)
    BY <1>6, <1>7
  <2> HIDE DEF file, r
  <2>2. r.name = file.name
    BY <2>1 DEF NtfsRight, NtfsReads
  <2>3. Returns(img, NtfsExtract(img, v, r), file, del)
    BY <1>2, <1>3, <2>1, NtfsExtractInOrder, Zenon
  <2> QED
    BY <2>2, <2>3, Zenon DEF file, r
<1> QED
  BY <1>6, <1>8, Zenon DEF out
-----------------------------------------------------------------------------
(* A volume in order is recognised, and where it begins.                       *)
LEMMA ProbedInOrder ==
  ASSUME image \in Disks, image.sound
  PROVE  /\ image.kind # "raw" /\ image.size \in Nat /\ image.part \in Nat
         /\ Tabled(image) /\ TableInOrder(image) /\ Probes(image.part).valid
         /\ Probes(image.part).part = image.part
<1>1. /\ image.kind \in {"raw", "fat32", "exfat", "ntfs"} /\ image.size \in Nat
      /\ InOrder(image) /\ (image.kind # "raw" => Tabled(image) /\ image.part \in Nat)
  BY DiskAssumption
<1>2. image.kind # "raw" /\ TableInOrder(image) /\ Described(image)
  BY <1>1, Zenon DEF InOrder
<1>3. ASSUME image.kind = "fat32"
      PROVE  Probes(image.part).valid /\ Probes(image.part).part = image.part
  <2> DEFINE v == Fat32Probe(image, image.part)
  <2>1. Fat32InOrder(image) /\ image.boot \in Fat32Boots
    BY <1>1, <1>3, DiskAssumption DEF InOrder
  <2>2. Probes(image.part) = v
    BY <1>3 DEF Probes
  <2>3. v.valid /\ v.part = image.part
    BY <2>1 DEF Fat32InOrder, Fat32Probe, Fat32Boots
  <2> QED
    BY <2>2, <2>3
<1>4. ASSUME image.kind = "exfat"
      PROVE  Probes(image.part).valid /\ Probes(image.part).part = image.part
  <2> DEFINE v == ExFatProbe(image, image.part)
  <2>1. ExFatInOrder(image) /\ image.boot \in ExFatBoots
    BY <1>1, <1>4, DiskAssumption DEF InOrder
  <2>2. Probes(image.part) = v
    BY <1>4 DEF Probes
  <2>3. /\ Readable(image, image.part, 1) /\ image.boot.signature /\ image.boot.label
        /\ image.boot.bpsShift \in 9..12 /\ ~(image.boot.bpsShift + image.boot.spcShift > 25)
        /\ image.boot.spcShift \in Nat
    BY <2>1 DEF ExFatInOrder, ExFatBoots
  <2>4. ~(image.boot.spcShift > 16)
    BY <2>3
  <2>5. v.valid /\ v.part = image.part
    BY <2>3, <2>4 DEF ExFatProbe
  <2> QED
    BY <2>2, <2>5
<1>5. ASSUME image.kind = "ntfs"
      PROVE  Probes(image.part).valid /\ Probes(image.part).part = image.part
  <2> DEFINE v == NtfsProbe(image, image.part)
  <2>1. NtfsVolume(image) /\ image.boot \in NtfsBoots
    BY <1>1, <1>5, DiskAssumption, NtfsIsInOrder DEF InOrder
  <2>2. Probes(image.part) = v
    BY <1>5 DEF Probes
  <2>3. /\ Readable(image, image.part, 1) /\ image.boot.signature /\ image.boot.label
        /\ image.boot.bps \in {1, 2, 4, 8} /\ image.boot.spc # 0
    BY <2>1 DEF NtfsVolume, NtfsBoots
  <2>4. v.valid /\ v.part = image.part
    BY <2>3 DEF NtfsProbe
  <2> QED
    BY <2>2, <2>4
<1> QED
  BY <1>1, <1>2, <1>3, <1>4, <1>5

(* What an analysis of a sound image has found: its partitions begin where the *)
(* volume does, and the volume is what the analyzer makes of that place.        *)
LEMMA PartitionsBeginThere ==
  ASSUME AnalysisInv, image.sound, table # NoTable
  PROVE  AllBegin(table.partitions, image.part)
<1>1. image \in Disks /\ table = DetectPartitions(image)
  BY Zenon DEF AnalysisInv
<1>2. /\ image.size \in Nat /\ image.part \in Nat /\ Tabled(image) /\ TableInOrder(image)
  BY <1>1, ProbedInOrder, Zenon
<1> QED
  BY <1>1, <1>2, PartitionsInOrder, Zenon

(* What was found on an image in order is what the probe at its volume says. *)
LEMMA VolumeIsThere ==
  ASSUME AnalysisInv, image.sound, volume # NoVolume
  PROVE  table # NoTable /\ volume = Probes(image.part)
<1>1. PICK m \in DOMAIN table.partitions : volume = Probes(table.partitions[m].start)
  BY Zenon DEF AnalysisInv
<1>2. table # NoTable
  BY <1>1 DEF NoTable
<1>3. table.partitions[m].start = image.part
  BY <1>1, <1>2, PartitionsBeginThere, Zenon DEF AllBegin
<1> QED
  BY <1>1, <1>2, <1>3

(* What AnalysisInv says of the volume of an image in order.                 *)
LEMMA VolumeFoundFollows == AnalysisInv => VolumeFound
<1> SUFFICES ASSUME AnalysisInv, image.sound, table # NoTable
             PROVE  /\ \E m \in DOMAIN table.partitions : table.partitions[m].start = image.part
                    /\ Probes(image.part).valid
                    /\ volume # NoVolume => volume.part = image.part
  BY DEF VolumeFound
<1>1. image \in Disks
  BY Zenon DEF AnalysisInv
<1>2. Probes(image.part).valid /\ Probes(image.part).part = image.part
  BY <1>1, ProbedInOrder, Zenon
<1>3. AllBegin(table.partitions, image.part)
  BY PartitionsBeginThere, Zenon
<1>4. 1 \in DOMAIN table.partitions /\ table.partitions[1].start = image.part
  BY <1>3 DEF AllBegin
<1>5. volume # NoVolume => volume.part = image.part
  BY <1>2, VolumeIsThere, Zenon
<1> QED
  BY <1>2, <1>4, <1>5

(* The files listed are those of the volume, and what is extracted of them is  *)
(* theirs, with each analyzer.                                                *)
LEMMA FilesReadRightly ==
  ASSUME AnalysisInv, image.sound, output # <<>>
  PROVE  /\ Len(listed) = Len(image.truth[deleted]) /\ DOMAIN listed = 1..Len(listed)
         /\ \A j \in 1..Len(image.truth[deleted]) :
              /\ listed[j].name = image.truth[deleted][j].name
              /\ Returns(image, output[j], image.truth[deleted][j], deleted)
<1> DEFINE files == image.truth[deleted]
<1>1. /\ listed # <<>> /\ output = [m \in DOMAIN listed |-> Extracted(listed[m])]
      /\ listed = Listing(deleted) /\ volume.valid /\ deleted \in BOOLEAN /\ image \in Disks
  BY Zenon DEF AnalysisInv
<1>2. volume # NoVolume
  BY <1>1 DEF NoVolume
<1>3. volume = Probes(image.part)
  BY <1>2, VolumeIsThere, Zenon
<1>4. /\ image.kind \in {"raw", "fat32", "exfat", "ntfs"} /\ image.size \in Nat /\ image.part \in Nat
      /\ InOrder(image) /\ image.kind # "raw" /\ Described(image)
  <2>1. image.kind \in {"raw", "fat32", "exfat", "ntfs"} /\ InOrder(image)
    BY <1>1, DiskAssumption
  <2> QED
    BY <1>1, <2>1, ProbedInOrder, Zenon DEF InOrder
<1>5. ASSUME DOMAIN listed = 1..Len(listed), Len(listed) = Len(files),
             \A j \in 1..Len(files) : /\ listed[j].name = files[j].name
                                      /\ Returns(image, Extracted(listed[j]), files[j], deleted)
      PROVE  /\ Len(listed) = Len(files) /\ DOMAIN listed = 1..Len(listed)
             /\ \A j \in 1..Len(files) : /\ listed[j].name = files[j].name
                                         /\ Returns(image, output[j], files[j], deleted)
  <2> HIDE DEF files
  <2>1. \A j \in 1..Len(files) : output[j] = Extracted(listed[j])
    BY <1>1, <1>5, Zenon
  <2> QED
    BY <1>5, <2>1
<1> HIDE DEF files
<1>6. ASSUME image.kind = "fat32"
      PROVE  /\ DOMAIN listed = 1..Len(listed) /\ Len(listed) = Len(files)
             /\ \A j \in 1..Len(files) : /\ listed[j].name = files[j].name
                                         /\ Returns(image, Extracted(listed[j]), files[j], deleted)
  <2>1. image.boot \in Fat32Boots /\ Linking(image) /\ Filed(image, Fat32Entries)
    BY <1>1, <1>6, DiskAssumption
  <2>2. Fat32InOrder(image) /\ volume = Fat32Probe(image, image.part)
    BY <1>3, <1>4, <1>6 DEF InOrder, Probes
  <2>3. listed = Fat32List(image, volume, deleted)
    BY <1>1, <1>6 DEF Listing
  <2>4. \A r : Extracted(r) = Fat32Extract(image, volume, r)
    BY <1>6 DEF Extracted
  <2>5. IsFat32(volume)
    BY <1>2, <1>4, <2>1, <2>2, Fat32ProbeFinds, Zenon
  <2>6. listed \in Seq(Fat32Listable(image, volume))
    BY <1>1, <1>4, <2>1, <2>3, <2>5, Fat32ListsRecords, Zenon
  <2>7. DOMAIN listed = 1..Len(listed)
    BY <2>6, LenProperties, Zenon
  <2>8. /\ Len(Fat32List(image, volume, deleted)) = Len(image.truth[deleted])
        /\ \A j \in 1..Len(image.truth[deleted]) :
             /\ Fat32List(image, volume, deleted)[j].name = image.truth[deleted][j].name
             /\ Returns(image, Fat32Extract(image, volume, Fat32List(image, volume, deleted)[j]),
                        image.truth[deleted][j], deleted)
    BY <1>1, <1>2, <1>4, <1>6, <2>1, <2>2, Fat32ReadsRightly, ExtractedReturns, Zenon
  <2> QED
    BY <2>3, <2>4, <2>7, <2>8, Zenon DEF files
<1>7. ASSUME image.kind = "exfat"
      PROVE  /\ DOMAIN listed = 1..Len(listed) /\ Len(listed) = Len(files)
             /\ \A j \in 1..Len(files) : /\ listed[j].name = files[j].name
                                         /\ Returns(image, Extracted(listed[j]), files[j], deleted)
  <2>1. image.boot \in ExFatBoots /\ Linking(image) /\ Filed(image, ExFatSlots)
    BY <1>1, <1>7, DiskAssumption
  <2>2. ExFatInOrder(image) /\ volume = ExFatProbe(image, image.part)
    BY <1>3, <1>4, <1>7 DEF InOrder, Probes
  <2>3. listed = ExFatList(image, volume, deleted)
    BY <1>1, <1>7 DEF Listing
  <2>4. \A r : Extracted(r) = ExFatExtract(image, volume, r)
    BY <1>7 DEF Extracted
  <2>5. IsExFat(volume)
    BY <1>2, <1>4, <2>1, <2>2, ExFatProbeFinds, Zenon
  <2> DEFINE slots == ExFatDirectory(image, volume)
  <2>6. listed \in Seq(ExFatListable(image, volume, slots))
    BY <1>1, <1>4, <2>1, <2>3, <2>5, ExFatListsRecords, Zenon
  <2> HIDE DEF slots
  <2>7. DOMAIN listed = 1..Len(listed)
    BY <2>6, LenProperties, Zenon
  <2>8. /\ Len(ExFatList(image, volume, deleted)) = Len(image.truth[deleted])
        /\ \A j \in 1..Len(image.truth[deleted]) :
             /\ ExFatList(image, volume, deleted)[j].name = image.truth[deleted][j].name
             /\ Returns(image, ExFatExtract(image, volume, ExFatList(image, volume, deleted)[j]),
                        image.truth[deleted][j], deleted)
    BY <1>1, <1>2, <1>4, <1>7, <2>1, <2>2, ExFatReadsRightly, ExtractedReturns, Zenon
  <2> QED
    BY <2>3, <2>4, <2>7, <2>8, Zenon DEF files
<1>8. ASSUME image.kind = "ntfs"
      PROVE  /\ DOMAIN listed = 1..Len(listed) /\ Len(listed) = Len(files)
             /\ \A j \in 1..Len(files) : /\ listed[j].name = files[j].name
                                         /\ Returns(image, Extracted(listed[j]), files[j], deleted)
  <2>1. /\ image.boot \in NtfsBoots /\ image.mft \in [DOMAIN image.mft -> NtfsRecords]
        /\ DOMAIN image.mft \subseteq Nat
    BY <1>1, <1>8, DiskAssumption
  <2>2. NtfsInOrder(image) /\ volume = NtfsProbe(image, image.part)
    BY <1>3, <1>4, <1>8 DEF InOrder, Probes
  <2>3. listed = NtfsList(image, volume, deleted)
    BY <1>1, <1>8 DEF Listing
  <2>4. \A r : Extracted(r) = NtfsExtract(image, volume, r)
    BY <1>8 DEF Extracted
  <2>5. IsNtfs(volume)
    BY <1>2, <1>4, <2>1, <2>2, NtfsProbeFinds, Zenon
  <2>6. listed \in Seq(NtfsListable(image, volume))
    BY <1>1, <1>4, <2>1, <2>3, <2>5, NtfsListsRecords, Zenon
  <2>7. DOMAIN listed = 1..Len(listed)
    BY <2>6, LenProperties, Zenon
  <2>8. /\ Len(NtfsList(image, volume, deleted)) = Len(image.truth[deleted])
        /\ \A j \in 1..Len(image.truth[deleted]) :
             /\ NtfsList(image, volume, deleted)[j].name = image.truth[deleted][j].name
             /\ Returns(image, NtfsExtract(image, volume, NtfsList(image, volume, deleted)[j]),
                        image.truth[deleted][j], deleted)
    BY <1>1, <1>2, <1>4, <1>8, <2>1, <2>2, NtfsReadsRightly, Zenon
  <2> QED
    BY <2>3, <2>4, <2>7, <2>8, Zenon DEF files
<1>9. /\ Len(listed) = Len(files) /\ DOMAIN listed = 1..Len(listed)
      /\ \A j \in 1..Len(files) : /\ listed[j].name = files[j].name
                                  /\ Returns(image, output[j], files[j], deleted)
  <2>1. image.kind \in {"fat32", "exfat", "ntfs"}
    BY <1>4
  <2>2. /\ DOMAIN listed = 1..Len(listed) /\ Len(listed) = Len(files)
        /\ \A j \in 1..Len(files) : /\ listed[j].name = files[j].name
                                    /\ Returns(image, Extracted(listed[j]), files[j], deleted)
    BY <1>6, <1>7, <1>8, <2>1, Zenon
  <2> QED
    BY <1>5, <2>2, Zenon
<1> QED
  BY <1>9, Zenon DEF files

(* What it says of the living files.                                         *)
LEMMA LivingFilesFollow == AnalysisInv => LivingFilesWhole
<1> SUFFICES ASSUME AnalysisInv, image.sound, output # <<>>, ~deleted
             PROVE  /\ Len(listed) = Len(image.truth[FALSE])
                    /\ \A m \in DOMAIN listed :
                         /\ listed[m].name = image.truth[FALSE][m].name
                         /\ Promised(image, image.truth[FALSE][m]) =>
                              /\ Len(output[m]) = Len(image.truth[FALSE][m].blocks)
                              /\ Begins(image, output[m], image.truth[FALSE][m].blocks)
  BY Zenon DEF LivingFilesWhole
<1>1. deleted = FALSE
  <2>1. deleted \in BOOLEAN
    BY Zenon DEF AnalysisInv
  <2> QED
    BY <2>1
<1>2. /\ Len(listed) = Len(image.truth[FALSE]) /\ DOMAIN listed = 1..Len(listed)
      /\ \A j \in 1..Len(image.truth[FALSE]) :
           /\ listed[j].name = image.truth[FALSE][j].name
           /\ Returns(image, output[j], image.truth[FALSE][j], FALSE)
  BY <1>1, FilesReadRightly, Zenon
<1> QED
  BY <1>2, Zenon DEF Returns

(* What it says of the deleted files.                                        *)
LEMMA DeletedFilesFollow == AnalysisInv => DeletedFilesBegin
<1> SUFFICES ASSUME AnalysisInv, image.sound, output # <<>>, deleted
             PROVE  /\ Len(listed) = Len(image.truth[TRUE])
                    /\ \A m \in DOMAIN listed :
                         /\ listed[m].name = image.truth[TRUE][m].name
                         /\ Promised(image, image.truth[TRUE][m]) =>
                              /\ image.truth[TRUE][m].blocks # <<>> => output[m] # <<>>
                              /\ Begins(image, output[m], image.truth[TRUE][m].blocks)
  BY Zenon DEF DeletedFilesBegin
<1>1. deleted = TRUE
  <2>1. deleted \in BOOLEAN
    BY Zenon DEF AnalysisInv
  <2> QED
    BY <2>1
<1>2. /\ Len(listed) = Len(image.truth[TRUE]) /\ DOMAIN listed = 1..Len(listed)
      /\ \A j \in 1..Len(image.truth[TRUE]) :
           /\ listed[j].name = image.truth[TRUE][j].name
           /\ Returns(image, output[j], image.truth[TRUE][j], TRUE)
  BY <1>1, FilesReadRightly, Zenon
<1> QED
  BY <1>2, Zenon DEF Returns

(* On an image in order the partition that holds the volume is among those     *)
(* detected, the analyzer recognises the volume at its start, and a volume that *)
(* was found begins there (detectPartitions, initialize).                      *)
THEOREM VolumeFoundHolds == AnalysisSpec => []VolumeFound
BY AnalysisBegins, AnalysisKeeps, VolumeFoundFollows, PTL DEF AnalysisSpec

(* On an image in order every living file is listed once, in the order of the   *)
(* entries and under its name, and what is extracted is its content, however it *)
(* is fragmented (listDirectory, listFiles, getClusterChain, parseRunlist,     *)
(* extractFile).  An NTFS volume may hold files that are not plain, of which     *)
(* only the name is promised; in a record's content a block that reaches the    *)
(* end of a sector comes out without the fixup (applyUsaFixup).               *)
THEOREM LivingFilesHold == AnalysisSpec => []LivingFilesWhole
BY AnalysisBegins, AnalysisKeeps, LivingFilesFollow, PTL DEF AnalysisSpec

(* Of every deleted file on an image in order, what is extracted is a beginning *)
(* of its content, and of one that has content not nothing, where links of its  *)
(* chain were cleared (findDeletedFiles, getClusterChain, extractFile), with    *)
(* the same two exceptions for NTFS.                                          *)
THEOREM DeletedFilesHold == AnalysisSpec => []DeletedFilesBegin
BY AnalysisBegins, AnalysisKeeps, DeletedFilesFollow, PTL DEF AnalysisSpec
=============================================================================
