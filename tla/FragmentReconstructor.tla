------------------------ MODULE FragmentReconstructor ------------------------
(***************************************************************************)
(* A file found by its header is validated, cut to its length and scored    *)
(* (carveSingle of src/src/carving/file_carver.cpp), or, taken for the first *)
(* fragment of a file, joined with one of the fragments found behind it      *)
(* (fragment_reconstructor.cpp, as --reconstruct of src/backend/src/main.cpp *)
(* uses it).  An area of a disk is a sequence of units, Cluster to a cluster;  *)
(* the header is its first unit.                                            *)
(***************************************************************************)
EXTENDS ConfidenceScorer

CONSTANTS
  Disks,     \* areas: a type, units, and what is known of the file there
  Cluster,   \* the units of a cluster
  MaxGap     \* the units that may lie between two fragments

(* What is known of the file:                                                *)
(*   whole   its length when it lies in the area in one piece, else 0;        *)
(*   file    its units when it lies there in two, else <<>>;                  *)
(*   cut     whether its end is missing;                                      *)
(*   parts   where its segments, if a JPEG, or its chunks, if a PNG, begin.     *)
Units == UNION {Range(a.units) : a \in Disks}

Mark(type) == CASE type = "JPEG" -> "eoi" [] type = "PNG" -> "iend" [] OTHER -> "pk56"

(* Each segment leads to another one of parts, up to the scan.                *)
SegmentsOf(d, parts) ==
  /\ 2 \in parts
  /\ \A p \in parts :
       \/ d[p].t = "sos"
       \/ d[p].t \in {"app", "dqt", "sof"} /\ p + 1 + d[p].n \in parts

(* A JPEG has its end mark behind the scan, and may have others in segments.   *)
JpegFile(d, w, parts) ==
  /\ d[1].t = "soi" /\ d[w].t = "eoi" /\ \E k \in 1..w : d[k].t = "sof"
  /\ parts \subseteq 2..(w - 1) /\ SegmentsOf(d, parts)
  /\ \A p \in parts : d[p].t = "sos" =>
       p + d[p].n < w /\ \A k \in (p + 1 + d[p].n)..(w - 1) : d[k].t # "eoi"

(* A PNG is a header and chunks, of which each is followed by another one up   *)
(* to an end, where the file ends.                                          *)
PngFile(d, w, parts) ==
  /\ d[1].t = "png" /\ d[2].t = "ihdr" /\ 2 \in parts /\ parts \subseteq 2..w
  /\ \A p \in parts : IF d[p].t = "iend" THEN p + d[p].n = w ELSE p + 1 + d[p].n \in parts
  /\ \A p \in parts : d[p].t = "idat" => d[p].crc

(* A PDF ends with an end mark and white space, as far as that goes, and has     *)
(* objects, a cross-reference and, unless that is a stream, a trailer.  No end    *)
(* mark follows but behind the header of another file.                      *)
PdfFile(d, w) ==
  /\ d[1].t = "pdf"
  /\ \E e \in 1..w : d[e].t = "eof" /\ \A k \in (e + 1)..w : d[k].t = "nl"
  /\ \A t \in {"obj", "xref"} : \E k \in 1..w : d[k].t = t
  /\ w \in Sizes \/ \E k \in 1..w : d[k].t = "trailer"
  /\ \A k \in (w + 1)..Len(d) : d[k].t = "eof" =>
       \E h \in (w + 1)..(k - 1) : d[h].t \in {"pdf", "png", "pk34", "soi"}
  /\ w < Len(d) => d[w + 1].t # "nl"

(* The end record tells where the directory ends, which is where the record    *)
(* begins.                                                                  *)
Tells(d, k) ==
  d[k].t = "pk56" /\ d[k].at + d[k].size = k - 1 /\ d[d[k].at + 1].t = "pk12"

(* A ZIP archive ends with such a record and its comment; the records of       *)
(* archives in it tell of places in those.                                  *)
ZipFile(d, w) ==
  /\ d[1].t = "pk34"
  /\ \E e \in 2..w : Tells(d, e) /\ e + d[e].n = w /\ \A k \in 2..(e - 1) : ~Tells(d, k)

(* An MP4 is only known to end where the area does.                           *)
WellFormed(type, d, w, parts) ==
  CASE type = "JPEG" -> JpegFile(d, w, parts)
    [] type = "PNG" -> PngFile(d, w, parts)
    [] type = "PDF" -> PdfFile(d, w)
    [] type = "ZIP" -> ZipFile(d, w)
    [] type = "MP4" -> d[1].t = "ftyp" /\ w = Len(d)
    [] type = "GIF" -> d[1].t = "gif" /\ w > 1 /\ d[w].t = "semicolon"
    [] OTHER -> FALSE

(* What the validator takes for the start of the next file in a PDF, such as a  *)
(* picture that is stored as a JPEG, and for the end in a GIF.               *)
Misread(type, d, w) ==
  \/ type = "PDF" /\ \E k \in 2..w : d[k].t \in {"pdf", "png", "pk34", "soi"}
  \/ type = "GIF" /\ \E k \in 2..(w - 1) : d[k].t = "semicolon"

(* A file whose end is missing, and no end mark behind it: end marks that lie  *)
(* in a segment or a chunk do so before the third cluster.                    *)
CutOff(type, d, parts) ==
  LET none(t, i) == \A k \in i..Len(d) : d[k].t # t
  IN CASE type = "JPEG" ->
            /\ none("eoi", 2 * Cluster + 1) /\ parts \subseteq 2..Len(d) /\ SegmentsOf(d, parts)
            /\ \A p \in parts : d[p].t = "sos" => none("eoi", p)
       [] type = "PNG" ->
            /\ none("iend", 2 * Cluster + 1) /\ 2 \in parts /\ parts \subseteq 2..Len(d)
            /\ \A p \in parts : d[p].t # "iend"
            /\ \A p \in parts : p + 1 + d[p].n <= Len(d) => p + 1 + d[p].n \in parts
       [] type = "PDF" -> none("eof", 1)
       [] type = "ZIP" -> none("pk56", 1)
       [] OTHER -> FALSE

(* Of a file of two clusters at most the first lies at the start of the area;   *)
(* the rest lies at the start of a later cluster, and no end mark but its own   *)
(* lies behind the first.                                                   *)
InTwo(type, d, f) ==
  /\ type \in {"JPEG", "PNG", "ZIP"} /\ Len(f) \in (Cluster + 1)..(2 * Cluster)
  /\ \E gap \in {c * Cluster : c \in 1..(Len(d) \div Cluster)}, e \in (Cluster + 1)..Len(f) :
       /\ gap <= MaxGap /\ gap + 2 * Cluster <= Len(d)
       /\ \A k \in 1..Cluster : d[k] = f[k]
       /\ \A k \in (Cluster + 1)..Len(f) : d[gap + k] = f[k]
       /\ \A k \in (Cluster + 1)..Len(d) : d[k].t = Mark(type) <=> k = gap + e
       /\ e + f[e].n = Len(f)

ASSUME FragmentAssumption ==
  /\ Cluster \in Nat \ {0} /\ MaxGap \in Nat /\ MinSize \in Nat \ {0}
  /\ \A u \in Units : u.n \in Nat /\ (u.t = "pk56" => u.at \in Nat /\ u.size \in Nat)
  /\ \A a \in Disks :
       /\ a.units \in Seq(Units) /\ a.file \in Seq(Units) /\ a.parts \subseteq Nat
       /\ Len(a.units) >= MinSize /\ a.whole \in {0} \cup MinSize..Len(a.units)
       /\ a.whole > 0 => WellFormed(a.type, a.units, a.whole, a.parts)
       /\ a.cut => CutOff(a.type, a.units, a.parts)
       /\ a.file # <<>> => /\ Len(a.file) >= MinSize
                           /\ WellFormed(a.type, a.file, Len(a.file), a.parts)
                           /\ InTwo(a.type, a.units, a.file)

VARIABLES
  area,      \* the area looked at
  carved,    \* verdict, length and score of the file carved from it
  orphans,   \* the fragments found behind the header's cluster
  joined     \* what the reconstruction reports

fragmentVars == <<area, carved, orphans, joined>>

None == [state |-> "none"]

FragmentInit == area \in Disks /\ carved = None /\ orphans = None /\ joined = None

(* A length of zero, or one behind the window, is not taken.                 *)
CarveSingle ==
  LET d == area.units
      v == Validate(area.type, d)
      length == IF v.length \in 1..Len(d) THEN v.length ELSE Min({Len(d), Cluster})
      score == Score(v.type, SubSeq(d, 1, length))
  IN /\ carved = None
     /\ carved' = [state |-> v.state, length |-> length, score |-> score, tier |-> Status(score)]
     /\ UNCHANGED <<area, orphans, joined>>

(* Three steps of entropy: zeros only, little, that of compressed data.       *)
Entropy(c) == IF \A i \in DOMAIN c : c[i].t = "0" THEN 0 ELSE IF Has(c, "x") THEN 2 ELSE 1

Fragment(off, role, data, entropy) ==
  [off |-> off, role |-> role, data |-> data, entropy |-> entropy]

(* The fragment that the cluster at off holds, if any: up to its last end mark *)
(* in a JPEG, its first in a PNG, the first end record that fits in an archive. *)
FragmentOf(type, c, off) ==
  LET ends(t) == {i \in DOMAIN c : c[i].t = t /\ i + c[i].n <= Len(c)}
      footer(i) == {Fragment(off, "footer", SubSeq(c, 1, i + c[i].n),
                             Entropy(IF type = "JPEG" THEN SubSeq(c, 1, i) ELSE c))}
  IN CASE type = "JPEG" /\ ends("eoi") # {} -> footer(Max(ends("eoi")))
       [] type = "JPEG" /\ ends("eoi") = {} /\ Entropy(c) = 2 -> {Fragment(off, "body", c, 2)}
       [] type = "PNG" /\ ends("iend") # {} -> footer(Min(ends("iend")))
       [] type \in {"ZIP", "DOCX", "XLSX", "PPTX"} /\ ends("pk56") # {} -> footer(Min(ends("pk56")))
       [] OTHER -> {}

(* findOrphanFragments, cluster by cluster behind the first; a last cluster    *)
(* that is cut short is not looked at.                                      *)
FindOrphans ==
  LET at(k) == SubSeq(area.units, k * Cluster + 1, (k + 1) * Cluster)
      clusters == {k \in 1..(Len(area.units) \div Cluster - 1) : Entropy(at(k)) > 0}
  IN /\ orphans = None
     /\ orphans' = [state |-> "found",
                    all |-> UNION {FragmentOf(area.type, at(k), k * Cluster) : k \in clusters}]
     /\ UNCHANGED <<area, carved, joined>>

(* Mutant: the fragments joined must touch.                                  *)
CompatibleNext(end, entropy, f) == f.off = end + Cluster /\ ~(entropy = 2 /\ f.entropy = 0)

(* evaluateCompatibility with the first fragment, a header, which ends at end. *)
Compatible(end, entropy, f) == f.off > end /\ ~(entropy = 2 /\ f.entropy = 0)

Partial(score) == [state |-> "partial", score |-> score]

(* attemptReconstruction: the first fragment, by its place on the disk, that   *)
(* makes with the header a file that validates and scores well.              *)
Reconstruct ==
  LET head == SubSeq(area.units, 1, Cluster)
      end == Len(head)
      eligible == {f \in orphans.all : Compatible(end, Entropy(head), f) /\ f.off - end <= MaxGap}
      trial(f) == head \o f.data
      good == {f \in eligible : /\ Validate(area.type, trial(f)).state = "VALID"
                                /\ Score(area.type, trial(f)) >= 80}
      f == CHOOSE g \in good : \A h \in good : g.off <= h.off
  IN /\ orphans # None /\ joined = None
     /\ joined' = IF eligible = {} THEN Partial(45)
                  ELSE IF good = {} THEN Partial(35)
                  ELSE [state |-> "joined", data |-> trial(f), off |-> f.off,
                        score |-> Score(area.type, trial(f)),
                        length |-> Validate(area.type, trial(f)).length]
     /\ UNCHANGED <<area, carved, orphans>>

FragmentNext == CarveSingle \/ FindOrphans \/ Reconstruct

FragmentSpec == FragmentInit /\ [][FragmentNext]_fragmentVars
-----------------------------------------------------------------------------
(* A file that lies there whole is VALID with its true length, with thumbnails, *)
(* archives in archives and updates in it, and other files or data behind it,  *)
(* and scores as such (validate, evaluate, carveSingle).  Not so a PDF with the *)
(* header of another file in it, as that of a JPEG picture, nor a GIF with its  *)
(* end mark among its data.                                                *)
WholeFilesKnown ==
  carved # None /\ area.whole > 0 /\ ~Misread(area.type, area.units, area.whole) =>
    /\ carved.state = "VALID" /\ carved.length = area.whole
    /\ area.type \in {"JPEG", "PNG", "PDF", "ZIP"} => carved.tier = "VALID"

(* A file without its end is never taken for whole, neither by the validator   *)
(* nor by the score, nor is it joined with anything (validate, evaluate,       *)
(* attemptReconstruction).                                                  *)
CutFilesKnown ==
  area.cut =>
    /\ carved # None => carved.state # "VALID" /\ carved.tier # "VALID"
    /\ joined.state # "joined"

(* A file in two pieces is put together as it was, whatever lies between       *)
(* them that has no end mark (findOrphanFragments, attemptReconstruction).     *)
PiecesRejoined ==
  area.file # <<>> /\ joined # None => joined.state = "joined" /\ joined.data = area.file

=============================================================================
