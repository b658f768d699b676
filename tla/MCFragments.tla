----------------------------- MODULE MCFragments -----------------------------
(***************************************************************************)
(* Files of every format with what they may embed, alone or with something  *)
(* behind them; cut short; in two pieces with clusters between them.        *)
(***************************************************************************)
EXTENDS FragmentReconstructor

U(t) == [t |-> t, n |-> 0]
M(t, n) == [t |-> t, n |-> n]
X == M("x", 90)            \* data, taken for a length if one is expected
Z == M("0", 90)
Eocd1(at, size, comment) == [t |-> "pk56", n |-> comment, at |-> at, size |-> size]
Idat(n, ok) == [t |-> "idat", n |-> n, crc |-> ok]

Thumbnails == {<<>>, <<U("eoi")>>, <<M("soi", 90), U("eoi")>>, <<X>>}

(* A file of pieces, and where those begin that are not its first.            *)
File(pieces) ==
  [units |-> FlattenSeq(pieces),
   parts |-> {Len(FlattenSeq(SubSeq(pieces, 1, k))) + 1 : k \in 1..(Len(pieces) - 1)}]

(* The last piece of a JPEG is its scan with the end mark.                    *)
Jpegs ==
  {File(<<<<M("soi", 90)>>>> \o (IF app THEN <<<<M("app", Len(thumb))>> \o thumb>> ELSE <<>>)
          \o <<<<M("dqt", 1), X>>, <<M("sof", 0)>>, <<M("sos", 0)>> \o scan \o <<U("eoi")>>>>)
   : thumb \in Thumbnails, app \in BOOLEAN, scan \in {<<X>>, <<X, U("rst"), X>>}}

Pngs ==
  {File(<<<<U("png")>>, <<M("ihdr", 1), X>>, <<Idat(Len(data), TRUE)>> \o data, <<M("iend", 0)>>>>)
   : data \in {<<X>>, <<M("iend", 0), X>>}}

(* With an update or a picture, without a trailer, with a new line at the end. *)
Pdfs ==
  {<<U("pdf"), U("obj"), X>> \o inner \o <<U("xref")>> \o trailer \o <<U("eof")>> \o end
   : inner \in {<<>>, <<U("xref"), U("trailer"), U("eof"), U("nl"), U("obj")>>,
               <<M("soi", 90), X, U("eoi")>>, <<U("eof"), M("soi", 90), X>>},
     trailer \in {<<>>, <<U("trailer")>>}, end \in {<<>>, <<U("nl")>>}}

Archive(data, comment) ==
  LET n == Len(data)
  IN <<U("pk34")>> \o data \o <<U("pk12"), Eocd1(n + 1, 1, Len(comment))>> \o comment

Zips ==
  {Archive(data, comment)
   : data \in {<<X>>, <<U("word"), X>>, Archive(<<X>>, <<>>), <<X, Eocd1(0, 1, 1), X>>},
     comment \in {<<>>, <<X>>, <<U("eoi")>>}}

Mp4s == {<<M("ftyp", 1), M("moov", 2), X>> \o (IF m THEN <<M("mdat", 2), X>> ELSE <<>>) : m \in BOOLEAN}

Tails(type) ==
  {<<>>, <<X>>, <<Z, Z>>, <<M("soi", 90), U("eoi")>>, <<U("pk34"), X, U("pk12"), Eocd1(2, 1, 0)>>}
    \cup (IF type = "PDF" THEN {<<U("pdf"), U("obj"), U("eof")>>} ELSE {<<U("eof")>>, <<U("eoi")>>})

Disk(type, units, parts, whole, file, cut) ==
  [type |-> type, units |-> units, parts |-> parts, whole |-> whole, file |-> file, cut |-> cut]

Plain(files) == {[units |-> f, parts |-> {}] : f \in files}

Of(type) ==
  CASE type = "JPEG" -> Jpegs [] type = "PNG" -> Pngs [] type = "PDF" -> Plain(Pdfs)
    [] type = "ZIP" -> Plain(Zips) [] type = "MP4" -> Plain(Mp4s)
    [] type = "GIF" -> Plain({<<U("gif"), X, U("semicolon")>>, <<U("gif"), U("semicolon"), X, U("semicolon")>>})
    [] type = "MP3" -> Plain({<<M("id3", 2), X, X>>, <<M("id3", 3), U("sync"), X, U("sync")>>})
    [] type = "DOC" -> Plain({<<[t |-> "ole", n |-> 2, shift |-> TRUE], X, U("WordDocument")>>})

Types == {"JPEG", "PNG", "PDF", "ZIP", "MP4", "GIF", "MP3", "DOC"}

(* An MP4 is only known to end where the disk does; of an MP3 and a DOC the    *)
(* code knows a part only.                                                  *)
WholeDisks ==
  UNION {{Disk(type, f.units \o tail, f.parts,
               IF type \in {"MP3", "DOC"} THEN 0 ELSE Len(f.units), <<>>, FALSE)
          : f \in Of(type), tail \in IF type = "MP4" THEN {<<>>} ELSE Tails(type)}
         : type \in Types}

(* A file cut somewhere, and no end mark behind that: a JPEG in its scan, a    *)
(* PNG anywhere, the others before any end mark of theirs.                   *)
Cuts(type, f) ==
  {k \in 2..(Len(f) - 1) :
     CASE type = "JPEG" -> \E i \in 1..k : f[i].t = "sos"
       [] type = "PNG" -> TRUE
       [] type \in {"PDF", "ZIP"} -> \A i \in 1..k : f[i].t \notin {"eof", "pk56"}}

CutDisks ==
  UNION {UNION {{LET units == SubSeq(f.units, 1, k) \o tail
                 IN Disk(type, units, f.parts \cap 1..Len(units), 0, <<>>, TRUE)
                 : k \in Cuts(type, f.units), tail \in {<<>>, <<Z, Z>>, <<X>>, <<X, X, X, X>>}}
                : f \in Of(type)}
         : type \in {"JPEG", "PNG", "PDF", "ZIP"}}

(* A first piece of one cluster, a gap, and the rest of the file, its one end   *)
(* mark in it.                                                              *)
Gaps ==
  {<<Z, Z, Z, Z>>, <<X, X, X, X>>, <<Z, Z, Z, Z, X, X, X, X>>, <<U("pdf"), X, U("eof"), Z>>}

SplitDisks ==
  UNION {{Disk(type, SubSeq(f.units, 1, 4) \o gap \o SubSeq(f.units, 5, Len(f.units)) \o fill,
               f.parts, 0, f.units, FALSE)
          : f \in {g \in Of(type) :
                     /\ Len(g.units) \in 5..8
                     /\ {k \in 5..Len(g.units) : g.units[k].t = Mark(type)} \in {{k} : k \in 5..8}},
            gap \in Gaps,
            fill \in {<<Z, Z, Z, Z>>, <<X, X, X, X>>}}
         : type \in {"JPEG", "ZIP", "PNG"}}

(* A whole file of one cluster, and the end of another file behind it.        *)
Neighbours ==
  {Disk("JPEG", <<M("soi", 90), M("sof", 0), M("sos", 0), U("eoi")>> \o gap \o <<X, U("eoi"), Z, Z>>,
        {2, 3}, 4, <<>>, FALSE) : gap \in Gaps}

SmallDisks == WholeDisks \cup CutDisks \cup SplitDisks \cup Neighbours
=============================================================================
