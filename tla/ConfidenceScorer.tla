--------------------------- MODULE ConfidenceScorer --------------------------
(***************************************************************************)
(* RecoveryConfidenceScorer of src/src/carving/confidence_scorer.cpp: the   *)
(* points for header, footer, structure, size, parser, checksum and         *)
(* metadata, less the penalties, of a sequence of units.                    *)
(***************************************************************************)
EXTENDS FormatValidator

CONSTANT Sizes   \* the sizes that agree with a format

Points(b, n) == IF b THEN n ELSE 0

Clamp(n) == Max({0, Min({100, n})})

Sized(d) == Points(Len(d) \in Sizes, 10)

(* Mutant: the end mark of a thumbnail counts.                               *)
ScoreJpegAnyEoi(d) ==
  Points(d[1].t = "soi", 20) + (IF Has(d, "eoi") THEN 20 ELSE -15)
    + Points(Has(d, "sof") /\ Has(d, "sos"), 25) + Sized(d) + 15 + Points(Has(d, "app"), 5)

ScoreJpeg(d) ==
  LET frame == Has(d, "sof")   scan == Has(d, "sos")
      structure == IF frame /\ scan THEN 25 ELSE IF frame \/ scan THEN 15 ELSE 0
      header == Points(d[1].t = "soi", 20)
  IN header + (IF Last(d).t = "eoi" THEN 20 ELSE -15) + structure
     - Points(structure = 0, 10) + Sized(d) + Points(header > 0 /\ structure > 0, 15)
     + Points(Has(d, "app"), 5)

(* The chunks that begin in the window; the last may reach beyond it.        *)
ChunksAt(d) ==
  LET steps == [k \in {k \in DOMAIN d : d[k].t # "iend"} |-> k + 1 + d[k].n]
  IN Walk(steps, 2) \cap DOMAIN d

ScorePng(d) ==
  LET chunks == ChunksAt(d)
      has(t) == \E i \in chunks : d[i].t = t
      torn == \E i \in chunks : d[i].t = "idat" /\ ~d[i].crc /\ i + d[i].n <= Len(d)
      clean == has("ihdr") /\ has("iend") /\ ~torn
  IN Points(d[1].t = "png", 20) + (IF has("iend") THEN 20 ELSE -15)
     + (IF has("ihdr") THEN IF has("idat") THEN 25 ELSE 15 ELSE 0)
     + (IF torn THEN -15 ELSE Points(has("ihdr") \/ has("iend"), 5))
     + Sized(d) + Points(clean, 20)

ScorePdf(d) ==
  LET obj == Has(d, "obj")   eof == Has(d, "eof")
  IN Points(d[1].t = "pdf", 20) + (IF eof THEN 20 ELSE -20)
     + (IF obj THEN IF Has(d, "xref") /\ Has(d, "trailer") THEN 25 ELSE 15 ELSE -10)
     + Sized(d) + Points(obj /\ eof, 20)

ScoreZip(type, d) ==
  LET header == d[1].t = "pk34"   eocd == Has(d, "pk56")
      known == CASE type = "DOCX" -> Has(d, "word") [] type = "XLSX" -> Has(d, "xl")
                 [] type = "PPTX" -> Has(d, "ppt") [] OTHER -> TRUE
  IN Points(header, 20) + (IF eocd THEN 20 ELSE -25) + (IF Has(d, "pk12") THEN 25 ELSE 10)
     + Points(known, 5) + Sized(d) + Points(eocd /\ header, 15)

ScoreOle(type, d) ==
  LET stream == CASE type = "DOC" -> "WordDocument" [] type = "XLS" -> "Workbook"
                  [] type = "PPT" -> "PowerPoint" [] OTHER -> "none"
      ole == d[1].t = "ole"
  IN Points(ole, 20) + Points(ole /\ d[1].shift, 25)
     + (IF Has(d, stream) THEN 40 ELSE 20) + 10

ScoreMp3(d) ==
  LET id3 == d[1].t = "id3"
      frames == {i \in DOMAIN d : d[i].t = "sync"}
  IN (IF id3 THEN 25 ELSE Points(d[1].t = "sync", 15))
     + (IF Cardinality(frames) >= 2 THEN 25 ELSE 10) + Points(Len(d) \in Sizes, 25)

BoxesAt(d) == Walk(BoxSteps(d), 1) \cap DOMAIN BoxSteps(d)

ScoreMp4(d) ==
  LET has(t) == \E i \in BoxesAt(d) : d[i].t = t
  IN Points(d[1].t = "ftyp", 20)
     + (IF has("moov") /\ has("mdat") THEN 25 ELSE Points(has("moov") \/ has("mdat"), 15))
     + Points(Len(d) \in Sizes, 25)

(* evaluate with finalizeScore.                                             *)
Score(type, d) ==
  Clamp(CASE d = <<>> -> 0
          [] d # <<>> /\ type = "JPEG" -> ScoreJpeg(d)
          [] d # <<>> /\ type = "PNG" -> ScorePng(d)
          [] d # <<>> /\ type = "PDF" -> ScorePdf(d)
          [] d # <<>> /\ type \in {"ZIP", "DOCX", "XLSX", "PPTX"} -> ScoreZip(type, d)
          [] d # <<>> /\ type \in {"DOC", "XLS", "PPT", "CFB"} -> ScoreOle(type, d)
          [] d # <<>> /\ type = "MP3" -> ScoreMp3(d)
          [] d # <<>> /\ type = "MP4" -> ScoreMp4(d)
          [] OTHER -> 25)

Status(score) ==
  IF score >= 80 THEN "VALID" ELSE IF score >= 40 THEN "PARTIAL" ELSE "CORRUPTED"
=============================================================================
