--------------------------- MODULE FormatValidator ---------------------------
(***************************************************************************)
(* FormatValidator of src/src/carving/format_validator.cpp.  What is        *)
(* validated is a sequence of units: a marker, header or footer of a format, *)
(* with the length it announces in n, or a unit of data "x", whose n is what  *)
(* it announces when it is taken for a length.                              *)
(***************************************************************************)
EXTENDS Integers, Sequences, FiniteSets, SequencesExt, FiniteSetsExt

CONSTANT MinSize

Has(d, t) == \E i \in DOMAIN d : d[i].t = t

Verdict(state, type, length) == [state |-> state, type |-> type, length |-> length]

Invalid(type) == Verdict("INVALID", type, 0)

(* The place of the first t from i on, or 0.                                *)
First(d, t, i) ==
  LET places == {k \in i..Len(d) : d[k].t = t}
  IN IF places = {} THEN 0 ELSE Min(places)

(* The places that a walk from i visits, which goes on from k to next[k].     *)
Walk(next, i) ==
  LET walk[k \in Nat] == {k} \cup IF k \in DOMAIN next THEN walk[next[k]] ELSE {}
  IN walk[i]

Stop(next, i) == Max(Walk(next, i))

(* Mutant: the first end mark, thumbnails included.                          *)
FirstEoi(d, i) == First(d, "eoi", i)

Segments == {"app", "dqt", "sof", "soi"}

(* From a segment that fits behind it, from other data one unit on.           *)
JpegSteps(d) ==
  [k \in {k \in DOMAIN d : /\ d[k].t \notin {"eoi", "sos"}
                           /\ d[k].t \in Segments => k + d[k].n <= Len(d)} |->
     IF d[k].t \in Segments THEN k + 1 + d[k].n ELSE k + 1]

(* The end of a JPEG: segments are jumped by their length, so that an end     *)
(* mark in a thumbnail is not taken for it; from a segment that does not fit,  *)
(* or from the scan, it is searched for.                                     *)
JpegEnd(d, i) ==
  LET stop == Stop(JpegSteps(d), i)
  IN IF stop > Len(d) THEN 0
     ELSE First(d, "eoi", IF d[stop].t = "sos" THEN stop + 1 + d[stop].n ELSE stop)

ValidateJpeg(d) ==
  LET end == JpegEnd(d, 2)
  IN IF d[1].t # "soi" THEN Invalid("JPEG")
     ELSE IF end = 0 THEN Verdict("PARTIAL", "JPEG", Len(d))
     ELSE Verdict("VALID", "JPEG", end)

PngSteps(d) ==
  [k \in {k \in DOMAIN d : d[k].t # "iend" /\ k + d[k].n <= Len(d)} |-> k + 1 + d[k].n]

(* A PNG ends behind the first chunk of the walk that is its end; one that     *)
(* does not lie in the window stops the walk.  A wrong checksum does not      *)
(* matter.                                                                  *)
ValidatePng(d) ==
  LET ihdr == Len(d) > 1 /\ d[2].t = "ihdr"
      stop == Stop(PngSteps(d), 2)
      iend == stop <= Len(d) /\ d[stop].t = "iend" /\ stop + d[stop].n <= Len(d)
  IN IF d[1].t # "png" THEN Invalid("PNG")
     ELSE IF ~ihdr THEN Verdict("INVALID", "PNG", 1)
     ELSE IF iend THEN Verdict("VALID", "PNG", stop + d[stop].n)
     ELSE Verdict("PARTIAL", "PNG", stop - 1)

(* A PDF ends behind its last trailer before the header of another file, and  *)
(* the white space that follows.                                            *)
ValidatePdf(d) ==
  LET stop == Min({i \in 2..Len(d) : d[i].t \in {"pdf", "png", "pk34", "soi"}} \cup {Len(d) + 1})
      ends == {i \in 2..(stop - 1) : d[i].t = "eof"}
      blank(i) == Min({k \in (i + 1)..Len(d) : d[k].t # "nl"} \cup {Len(d) + 1}) - 1
  IN IF d[1].t # "pdf" THEN Invalid("PDF")
     ELSE IF ends = {} THEN Verdict("PARTIAL", "PDF", Len(d))
     ELSE Verdict("VALID", "PDF", blank(Max(ends)))

(* The end record of an archive: the first that fits the place of its central *)
(* directory, else the last whose comment lies in the window.                *)
Eocd(d) ==
  LET ends == {i \in 2..Len(d) : d[i].t = "pk56"}
      exact == {i \in ends : d[i].at + d[i].size = i - 1 /\ d[d[i].at + 1].t = "pk12"}
      fits == {i \in ends : i + d[i].n <= Len(d)}
  IN IF exact # {} THEN Min(exact) ELSE IF fits # {} THEN Max(fits) ELSE 0

ValidateZipAndOffice(d) ==
  LET i == Eocd(d)
      length == i + d[i].n
      body == SubSeq(d, 1, Min({length, Len(d)}))
  IN IF d[1].t # "pk34" THEN Invalid("ZIP")
     ELSE IF i = 0 THEN Verdict("PARTIAL", "ZIP", Len(d))
     ELSE Verdict("VALID", CASE Has(body, "word") -> "DOCX"
                             [] ~Has(body, "word") /\ Has(body, "xl") -> "XLSX"
                             [] ~Has(body, "word") /\ ~Has(body, "xl") /\ Has(body, "ppt") -> "PPTX"
                             [] OTHER -> "ZIP", length)

(* Only the sectors of the allocation table are counted.                     *)
ValidateOle(d) ==
  IF d[1].t # "ole" \/ ~d[1].shift THEN Invalid("DOC")
  ELSE Verdict("VALID", CASE Has(d, "WordDocument") -> "DOC"
                          [] ~Has(d, "WordDocument") /\ Has(d, "Workbook") -> "XLS"
                          [] ~Has(d, "WordDocument") /\ ~Has(d, "Workbook")
                               /\ Has(d, "PowerPoint") -> "PPT"
                          [] OTHER -> "DOC", Min({Len(d), 1 + d[1].n}))

ValidateGif(d) ==
  LET end == First(d, "semicolon", 2)
  IN IF d[1].t # "gif" THEN Invalid("GIF")
     ELSE IF end = 0 THEN Verdict("PARTIAL", "GIF", Len(d))
     ELSE Verdict("VALID", "GIF", end)

ValidateMp3(d) ==
  CASE d[1].t = "id3" -> Verdict("VALID", "MP3", Min({Len(d), Max({1 + d[1].n, 2})}))
    [] d[1].t = "sync" -> Verdict("VALID", "MP3", Len(d))
    [] OTHER -> Invalid("MP3")

BoxSteps(d) == [k \in {k \in DOMAIN d : d[k].n > 0} |-> k + d[k].n]

(* An MP4 is walked by its boxes; one without a length reaches to the end.    *)
ValidateMp4(d) ==
  LET stop == Stop(BoxSteps(d), 1)
      end == IF stop <= Len(d) THEN Len(d) ELSE stop - 1
  IN IF d[1].t # "ftyp" THEN Invalid("MP4")
     ELSE Verdict("VALID", "MP4", Min({Len(d), end}))

Validate(type, d) ==
  CASE Len(d) < MinSize -> Invalid(type)
    [] Len(d) >= MinSize /\ type = "JPEG" -> ValidateJpeg(d)
    [] Len(d) >= MinSize /\ type = "PNG" -> ValidatePng(d)
    [] Len(d) >= MinSize /\ type = "PDF" -> ValidatePdf(d)
    [] Len(d) >= MinSize /\ type \in {"ZIP", "DOCX", "XLSX", "PPTX"} -> ValidateZipAndOffice(d)
    [] Len(d) >= MinSize /\ type \in {"DOC", "XLS", "PPT", "CFB"} -> ValidateOle(d)
    [] Len(d) >= MinSize /\ type = "GIF" -> ValidateGif(d)
    [] Len(d) >= MinSize /\ type = "MP3" -> ValidateMp3(d)
    [] Len(d) >= MinSize /\ type = "MP4" -> ValidateMp4(d)
    [] OTHER -> Verdict("VALID", type, Len(d))
=============================================================================
