--------------------------- MODULE DiskImageReader ---------------------------
(***************************************************************************)
(* Reading an image: DiskImageReader of src/src/core/disk_image_reader.cpp. *)
(* It is opened on one medium after another, with any sector size, closed,  *)
(* and read at any address, by bytes (readBytes) or by sectors (readSector, *)
(* readSectors), open or not; a lock is held over each call.               *)
(*                                                                         *)
(* A medium is an image file, a Linux block device or a Windows raw device. *)
(* The reader is a record: what it has open ("none", "stream" or "handle"), *)
(* the size and the sector size it believes in.                            *)
(* The byte at offset o of a medium is represented by o itself, so that    *)
(* what a read returns shows where it was read.  Addresses are computed    *)
(* modulo U64.                                                             *)
(***************************************************************************)
EXTENDS Integers, Sequences

CONSTANTS
  U64,           \* 2^64
  U32,           \* 2^32
  Media,         \* files, block devices, raw devices, and the empty path
  SectorSizes,   \* what open() may be told
  Addresses,     \* where it is read, in bytes or in sectors
  Lengths        \* how much is asked for, likewise

ASSUME WidthAssumption ==
  U64 \in Nat \ {0} /\ U32 \in Nat \ {0}

ASSUME ReaderAssumption ==
  /\ Media \subseteq [kind : {"file", "block", "device", "nopath"}, len : Nat, sector : Nat \ {0}]
  /\ SectorSizes \subseteq Nat
  /\ Addresses \subseteq Nat /\ Lengths \subseteq Nat

Span(off, n) == [i \in 1..n |-> off + i - 1]

Close(r) == [r EXCEPT !.open = "none", !.size = 0, !.total = 0]

SectorsOf(size, sector) == ((size + sector - 1) % U64) \div sector

Opened(how, size, sector) ==
  [open |-> how, size |-> size, sector |-> sector,
   total |-> SectorsOf(size, sector)]

(* The size and the sector size of a device are those it tells, if it does.  *)
Measured(m, how, sector) ==
  {Opened(how, size, s) : size \in {0, m.len}, s \in {sector, m.sector}}

(* What open() may leave of reader r for medium m and the sector size asked  *)
(* for.  A stream that cannot be rewound, or cannot be opened after the       *)
(* device was measured, leaves the size behind; a raw device whose size no    *)
(* request tells is open with size 0.                                       *)
OpenResults(r, m, sector) ==
  IF m.kind = "nopath" \/ sector = 0 THEN {Close(r)}
  ELSE LET opened == IF m.kind = "file" THEN {Opened("stream", m.len, sector)}
                     ELSE IF m.kind = "block" THEN Measured(m, "stream", sector)
                     ELSE Measured(m, "handle", sector)
       IN {[Close(r) EXCEPT !.sector = sector]} \cup opened
            \cup {[o EXCEPT !.open = "none"] : o \in IF m.kind = "device" THEN {} ELSE opened}

(* How many bytes the medium delivers of a request.  A raw device refuses    *)
(* what is not whole sectors of its own, and an address that is negative as a *)
(* signed number.                                                           *)
Delivered(m, off, n) ==
  IF /\ m.kind = "device"
     /\ off % m.sector # 0 \/ n % m.sector # 0 \/ off >= U64 \div 2
  THEN -1
  ELSE IF off >= m.len THEN 0
  ELSE IF n < m.len - off THEN n ELSE m.len - off

(* A read of n bytes at off: the verdict, and the bytes in the buffer.       *)
StreamRead(r, m, off, n) ==
  [ok |-> off <= r.size /\ r.size - off >= n /\ Delivered(m, off, n) = n,
   bytes |-> Span(off, n)]

(* Mutant: the bytes before the first wanted one are not skipped.            *)
DeviceReadUnaligned(r, m, off, n) ==
  LET s == IF r.sector > 0 THEN r.sector ELSE 512
      from == (off \div s) * s
      got == Delivered(m, from, ((off + n - from + s - 1) \div s) * s)
  IN [ok |-> (r.size = 0 \/ off + n <= r.size) /\ got >= n, bytes |-> Span(from, n)]

(* A raw device is read in whole sectors, through a buffer of its own when   *)
(* the request is not aligned; ReadFile takes a length of 32 bits, and what   *)
(* is left of the length asked for is also what its result is compared with.  *)
DeviceRead(r, m, off, n) ==
  LET s == IF r.sector > 0 THEN r.sector ELSE 512
      from == (off \div s) * s
      to == (((off + n + s - 1) % U64) \div s) * s
      whole == (to - from) % U64
      lead == off - from
      got == Delivered(m, from, whole % U32)
      copied == IF n < got - lead THEN n ELSE got - lead
      inside == r.size = 0 \/ (off <= r.size /\ r.size - off >= n)
  IN IF off = from /\ n = whole
     THEN [ok |-> inside /\ got = n % U32, bytes |-> Span(off, got)]
     ELSE [ok |-> inside /\ got > lead /\ copied = n, bytes |-> Span(off, copied)]

NotRead == [ok |-> FALSE, bytes |-> <<>>]

Read(r, m, off, n) ==
  CASE r.open = "none" -> NotRead
    [] r.open # "none" /\ n = 0 -> [ok |-> TRUE, bytes |-> <<>>]
    [] r.open = "stream" /\ n > 0 -> StreamRead(r, m, off, n)
    [] r.open = "handle" /\ n > 0 -> DeviceRead(r, m, off, n)

ReadSectors(r, m, start, count) ==
  IF count = 0 THEN [ok |-> TRUE, bytes |-> <<>>]
  ELSE Read(r, m, (start * r.sector) % U64, (count * r.sector) % U64)
-----------------------------------------------------------------------------
VARIABLES
  medium,    \* what the reader was last opened on
  reader,    \* the DiskImageReader
  answer     \* the last read from it, and what was asked for

readerVars == <<medium, reader, answer>>

ClosedReader == [open |-> "none", size |-> 0, sector |-> 1, total |-> 0]

Answer(read, at, asked) == [ok |-> read.ok, bytes |-> read.bytes, at |-> at, asked |-> asked]

Nothing == Answer(NotRead, 0, 0)

ReaderInit == reader = ClosedReader /\ answer = Nothing

OpenReader(m, sectors) ==
  /\ \E s \in sectors : reader' \in OpenResults(reader, m, s)
  /\ medium' = m /\ answer' = Nothing

CloseReader ==
  /\ reader' = Close(reader) /\ answer' = Nothing
  /\ UNCHANGED medium

ReadRaw ==
  /\ \E at \in Addresses, n \in Lengths :
       \/ answer' = Answer(Read(reader, medium, at, n), at, n)
       \/ answer' = Answer(ReadSectors(reader, medium, at, n),
                           at * reader.sector, n * reader.sector)
  /\ UNCHANGED <<medium, reader>>

ReaderNext == (\E m \in Media : OpenReader(m, SectorSizes)) \/ CloseReader \/ ReadRaw

ReaderSpec == medium \in Media /\ ReaderInit /\ [][ReaderNext]_readerVars
-----------------------------------------------------------------------------
(* A raw device is given lengths of 32 bits, everything is addressed by 64.  *)
InWidth ==
  /\ answer.at < U64 /\ answer.asked < U64
  /\ reader.open = "handle" => answer.asked < U32

(* What a read delivers is what stands at the address asked for, all of it and *)
(* nothing else, from a file, a block device or a raw device read in whole     *)
(* sectors, whatever sector size was asked for and however the reader was used *)
(* before, as long as address and length fit their widths (open, read,        *)
(* readSectors).                                                             *)
ReadsExact ==
  answer.ok /\ InWidth =>
    /\ answer.bytes = Span(answer.at, answer.asked)
    /\ \A i \in DOMAIN answer.bytes : answer.bytes[i] < medium.len
=============================================================================
