-------------------------------- MODULE HexFile --------------------------------
(****************************************************************************)
(* The firmware file (thymio2_fwupgrade.cpp): read_hex_file turns the       *)
(* records of an Intel hex file into chunks of contiguous bytes, and        *)
(* extract_pages_from_hex turns the chunks into flash pages.  The module    *)
(* enumerates files and compares the pages with the bytes of the records.   *)
(*                                                                          *)
(* A record is what the reader finds on a line: its type, its address, its  *)
(* bytes and whether the checksum agrees; a number that a record of type 2  *)
(* or 4 holds is in "address".  Reading characters and summing bytes are    *)
(* left out.                                                                *)
(****************************************************************************)
EXTENDS Naturals, Sequences, FiniteSets, SequencesExt

CONSTANTS PageSize, HexRecords, MaxRecords

ASSUME HexOK ==
  /\ PageSize \in Nat \ {0} /\ MaxRecords \in Nat
  /\ \A r \in HexRecords : /\ r.type \in Nat /\ r.address \in Nat /\ r.good \in BOOLEAN
                           /\ Len(r.bytes) \in 1..255

VARIABLE hexFile
hexVars == <<hexFile>>

\* The parser's state: the chunks (first address -> bytes), the base address
\* and how reading ended: "" while it goes on, "end" at the end record.
Reader == [chunks |-> <<>>, base |-> 0, ended |-> ""]

\* The chunk that a record at "a" of n bytes is joined to: the first, by
\* address, that ends where the record begins or begins where it ends.
Joinable(chunks, a, n) ==
  LET fits == {b \in DOMAIN chunks : a = b + Len(chunks[b]) \/ a + n = b}
  IN  {b \in fits : \A c \in fits : b <= c}

\* A data record: appended to the chunk it follows, put in front of the bytes of
\* the chunk it precedes (whose address is not changed), or a new chunk.
Joined(chunks, a, bytes) ==
  LET at == Joinable(chunks, a, Len(bytes))
  IN  IF at = {} THEN [b \in DOMAIN chunks \cup {a} |-> IF b = a THEN bytes ELSE chunks[b]]
      ELSE [b \in DOMAIN chunks |->
              IF b \notin at THEN chunks[b]
              ELSE IF a = b + Len(chunks[b]) THEN chunks[b] \o bytes
              ELSE bytes \o chunks[b]]

ReadRecord(s, r) ==
  IF s.ended # "" THEN s
  ELSE IF r.type = 1 THEN [s EXCEPT !.ended = "end"]
  ELSE IF r.type \notin {0, 2, 4, 5} THEN [s EXCEPT !.ended = "unknown_record"]
  ELSE IF r.type \in {2, 4} /\ Len(r.bytes) # 2 THEN [s EXCEPT !.ended = "invalid_record"]
  ELSE IF ~r.good THEN [s EXCEPT !.ended = IF r.type = 2 THEN "invalid_record"
                                                         ELSE "wrong_checksum"]
  ELSE CASE r.type = 0 -> [s EXCEPT !.chunks = Joined(@, r.address + s.base, r.bytes)]
         [] r.type = 2 -> [s EXCEPT !.base = r.address * 2^4]
         [] r.type = 4 -> [s EXCEPT !.base = r.address * 2^16]
         [] OTHER -> s

\* read_hex_file: a file without an end record is truncated.
ReadHexFile(file) ==
  LET s == FoldLeft(ReadRecord, Reader, file)
  IN  [s EXCEPT !.ended = IF @ = "" THEN "file_truncated" ELSE @]

PageOf_Rounded(a) == (a + PageSize - 1) \div PageSize

PageOf(a) == a \div PageSize

\* extract_pages_from_hex: chunks are copied in the order of their addresses, so
\* where two overlap the later one stays; the rest of a page is zero.
Pages(chunks) ==
  LET covers(b) == {b + i - 1 : i \in 1..Len(chunks[b])}
      pages == {PageOf(a) : a \in UNION {covers(b) : b \in DOMAIN chunks}}
      byte(a) == LET bs == {b \in DOMAIN chunks : a \in covers(b)}
                 IN  IF bs = {} THEN 0
                     ELSE LET b == CHOOSE b \in bs : \A c \in bs : c <= b
                          IN  chunks[b][a - b + 1]
  IN  [p \in pages |-> [i \in 0..(PageSize - 1) |-> byte(p * PageSize + i)]]

HexInit == hexFile = <<>>

\* Every file of at most MaxRecords records.
AddRecord ==
  /\ Len(hexFile) < MaxRecords
  /\ \E r \in HexRecords : hexFile' = Append(hexFile, r)

HexNext == AddRecord

-----------------------------------------------------------------------------
\* Where the bytes of data record i belong: the last base address before it.
BaseBefore(file, i) ==
  LET bases == {j \in 1..(i - 1) : file[j].type \in {2, 4}}
  IN  IF bases = {} THEN 0
      ELSE LET j == CHOOSE j \in bases : \A k \in bases : k <= j
           IN  file[j].address * (IF file[j].type = 2 THEN 2^4 ELSE 2^16)

DataRecords(file) == {i \in 1..Len(file) : file[i].type = 0 /\
                                    \A j \in 1..(i - 1) : file[j].type # 1}
RecordPlace(file, i) == BaseBefore(file, i) + file[i].address
RecordBytes(file, i) == RecordPlace(file, i) .. (RecordPlace(file, i) + Len(file[i].bytes) - 1)

\* No record overlaps another one, and none ends where an earlier one begins.
Rising(file) ==
  \A i, j \in DataRecords(file) : i < j =>
    /\ RecordBytes(file, i) \cap RecordBytes(file, j) = {}
    /\ RecordPlace(file, j) + Len(file[j].bytes) # RecordPlace(file, i)

\* The pages hold every byte of the firmware file at its address, zero
\* elsewhere, and there is a page exactly where the file has bytes, however the
\* records were joined into chunks and cut into pages, for a file in which no
\* record comes right before the bytes of an earlier one.
PagesFaithful ==
  LET s == ReadHexFile(hexFile)
      pages == Pages(s.chunks)
  IN  s.ended = "end" /\ Rising(hexFile) =>
        /\ DOMAIN pages = {a \div PageSize : a \in UNION {RecordBytes(hexFile, i) : i \in DataRecords(hexFile)}}
        /\ \A p \in DOMAIN pages : \A k \in 0..(PageSize - 1) :
             LET a == p * PageSize + k
                 owners == {i \in DataRecords(hexFile) : a \in RecordBytes(hexFile, i)}
             IN  pages[p][k] =
                   IF owners = {} THEN 0
                   ELSE LET i == CHOOSE i \in owners : TRUE
                        IN  hexFile[i].bytes[a - RecordPlace(hexFile, i) + 1]
=============================================================================
