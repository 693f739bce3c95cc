------------------------------- MODULE Reader -------------------------------
(***************************************************************************)
(* The KSI_RDR reader of src/src/ksi/io.c over a file or a memory buffer.  *)
(*                                                                         *)
(* The bytes themselves are left out: a reader is its type, its offset,    *)
(* its eof flag and the length of what it reads (the buffer, or the file   *)
(* from its current position).  Integer widths are kept where the code     *)
(* converts between them: size_t has SizeBits bits, int and unsigned int   *)
(* IntBits bits (the model runs them scaled down, size_t still the wider). *)
(***************************************************************************)
EXTENDS Naturals

CONSTANTS
  IoTypes,    \* the reader kinds the application creates: "FILE", "MEM"
  Lengths,    \* lengths of the buffers and files read
  Requests,   \* byte counts the application asks for
  SizeBits,   \* width of size_t
  IntBits,    \* width of int and unsigned int
  NULL

ASSUME ReaderAssumption ==
  /\ IoTypes \subseteq {"FILE", "MEM"}
  /\ SizeBits \in Nat \ {0} /\ IntBits \in Nat \ {0} /\ IntBits <= SizeBits
  /\ Lengths \subseteq 0..(2^IntBits - 1)
  /\ Requests \subseteq 0..(2^SizeBits - 1)

\* Facts of arithmetic about the widths, true for every width the first
\* assumption admits, stated for the proofs, whose provers treat 2^w with
\* a symbolic w as opaque.
ASSUME WidthFacts ==
  /\ 2^SizeBits \in Nat
  /\ 2^(IntBits - 1) \in Nat \ {0}
  /\ 2^IntBits = 2 * 2^(IntBits - 1)
  /\ 2^IntBits <= 2^SizeBits

VARIABLES
  rdr,    \* the KSI_RDR, or NULL
  count,  \* the *readCount the last read reported, or NULL if not written
  ptr,    \* read_ptr's *ptr was set (to a byte of the buffer)
  res,    \* status of the last call
  last    \* the last call the application made

vars == <<rdr, count, ptr, res, last>>

Size == 0..(2^SizeBits - 1)
UInt == 0..(2^IntBits - 1)

\* Conversions of C: to size_t, to unsigned int, to int (two's complement).
ToSize(x) == x % 2^SizeBits
ToUInt(x) == x % 2^IntBits
ToInt(x)  == LET u == x % 2^IntBits IN IF u >= 2^(IntBits - 1) THEN u - 2^IntBits ELSE u

Reader == [type : {"FILE", "MEM"}, offset : Size, eof : {0, 1}, len : Lengths,
           own : BOOLEAN]

\* newReader: offset 0, eof 0.
NewReader(type, l, own) == [type |-> type, offset |-> 0, eof |-> 0, len |-> l, own |-> own]

Codes == {"OK", "IO_ERROR", "INVALID_FORMAT"}

TypeOK ==
  /\ rdr \in Reader \cup {NULL}
  /\ count \in UInt \cup {NULL}
  /\ ptr \in BOOLEAN
  /\ res \in Codes \cup {NULL}
  /\ last \in {"open", "read_ex", "read_ptr", "verifyEnd", "close", NULL}

Init ==
  /\ rdr = NULL
  /\ count = NULL
  /\ ptr = FALSE
  /\ res = NULL
  /\ last = NULL

(***************************************************************************)
(* Creating and closing readers.                                           *)
(***************************************************************************)
\* KSI_RDR_fromStream(ctx, file, &rdr) on a stream of l bytes.
FromStream(l) ==
  /\ rdr = NULL /\ "FILE" \in IoTypes
  /\ rdr' = NewReader("FILE", l, FALSE)
  /\ res' = "OK"
  /\ last' = "open"
  /\ UNCHANGED <<count, ptr>>

\* KSI_RDR_fromFile(ctx, name, flags, &rdr): fopen may fail.
FromFile(l) ==
  /\ rdr = NULL /\ "FILE" \in IoTypes
  /\ \/ /\ res' = "IO_ERROR"
        /\ last' = "open"
        /\ UNCHANGED <<rdr, count, ptr>>
     \/ FromStream(l)

\* KSI_RDR_fromMem (a private copy) and KSI_RDR_fromSharedMem, through
\* createReader_fromMem.
FromMem(l, own) ==
  /\ rdr = NULL /\ "MEM" \in IoTypes
  /\ rdr' = NewReader("MEM", l, own)
  /\ res' = "OK"
  /\ last' = "open"
  /\ UNCHANGED <<count, ptr>>

\* KSI_RDR_close(rdr): the stream is closed or the own copy freed.
Close ==
  /\ rdr # NULL
  /\ rdr' = NULL
  /\ last' = "close"
  /\ UNCHANGED <<count, ptr, res>>

(***************************************************************************)
(* Reading.                                                                *)
(***************************************************************************)
\* readFromFile: fread returns what is left, up to size; feof is set once
\* a read asked for more than was left, and stays set.
ReadFromFile(r, size) ==
  LET n == ToInt(IF size <= r.len - r.offset THEN size ELSE r.len - r.offset)
  IN  [rdr |-> [r EXCEPT !.offset = ToSize(r.offset + n),
                         !.eof = IF r.eof = 1 \/ size > r.len - r.offset THEN 1 ELSE 0],
       count |-> ToUInt(n)]

\* Faulty variant: the eof flag given the bytes left instead of the test.
ReadFromMemLeft(r, size) ==
  LET left == ToUInt(r.len - r.offset)
      n    == IF left > size THEN size ELSE left
  IN  [rdr |-> [r EXCEPT !.offset = ToSize(r.offset + n),
                         !.eof = r.len - ToSize(r.offset + n)],
       count |-> n]

\* readFromMem: the bytes left, as an unsigned int, cut to size.
ReadFromMem(r, size) ==
  LET left == ToUInt(r.len - r.offset)
      n    == IF left > size THEN size ELSE left
  IN  [rdr |-> [r EXCEPT !.offset = ToSize(r.offset + n),
                         !.eof = IF ToSize(r.offset + n) = r.len THEN 1 ELSE 0],
       count |-> n]

\* KSI_RDR_read_ex(rdr, buf, size, &count).
ReadEx(size) ==
  LET x == IF rdr.type = "FILE" THEN ReadFromFile(rdr, size) ELSE ReadFromMem(rdr, size)
  IN  /\ rdr # NULL
      /\ rdr' = x.rdr
      /\ count' = x.count
      /\ ptr' = FALSE
      /\ res' = "OK"
      /\ last' = "read_ex"

\* Faulty variant: the cut at the end of the buffer left out.
ReadPtrMemUnclipped(r, len) ==
  LET c == ToInt(len) IN
  IF r.offset < r.len
    THEN [rdr |-> [r EXCEPT !.offset = ToSize(r.offset + c)],
          count |-> ToUInt(c), ptr |-> TRUE]
    ELSE [rdr |-> [r EXCEPT !.eof = 1], count |-> 0, ptr |-> FALSE]

\* KSI_RDR_read_ptr on a memory reader: count = len is an int,
\* offset + count is computed in size_t, and the bytes left are stored
\* back into the int count.
ReadPtrMem(r, len) ==
  LET c  == ToInt(len)
      cl == IF ToSize(r.offset + c) > r.len THEN ToInt(r.len - r.offset) ELSE c
  IN  IF r.offset < r.len
        THEN [rdr |-> [r EXCEPT !.offset = ToSize(r.offset + cl),
                                !.eof = IF ToSize(r.offset + c) > r.len THEN 1 ELSE r.eof],
              count |-> ToUInt(cl), ptr |-> TRUE]
        ELSE [rdr |-> [r EXCEPT !.eof = 1], count |-> 0, ptr |-> FALSE]

\* KSI_RDR_read_ptr: a file reader is left alone, nothing is written to
\* *ptr or *readCount, and the call succeeds.
ReadPtrOf(r, len) ==
  IF r.type = "FILE" THEN [rdr |-> r, count |-> NULL, ptr |-> FALSE]
  ELSE ReadPtrMem(r, len)

ReadPtr(len) ==
  LET x == ReadPtrOf(rdr, len) IN
  /\ rdr # NULL
  /\ rdr' = x.rdr
  /\ count' = x.count
  /\ ptr' = x.ptr
  /\ res' = "OK"
  /\ last' = "read_ptr"

\* Faulty variant: only read_ptr's status is tested.
VerifyEndStatusOnly(r) == "OK"

\* KSI_RDR_verifyEnd: read_ptr of one byte must give no pointer.
VerifyEndResult(r) == IF ReadPtrOf(r, 1).ptr THEN "INVALID_FORMAT" ELSE "OK"

VerifyEnd ==
  /\ rdr # NULL
  /\ rdr' = ReadPtrOf(rdr, 1).rdr
  /\ res' = VerifyEndResult(rdr)
  /\ last' = "verifyEnd"
  /\ UNCHANGED <<count, ptr>>

Next ==
  \/ \E l \in Lengths : FromStream(l)
  \/ \E l \in Lengths : FromFile(l)
  \/ \E l \in Lengths, own \in BOOLEAN : FromMem(l, own)
  \/ \E n \in Requests : ReadEx(n)
  \/ \E n \in Requests : ReadPtr(n)
  \/ VerifyEnd
  \/ Close

Spec == Init /\ [][Next]_vars

-----------------------------------------------------------------------------
(***************************************************************************)
(* Properties.                                                             *)
(***************************************************************************)

\* A reader never stands past the end of its input: every read, in either
\* form, cuts what it takes to the bytes left (readFromMem, read_ptr).
OffsetInBounds == rdr # NULL => rdr.offset <= rdr.len

\* KSI_RDR_verifyEnd succeeds only when the whole input was consumed:
\* the check that a parsed object is not followed by trailing bytes.
VerifyEndSound ==
  [][VerifyEnd /\ res' = "OK" => rdr.offset = rdr.len]_vars

\* A read never moves the reader back, and reports no more bytes than
\* were asked for.
ReadsForward ==
  [][\A n \in Requests :
       (ReadEx(n) \/ ReadPtr(n)) =>
         /\ rdr'.offset >= rdr.offset
         /\ count' # NULL => count' <= n]_vars

=============================================================================
