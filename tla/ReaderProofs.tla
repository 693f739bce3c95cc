----------------------------- MODULE ReaderProofs -----------------------------
(***************************************************************************)
(* Proofs about the KSI_RDR reader of io.c, for every width of size_t and  *)
(* int and every set of lengths and requests.                              *)
(*                                                                         *)
(* Every field keeps its C type whatever is read: the conversions land in *)
(* their ranges.  A reader stays in bounds while its input is shorter than *)
(* INT_MAX: readFromMem cuts to the bytes left, and readFromFile and        *)
(* read_ptr do as long as the bytes left fit in their int count.  Past      *)
(* INT_MAX a file read (io.c:219) or a memory read_ptr of a long length     *)
(* (io.c:312) wraps the offset past the end, as MCReader_FileWrap.cfg and   *)
(* MCReader_MemWrap.cfg show.                                               *)
(***************************************************************************)
EXTENDS Reader, Integers, TLAPS

MS == 2^SizeBits          \* SIZE_MAX + 1
MI == 2^IntBits           \* UINT_MAX + 1
HI == 2^(IntBits - 1)     \* INT_MAX + 1

\* Every input, buffer or file, is shorter than INT_MAX.
InputsShort == Lengths \subseteq 0..(HI - 1)

\* The inductive invariant.
IInv == TypeOK /\ OffsetInBounds

\* The bounds of size_t, unsigned int and int are positive, INT_MAX + 1 is
\* half of UINT_MAX + 1, and size_t is at least as wide as unsigned int.
LEMMA PowFacts ==
  /\ MS \in Nat \ {0} /\ MI \in Nat \ {0} /\ HI \in Nat \ {0}
  /\ MI = 2 * HI /\ MI <= MS
BY WidthFacts DEF MS, MI, HI

\* A remainder by a positive modulus lies in 0..m - 1.
LEMMA ModRange ==
  ASSUME NEW m \in Nat \ {0}, NEW x \in Int
  PROVE  x % m \in 0..(m - 1)
BY SMT

\* A value already in 0..m - 1 is its own remainder.
LEMMA ModId ==
  ASSUME NEW m \in Nat \ {0}, NEW x \in 0..(m - 1)
  PROVE  x % m = x
BY SMT

\* The conversions to size_t and unsigned int land in their ranges, and
\* change nothing that is already there.
LEMMA ConvFacts ==
  ASSUME NEW x \in Int
  PROVE  /\ ToSize(x) \in Size /\ (x \in Size => ToSize(x) = x)
         /\ ToUInt(x) \in UInt /\ (x \in UInt => ToUInt(x) = x)
         /\ ToInt(x) \in Int
         /\ x \in 0..(HI - 1) => ToInt(x) = x
<1>1. ToSize(x) \in Size /\ (x \in Size => ToSize(x) = x)
  BY PowFacts, ModRange, ModId DEF ToSize, Size, MS
<1>2. ToUInt(x) \in UInt /\ (x \in UInt => ToUInt(x) = x)
  BY PowFacts, ModRange, ModId DEF ToUInt, UInt, MI
<1>3. ToInt(x) \in Int
  <2>1. x % MI \in 0..(MI - 1)
    BY PowFacts, ModRange
  <2>2. QED
    BY <2>1, PowFacts DEF ToInt, MI, HI
<1>4. x \in 0..(HI - 1) => ToInt(x) = x
  <2>1. HI <= MI /\ HI - 1 < HI
    BY PowFacts
  <2>2. ASSUME x \in 0..(HI - 1) PROVE x % MI = x /\ ~(x >= HI)
    BY <2>1, <2>2, PowFacts, ModId
  <2>3. QED
    BY <2>2 DEF ToInt, MI, HI
<1>5. QED
  BY <1>1, <1>2, <1>3, <1>4

\* The ranges of size_t and unsigned int, by their bounds.
LEMMA RangeDefs == Size = 0..(MS - 1) /\ UInt = 0..(MI - 1)
BY DEF Size, UInt, MS, MI

\* Lengths are unsigned ints, and unsigned ints are sizes.
LEMMA LengthFacts == Lengths \subseteq UInt /\ UInt \subseteq Size
BY ReaderAssumption, PowFacts DEF UInt, Size, MI, MS

\* What a read must leave: a reader of the same kind over the same input,
\* standing within it, and a count that is an unsigned int.
ReadOK(r, x) ==
  /\ x.rdr \in Reader /\ x.rdr.offset <= x.rdr.len
  /\ x.rdr.type = r.type /\ x.rdr.len = r.len
  /\ x.count \in UInt

\* readFromMem cuts the read to the bytes left: the unsigned int left is
\* exact because a buffer's length is an unsigned int.
LEMMA ReadFromMemOK ==
  ASSUME NEW r \in Reader, r.offset <= r.len, NEW size \in Nat
  PROVE  ReadOK(r, ReadFromMem(r, size))
<1> USE PowFacts, RangeDefs
<1> DEFINE left == ToUInt(r.len - r.offset)
           n    == IF left > size THEN size ELSE left
<1>1. r.len \in UInt /\ r.offset \in Nat /\ r.len - r.offset \in UInt
  <2>1. r.len \in Lengths /\ r.offset \in Size
    BY DEF Reader
  <2>2. r.len \in 0..(MI - 1) /\ r.offset \in 0..(MS - 1)
    BY <2>1, LengthFacts, RangeDefs
  <2>3. QED
    BY <2>2, PowFacts, RangeDefs
<1>2. left = r.len - r.offset
  BY <1>1, ConvFacts
<1>3. n \in 0..(r.len - r.offset)
  BY <1>1, <1>2
<1>4. r.offset + n \in Size /\ r.offset + n <= r.len
  BY <1>1, <1>3, LengthFacts
<1>5. ToSize(r.offset + n) = r.offset + n
  BY <1>4, ConvFacts
<1>6. n \in UInt
  BY <1>1, <1>3
<1>7. QED
  BY <1>4, <1>5, <1>6 DEF ReadOK, ReadFromMem, Reader

\* readFromFile, for a file shorter than INT_MAX: fread's count fits in
\* the int, so the offset moves forward by at most what is left.
LEMMA ReadFromFileOK ==
  ASSUME NEW r \in Reader, r.offset <= r.len, r.len < HI, NEW size \in Nat
  PROVE  ReadOK(r, ReadFromFile(r, size))
<1> USE PowFacts, RangeDefs
<1> DEFINE m == IF size <= r.len - r.offset THEN size ELSE r.len - r.offset
           n == ToInt(m)
<1>1. r.len \in UInt /\ r.offset \in Nat
  <2>1. r.len \in Lengths /\ r.offset \in Size
    BY DEF Reader
  <2>2. r.len \in 0..(MI - 1) /\ r.offset \in 0..(MS - 1)
    BY <2>1, LengthFacts, RangeDefs
  <2>3. QED
    BY <2>2, PowFacts, RangeDefs
<1>2. m \in 0..(r.len - r.offset) /\ m \in 0..(HI - 1)
  BY <1>1, PowFacts
<1>3. n = m
  <2>1. m \in Int
    BY <1>1, <1>2
  <2>2. QED
    BY <1>2, <2>1, ConvFacts
<1>4. r.offset + n \in Size /\ r.offset + n <= r.len
  BY <1>1, <1>2, <1>3, LengthFacts
<1>5. ToSize(r.offset + n) = r.offset + n
  BY <1>4, ConvFacts
<1>6. ToUInt(n) \in UInt
  <2>1. n \in Int
    BY <1>1, <1>2, <1>3
  <2>2. QED
    BY <2>1, ConvFacts
<1>7. QED
  BY <1>4, <1>5, <1>6 DEF ReadOK, ReadFromFile, Reader

\* read_ptr on a memory reader shorter than INT_MAX clips the count to the
\* end of the buffer, whatever int the request became and wherever the
\* size_t sum wrapped: when the sum lands past the end, the bytes left fit
\* in the int count and the reader stops exactly at the end; otherwise it
\* stands where the sum landed, which is within.
LEMMA ReadPtrMemOK ==
  ASSUME NEW r \in Reader, r.offset <= r.len, r.len < HI, NEW len \in Nat
  PROVE  ReadOK(r, ReadPtrMem(r, len)) /\ ReadPtrMem(r, len).ptr \in BOOLEAN
<1> DEFINE c  == ToInt(len)
           s  == ToSize(r.offset + c)
           cl == IF s > r.len THEN ToInt(r.len - r.offset) ELSE c
<1>1. r.len \in UInt /\ r.len \in Size /\ r.offset \in Nat /\ r.len \in Nat
  <2>1. r.len \in Lengths /\ r.offset \in Size
    BY DEF Reader
  <2>2. r.len \in 0..(MI - 1) /\ r.len \in 0..(MS - 1) /\ r.offset \in 0..(MS - 1)
    BY <2>1, LengthFacts, RangeDefs
  <2>3. QED
    BY <2>2, PowFacts, RangeDefs
<1>2. c \in Int /\ s \in Size /\ s \in Nat
  <2>1. c \in Int
    BY ConvFacts
  <2>2. r.offset + c \in Int
    BY <1>1, <2>1
  <2>3. s \in Size
    BY <2>2, ConvFacts
  <2>4. QED
    BY <2>1, <2>3, PowFacts, RangeDefs
<1>3. CASE r.offset < r.len /\ s > r.len
  <2>1. cl = r.len - r.offset /\ r.offset + cl = r.len
    <3>1. r.len - r.offset \in 0..(HI - 1)
      BY <1>1, <1>3, PowFacts
    <3>2. ToInt(r.len - r.offset) = r.len - r.offset
      BY <3>1, ConvFacts
    <3>3. QED
      BY <1>1, <1>3, <3>2
  <2>2. ToSize(r.len) = r.len
    <3>1. r.len \in Int /\ r.len \in Size
      BY <1>1
    <3>2. QED
      BY <3>1, ConvFacts, Zenon
  <2>3. cl \in Int
    BY <1>1, <2>1
  <2>4. ToUInt(cl) \in UInt
    BY <2>3, ConvFacts
  <2>5. ReadPtrMem(r, len) = [rdr |-> [r EXCEPT !.offset = r.len, !.eof = 1],
                               count |-> ToUInt(cl), ptr |-> TRUE]
    BY <1>3, <2>1, <2>2 DEF ReadPtrMem
  <2>6. [r EXCEPT !.offset = r.len, !.eof = 1] \in Reader
    BY <1>1 DEF Reader
  <2>7. LET x == [r EXCEPT !.offset = r.len, !.eof = 1]
        IN  x.offset = r.len /\ x.len = r.len /\ x.type = r.type
    BY DEF Reader
  <2>8. /\ ReadPtrMem(r, len).rdr = [r EXCEPT !.offset = r.len, !.eof = 1]
        /\ ReadPtrMem(r, len).count = ToUInt(cl)
        /\ ReadPtrMem(r, len).ptr = TRUE
    BY <2>5
  <2>9. r.len <= r.len
    BY <1>1
  <2>10. QED
    BY <2>4, <2>6, <2>7, <2>8, <2>9, Zenon DEF ReadOK
<1>4. CASE r.offset < r.len /\ ~(s > r.len)
  <2>1. cl = c /\ s <= r.len
    BY <1>1, <1>2, <1>4
  <2>2. ToUInt(cl) \in UInt
    BY <1>2, <2>1, ConvFacts
  <2>3. ReadPtrMem(r, len) = [rdr |-> [r EXCEPT !.offset = s, !.eof = r.eof],
                               count |-> ToUInt(cl), ptr |-> TRUE]
    BY <1>4, <2>1 DEF ReadPtrMem
  <2>4. [r EXCEPT !.offset = s, !.eof = r.eof] \in Reader
    BY <1>2 DEF Reader
  <2>5. LET x == [r EXCEPT !.offset = s, !.eof = r.eof]
        IN  x.offset = s /\ x.len = r.len /\ x.type = r.type
    BY DEF Reader
  <2>6. /\ ReadPtrMem(r, len).rdr = [r EXCEPT !.offset = s, !.eof = r.eof]
        /\ ReadPtrMem(r, len).count = ToUInt(cl)
        /\ ReadPtrMem(r, len).ptr = TRUE
    BY <2>3
  <2>7. QED
    BY <2>1, <2>2, <2>4, <2>5, <2>6, Zenon DEF ReadOK
<1>5. CASE ~(r.offset < r.len)
  <2>1. 0 \in UInt
    BY PowFacts, RangeDefs
  <2>2. r.offset = r.len
    BY <1>1, <1>5
  <2>3. QED
    BY <1>5, <2>1, <2>2 DEF ReadOK, ReadPtrMem, Reader
<1>6. QED
  BY <1>3, <1>4, <1>5

\* read_ptr as a whole: a file reader is left as it is.
LEMMA ReadPtrOfOK ==
  ASSUME NEW r \in Reader, r.offset <= r.len, r.len < HI, NEW len \in Nat
  PROVE  LET x == ReadPtrOf(r, len) IN
         /\ x.rdr \in Reader /\ x.rdr.offset <= x.rdr.len
         /\ x.rdr.type = r.type /\ x.rdr.len = r.len
         /\ x.count \in UInt \cup {NULL} /\ x.ptr \in BOOLEAN
<1>1. CASE r.type = "FILE"
  BY <1>1 DEF ReadPtrOf
<1>2. CASE r.type # "FILE"
  BY <1>2, ReadPtrMemOK DEF ReadPtrOf, ReadOK
<1>3. QED
  BY <1>1, <1>2

-----------------------------------------------------------------------------
(***************************************************************************)
(* Types, for any input.                                                   *)
(***************************************************************************)
\* A reader's fields are integers: its length an unsigned int, its offset
\* a size_t.
LEMMA ReaderInts ==
  ASSUME NEW r \in Reader
  PROVE  r.len \in 0..(MI - 1) /\ r.offset \in 0..(MS - 1) /\ r.len \in Int /\ r.offset \in Int
<1>1. r.len \in Lengths /\ r.offset \in Size
  BY DEF Reader
<1>2. r.len \in 0..(MI - 1) /\ r.offset \in 0..(MS - 1)
  BY <1>1, LengthFacts, RangeDefs
<1>3. QED
  BY <1>2, PowFacts

\* readFromMem gives a reader and an unsigned count, for any buffer.
LEMMA ReadFromMemType ==
  ASSUME NEW r \in Reader, NEW size \in Nat
  PROVE  ReadFromMem(r, size).rdr \in Reader /\ ReadFromMem(r, size).count \in UInt
<1> DEFINE left == ToUInt(r.len - r.offset)
           n    == IF left > size THEN size ELSE left
<1>0. r.len \in Int /\ r.offset \in Int /\ r.len - r.offset \in Int
  BY ReaderInts
<1>1. left \in 0..(MI - 1)
  <2>1. left \in UInt
    BY <1>0, ConvFacts
  <2>2. QED
    BY <2>1, RangeDefs
<1>2. n \in UInt /\ n \in Int
  BY <1>1, RangeDefs, PowFacts
<1>3. ToSize(r.offset + n) \in Size
  <2>1. r.offset + n \in Int
    BY <1>0, <1>2
  <2>2. QED
    BY <2>1, ConvFacts
<1>4. QED
  BY <1>2, <1>3 DEF ReadFromMem, Reader

\* readFromFile gives a reader and an unsigned count, for any file: a
\* wrapped offset is still a size_t.
LEMMA ReadFromFileType ==
  ASSUME NEW r \in Reader, NEW size \in Nat
  PROVE  ReadFromFile(r, size).rdr \in Reader /\ ReadFromFile(r, size).count \in UInt
<1> DEFINE m == IF size <= r.len - r.offset THEN size ELSE r.len - r.offset
           n == ToInt(m)
<1>0. r.len \in Int /\ r.offset \in Int /\ m \in Int
  BY ReaderInts
<1>1. n \in Int
  BY <1>0, ConvFacts
<1>2. ToSize(r.offset + n) \in Size /\ ToUInt(n) \in UInt
  <2>1. r.offset + n \in Int
    BY <1>0, <1>1
  <2>2. QED
    BY <1>1, <2>1, ConvFacts
<1>3. QED
  BY <1>2 DEF ReadFromFile, Reader

\* read_ptr gives a reader, an unsigned count or none, and a flag, for any
\* input and any length.
LEMMA ReadPtrOfType ==
  ASSUME NEW r \in Reader, NEW len \in Nat
  PROVE  /\ ReadPtrOf(r, len).rdr \in Reader
         /\ ReadPtrOf(r, len).count \in UInt \cup {NULL}
         /\ ReadPtrOf(r, len).ptr \in BOOLEAN
<1> DEFINE c  == ToInt(len)
           cl == IF ToSize(r.offset + c) > r.len THEN ToInt(r.len - r.offset) ELSE c
<1>0. r.len \in Int /\ r.offset \in Int /\ r.len - r.offset \in Int
  BY ReaderInts
<1>1. c \in Int /\ cl \in Int
  BY <1>0, ConvFacts
<1>2. ToSize(r.offset + cl) \in Size /\ ToUInt(cl) \in UInt /\ 0 \in UInt
  <2>1. r.offset + cl \in Int
    BY <1>0, <1>1
  <2>2. 0 \in UInt
    BY PowFacts, RangeDefs
  <2>3. QED
    BY <1>1, <2>1, <2>2, ConvFacts
<1>3. CASE r.type = "FILE"
  BY <1>3 DEF ReadPtrOf
<1>4. CASE r.type # "FILE"
  BY <1>2, <1>4 DEF ReadPtrOf, ReadPtrMem, Reader
<1>5. QED
  BY <1>3, <1>4

\* Every call of the application keeps every field in its C type.
LEMMA TypeNext == TypeOK /\ [Next]_vars => TypeOK'
<1> SUFFICES ASSUME TypeOK, [Next]_vars PROVE TypeOK'
  OBVIOUS
<1>1. 0 \in Size
  BY PowFacts, RangeDefs
<1>2. ASSUME NEW l \in Lengths, NEW own \in BOOLEAN,
             \/ FromStream(l) \/ FromFile(l) \/ FromMem(l, own)
      PROVE  TypeOK'
  <2>1. l \in Lengths /\ NewReader("FILE", l, FALSE) \in Reader
    BY <1>1 DEF NewReader, Reader
  <2>2. \A own2 \in BOOLEAN : NewReader("MEM", l, own2) \in Reader
    BY <1>1 DEF NewReader, Reader
  <2>3. CASE FromStream(l)
    BY <2>1, <2>3 DEF FromStream, TypeOK, Codes
  <2>4. CASE FromFile(l)
    BY <2>1, <2>4 DEF FromFile, FromStream, TypeOK, Codes
  <2>5. CASE FromMem(l, own)
    BY <2>2, <2>5 DEF FromMem, TypeOK, Codes
  <2>6. QED
    BY <1>2, <2>3, <2>4, <2>5
<1>3. ASSUME NEW n \in Requests, ReadEx(n) PROVE TypeOK'
  <2>1. rdr \in Reader /\ n \in Nat
    BY <1>3, ReaderAssumption DEF ReadEx, TypeOK
  <2>2. QED
    BY <1>3, <2>1, ReadFromMemType, ReadFromFileType DEF ReadEx, TypeOK, Codes
<1>4. ASSUME NEW n \in Requests, ReadPtr(n) PROVE TypeOK'
  <2>1. rdr \in Reader /\ n \in Nat
    BY <1>4, ReaderAssumption DEF ReadPtr, TypeOK
  <2>2. QED
    BY <1>4, <2>1, ReadPtrOfType DEF ReadPtr, TypeOK, Codes
<1>5. ASSUME VerifyEnd PROVE TypeOK'
  <2>1. rdr \in Reader /\ 1 \in Nat
    BY <1>5 DEF VerifyEnd, TypeOK
  <2>2. VerifyEndResult(rdr) \in Codes
    BY DEF VerifyEndResult, Codes
  <2>3. QED
    BY <1>5, <2>1, <2>2, ReadPtrOfType DEF VerifyEnd, TypeOK
<1>6. CASE Close \/ UNCHANGED vars
  BY <1>6 DEF Close, vars, TypeOK
<1>7. QED
  BY <1>2, <1>3, <1>4, <1>5, <1>6 DEF Next

(***************************************************************************)
(* Bounds, for inputs shorter than INT_MAX.                                *)
(***************************************************************************)
\* No reader exists at the start.
LEMMA InitIInv == Init => IInv
BY DEF Init, IInv, TypeOK, OffsetInBounds

\* A reader's input is shorter than INT_MAX.
LEMMA ReaderShort ==
  ASSUME InputsShort, NEW r \in Reader
  PROVE  r.len < HI
<1>1. r.len \in Lengths
  BY DEF Reader
<1>2. r.len \in 0..(HI - 1)
  BY <1>1 DEF InputsShort
<1>3. QED
  BY <1>2, PowFacts

\* Creating a reader: offset 0 is within any input.
LEMMA OpenIInv ==
  ASSUME IInv,
         \/ \E l \in Lengths : FromStream(l)
         \/ \E l \in Lengths : FromFile(l)
         \/ \E l \in Lengths, own \in BOOLEAN : FromMem(l, own)
  PROVE  IInv'
<1>1. 0 \in Size
  BY PowFacts, RangeDefs
<1>2. ASSUME NEW l \in Lengths, FromStream(l) PROVE IInv'
  <2>1. l \in Nat
    BY LengthFacts, PowFacts, RangeDefs
  <2>2. QED
    BY <1>1, <1>2, <2>1 DEF FromStream, NewReader, Reader, IInv, TypeOK, Codes,
                             OffsetInBounds
<1>3. ASSUME NEW l \in Lengths, FromFile(l) PROVE IInv'
  <2>1. CASE res' = "IO_ERROR" /\ last' = "open" /\ UNCHANGED <<rdr, count, ptr>>
    BY <2>1 DEF IInv, TypeOK, Codes, OffsetInBounds
  <2>2. QED
    BY <1>2, <1>3, <2>1 DEF FromFile
<1>4. ASSUME NEW l \in Lengths, NEW own \in BOOLEAN, FromMem(l, own) PROVE IInv'
  <2>1. l \in Nat
    BY LengthFacts, PowFacts, RangeDefs
  <2>2. QED
    BY <1>1, <1>4, <2>1 DEF FromMem, NewReader, Reader, IInv, TypeOK, Codes,
                             OffsetInBounds
<1>5. QED
  BY <1>2, <1>3, <1>4

\* read_ex: the reader stays within its input, of the same kind and length.
LEMMA ReadExIInv ==
  ASSUME InputsShort, IInv, NEW n \in Requests, ReadEx(n)
  PROVE  IInv'
<1> DEFINE x == IF rdr.type = "FILE" THEN ReadFromFile(rdr, n) ELSE ReadFromMem(rdr, n)
<1>1. rdr \in Reader /\ rdr.offset <= rdr.len /\ n \in Nat
  BY ReaderAssumption DEF ReadEx, IInv, TypeOK, OffsetInBounds
<1>2. ReadOK(rdr, x)
  <2>1. CASE rdr.type = "FILE"
    <3>1. rdr.len < HI
      BY <1>1, ReaderShort
    <3>2. QED
      BY <1>1, <2>1, <3>1, ReadFromFileOK
  <2>2. CASE rdr.type # "FILE"
    BY <1>1, <2>2, ReadFromMemOK
  <2>3. QED
    BY <2>1, <2>2
<1>3. rdr' = x.rdr /\ count' = x.count /\ ptr' = FALSE /\ res' = "OK" /\ last' = "read_ex"
  BY DEF ReadEx
<1>4. /\ rdr' \in Reader /\ rdr'.offset <= rdr'.len
      /\ count' \in UInt
  BY <1>2, <1>3, Zenon DEF ReadOK
<1>5. QED
  BY <1>3, <1>4 DEF IInv, TypeOK, Codes, OffsetInBounds

\* read_ptr and verifyEnd: the same, through ReadPtrOf.
LEMMA ReadPtrIInv ==
  ASSUME InputsShort, IInv,
         \/ \E n \in Requests : ReadPtr(n)
         \/ VerifyEnd
  PROVE  IInv'
<1>1. rdr # NULL => rdr \in Reader /\ rdr.offset <= rdr.len /\ rdr.len < HI
  BY ReaderShort DEF IInv, TypeOK, OffsetInBounds
<1>2. ASSUME NEW n \in Requests, ReadPtr(n) PROVE IInv'
  <2>1. n \in Nat
    BY ReaderAssumption
  <2>2. QED
    BY <1>1, <1>2, <2>1, ReadPtrOfOK
       DEF ReadPtr, IInv, TypeOK, Codes, OffsetInBounds
<1>3. ASSUME VerifyEnd PROVE IInv'
  <2>1. VerifyEndResult(rdr) \in Codes
    BY DEF VerifyEndResult, Codes
  <2>2. QED
    BY <1>1, <1>3, <2>1, ReadPtrOfOK
       DEF VerifyEnd, IInv, TypeOK, OffsetInBounds
<1>4. QED
  BY <1>2, <1>3

\* Every call of the application, or a stutter, keeps the invariant.
LEMMA NextIInv == InputsShort => (IInv /\ [Next]_vars => IInv')
<1> SUFFICES ASSUME InputsShort, IInv, [Next]_vars PROVE IInv'
  OBVIOUS
<1>1. CASE \E n \in Requests : ReadEx(n)
  BY <1>1, ReadExIInv
<1>2. CASE Close
  BY <1>2 DEF Close, IInv, TypeOK, OffsetInBounds
<1>3. CASE UNCHANGED vars
  BY <1>3 DEF vars, IInv, TypeOK, OffsetInBounds
<1>4. QED
  BY <1>1, <1>2, <1>3, OpenIInv, ReadPtrIInv DEF Next

-----------------------------------------------------------------------------
\* Every reader field keeps its C type after every open, read and close,
\* for every width of size_t and int and inputs of any length: offsets are
\* size_t values and counts unsigned ints even where the int counts of
\* readFromFile and read_ptr wrap.
THEOREM TypeCorrect == Spec => []TypeOK
<1>1. Init => TypeOK
  BY DEF Init, TypeOK
<1>2. QED
  BY <1>1, TypeNext, PTL DEF Spec

\* No sequence of read_ex, read_ptr and verifyEnd calls moves a file or
\* memory reader past the end of its input, for every width of size_t and
\* int, while every input is shorter than INT_MAX (InputsShort; the
\* reader_bounds run is such an instance): readFromMem cuts to the bytes
\* left, and the int counts of readFromFile and read_ptr hold them.
THEOREM OffsetInBoundsHolds ==
  ASSUME InputsShort
  PROVE  Spec => []OffsetInBounds
<1>1. IInv /\ [Next]_vars => IInv'
  BY NextIInv
<1>2. IInv => OffsetInBounds
  BY DEF IInv
<1>3. QED
  BY <1>1, <1>2, InitIInv, PTL DEF Spec

=============================================================================
