----------------------------- MODULE Signature -----------------------------
(***************************************************************************)
(* The KSI signature object of src/src/ksi_signature.c: parsing a          *)
(* signature blob into an object (KSI_Signature_parse, extractSignature),  *)
(* validating it (KSI_Signature_validateInternal), cloning, serialising    *)
(* and replacing its calendar chain (KSI_Signature_replaceCalendarChain),  *)
(* against an adversary who may edit the stored blob before it is parsed. *)
(*                                                                         *)
(* A blob is the sequence of the children of the 0x800 TLV; every child is *)
(* a record [tag, rec].  Byte encoding is the TLV codec's business         *)
(* (module TlvTemplate); here a child is already decoded.                  *)
(***************************************************************************)
EXTENDS HashChain, SequencesExt

CONSTANTS
  Atoms,              \* imprints that are not hash-chain nodes (documents, siblings)
  Hashes,             \* every imprint a blob may carry: Atoms and genuine nodes
  Inject,             \* the imprints the adversary writes into a blob
  Times,              \* the values of time fields
  LevelCorrections,   \* the values of the level-correction byte of a link
  Genuine,            \* blobs issued by the honest aggregator and calendar
  Signed,             \* <<pubTime, pubHash>> pairs the calendar signed (PKI)
  RoundRoot,          \* RoundRoot[t]: the calendar leaf registered at second t
  MaxEdits,           \* how many edits the adversary makes to a blob
  SuccessResetsStatus,\* KSI_SUCCESS overwrites an earlier KSI_FAIL status
  NULL

ASSUME ConstantsAssumption ==
  /\ Atoms \subseteq Hashes /\ Inject \subseteq Hashes
  /\ Times \subseteq Nat /\ LevelCorrections \subseteq Nat
  /\ Signed \subseteq Times \X Hashes
  /\ RoundRoot \in [Times -> Hashes]
  /\ MaxEdits \in Nat /\ SuccessResetsStatus \in BOOLEAN
  /\ NULL \notin Hashes /\ NULL \notin Times

VARIABLES
  wire,   \* the signature blob the application holds (file or response)
  edits,  \* edits the adversary has made so far
  sig,    \* the KSI_Signature object the application holds, or NULL
  res     \* status code returned by the last API call

vars == <<wire, edits, sig, res>>

(***************************************************************************)
(* The records of ksi_signature.c lines 32-100.                           *)
(***************************************************************************)
AggrLink == [left : BOOLEAN, sib : Hashes, lc : LevelCorrections]
CalLink  == [left : BOOLEAN, sib : Hashes]
AggrChainRec == [input : Hashes, links : Seq(AggrLink)]
CalChainRec  == [pubTime : Times \cup {NULL}, aggrTime : Times \cup {NULL},
                 input : Hashes \cup {NULL}, links : Seq(CalLink)]
\* signs: the published data the PKI signature value was computed over.
CalAuthRec   == [pubTime : Times, pubHash : Hashes, signs : Times \X Hashes]
Elem == [tag : {"aggr"}, rec : AggrChainRec]
          \cup [tag : {"cal"}, rec : CalChainRec]
          \cup [tag : {"calAuth"}, rec : CalAuthRec]
          \cup [tag : {"aggrAuth"}, rec : {NULL}]
          \cup [tag : {"unknown"}, rec : [nc : BOOLEAN, fwd : BOOLEAN]]
SigObj == [chains : Seq(AggrChainRec), cal : CalChainRec,
           calAuth : CalAuthRec \cup {NULL}, aggrAuth : {NULL},
           base : Seq(Elem)]

\* Ideal hashing: an atom (a document or sibling imprint) is never the
\* imprint H(l, r, v) of a node, and the two children of a node imprint
\* that a blob may carry are imprints a blob may carry.
ASSUME HashAssumption ==
  /\ Atoms \subseteq {"atom"} \X STRING
  /\ \A h \in Hashes \ Atoms : h[2] \in Hashes /\ h[3] \in Hashes

\* The blobs the aggregator and calendar issue are blobs: sequences of
\* children of the 0x800 TLV.
ASSUME GenuineAssumption == Genuine \subseteq Seq(Elem)

\* CalChainRec_new: every field NULL.
NoCal == [pubTime |-> NULL, aggrTime |-> NULL, input |-> NULL, links |-> <<>>]

TagIdx(b, t) == {i \in 1..Len(b) : b[i].tag = t}

Codes == {"OK", "INVALID_FORMAT", "INVALID_SIGNATURE", "PKI_ERROR",
          "UNKNOWN_ERROR", "IO_ERROR", "AGGREGATOR_ERROR"}

(***************************************************************************)
(* Validation (KSI_Signature_validateInternal and its helpers).  Each      *)
(* "Faulty" operator is a variant of the definition that follows it, with  *)
(* a plausible coding error; the properties below must tell them apart.   *)
(***************************************************************************)

\* Faulty: CalAuthRec_validate is not called.
PkiValidSkipped(auth) == TRUE

\* CalAuthRec_validate: KSI_PKITruststore_validateSignature accepts the
\* signature value iff it was made by the calendar over the serialized
\* published data (pubTime, pubHash) of this record.
PkiValid(auth) ==
  auth.signs = <<auth.pubTime, auth.pubHash>> /\ auth.signs \in Signed

\* Faulty: the declared aggregation time is ignored.
AggregationTimeOfPub(cal) == cal.pubTime

\* The calendar chain's aggregation time, or its publication time when the
\* record has none.
AggregationTimeOf(cal) == IF cal.aggrTime = NULL THEN cal.pubTime ELSE cal.aggrTime

\* Faulty: the calendar input hash is not compared.
CalInputMatchesAny(h, cal) == TRUE

\* The output of the last aggregation chain is the calendar chain's input.
CalInputMatches(h, cal) == h = cal.input

\* The loop over the aggregation chains: each chain is aggregated from its
\* own input hash at the level the previous chain ended on.  A chain whose
\* input differs from the previous output is reported with KSI_FAIL, but
\* the loop does not leave (no goto cleanup): mismatch records that.
AggrLoop(chains) ==
  LET f[i \in 0..Len(chains)] ==
        IF i = 0 THEN [ok |-> TRUE, h |-> NULL, lvl |-> 0, mismatch |-> FALSE]
        ELSE LET s == f[i - 1]
                 c == chains[i]
                 a == Aggregate(c.links, c.input, s.lvl)
             IN  IF ~s.ok THEN s
                 ELSE [ok |-> a.ok, h |-> a.h, lvl |-> a.lvl,
                       mismatch |-> s.mismatch \/ (i > 1 /\ s.h # c.input)]
  IN  f[Len(chains)]

\* KSI_Signature_validateInternal: the checks in the order of the code, the
\* first failing one giving the status.  The final KSI_SUCCESS overwrites a
\* pending chain mismatch when SuccessResetsStatus.
ValidateInternal(s) ==
  LET ct == CalendarTime(s.cal.links, s.cal.pubTime)
      ag == AggrLoop(s.chains)
      cr == AggregateCalendar(s.cal.links, s.cal.input)
  IN  IF Len(s.chains) = 0 THEN "INVALID_SIGNATURE"
      ELSE IF s.calAuth = NULL THEN "INVALID_SIGNATURE"
      ELSE IF ~ct.ok THEN "INVALID_FORMAT"
      ELSE IF AggregationTimeOf(s.cal) # ct.t THEN "INVALID_FORMAT"
      ELSE IF ~ag.ok THEN "INVALID_FORMAT"
      ELSE IF ~CalInputMatches(ag.h, s.cal) THEN "INVALID_SIGNATURE"
      ELSE IF ~cr.ok THEN "INVALID_FORMAT"
      ELSE IF cr.h # s.calAuth.pubHash THEN "INVALID_SIGNATURE"
      ELSE IF ~PkiValid(s.calAuth) THEN "PKI_ERROR"
      ELSE IF s.aggrAuth # NULL THEN "UNKNOWN_ERROR"
      ELSE IF ag.mismatch /\ ~SuccessResetsStatus THEN "INVALID_SIGNATURE"
      ELSE "OK"

\* The children of b that are in T, in wire order: SelectSeq written out
\* as its recursive function, one child per iteration of the loop over
\* the TLV's list, so that proofs can unfold it.
Filter(b, T) ==
  LET f[i \in 0..Len(b)] ==
        IF i = 0 THEN << >>
        ELSE IF b[i] \in T THEN Append(f[i - 1], b[i]) ELSE f[i - 1]
  IN  f[Len(b)]

\* parseAggregationChainRec: every 0x801 child becomes a chain record,
\* appended to the list in wire order.
AggrChains(b) ==
  LET c == Filter(b, {e \in ToSet(b) : e.tag = "aggr"}) IN [i \in 1..Len(c) |-> c[i].rec]

\* parseAggrAuthRec (and parseAggrAuthRecChainIndex): the record is parsed
\* into a local that is never stored through aar, and the result of the
\* parse is dropped; sig->aggrAuth stays NULL whatever the child holds.
AggrAuthOf(b) == NULL

\* parseCalAuthRec: the first 0x805 child is stored; a second one finds
\* *car set and fails with KSI_INVALID_FORMAT.
CalAuthOf(b) ==
  LET u == TagIdx(b, "calAuth") IN
  IF u = {} THEN [ok |-> TRUE, rec |-> NULL]
  ELSE [ok |-> Cardinality(u) = 1, rec |-> b[Min(u)].rec]

(***************************************************************************)
(* extractSignature: route every child of the 0x800 TLV: 0x801 to          *)
(* parseAggregationChainRec, 0x802 into the calendar record allocated      *)
(* beforehand, 0x804 to parseAggrAuthRec, 0x805 to parseCalAuthRec.  An    *)
(* unknown non-critical child is removed from the TLV                      *)
(* (UNKNONW_NON_CRITICAL_REMOVE), an unknown critical one fails the parse. *)
(* The object is then validated (KSI_Signature_validate).                  *)
(***************************************************************************)
Extract(b) ==
  LET cals == TagIdx(b, "cal")
      auth == CalAuthOf(b)
      obj  == [chains   |-> AggrChains(b),
               cal      |-> IF cals = {} THEN NoCal ELSE b[Min(cals)].rec,
               calAuth  |-> auth.rec,
               aggrAuth |-> AggrAuthOf(b),
               base     |-> Filter(b, {e \in ToSet(b) : ~(e.tag = "unknown" /\ e.rec.nc)})]
      code == IF \/ \E i \in TagIdx(b, "unknown") : ~b[i].rec.nc
                 \/ ~auth.ok
              THEN "INVALID_FORMAT"
              ELSE ValidateInternal(obj)
  IN  [res |-> code, obj |-> IF code = "OK" THEN obj ELSE NULL]

\* Faulty: the constructed chain is put into the base TLV without its
\* 0x802 wrapper.
ConstructCalChainTlvBare(c) == c

\* KSI_TLV_new(0x802) filled by KSI_TlvTemplate_construct with the
\* KSI_CalendarHashChain template.
ConstructCalChainTlv(c) == [tag |-> "cal", rec |-> c]

\* Every child of a genuine blob.
GenuineElems == UNION {ToSet(g) : g \in Genuine}

(***************************************************************************)
(* The adversary: one edit of the stored blob.                             *)
(***************************************************************************)
\* The adversary rewrites the input hash of the aggregation chain child i.
SetInput(b, i, h) == [b EXCEPT ![i].rec.input = h]

\* The adversary rewrites the time of the calendar auth record child i.
RetimeAuth(b, i, p) == [b EXCEPT ![i].rec.pubTime = p]

\* The adversary rewrites both time fields of the calendar chain child i.
RetimeCal(b, i, p, t) == [b EXCEPT ![i].rec.pubTime = p, ![i].rec.aggrTime = t]

\* The adversary flips the side of link j of the calendar chain child i.
FlipLink(b, i, j) == [b EXCEPT ![i].rec.links[j].left = ~@]

\* The adversary appends an unknown child with the given flags.
AppendUnknown(b, n, f) == Append(b, [tag |-> "unknown", rec |-> [nc |-> n, fwd |-> f]])

Edits(b) ==
  LET A == TagIdx(b, "aggr")
      C == TagIdx(b, "cal")
      U == TagIdx(b, "calAuth")
  IN     {SetInput(b, i, h) : i \in A, h \in Inject}
    \cup {RemoveAt(b, i) : i \in 1..Len(b)}
    \cup {RetimeCal(b, i, p, t) : i \in C, p \in Times, t \in Times \cup {NULL}}
    \cup (UNION {{FlipLink(b, i, j) : j \in DOMAIN b[i].rec.links} : i \in C})
    \cup {RetimeAuth(b, i, p) : i \in U, p \in Times}
    \cup (UNION {{[b EXCEPT ![i] = e] : e \in {x \in GenuineElems : x.tag = b[i].tag}} :
                  i \in C \cup U})
    \cup {AppendUnknown(b, n, f) : n \in BOOLEAN, f \in BOOLEAN}
    \cup {Append(b, [tag |-> "aggrAuth", rec |-> NULL])}
    \cup {Append(b, b[i]) : i \in U}

\* The calendar chains an extender may return: genuine ones, of this
\* signature's second or of any other.
ExtChains == {e.rec : e \in {x \in GenuineElems : x.tag = "cal"}}

TypeOK ==
  /\ wire \in Seq(Elem)
  /\ edits \in 0..MaxEdits
  /\ sig \in SigObj \cup {NULL}
  /\ res \in Codes \cup {NULL}

Init ==
  /\ wire \in Genuine
  /\ edits = 0
  /\ sig = NULL
  /\ res = NULL

\* The adversary rewrites the stored blob.
Tamper ==
  /\ edits < MaxEdits
  /\ \E b \in Edits(wire) : wire' = b
  /\ edits' = edits + 1
  /\ UNCHANGED <<sig, res>>

\* The caller's KSI_Signature pointer after a call that ends in
\* extractSignature: on success the new object, whose base TLV is the
\* parsed tree, replaces the held one.
Install(p) ==
  /\ res' = p.res
  /\ sig' = IF p.res = "OK" THEN p.obj ELSE sig

\* KSI_Signature_parse(ctx, wire, &sig).
Parse ==
  /\ Install(Extract(wire))
  /\ UNCHANGED <<wire, edits>>

\* What fopen and the one fread of KSI_Signature_fromFile find: no file,
\* an empty one, one of at least raw_size (0xfffff) bytes, so that fread
\* fills the buffer and feof is not set, or the blob, which fits.
FileStates == {"missing", "empty", "long", "fits"}

\* KSI_Signature_fromFile(ctx, name, &sig) on a file holding the blob.
FromFile(f) ==
  /\ CASE f \in {"missing", "empty"} -> res' = "IO_ERROR" /\ UNCHANGED sig
       [] f = "long"                 -> res' = "INVALID_FORMAT" /\ UNCHANGED sig
       [] f = "fits"                 -> Install(Extract(wire))
  /\ UNCHANGED <<wire, edits>>

(***************************************************************************)
(* KSI_parseAggregationResponse: a 0x200 PDU whose 0x202 element holds the *)
(* header, request id, status and error message; every other child of      *)
(* 0x202 is forwarded into a new 0x800 TLV, here the stored blob.  The     *)
(* request id and the header are parsed and dropped; msg tells whether    *)
(* the PDU has a 0x06 element.                                             *)
(***************************************************************************)
\* The PDUs that take different paths: another outer tag, a status that
\* is absent or zero (status 0 stands for both: the test
\* status != NULL && !equalsUInt(status, 0) lets either through), an
\* error status with and without an error message.
Pdus == {[tag |-> "other", status |-> 0, msg |-> FALSE],
         [tag |-> "aggrResp", status |-> 0, msg |-> FALSE]}
          \cup {[tag |-> "aggrResp", status |-> 1, msg |-> m] : m \in BOOLEAN}

\* errorMessage is declared without an initialiser and set only by a 0x06
\* element.  Without one, the error path passes the uninitialised pointer
\* to snprintf("%s") and KSI_FAIL_EXT: undefined behaviour, which either
\* returns with a garbage message or ends the process, losing the held
\* object (the stored blob survives, the next call starts afresh).
AggregatorFail(msg) ==
  \/ res' = "AGGREGATOR_ERROR" /\ UNCHANGED sig
  \/ ~msg /\ res' = NULL /\ sig' = NULL

AggrResponse(tag, status, msg) ==
  /\ IF tag # "aggrResp" THEN res' = "INVALID_FORMAT" /\ UNCHANGED sig
     ELSE IF status # 0 THEN AggregatorFail(msg)
     ELSE Install(Extract(wire))
  /\ UNCHANGED <<wire, edits>>

\* KSI_Signature_validate(sig).
Validate ==
  /\ sig # NULL
  /\ res' = ValidateInternal(sig)
  /\ UNCHANGED <<wire, edits, sig>>

\* KSI_Signature_clone(sig, &clone): extractSignature on a copy of the base
\* TLV; the application continues with the clone.
Clone ==
  LET p == Extract(sig.base) IN
  /\ sig # NULL
  /\ res' = p.res
  /\ sig' = IF p.res = "OK" THEN p.obj ELSE sig
  /\ UNCHANGED <<wire, edits>>

\* KSI_Signature_serialize(sig, &raw): the bytes of the base TLV, which
\* the application stores in place of the blob it had.
Serialize ==
  /\ sig # NULL
  /\ wire' = sig.base
  /\ res' = "OK"
  /\ UNCHANGED <<edits, sig>>

\* KSI_Signature_replaceCalendarChain(sig, chain): the input-hash check is
\* commented out; the first 0x802 child of the base TLV is replaced by the
\* constructed one.  sig->calendarChain is left as it was.
ReplaceCalendarChain(c) ==
  LET k == TagIdx(sig.base, "cal") IN
  /\ sig # NULL
  /\ IF k = {}
       THEN res' = "INVALID_SIGNATURE" /\ UNCHANGED sig
       ELSE /\ sig' = [sig EXCEPT !.base[Min(k)] = ConstructCalChainTlv(c)]
            /\ res' = "OK"
  /\ UNCHANGED <<wire, edits>>

\* KSI_Signature_free(sig).
Free ==
  /\ sig # NULL
  /\ sig' = NULL
  /\ UNCHANGED <<wire, edits, res>>

Next ==
  \/ Tamper
  \/ Parse
  \/ \E f \in FileStates : FromFile(f)
  \/ \E p \in Pdus : AggrResponse(p.tag, p.status, p.msg)
  \/ Validate
  \/ Clone
  \/ Serialize
  \/ \E c \in ExtChains : ReplaceCalendarChain(c)
  \/ Free

Spec == Init /\ [][Next]_vars

(***************************************************************************)
(* Properties.                                                             *)
(***************************************************************************)

\* The subterms of an ideal imprint: what it commits to.
SubTerm[h \in Hashes] ==
  IF h \in Atoms THEN {h} ELSE {h} \cup SubTerm[h[2]] \cup SubTerm[h[3]]

Committed(x, r) == r \in Hashes /\ x \in SubTerm[r]

\* KSI_Signature_getSigningTime: the calendar chain's aggregation time,
\* else its publication time.
SigningTime(s) == IF s.cal.aggrTime # NULL THEN s.cal.aggrTime ELSE s.cal.pubTime

\* Every signature object the application holds (from parse or clone) has
\* an authentication record over data the calendar really signed, and its
\* calendar chain hashes to that record's publication hash: the checks of
\* validateInternal hold of the object, whatever was done to it since.
AcceptedAuthenticated ==
  sig # NULL =>
    /\ sig.calAuth # NULL
    /\ <<sig.calAuth.pubTime, sig.calAuth.pubHash>> \in Signed
    /\ AggregateCalendar(sig.cal.links, sig.cal.input)
         = [ok |-> TRUE, h |-> sig.calAuth.pubHash]

\* The input of the last aggregation chain of a held signature is committed
\* to by the signed publication hash: the chain of hash steps the validator
\* evaluates really ends in the calendar's signed root.
LastInputCommitted ==
  sig # NULL =>
    /\ Len(sig.chains) > 0
    /\ Committed(sig.chains[Len(sig.chains)].input, sig.calAuth.pubHash)

\* The document a held signature is for (the input of its first
\* aggregation chain, spec GEN-01) is committed to by the signed
\* publication hash.
DocumentCommitted ==
  sig # NULL => Committed(sig.chains[1].input, sig.calAuth.pubHash)

\* The signing time KSI_Signature_getSigningTime reports for a held
\* signature is the second at which the calendar registered the signature's
\* calendar input (spec GEN-05, INT-11).
SigningTimeAuthentic ==
  sig # NULL =>
    /\ SigningTime(sig) \in Times
    /\ RoundRoot[SigningTime(sig)] = sig.cal.input

\* A held signature carries no aggregation authentication record: the
\* validator refuses one as not implemented (validateInternal, 1228-1231).
AggrAuthRejected ==
  sig # NULL => TagIdx(sig.base, "aggrAuth") = {}

\* The calendar chain of a held object is the one its base TLV, the bytes
\* serialize writes, holds (spec 3: replacing the calendar chain rebuilds
\* the signature).
ObjectReflectsBase ==
  sig # NULL => Extract(sig.base).obj # NULL /\ Extract(sig.base).obj.cal = sig.cal

\* A blob issued by the aggregator and calendar, untouched, is accepted
\* wherever it comes from: parsed from memory, read from a file that
\* fits the buffer, or delivered in a 0x200 response without an error
\* status, where its elements pass through the forwarding of the 0x202
\* parse before extractSignature sees them.
GenuineAccepted ==
  [][(/\ wire \in Genuine
       /\ \/ Parse
          \/ FromFile("fits")
          \/ AggrResponse("aggrResp", 0, FALSE))
     => res' = "OK"]_vars

\* An aggregation response with an error status is reported to the caller
\* as KSI_AGGREGATOR_ERROR, and the signature the caller holds is kept
\* (spec 6: the PDU's status code and optional error message).
ErrorResponseReported ==
  [][\A m \in BOOLEAN :
       AggrResponse("aggrResp", 1, m) => res' = "AGGREGATOR_ERROR" /\ sig' = sig]_vars

\* A successful parse keeps every unknown element flagged forward in the
\* base TLV, so serialize gives it back (spec P1).
ForwardKept ==
  [][Parse /\ res' = "OK" =>
       \A i \in TagIdx(wire, "unknown") :
         wire[i].rec.fwd => wire[i] \in ToSet(sig'.base)]_vars

=============================================================================
