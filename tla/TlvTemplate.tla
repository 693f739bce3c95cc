---------------------------- MODULE TlvTemplate ----------------------------
(***************************************************************************)
(* The template-driven TLV codec of src/src/ksi_tlv_template.c:            *)
(* KSI_TlvTemplate_construct builds the children of a TLV from an object,  *)
(* KSI_TlvTemplate_extract fills an object from the children of a TLV.     *)
(*                                                                         *)
(* An object is a record from the template's field names to values or     *)
(* NULL (the getters and setters of the template entries).  A child TLV is *)
(* [tag, nc, kind, v]: kind is the payload interpretation its bytes admit  *)
(* ("int", "raw" imprint, "str", or "tlv" with v the nested children).    *)
(* A cast succeeds exactly when the kinds agree.                           *)
(***************************************************************************)
EXTENDS Naturals, SequencesExt

CONSTANTS
  Tmpl,             \* the template the harness exercises
  Ints,             \* integer values
  Imps,             \* imprint values
  Strs,             \* string values
  MaxLinks,         \* longest hash chain of a calendar-chain object
  Reminder,         \* extract is given a reminder list (not NULL)
  Lenient,          \* KSI_TLV_isLenient of the TLVs extracted
  CallbackMultiple, \* the multiple flag of KSI_TLV_CALLBACK entries
  NULL

ASSUME TemplateAssumption ==
  /\ MaxLinks \in Nat
  /\ Reminder \in BOOLEAN /\ Lenient \in BOOLEAN /\ CallbackMultiple \in BOOLEAN

VARIABLES
  wire,   \* the children of the TLV handed to extract, or NULL
  src,    \* the object wire is a valid encoding of, or NULL if none
  out,    \* the object extract filled
  res     \* status of the last call

vars == <<wire, src, out, res>>

(***************************************************************************)
(* The template tables, lines 6-59.  enc: the entry has a callbackEncode.  *)
(***************************************************************************)
E(type, tag, field, sub) ==
  [type |-> type, tag |-> tag, field |-> field, sub |-> sub, enc |-> TRUE]

Templates ==
  [Header |-> << E("INTEGER", 5, "instanceId", ""),
                 E("INTEGER", 6, "messageId", ""),
                 E("INTEGER", 7, "clientId", "") >>,
   Config |-> << E("INTEGER", 2, "maxLevel", ""),
                 E("INTEGER", 3, "aggrAlgo", ""),
                 E("INTEGER", 4, "aggrPeriod", ""),
                 E("UTF8_STRING", 5, "parentUri", "") >>,
   AggregationReq |-> << E("COMPOSITE", 1, "header", "Header"),
                         E("INTEGER", 2, "requestId", ""),
                         E("IMPRINT", 3, "requestHash", ""),
                         E("INTEGER", 4, "requestLevel", ""),
                         E("COMPOSITE", 4, "config", "Config") >>,
   AggregationPdu |-> << E("COMPOSITE", \h201, "request", "AggregationReq") >>,
   CalendarHashChain |->
               << E("INTEGER", 1, "publicationTime", ""),
                  E("INTEGER", 2, "aggregationTime", ""),
                  E("IMPRINT", 5, "inputHash", ""),
                  E("CALLBACK", 7, "hashChain", ""),
                  [E("CALLBACK", 8, "hashChain", "") EXCEPT !.enc = FALSE] >>,
   ExtendReq |-> << E("COMPOSITE", 1, "header", "Header"),
                    E("INTEGER", 4, "requestId", ""),
                    E("INTEGER", 2, "aggregationTime", ""),
                    E("INTEGER", 3, "publicationTime", "") >>,
   ExtendResp |-> << E("COMPOSITE", 1, "header", "Header"),
                     E("INTEGER", 2, "requestId", ""),
                     E("INTEGER", 5, "status", ""),
                     E("UTF8_STRING", 6, "errorMsg", ""),
                     E("INTEGER", 7, "lastTime", ""),
                     E("COMPOSITE", \h802, "calendarHashChain", "CalendarHashChain") >>,
   ExtendPdu |-> << E("COMPOSITE", \h301, "request", "ExtendReq"),
                    E("COMPOSITE", \h302, "response", "ExtendResp") >>]

Fields(T) == {Templates[T][i].field : i \in DOMAIN Templates[T]}

\* A child TLV with the template entry's flags (all 0 in these tables).
Child(tag, kind, v) == [tag |-> tag, nc |-> FALSE, kind |-> kind, v |-> v]

Links == [left : BOOLEAN, imp : Imps]

\* The values a field of template T can hold (the type of its setter).
RECURSIVE Payloads(_)
FieldValues(T, f) ==
  LET e == Templates[T][CHOOSE i \in DOMAIN Templates[T] : Templates[T][i].field = f]
  IN  CASE e.type = "INTEGER"     -> Ints
        [] e.type = "IMPRINT"     -> Imps
        [] e.type = "UTF8_STRING" -> Strs
        [] e.type = "CALLBACK"    -> UNION {[1..n -> Links] : n \in 1..MaxLinks}
        [] e.type = "COMPOSITE"   -> Payloads(e.sub)

Payloads(T) ==
  LET tm == Templates[T]
      g[i \in 0..Len(tm)] ==
        IF i = 0 THEN {<<>>}
        ELSE IF \E j \in 1..i - 1 : tm[j].field = tm[i].field THEN g[i - 1]
        ELSE {r @@ (tm[i].field :> v) : r \in g[i - 1],
                                        v \in FieldValues(T, tm[i].field) \cup {NULL}}
  IN  g[Len(tm)]

Empty(T) == [f \in Fields(T) |-> NULL]

(***************************************************************************)
(* KSI_TlvTemplate_construct (lines 428-522) and the link encoder          *)
(* encodeCalendarHashChainLink (lines 61-138).                             *)
(***************************************************************************)
\* Every link of the chain becomes a raw 0x07 (left) or 0x08 child of the
\* parent TLV itself, in chain order.
EncodeLinks(chain) ==
  [i \in 1..Len(chain) |-> Child(IF chain[i].left THEN 7 ELSE 8, "raw", chain[i].imp)]

RECURSIVE Construct(_, _)
\* The children one template entry contributes for the non-NULL value v.
\* The switch has no UTF8_STRING case: a string field, like a list, falls
\* to the default and fails with KSI_UNKNOWN_ERROR (lines 495-499).
Encode(e, v) ==
  CASE e.type = "INTEGER"     -> [ok |-> TRUE, kids |-> <<Child(e.tag, "int", v)>>]
    [] e.type = "IMPRINT"     -> [ok |-> TRUE, kids |-> <<Child(e.tag, "raw", v)>>]
    [] e.type = "COMPOSITE"   ->
         LET c == Construct(e.sub, v)
         IN  [ok |-> c.ok, kids |-> <<Child(e.tag, "tlv", c.kids)>>]
    [] e.type = "CALLBACK"    -> [ok |-> TRUE, kids |-> IF e.enc THEN EncodeLinks(v) ELSE <<>>]
    [] OTHER                  -> [ok |-> FALSE, kids |-> <<>>]

\* Entries are visited in template order; a NULL value emits nothing.
Construct(T, p) ==
  LET tm == Templates[T]
      step[i \in 0..Len(tm)] ==
        IF i = 0 THEN [ok |-> TRUE, kids |-> <<>>]
        ELSE LET s == step[i - 1]
                 v == p[tm[i].field]
             IN  IF ~s.ok \/ v = NULL THEN s
                 ELSE LET x == Encode(tm[i], v)
                      IN  [ok |-> x.ok, kids |-> s.kids \o x.kids]
  IN  step[Len(tm)]

(***************************************************************************)
(* KSI_TlvTemplate_extract (lines 229-426) and the link decoder            *)
(* decodeCalendarHashChainLink (lines 140-227).  The state of the loop is  *)
(* [ok, obj, rem]: success so far, the object filled, the reminder list.   *)
(***************************************************************************)
Failed(s) == [s EXCEPT !.ok = FALSE]
SetValue(s, e, v) == [s EXCEPT !.obj[e.field] = v]

\* The first template entry with the child's tag, or NULL.
EntryFor(T, tag) ==
  LET m == {i \in DOMAIN Templates[T] : Templates[T][i].tag = tag}
  IN  IF m = {} THEN NULL
      ELSE Templates[T][CHOOSE i \in m : \A j \in m : i <= j]

\* The multiple flag of an entry: only callback entries may repeat.
Multiple(e) == e.type = "CALLBACK" /\ CallbackMultiple

\* Faulty variant: the duplicate test of line 271 left out.
AlreadySetUnchecked(s, e) == FALSE

\* Line 271: the value was set already and the entry is not multiple.
AlreadySet(s, e) == s.obj[e.field] # NULL /\ ~Multiple(e)

\* Faulty variant of the integer case: the value cleared before the
\* setter, as the imprint case does (line 302).
DecodeIntegerDropped(s, e, c) ==
  IF c.kind = "int" THEN SetValue(s, e, NULL) ELSE Failed(s)

\* Lines 282-292: cast to an integer and set it.
DecodeInteger(s, e, c) ==
  IF c.kind = "int" THEN SetValue(s, e, c.v) ELSE Failed(s)

\* Lines 294-307: the imprint is parsed, then hashVal is cleared before
\* setValue, so the field is set to NULL.
DecodeImprint(s, e, c) ==
  IF c.kind = "raw" THEN SetValue(s, e, NULL) ELSE Failed(s)

\* Lines 323-334.
DecodeUtf8(s, e, c) ==
  IF c.kind = "str" THEN SetValue(s, e, c.v) ELSE Failed(s)

\* decodeCalendarHashChainLink: the tag gives the direction; the link is
\* appended to the chain, which is created when it is NULL.
DecodeLink(s, e, c) ==
  LET chain == s.obj[e.field]
      link  == [left |-> c.tag = 7, imp |-> c.v]
  IN  IF c.tag \notin {7, 8} \/ c.kind # "raw" THEN Failed(s)
      ELSE SetValue(s, e, IF chain = NULL THEN <<link>> ELSE Append(chain, link))

\* Lines 399-412: a child no entry matches goes to the reminder (and is
\* removed from the TLV); without a reminder it fails unless the TLV is
\* lenient.  Its non-critical flag is not consulted.
Unknown(s, c, rem) ==
  IF rem THEN [s EXCEPT !.rem = Append(@, c)]
  ELSE IF Lenient THEN s
  ELSE Failed(s)

RECURSIVE Extract(_, _, _)
\* Faulty variant of the composite case: the setter is handed the wrong
\* object (as the octet-string case hands it to the child TLV, line 320).
DecodeCompositeWrong(s, e, c) ==
  IF c.kind # "tlv" THEN Failed(s)
  ELSE LET x == Extract(e.sub, c.v, FALSE)
       IN  IF x.ok THEN SetValue(s, e, x) ELSE Failed(s)

\* Lines 336-352: a fresh object is extracted from the nested TLV, with
\* no reminder, and set.
DecodeComposite(s, e, c) ==
  IF c.kind # "tlv" THEN Failed(s)
  ELSE LET x == Extract(e.sub, c.v, FALSE)
       IN  IF x.ok THEN SetValue(s, e, x.obj) ELSE Failed(s)

\* One iteration of the loop over the nested children.
ExtractChild(s, T, c, rem) ==
  LET e == EntryFor(T, c.tag) IN
  IF e = NULL THEN Unknown(s, c, rem)
  ELSE IF AlreadySet(s, e) THEN Failed(s)
  ELSE CASE e.type = "INTEGER"     -> DecodeInteger(s, e, c)
         [] e.type = "IMPRINT"     -> DecodeImprint(s, e, c)
         [] e.type = "UTF8_STRING" -> DecodeUtf8(s, e, c)
         [] e.type = "COMPOSITE"   -> DecodeComposite(s, e, c)
         [] e.type = "CALLBACK"    -> DecodeLink(s, e, c)
         [] OTHER                  -> Failed(s)

\* The loop stops at the first failure (goto cleanup).
Extract(T, kids, rem) ==
  LET step[i \in 0..Len(kids)] ==
        IF i = 0 THEN [ok |-> TRUE, obj |-> Empty(T), rem |-> <<>>]
        ELSE IF ~step[i - 1].ok THEN step[i - 1]
        ELSE ExtractChild(step[i - 1], T, kids[i], rem)
  IN  step[Len(kids)]

(***************************************************************************)
(* The harness.  The application constructs a TLV from an object; a peer   *)
(* sends another valid encoding of an object (children reordered, or an    *)
(* unknown non-critical child added, at the top or inside a nested TLV);   *)
(* or it sends a malformed one (a child repeated, or an unknown critical   *)
(* child added).  Then the library extracts the TLV it holds into a fresh  *)
(* object; the object of an earlier extraction is freed when a new TLV    *)
(* comes in.                                                               *)
(***************************************************************************)
UnknownTag == 31

UnknownChild(nc) == [tag |-> UnknownTag, nc |-> nc, kind |-> "raw", v |-> NULL]

IsLink(c) == c.tag \in {7, 8} /\ Tmpl = "CalendarHashChain"

\* Reorderings that keep the links of a calendar chain in their order.
Reorders(kids) ==
  LET n == Len(kids)
      keeps(pi) == \A i, j \in 1..n : i < j /\ IsLink(kids[pi[i]]) /\ IsLink(kids[pi[j]])
                                       => pi[i] < pi[j]
  IN  {[i \in 1..n |-> kids[pi[i]]] : pi \in {f \in Permutations(1..n) : keeps(f)}}

ValidWires(p) ==
  LET kids == Construct(Tmpl, p).kids IN
  Reorders(kids)
  \cup {InsertAt(kids, i, UnknownChild(TRUE)) : i \in 1..Len(kids) + 1}
  \cup {[kids EXCEPT ![i].v = Append(@, UnknownChild(TRUE))] :
          i \in {j \in 1..Len(kids) : kids[j].kind = "tlv"}}

MalformedWires(p) ==
  LET kids == Construct(Tmpl, p).kids IN
  {Append(kids, kids[i]) : i \in {j \in 1..Len(kids) : ~IsLink(kids[j])}}
  \cup {InsertAt(kids, i, UnknownChild(FALSE)) : i \in 1..Len(kids) + 1}

\* The objects of the template, and the encodings a peer may send of each
\* (constant: TLC computes them once).  A peer's encodings are derived from
\* construct's output, so they cover the objects construct can encode.
Objects == Payloads(Tmpl)
Encodable == {p \in Objects : Construct(Tmpl, p).ok}
Valid == [p \in Encodable |-> ValidWires(p)]
Malformed == UNION {MalformedWires(p) : p \in Encodable}

Statuses == {"OK", "INVALID_FORMAT", "UNKNOWN_ERROR"}

TypeOK ==
  /\ wire = NULL \/ (DOMAIN wire = 1..Len(wire) /\ \A i \in DOMAIN wire : wire[i].tag \in Nat)
  /\ src \in Objects \cup {NULL}
  /\ out \in Objects \cup {NULL}
  /\ res \in Statuses \cup {NULL}

Init ==
  /\ wire = NULL
  /\ src = NULL
  /\ out = NULL
  /\ res = NULL

\* KSI_TlvTemplate_construct(ctx, tlv, p, template).
ConstructCall(p) ==
  LET c == Construct(Tmpl, p) IN
  /\ wire' = IF c.ok THEN c.kids ELSE NULL
  /\ src' = IF c.ok THEN p ELSE NULL
  /\ res' = IF c.ok THEN "OK" ELSE "UNKNOWN_ERROR"
  /\ out' = NULL

\* A peer's encoding of p arrives (environment).
PeerSend(p, w) ==
  /\ wire' = w
  /\ src' = p
  /\ out' = NULL
  /\ res' = NULL

\* A malformed TLV arrives (environment).
PeerSendMalformed(w) ==
  /\ wire' = w
  /\ src' = NULL
  /\ out' = NULL
  /\ res' = NULL

\* KSI_TlvTemplate_extract(ctx, out, tlv, template, reminder); the caller
\* frees the object when extraction fails.
ExtractCall ==
  LET x == Extract(Tmpl, wire, Reminder) IN
  /\ wire # NULL
  /\ UNCHANGED <<wire, src>>
  /\ out' = IF x.ok THEN x.obj ELSE NULL
  /\ res' = IF x.ok THEN "OK" ELSE "INVALID_FORMAT"

Next ==
  \/ \E p \in Objects : ConstructCall(p)
  \/ \E p \in Encodable : \E w \in Valid[p] : PeerSend(p, w)
  \/ \E w \in Malformed : PeerSendMalformed(w)
  \/ ExtractCall

Spec == Init /\ [][Next]_vars

-----------------------------------------------------------------------------
(***************************************************************************)
(* Properties.                                                             *)
(***************************************************************************)

\* Extraction accepts every valid encoding of an object: what construct
\* produced, any order of the children, and unknown non-critical children
\* (spec 4.1: dropped or forwarded), in the TLV itself or a nested one.
ValidAccepted ==
  [][ExtractCall /\ src # NULL => res' = "OK"]_vars

\* Construct encodes every object of its template: every field a setter
\* can fill has a wire form (spec 4.1), so the library can send what it
\* can receive.
ConstructAccepted ==
  [][\A p \in Objects : ConstructCall(p) => res' = "OK"]_vars

\* An object extracted from a valid encoding of p is p: every value
\* construct wrote, or a peer sent, comes back (spec 4.1, round trip).
ValuesPreserved ==
  [][ExtractCall /\ src # NULL /\ res' = "OK" => out' = src]_vars

\* A TLV with a known, non-repeatable child twice is refused (line 271:
\* "a value may not be set more than once").
HasDuplicate(w) ==
  \E i, j \in DOMAIN w : i # j /\ w[i].tag = w[j].tag /\ ~IsLink(w[i])

DuplicateRejected ==
  [][ExtractCall /\ HasDuplicate(wire) => res' # "OK"]_vars

\* A TLV with an unknown critical child is refused (spec 4.1 and 7:
\* "unknown critical tag fails").
CriticalRejected ==
  [][ExtractCall /\ (\E i \in DOMAIN wire : wire[i].tag = UnknownTag /\ ~wire[i].nc)
     => res' # "OK"]_vars

=============================================================================
