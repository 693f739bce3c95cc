-------------------------- MODULE SignatureProofs --------------------------
(***************************************************************************)
(* Proofs about Signature for every value of its constants.                *)
(***************************************************************************)
EXTENDS Signature, NatLeast, TLAPS

\* The fields of a KSI_Signature object.
SigFields == {"chains", "cal", "calAuth", "aggrAuth", "base"}

\* The inductive invariant behind AcceptedAuthenticated: a held object is
\* a record with the fields of KSI_Signature, and it passes
\* KSI_Signature_validateInternal.  The first conjunct is what lets the
\* calendar-chain replacement, which rewrites the base field with EXCEPT,
\* be seen to leave the validated fields alone.
HeldShape == sig # NULL => DOMAIN sig = SigFields
HeldValid == sig # NULL => ValidateInternal(sig) = "OK"
IInv == HeldShape /\ HeldValid

(***************************************************************************)
(* Whatever validateInternal accepts has an authentication record signed   *)
(* by the calendar, and its calendar chain ends on that record's hash.     *)
(***************************************************************************)
LEMMA ValidatedIsAuthenticated ==
  ASSUME NEW s, ValidateInternal(s) = "OK"
  PROVE  /\ s.calAuth # NULL
         /\ <<s.calAuth.pubTime, s.calAuth.pubHash>> \in Signed
         /\ AggregateCalendar(s.cal.links, s.cal.input)
              = [ok |-> TRUE, h |-> s.calAuth.pubHash]
<1> DEFINE cr == AggregateCalendar(s.cal.links, s.cal.input)
<1>1. s.calAuth # NULL
  BY DEF ValidateInternal
<1>2. cr.ok /\ cr.h = s.calAuth.pubHash
  BY DEF ValidateInternal
<1>3. PkiValid(s.calAuth)
  BY DEF ValidateInternal
<1>4. cr = [ok |-> TRUE, h |-> s.calAuth.pubHash]
  BY <1>2 DEF AggregateCalendar
<1>5. <<s.calAuth.pubTime, s.calAuth.pubHash>> \in Signed
  BY <1>3 DEF PkiValid
<1> QED
  BY <1>1, <1>4, <1>5

(***************************************************************************)
(* validateInternal reads only the chains, the calendar chain and the two  *)
(* authentication records of a signature, never its base TLV.             *)
(***************************************************************************)
LEMMA ValidateIgnoresBase ==
  ASSUME NEW s, NEW t,
         s.chains = t.chains, s.cal = t.cal,
         s.calAuth = t.calAuth, s.aggrAuth = t.aggrAuth
  PROVE  ValidateInternal(s) = ValidateInternal(t)
BY DEF ValidateInternal

(***************************************************************************)
(* A parse (or a clone) that reports success returns an object with the    *)
(* fields of KSI_Signature that validateInternal accepts.                  *)
(***************************************************************************)
LEMMA ExtractOK ==
  ASSUME NEW b, Extract(b).res = "OK"
  PROVE  /\ ValidateInternal(Extract(b).obj) = "OK"
         /\ DOMAIN Extract(b).obj = SigFields
BY DEF Extract, SigFields

LEMMA InitIInv == Init => IInv
BY DEF Init, IInv, HeldShape, HeldValid

LEMMA NextIInv == IInv /\ [Next]_vars => IInv'
<1> SUFFICES ASSUME IInv, [Next]_vars PROVE IInv'
  OBVIOUS
<1>1. CASE Tamper
  BY <1>1 DEF Tamper, IInv, HeldShape, HeldValid
<1>2. CASE Parse
  <2>1. CASE Extract(wire).res = "OK"
    BY <1>2, <2>1, ExtractOK DEF Parse, Install, IInv, HeldShape, HeldValid
  <2>2. CASE Extract(wire).res # "OK"
    BY <1>2, <2>2 DEF Parse, Install, IInv, HeldShape, HeldValid
  <2> QED
    BY <2>1, <2>2
<1>9. CASE \E f \in FileStates : FromFile(f)
  <2>1. PICK f \in FileStates : FromFile(f)
    BY <1>9
  <2>2. CASE f = "fits" /\ Extract(wire).res = "OK"
    BY <2>1, <2>2, ExtractOK DEF FromFile, FileStates, Install, IInv, HeldShape, HeldValid
  <2>3. CASE f = "fits" /\ Extract(wire).res # "OK"
    BY <2>1, <2>3 DEF FromFile, FileStates, Install, IInv, HeldShape, HeldValid
  <2>4. CASE f # "fits"
    BY <2>1, <2>4 DEF FromFile, FileStates, IInv, HeldShape, HeldValid
  <2> QED
    BY <2>2, <2>3, <2>4
<1>10. CASE \E p \in Pdus : AggrResponse(p.tag, p.status, p.msg)
  <2>1. PICK p \in Pdus : AggrResponse(p.tag, p.status, p.msg)
    BY <1>10
  <2>2. CASE p.tag = "aggrResp" /\ p.status = 0 /\ Extract(wire).res = "OK"
    BY <2>1, <2>2, ExtractOK DEF AggrResponse, Install, IInv, HeldShape, HeldValid
  <2>3. CASE p.tag = "aggrResp" /\ p.status = 0 /\ Extract(wire).res # "OK"
    BY <2>1, <2>3 DEF AggrResponse, Install, IInv, HeldShape, HeldValid
  <2>4. CASE p.tag = "aggrResp" /\ p.status # 0
    BY <2>1, <2>4 DEF AggrResponse, AggregatorFail, IInv, HeldShape, HeldValid
  <2>5. CASE p.tag # "aggrResp"
    BY <2>1, <2>5 DEF AggrResponse, IInv, HeldShape, HeldValid
  <2> QED
    BY <2>2, <2>3, <2>4, <2>5
<1>3. CASE Validate
  BY <1>3 DEF Validate, IInv, HeldShape, HeldValid
<1>4. CASE Clone
  <2>1. CASE Extract(sig.base).res = "OK"
    BY <1>4, <2>1, ExtractOK DEF Clone, IInv, HeldShape, HeldValid
  <2>2. CASE Extract(sig.base).res # "OK"
    BY <1>4, <2>2 DEF Clone, IInv, HeldShape, HeldValid
  <2> QED
    BY <2>1, <2>2
<1>5. CASE Serialize
  BY <1>5 DEF Serialize, IInv, HeldShape, HeldValid
<1>6. CASE \E c \in ExtChains : ReplaceCalendarChain(c)
  <2>1. PICK c \in ExtChains : ReplaceCalendarChain(c)
    BY <1>6
  <2> DEFINE k == TagIdx(sig.base, "cal")
  <2>2. CASE k = {}
    BY <2>1, <2>2 DEF ReplaceCalendarChain, IInv, HeldShape, HeldValid
  <2>3. CASE k # {}
    <3>1. sig # NULL /\ sig' = [sig EXCEPT !.base[Min(k)] = ConstructCalChainTlv(c)]
      BY <2>1, <2>3 DEF ReplaceCalendarChain
    <3>2. DOMAIN sig = SigFields
      BY <3>1 DEF IInv, HeldShape
    <3>3. /\ DOMAIN sig' = SigFields
          /\ sig'.chains = sig.chains /\ sig'.cal = sig.cal
          /\ sig'.calAuth = sig.calAuth /\ sig'.aggrAuth = sig.aggrAuth
      BY <3>1, <3>2 DEF SigFields
    <3>4. ValidateInternal(sig') = ValidateInternal(sig)
      BY <3>3, ValidateIgnoresBase
    <3> QED
      BY <3>1, <3>3, <3>4 DEF IInv, HeldShape, HeldValid
  <2> QED
    BY <2>2, <2>3
<1>7. CASE Free
  BY <1>7 DEF Free, IInv, HeldShape, HeldValid
<1>8. CASE UNCHANGED vars
  BY <1>8 DEF vars, IInv, HeldShape, HeldValid
<1> QED
  BY <1>1, <1>2, <1>3, <1>4, <1>5, <1>6, <1>7, <1>8, <1>9, <1>10 DEF Next

(***************************************************************************)
(* Every signature object the application holds, after any sequence of     *)
(* parses of tampered blobs (from memory, from a file or from an           *)
(* aggregation response), clones, serialisations and calendar-chain        *)
(* replacements, carries a calendar-signed authentication record that its  *)
(* calendar chain hashes to (AcceptedAuthenticated, checked by TLC in run  *)
(* signature_accepts).                                                     *)
(***************************************************************************)
THEOREM AcceptedAuthenticatedHolds == Spec => []AcceptedAuthenticated
<1>1. IInv => AcceptedAuthenticated
  BY ValidatedIsAuthenticated DEF IInv, HeldValid, AcceptedAuthenticated
<1> QED
  BY <1>1, InitIInv, NextIInv, PTL DEF Spec

-----------------------------------------------------------------------------
(***************************************************************************)
(* Type correctness.  Parsing copies children of the blob into the object  *)
(* through Filter, whose recursive function is shown to exist, and to hold *)
(* only children that pass the filter, by the least-element principle: a   *)
(* least length for which no typed solution exists, or a least stage of    *)
(* the chosen solution outside the type, cannot be.                        *)
(***************************************************************************)
\* One iteration of Filter's loop on the stages g.
FilterStep(b, T, g, i) ==
  IF i = 0 THEN << >> ELSE IF b[i] \in T THEN Append(g[i - 1], b[i]) ELSE g[i - 1]

\* Filter's stages 0..n exist and are sequences over U.
FilterStages(b, T, U, n) ==
  \E h \in [0..n -> Seq(U)] : \A i \in 0..n : h[i] = FilterStep(b, T, h, i)

\* One more stage extends a solution for the first n - 1 stages.
LEMMA FilterExtend ==
  ASSUME NEW S, NEW b \in Seq(S), NEW T, NEW m \in 1..Len(b),
         FilterStages(b, T, S \cap T, m - 1)
  PROVE  FilterStages(b, T, S \cap T, m)
<1> DEFINE U == S \cap T
<1>1. PICK h \in [0..(m - 1) -> Seq(U)] : \A i \in 0..(m - 1) : h[i] = FilterStep(b, T, h, i)
  BY DEF FilterStages
<1> DEFINE h2 == [i \in 0..m |-> IF i < m THEN h[i] ELSE FilterStep(b, T, h, m)]
<1>2. FilterStep(b, T, h, m) \in Seq(U)
  <2>1. b[m] \in S /\ h[m - 1] \in Seq(U)
    BY <1>1
  <2>2. QED
    BY <2>1 DEF FilterStep
<1>3. h2 \in [0..m -> Seq(U)]
  BY <1>1, <1>2
<1>4. ASSUME NEW i \in 0..m PROVE h2[i] = FilterStep(b, T, h2, i)
  <2>1. CASE i < m
    <3>1. h2[i] = FilterStep(b, T, h, i)
      BY <1>1, <2>1
    <3>2. i # 0 => h2[i - 1] = h[i - 1]
      BY <2>1
    <3>3. QED
      BY <3>1, <3>2 DEF FilterStep
  <2>2. CASE i = m
    <3>1. h2[m - 1] = h[m - 1] /\ h2[m] = FilterStep(b, T, h, m)
      OBVIOUS
    <3>2. QED
      BY <2>2, <3>1 DEF FilterStep
  <2>3. QED
    BY <2>1, <2>2
<1>5. QED
  BY <1>3, <1>4 DEF FilterStages

\* Filter of a sequence over S keeps only elements of S that are in T.
LEMMA FilterType ==
  ASSUME NEW S, NEW b \in Seq(S), NEW T
  PROVE  Filter(b, T) \in Seq(S \cap T)
<1> DEFINE L == Len(b)
           U == S \cap T
<1>0. L \in Nat
  OBVIOUS
<1>1. \A n \in 0..L : FilterStages(b, T, U, n)
  <2> DEFINE Bad == {n \in 0..L : ~FilterStages(b, T, U, n)}
  <2> SUFFICES ASSUME Bad # {} PROVE FALSE
    OBVIOUS
  <2>1. PICK m \in Bad : \A y \in Bad : m <= y
    <3>1. Bad \in SUBSET Nat
      OBVIOUS
    <3>2. QED
      BY <3>1, LeastNat
  <2>2. m \in 0..L /\ ~FilterStages(b, T, U, m)
    BY <2>1, Zenon
  <2> HIDE DEF Bad
  <2>3. FilterStages(b, T, U, 0)
    <3> DEFINE h0 == [i \in 0..0 |-> << >>]
    <3>1. h0 \in [0..0 -> Seq(U)] /\ \A i \in 0..0 : h0[i] = FilterStep(b, T, h0, i)
      BY DEF FilterStep
    <3>2. QED
      BY <3>1 DEF FilterStages
  <2>4. m # 0
    BY <2>2, <2>3, Zenon
  <2>5. m \in 1..L /\ m - 1 \in 0..L /\ ~(m <= m - 1)
    BY <2>2, <2>4
  <2>6. m - 1 \in Bad => m <= m - 1
    BY <2>1, Zenon
  <2>7. FilterStages(b, T, U, m - 1)
    BY <2>5, <2>6, Zenon DEF Bad
  <2>8. FilterStages(b, T, U, m)
    BY <2>5, <2>7, FilterExtend
  <2>9. QED
    BY <2>2, <2>8
<1>2. PICK h \in [0..L -> Seq(U)] : \A i \in 0..L : h[i] = FilterStep(b, T, h, i)
  <2>1. L \in 0..L
    BY <1>0
  <2>2. FilterStages(b, T, U, L)
    BY <2>1, <1>1, Zenon
  <2>3. QED
    BY <2>2, Zenon DEF FilterStages
<1> DEFINE F == CHOOSE g : g = [i \in 0..L |-> FilterStep(b, T, g, i)]
<1>3. F = [i \in 0..L |-> FilterStep(b, T, F, i)]
  <2>1. h = [i \in 0..L |-> FilterStep(b, T, h, i)]
    BY <1>2
  <2>2. QED
    BY <2>1
<1>4. \A i \in 0..L : F[i] \in Seq(U)
  <2> HIDE DEF F
  <2> DEFINE Out == {n \in 0..L : F[n] \notin Seq(U)}
  <2> SUFFICES ASSUME Out # {} PROVE FALSE
    OBVIOUS
  <2>1. PICK m \in Out : \A y \in Out : m <= y
    <3>1. Out \in SUBSET Nat
      OBVIOUS
    <3>2. QED
      BY <3>1, LeastNat
  <2>2. m \in 0..L /\ F[m] \notin Seq(U)
    BY <2>1, Zenon
  <2> HIDE DEF Out
  <2>3. F[m] = FilterStep(b, T, F, m)
    BY <2>2, <1>3, Zenon
  <2>4. m # 0
    BY <2>2, <2>3 DEF FilterStep
  <2>5. m \in 1..L /\ m - 1 \in 0..L /\ ~(m <= m - 1)
    BY <2>2, <2>4
  <2>6. m - 1 \in Out => m <= m - 1
    BY <2>1, Zenon
  <2>7. F[m - 1] \in Seq(U)
    BY <2>5, <2>6, Zenon DEF Out
  <2>8. b[m] \in S
    BY <2>5
  <2>9. QED
    BY <2>2, <2>3, <2>5, <2>7, <2>8 DEF FilterStep
<1>5. Filter(b, T) = F[L]
  BY Zenon DEF Filter, FilterStep
<1>6. QED
  BY <1>0, <1>4, <1>5

\* Min of a nonempty set of naturals is its least element.
LEMMA MinNat ==
  ASSUME NEW X \in SUBSET Nat, X # {}
  PROVE  Min(X) \in X /\ \A y \in X : Min(X) <= y
<1>1. \E x \in X : \A y \in X : x <= y
  BY LeastNat
<1>2. QED
  BY <1>1, Zenon DEF Min

\* A child of a blob carries the record its tag names.
LEMMA ElemRec ==
  ASSUME NEW e \in Elem
  PROVE  /\ e.tag = "aggr" => e.rec \in AggrChainRec
         /\ e.tag = "cal" => e.rec \in CalChainRec
         /\ e.tag = "calAuth" => e.rec \in CalAuthRec
BY DEF Elem

\* The first child of a blob with tag t, when there is one, is a child
\* with that tag.
LEMMA FirstTagged ==
  ASSUME NEW b \in Seq(Elem), NEW t, TagIdx(b, t) # {}
  PROVE  Min(TagIdx(b, t)) \in 1..Len(b) /\ b[Min(TagIdx(b, t))].tag = t
<1>1. TagIdx(b, t) \in SUBSET Nat
  BY DEF TagIdx
<1>2. Min(TagIdx(b, t)) \in TagIdx(b, t)
  BY <1>1, MinNat
<1>3. QED
  BY <1>2 DEF TagIdx

\* validateInternal returns one of the library's status codes.
LEMMA ValidateCodes ==
  ASSUME NEW s
  PROVE  ValidateInternal(s) \in Codes
BY DEF ValidateInternal, Codes

\* extractSignature builds a KSI_Signature from the children of a blob,
\* and reports a status code.
LEMMA ExtractType ==
  ASSUME NEW b \in Seq(Elem)
  PROVE  /\ Extract(b).res \in Codes
         /\ Extract(b).res = "OK" => Extract(b).obj \in SigObj
<1> DEFINE A == {e \in ToSet(b) : e.tag = "aggr"}
           K == {e \in ToSet(b) : ~(e.tag = "unknown" /\ e.rec.nc)}
           c == Filter(b, A)
           cals == TagIdx(b, "cal")
           u == TagIdx(b, "calAuth")
<1>1. c \in Seq(Elem \cap A)
  BY FilterType
<1>2. AggrChains(b) \in Seq(AggrChainRec)
  <2>1. \A i \in 1..Len(c) : c[i] \in Elem /\ c[i].tag = "aggr"
    BY <1>1
  <2>2. \A i \in 1..Len(c) : c[i].rec \in AggrChainRec
    BY <2>1, ElemRec
  <2>3. QED
    BY <1>1, <2>2 DEF AggrChains
<1>3. Filter(b, K) \in Seq(Elem)
  <2>1. Filter(b, K) \in Seq(Elem \cap K)
    BY FilterType
  <2>2. Seq(Elem \cap K) \subseteq Seq(Elem)
    OBVIOUS
  <2>3. QED
    BY <2>1, <2>2
<1>4. (IF cals = {} THEN NoCal ELSE b[Min(cals)].rec) \in CalChainRec
  <2>1. NoCal \in CalChainRec
    BY DEF NoCal, CalChainRec
  <2>2. cals # {} => b[Min(cals)].rec \in CalChainRec
    BY FirstTagged, ElemRec
  <2>3. QED
    BY <2>1, <2>2
<1>5. CalAuthOf(b).rec \in CalAuthRec \cup {NULL} /\ CalAuthOf(b).ok \in BOOLEAN
  <2>1. u # {} => b[Min(u)].rec \in CalAuthRec
    BY FirstTagged, ElemRec
  <2>2. QED
    BY <2>1 DEF CalAuthOf
<1>6. \A s : ValidateInternal(s) \in Codes
  BY ValidateCodes
<1>7. QED
  BY <1>2, <1>3, <1>4, <1>5, <1>6 DEF Extract, SigObj, AggrAuthOf, Codes

\* The children of genuine blobs, which the adversary splices in and the
\* extender returns, are children of the 0x800 TLV.
LEMMA GenuineElemsType == GenuineElems \subseteq Elem
BY GenuineAssumption DEF GenuineElems, ToSet

\* Replacing one element of a sequence by an element of the same set gives
\* a sequence over that set.
LEMMA ReplaceChild ==
  ASSUME NEW X, NEW b \in Seq(X), NEW i \in 1..Len(b), NEW e \in X
  PROVE  [b EXCEPT ![i] = e] \in Seq(X)
<1>1. [b EXCEPT ![i] = e] = [k \in 1..Len(b) |-> IF k = i THEN e ELSE b[k]]
  OBVIOUS
<1>2. [k \in 1..Len(b) |-> IF k = i THEN e ELSE b[k]] \in Seq(X)
  OBVIOUS
<1>3. QED
  BY <1>1, <1>2

\* Every edit the adversary makes to a blob leaves a blob: the fields it
\* rewrites keep their types, and what it splices in is a child.
LEMMA EditsType ==
  ASSUME NEW b \in Seq(Elem)
  PROVE  Edits(b) \subseteq Seq(Elem)
<1> USE ConstantsAssumption
<1>1. ASSUME NEW i \in TagIdx(b, "aggr"), NEW h \in Inject
      PROVE  SetInput(b, i, h) \in Seq(Elem)
  <2> DEFINE Aggr == [tag : {"aggr"}, rec : AggrChainRec]
  <2>1. b[i] \in Aggr /\ i \in 1..Len(b)
    BY DEF TagIdx, Elem
  <2>2. [b[i] EXCEPT !.rec.input = h] \in Aggr
    BY <2>1 DEF AggrChainRec
  <2>3. SetInput(b, i, h) = [b EXCEPT ![i] = [b[i] EXCEPT !.rec.input = h]]
    BY DEF SetInput
  <2>4. QED
    BY <2>1, <2>2, <2>3, ReplaceChild DEF Elem
<1>2. ASSUME NEW i \in 1..Len(b)
      PROVE  RemoveAt(b, i) \in Seq(Elem)
  BY DEF RemoveAt
<1>3. ASSUME NEW i \in TagIdx(b, "cal"), NEW p \in Times, NEW t \in Times \cup {NULL}
      PROVE  RetimeCal(b, i, p, t) \in Seq(Elem)
  <2> DEFINE Cal == [tag : {"cal"}, rec : CalChainRec]
             e2 == [b[i] EXCEPT !.rec.pubTime = p, !.rec.aggrTime = t]
  <2>1. b[i] \in Cal /\ i \in 1..Len(b)
    BY DEF TagIdx, Elem
  <2>2. e2 \in Cal
    BY <2>1 DEF CalChainRec
  <2>3. RetimeCal(b, i, p, t) = [b EXCEPT ![i] = e2]
    BY Zenon DEF RetimeCal
  <2>4. QED
    BY <2>1, <2>2, <2>3, ReplaceChild DEF Elem
<1>4. ASSUME NEW i \in TagIdx(b, "cal"), NEW j \in DOMAIN b[i].rec.links
      PROVE  FlipLink(b, i, j) \in Seq(Elem)
  <2> DEFINE Cal == [tag : {"cal"}, rec : CalChainRec]
             ls == b[i].rec.links
             l2 == [ls EXCEPT ![j] = [ls[j] EXCEPT !.left = ~ls[j].left]]
             e2 == [b[i] EXCEPT !.rec.links[j].left = ~@]
  <2>1. b[i] \in Cal /\ i \in 1..Len(b)
    BY DEF TagIdx, Elem
  <2>2. ls \in Seq(CalLink) /\ j \in 1..Len(ls)
    BY <2>1 DEF CalChainRec
  <2>3. [ls[j] EXCEPT !.left = ~ls[j].left] \in CalLink
    <3>1. ls[j] \in CalLink
      BY <2>2
    <3>2. QED
      BY <3>1, Zenon DEF CalLink
  <2>4. l2 \in Seq(CalLink)
    BY <2>2, <2>3, ReplaceChild
  <2>5. e2 = [b[i] EXCEPT !.rec.links = l2]
    BY Zenon
  <2>6. [b[i] EXCEPT !.rec.links = l2] \in Cal
    BY <2>1, <2>4 DEF CalChainRec
  <2>7. FlipLink(b, i, j) = [b EXCEPT ![i] = e2]
    BY Zenon DEF FlipLink
  <2>8. QED
    BY <2>1, <2>5, <2>6, <2>7, ReplaceChild DEF Elem
<1>5. ASSUME NEW i \in TagIdx(b, "calAuth"), NEW p \in Times
      PROVE  RetimeAuth(b, i, p) \in Seq(Elem)
  <2> DEFINE Auth == [tag : {"calAuth"}, rec : CalAuthRec]
  <2>1. b[i] \in Auth /\ i \in 1..Len(b)
    BY DEF TagIdx, Elem
  <2>2. [b[i] EXCEPT !.rec.pubTime = p] \in Auth
    BY <2>1 DEF CalAuthRec
  <2>3. RetimeAuth(b, i, p) = [b EXCEPT ![i] = [b[i] EXCEPT !.rec.pubTime = p]]
    BY DEF RetimeAuth
  <2>4. QED
    BY <2>1, <2>2, <2>3, ReplaceChild DEF Elem
<1>6. ASSUME NEW i \in 1..Len(b), NEW e \in GenuineElems
      PROVE  [b EXCEPT ![i] = e] \in Seq(Elem)
  BY GenuineElemsType, ReplaceChild
<1>7. ASSUME NEW n \in BOOLEAN, NEW f \in BOOLEAN
      PROVE  AppendUnknown(b, n, f) \in Seq(Elem)
  BY DEF AppendUnknown, Elem
<1>8. Append(b, [tag |-> "aggrAuth", rec |-> NULL]) \in Seq(Elem)
  BY DEF Elem
<1>9. \A i \in TagIdx(b, "calAuth") : Append(b, b[i]) \in Seq(Elem)
  BY DEF TagIdx
<1>10. QED
  <2> DEFINE A == TagIdx(b, "aggr")
             C == TagIdx(b, "cal")
             U == TagIdx(b, "calAuth")
             S1 == {SetInput(b, i, h) : i \in A, h \in Inject}
             S2 == {RemoveAt(b, i) : i \in 1..Len(b)}
             S3 == {RetimeCal(b, i, p, t) : i \in C, p \in Times, t \in Times \cup {NULL}}
             S4 == (UNION {{FlipLink(b, i, j) : j \in DOMAIN b[i].rec.links} : i \in C})
             S5 == {RetimeAuth(b, i, p) : i \in U, p \in Times}
             S6 == (UNION {{[b EXCEPT ![i] = e] : e \in {x \in GenuineElems : x.tag = b[i].tag}} :
                           i \in C \cup U})
             S7 == {AppendUnknown(b, n, f) : n \in BOOLEAN, f \in BOOLEAN}
             S8 == {Append(b, [tag |-> "aggrAuth", rec |-> NULL])}
             S9 == {Append(b, b[i]) : i \in U}
  <2>1. C \cup U \subseteq 1..Len(b)
    BY DEF TagIdx
  <2>2. S1 \subseteq Seq(Elem)
    BY <1>1
  <2>3. S2 \subseteq Seq(Elem)
    BY <1>2
  <2>4. S3 \subseteq Seq(Elem)
    BY <1>3
  <2>5. S4 \subseteq Seq(Elem)
    <3> SUFFICES ASSUME NEW i \in C, NEW j \in DOMAIN b[i].rec.links
                 PROVE  FlipLink(b, i, j) \in Seq(Elem)
      OBVIOUS
    <3>1. QED
      BY <1>4
  <2>6. S5 \subseteq Seq(Elem)
    BY <1>5
  <2>7. S6 \subseteq Seq(Elem)
    BY <1>6, <2>1
  <2>8. S7 \subseteq Seq(Elem)
    BY <1>7
  <2>9. S8 \subseteq Seq(Elem)
    BY <1>8
  <2>10. S9 \subseteq Seq(Elem)
    BY <1>9
  <2>11. Edits(b) = S1 \cup S2 \cup S3 \cup S4 \cup S5 \cup S6 \cup S7 \cup S8 \cup S9
    BY DEF Edits
  <2> HIDE DEF S1, S2, S3, S4, S5, S6, S7, S8, S9
  <2>12. QED
    BY <2>2, <2>3, <2>4, <2>5, <2>6, <2>7, <2>8, <2>9, <2>10, <2>11

\* The calendar chains the extender returns are calendar chain records.
LEMMA ExtChainsType == ExtChains \subseteq CalChainRec
<1> SUFFICES ASSUME NEW e \in GenuineElems, e.tag = "cal"
             PROVE  e.rec \in CalChainRec
  BY DEF ExtChains
<1>1. e \in Elem
  BY GenuineElemsType
<1>2. QED
  BY <1>1, ElemRec

\* A call that ends in extractSignature installs a signature object or
\* keeps the one held, and reports a status code.
LEMMA InstallType ==
  ASSUME NEW b \in Seq(Elem), sig \in SigObj \cup {NULL}, Install(Extract(b))
  PROVE  sig' \in SigObj \cup {NULL} /\ res' \in Codes
<1>1. QED
  BY ExtractType DEF Install

\* replaceCalendarChain puts a calendar chain TLV in place of the first
\* one of the base TLV, which keeps the object a signature object.
LEMMA ReplaceType ==
  ASSUME NEW s \in SigObj, NEW c \in CalChainRec, TagIdx(s.base, "cal") # {}
  PROVE  [s EXCEPT !.base[Min(TagIdx(s.base, "cal"))] = ConstructCalChainTlv(c)]
           \in SigObj
<1> DEFINE m == Min(TagIdx(s.base, "cal"))
           e == ConstructCalChainTlv(c)
<1>1. s.base \in Seq(Elem)
  BY DEF SigObj
<1>2. m \in 1..Len(s.base)
  BY <1>1, FirstTagged
<1>3. e \in Elem
  BY DEF ConstructCalChainTlv, Elem
<1>4. [s.base EXCEPT ![m] = e] \in Seq(Elem)
  BY <1>1, <1>2, <1>3, ReplaceChild
<1>5. [s EXCEPT !.base[m] = e] = [s EXCEPT !.base = [s.base EXCEPT ![m] = e]]
  OBVIOUS
<1>6. [s EXCEPT !.base = [s.base EXCEPT ![m] = e]] \in SigObj
  BY <1>4 DEF SigObj
<1>7. QED
  BY <1>5, <1>6

\* The initial state is well typed: the stored blob is a genuine one.
LEMMA TypeInit == Init => TypeOK
BY GenuineAssumption, ConstantsAssumption DEF Init, TypeOK

\* Every call and every edit keeps the state well typed.
LEMMA TypeNext == TypeOK /\ [Next]_vars => TypeOK'
<1> SUFFICES ASSUME TypeOK, [Next]_vars PROVE TypeOK'
  OBVIOUS
<1> USE ConstantsAssumption
<1>1. CASE Tamper
  <2>1. wire' \in Seq(Elem)
    BY <1>1, EditsType DEF TypeOK, Tamper
  <2>2. QED
    BY <1>1, <2>1 DEF Tamper, TypeOK
<1>2. CASE Parse
  BY <1>2, InstallType DEF Parse, TypeOK
<1>3. ASSUME NEW f \in FileStates, FromFile(f) PROVE TypeOK'
  <2>1. CASE f = "fits"
    <3>1. Install(Extract(wire))
      BY <1>3, <2>1 DEF FromFile
    <3>2. QED
      BY <1>3, <3>1, InstallType DEF FromFile, TypeOK
  <2>2. CASE f # "fits"
    BY <1>3, <2>2 DEF FromFile, FileStates, TypeOK, Codes
  <2>3. QED
    BY <2>1, <2>2
<1>4. ASSUME NEW p \in Pdus, AggrResponse(p.tag, p.status, p.msg) PROVE TypeOK'
  <2>1. CASE p.tag = "aggrResp" /\ p.status = 0
    <3>1. Install(Extract(wire))
      BY <1>4, <2>1 DEF AggrResponse
    <3>2. QED
      BY <1>4, <3>1, InstallType DEF AggrResponse, TypeOK
  <2>2. CASE ~(p.tag = "aggrResp" /\ p.status = 0)
    BY <1>4, <2>2 DEF AggrResponse, AggregatorFail, TypeOK, Codes
  <2>3. QED
    BY <2>1, <2>2
<1>5. CASE Validate
  BY <1>5, ValidateCodes DEF Validate, TypeOK
<1>6. CASE Clone
  <2>1. sig.base \in Seq(Elem)
    BY <1>6 DEF Clone, TypeOK, SigObj
  <2>2. Install(Extract(sig.base))
    BY <1>6 DEF Clone, Install
  <2>3. QED
    BY <1>6, <2>1, <2>2, InstallType DEF Clone, TypeOK
<1>7. CASE Serialize
  BY <1>7 DEF Serialize, TypeOK, SigObj, Codes
<1>8. ASSUME NEW c \in ExtChains, ReplaceCalendarChain(c) PROVE TypeOK'
  <2>1. sig \in SigObj
    BY <1>8 DEF ReplaceCalendarChain, TypeOK
  <2>2. c \in CalChainRec
    BY ExtChainsType
  <2>3. CASE TagIdx(sig.base, "cal") = {}
    BY <1>8, <2>3 DEF ReplaceCalendarChain, TypeOK, Codes
  <2>4. CASE TagIdx(sig.base, "cal") # {}
    BY <1>8, <2>1, <2>2, <2>4, ReplaceType DEF ReplaceCalendarChain, TypeOK, Codes
  <2>5. QED
    BY <2>3, <2>4
<1>9. CASE Free
  BY <1>9 DEF Free, TypeOK
<1>10. CASE UNCHANGED vars
  BY <1>10 DEF vars, TypeOK
<1>11. QED
  BY <1>1, <1>2, <1>3, <1>4, <1>5, <1>6, <1>7, <1>8, <1>9, <1>10 DEF Next

\* Type correctness of the KSI_Signature model: whatever the adversary does
\* to the stored blob and whatever the application calls, the blob stays a
\* sequence of 0x800 children, the edit count within its bound, the held
\* pointer NULL or a signature object, and the last result a status code.
THEOREM TypeCorrect == Spec => []TypeOK
BY TypeInit, TypeNext, PTL DEF Spec

(***************************************************************************)
(* Commitment.  SubTerm is a recursive function over Hashes; the imprints *)
(* reached by descending to children form a solution of its equation, so  *)
(* the function SubTerm names exists and satisfies the equation.  No      *)
(* well-foundedness is needed: every solution holds what can be reached.  *)
(***************************************************************************)

\* A set of imprints that holds both children of each of its nodes.
DownClosed(S) == \A k \in S \ Atoms : k[2] \in S /\ k[3] \in S

\* The imprints reached from h by descending to children: those in every
\* down-closed set of imprints that holds h.
Reach(h) == {k \in Hashes : \A S \in SUBSET Hashes : DownClosed(S) /\ h \in S => k \in S}

\* The equation that defines SubTerm.
SubTermEq(g) ==
  g = [h \in Hashes |-> IF h \in Atoms THEN {h} ELSE {h} \cup g[h[2]] \cup g[h[3]]]

\* The reachable imprints solve the equation of SubTerm.
LEMMA ReachSolves == SubTermEq([h \in Hashes |-> Reach(h)])
<1>1. ASSUME NEW h \in Hashes PROVE h \in Reach(h)
  BY DEF Reach
<1>2. ASSUME NEW h \in Hashes \ Atoms PROVE h[2] \in Hashes /\ h[3] \in Hashes
  BY HashAssumption
<1>3. ASSUME NEW h \in Hashes, h \in Atoms PROVE Reach(h) = {h}
  <2>1. DownClosed({h}) /\ {h} \in SUBSET Hashes
    BY <1>3 DEF DownClosed
  <2>2. Reach(h) \subseteq {h}
    BY <2>1 DEF Reach
  <2>3. QED
    BY <1>1, <2>2
<1>4. ASSUME NEW h \in Hashes \ Atoms
      PROVE  Reach(h) = {h} \cup Reach(h[2]) \cup Reach(h[3])
  <2>1. Reach(h[2]) \cup Reach(h[3]) \subseteq Reach(h)
    BY DEF Reach, DownClosed
  <2> DEFINE T == {h} \cup Reach(h[2]) \cup Reach(h[3])
  <2>2. T \in SUBSET Hashes
    BY DEF Reach
  <2>3. DownClosed(T)
    <3> SUFFICES ASSUME NEW k \in T \ Atoms PROVE k[2] \in T /\ k[3] \in T
      BY DEF DownClosed
    <3>1. CASE k = h
      BY <1>1, <1>2, <3>1
    <3>2. ASSUME NEW c \in {h[2], h[3]}, k \in Reach(c) PROVE k[2] \in T /\ k[3] \in T
      <4>1. k \in Hashes \ Atoms
        BY <3>2 DEF Reach
      <4>2. k[2] \in Hashes /\ k[3] \in Hashes
        BY <4>1, HashAssumption
      <4>3. k[2] \in Reach(c) /\ k[3] \in Reach(c)
        BY <3>2, <4>1, <4>2 DEF Reach, DownClosed
      <4>4. QED
        BY <4>3
    <3>3. QED
      BY <3>1, <3>2
  <2>4. Reach(h) \subseteq T
    BY <2>2, <2>3 DEF Reach
  <2>5. QED
    BY <1>1, <2>1, <2>4
<1>5. QED
  BY <1>2, <1>3, <1>4 DEF SubTermEq

\* SubTerm satisfies the equation that defines it.
LEMMA SubTermUnfold == SubTermEq(SubTerm)
BY ReachSolves, Zenon DEF SubTerm, SubTermEq

\* Every imprint a blob may carry commits to itself.
LEMMA SubTermSelf ==
  ASSUME NEW h \in Hashes
  PROVE  h \in SubTerm[h]
BY SubTermUnfold DEF SubTermEq

\* A node imprint a blob may carry is not an atom, its children are
\* imprints a blob may carry, and what they commit to it commits to.
LEMMA SubTermNode ==
  ASSUME NEW a, NEW b, NEW v, H(a, b, v) \in Hashes
  PROVE  /\ a \in Hashes /\ b \in Hashes
         /\ SubTerm[a] \subseteq SubTerm[H(a, b, v)]
         /\ SubTerm[b] \subseteq SubTerm[H(a, b, v)]
<1> DEFINE t == H(a, b, v)
<1>1. t \notin Atoms
  BY HashAssumption DEF H
<1>2. t[2] = a /\ t[3] = b
  BY DEF H
<1>3. a \in Hashes /\ b \in Hashes
  BY <1>1, <1>2, HashAssumption
<1>4. SubTerm[t] = {t} \cup SubTerm[a] \cup SubTerm[b]
  BY <1>1, <1>2, SubTermUnfold DEF SubTermEq
<1>5. QED
  BY <1>3, <1>4

\* Stage i of the fold of KSI_HashChain_aggregateCalendar, given the
\* stages g before it.
CalRec(links, h0, g, i) == IF i = 0 THEN h0 ELSE CalStep(g[i - 1], links[i])

\* The stages 0..m of the calendar fold exist.
CalStages(links, h0, m) == \E g : g = [i \in 0..m |-> CalRec(links, h0, g, i)]

\* One more stage extends the calendar fold.
LEMMA CalExtend ==
  ASSUME NEW links, NEW h0, NEW m \in Nat \ {0}, CalStages(links, h0, m - 1)
  PROVE  CalStages(links, h0, m)
<1>1. PICK g : g = [i \in 0..(m - 1) |-> CalRec(links, h0, g, i)]
  BY Zenon DEF CalStages
<1> DEFINE g2 == [i \in 0..m |-> IF i < m THEN g[i] ELSE CalRec(links, h0, g, m)]
<1>2. ASSUME NEW i \in 0..m PROVE g2[i] = CalRec(links, h0, g2, i)
  <2>1. CASE i < m
    <3>1. g2[i] = CalRec(links, h0, g, i)
      BY <1>1, <2>1
    <3>2. i # 0 => g2[i - 1] = g[i - 1]
      BY <2>1
    <3>3. QED
      BY <3>1, <3>2 DEF CalRec
  <2>2. CASE i = m
    <3>1. g2[m - 1] = g[m - 1] /\ g2[m] = CalRec(links, h0, g, m)
      OBVIOUS
    <3>2. QED
      BY <2>2, <3>1 DEF CalRec
  <2>3. QED
    BY <2>1, <2>2
<1>3. g2 = [i \in 0..m |-> CalRec(links, h0, g2, i)]
  BY <1>2
<1>4. QED
  BY <1>3, Zenon DEF CalStages

\* The function AggregateCalendar's LET defines.
CalFn(links, h0, L) ==
  CHOOSE g : g = [i \in 0..L |-> IF i = 0 THEN h0 ELSE CalStep(g[i - 1], links[i])]

\* The function of KSI_HashChain_aggregateCalendar's fold exists and
\* satisfies its recursion, and the root it returns is its last stage.
LEMMA CalFold ==
  ASSUME NEW links, NEW h0, NEW L \in Nat, Len(links) = L
  PROVE  /\ CalFn(links, h0, L) = [i \in 0..L |-> CalRec(links, h0, CalFn(links, h0, L), i)]
         /\ AggregateCalendar(links, h0).h = CalFn(links, h0, L)[L]
<1>1. \A n \in 0..L : CalStages(links, h0, n)
  <2> DEFINE Bad == {n \in 0..L : ~CalStages(links, h0, n)}
  <2> SUFFICES ASSUME Bad # {} PROVE FALSE
    OBVIOUS
  <2>1. PICK m \in Bad : \A y \in Bad : m <= y
    <3>1. Bad \in SUBSET Nat
      OBVIOUS
    <3>2. QED
      BY <3>1, LeastNat
  <2>2. m \in 0..L /\ ~CalStages(links, h0, m)
    BY <2>1, Zenon
  <2> HIDE DEF Bad
  <2>3. CalStages(links, h0, 0)
    <3> DEFINE g0 == [i \in 0..0 |-> h0]
    <3>1. g0 = [i \in 0..0 |-> CalRec(links, h0, g0, i)]
      BY DEF CalRec
    <3>2. QED
      BY <3>1, Zenon DEF CalStages
  <2>4. m # 0
    BY <2>2, <2>3, Zenon
  <2>5. m \in Nat \ {0} /\ m - 1 \in 0..L /\ ~(m <= m - 1)
    BY <2>2, <2>4
  <2>6. m - 1 \in Bad => m <= m - 1
    BY <2>1, Zenon
  <2>7. CalStages(links, h0, m - 1)
    BY <2>5, <2>6, Zenon DEF Bad
  <2>8. QED
    BY <2>2, <2>5, <2>7, CalExtend
<1>2. CalStages(links, h0, L)
  <2>1. L \in 0..L
    OBVIOUS
  <2>2. QED
    BY <1>1, <2>1, Zenon
<1> DEFINE F == CalFn(links, h0, L)
<1>3. F = [i \in 0..L |-> CalRec(links, h0, F, i)]
  BY <1>2, Zenon DEF CalStages, CalRec, CalFn
<1>4. AggregateCalendar(links, h0).h = F[L]
  BY Zenon DEF AggregateCalendar, CalFn
<1>5. QED
  BY <1>3, <1>4

\* A calendar root that a blob may carry commits to the calendar chain's
\* input and to all the input commits to.
LEMMA CalDescent ==
  ASSUME NEW S, NEW links \in Seq(S), NEW h0,
         AggregateCalendar(links, h0).h \in Hashes
  PROVE  h0 \in Hashes /\ SubTerm[h0] \subseteq SubTerm[AggregateCalendar(links, h0).h]
<1> DEFINE L == Len(links)
           F == CalFn(links, h0, L)
           Good(i) == F[i] \in Hashes => h0 \in Hashes /\ SubTerm[h0] \subseteq SubTerm[F[i]]
<1>1. L \in Nat
  OBVIOUS
<1>2. F = [i \in 0..L |-> CalRec(links, h0, F, i)] /\ AggregateCalendar(links, h0).h = F[L]
  BY <1>1, CalFold
<1> HIDE DEF F
<1>3. \A n \in 0..L : Good(n)
  <2> DEFINE Bad == {n \in 0..L : ~Good(n)}
  <2> SUFFICES ASSUME Bad # {} PROVE FALSE
    OBVIOUS
  <2>1. PICK m \in Bad : \A y \in Bad : m <= y
    <3>1. Bad \in SUBSET Nat
      OBVIOUS
    <3>2. QED
      BY <3>1, LeastNat
  <2>2. m \in 0..L /\ ~Good(m)
    BY <2>1, Zenon
  <2> HIDE DEF Bad
  <2>3. F[m] = CalRec(links, h0, F, m)
    BY <1>2, <2>2
  <2>4. m # 0
    BY <2>2, <2>3, SubTermSelf DEF CalRec
  <2>5. m - 1 \in 0..L /\ ~(m <= m - 1)
    BY <2>2, <2>4
  <2>6. Good(m - 1)
    <3>1. m - 1 \in Bad => m <= m - 1
      BY <2>1, Zenon
    <3>2. QED
      BY <2>5, <3>1, Zenon DEF Bad
  <2>7. F[m] \in Hashes
    BY <2>2
  <2>8. F[m - 1] \in Hashes /\ SubTerm[F[m - 1]] \subseteq SubTerm[F[m]]
    <3>1. \E sib : F[m] = H(F[m - 1], sib, CalLevel) \/ F[m] = H(sib, F[m - 1], CalLevel)
      BY <2>3, <2>4 DEF CalRec, CalStep
    <3>2. QED
      BY <2>7, <3>1, SubTermNode
  <2>9. QED
    BY <2>2, <2>6, <2>8
<1>4. QED
  BY <1>1, <1>2, <1>3

\* Stage i of the fold of KSI_HashChain_aggregate, given the stages g
\* before it.
AggRec(links, h0, lvl0, g, i) ==
  IF i = 0 THEN [ok |-> Len(links) > 0, h |-> h0, lvl |-> lvl0]
  ELSE IF g[i - 1].ok THEN LinkStep(g[i - 1], links[i]) ELSE g[i - 1]

\* The stages 0..m of the aggregation fold exist.
AggStages(links, h0, lvl0, m) == \E g : g = [i \in 0..m |-> AggRec(links, h0, lvl0, g, i)]

\* The function Aggregate's LET defines.
AggFn(links, h0, lvl0, L) ==
  CHOOSE g : g = [i \in 0..L |->
                    IF i = 0 THEN [ok |-> Len(links) > 0, h |-> h0, lvl |-> lvl0]
                    ELSE IF g[i - 1].ok THEN LinkStep(g[i - 1], links[i])
                    ELSE g[i - 1]]

\* One more stage extends the aggregation fold.
LEMMA AggExtend ==
  ASSUME NEW links, NEW h0, NEW lvl0, NEW m \in Nat \ {0},
         AggStages(links, h0, lvl0, m - 1)
  PROVE  AggStages(links, h0, lvl0, m)
<1>1. PICK g : g = [i \in 0..(m - 1) |-> AggRec(links, h0, lvl0, g, i)]
  BY Zenon DEF AggStages
<1> DEFINE g2 == [i \in 0..m |-> IF i < m THEN g[i] ELSE AggRec(links, h0, lvl0, g, m)]
<1>2. ASSUME NEW i \in 0..m PROVE g2[i] = AggRec(links, h0, lvl0, g2, i)
  <2>1. CASE i < m
    <3>1. g2[i] = AggRec(links, h0, lvl0, g, i)
      BY <1>1, <2>1
    <3>2. i # 0 => g2[i - 1] = g[i - 1]
      BY <2>1
    <3>3. QED
      BY <3>1, <3>2 DEF AggRec
  <2>2. CASE i = m
    <3>1. g2[m - 1] = g[m - 1] /\ g2[m] = AggRec(links, h0, lvl0, g, m)
      OBVIOUS
    <3>2. QED
      BY <2>2, <3>1 DEF AggRec
  <2>3. QED
    BY <2>1, <2>2
<1>3. g2 = [i \in 0..m |-> AggRec(links, h0, lvl0, g2, i)]
  BY <1>2
<1>4. QED
  BY <1>3, Zenon DEF AggStages

\* The function of KSI_HashChain_aggregate's fold exists and satisfies its
\* recursion, and the result is its last stage.
LEMMA AggFold ==
  ASSUME NEW links, NEW h0, NEW lvl0, NEW L \in Nat, Len(links) = L
  PROVE  /\ AggFn(links, h0, lvl0, L)
              = [i \in 0..L |-> AggRec(links, h0, lvl0, AggFn(links, h0, lvl0, L), i)]
         /\ Aggregate(links, h0, lvl0) = AggFn(links, h0, lvl0, L)[L]
<1>1. \A n \in 0..L : AggStages(links, h0, lvl0, n)
  <2> DEFINE Bad == {n \in 0..L : ~AggStages(links, h0, lvl0, n)}
  <2> SUFFICES ASSUME Bad # {} PROVE FALSE
    OBVIOUS
  <2>1. PICK m \in Bad : \A y \in Bad : m <= y
    <3>1. Bad \in SUBSET Nat
      OBVIOUS
    <3>2. QED
      BY <3>1, LeastNat
  <2>2. m \in 0..L /\ ~AggStages(links, h0, lvl0, m)
    BY <2>1, Zenon
  <2> HIDE DEF Bad
  <2>3. AggStages(links, h0, lvl0, 0)
    <3> DEFINE g0 == [i \in 0..0 |-> [ok |-> Len(links) > 0, h |-> h0, lvl |-> lvl0]]
    <3>1. g0 = [i \in 0..0 |-> AggRec(links, h0, lvl0, g0, i)]
      BY DEF AggRec
    <3>2. QED
      BY <3>1, Zenon DEF AggStages
  <2>4. m # 0
    BY <2>2, <2>3, Zenon
  <2>5. m \in Nat \ {0} /\ m - 1 \in 0..L /\ ~(m <= m - 1)
    BY <2>2, <2>4
  <2>6. m - 1 \in Bad => m <= m - 1
    BY <2>1, Zenon
  <2>7. AggStages(links, h0, lvl0, m - 1)
    BY <2>5, <2>6, Zenon DEF Bad
  <2>8. QED
    BY <2>2, <2>5, <2>7, AggExtend
<1>2. AggStages(links, h0, lvl0, L)
  <2>1. L \in 0..L
    OBVIOUS
  <2>2. QED
    BY <1>1, <2>1, Zenon
<1> DEFINE F == AggFn(links, h0, lvl0, L)
<1>3. F = [i \in 0..L |-> AggRec(links, h0, lvl0, F, i)]
  BY <1>2, Zenon DEF AggStages, AggRec, AggFn
<1>4. Aggregate(links, h0, lvl0) = F[L]
  BY Zenon DEF Aggregate, AggFn
<1>5. QED
  BY <1>3, <1>4

\* The hash an aggregation chain ends on, when a blob may carry it,
\* commits to the chain's input and to all the input commits to: each
\* link either hashes the running value with a sibling or, past
\* MaxLevel, stops with the running value unchanged.
LEMMA AggDescent ==
  ASSUME NEW S, NEW links \in Seq(S), NEW h0, NEW lvl0,
         Aggregate(links, h0, lvl0).h \in Hashes
  PROVE  h0 \in Hashes /\ SubTerm[h0] \subseteq SubTerm[Aggregate(links, h0, lvl0).h]
<1> DEFINE L == Len(links)
           F == AggFn(links, h0, lvl0, L)
           Fields == {"ok", "h", "lvl"}
           Good(i) == /\ DOMAIN F[i] = Fields
                      /\ F[i].h \in Hashes => h0 \in Hashes /\ SubTerm[h0] \subseteq SubTerm[F[i].h]
<1>1. L \in Nat
  OBVIOUS
<1>2. F = [i \in 0..L |-> AggRec(links, h0, lvl0, F, i)] /\ Aggregate(links, h0, lvl0) = F[L]
  BY <1>1, AggFold
<1> HIDE DEF F
<1>3. \A n \in 0..L : Good(n)
  <2> DEFINE Bad == {n \in 0..L : ~Good(n)}
  <2> SUFFICES ASSUME Bad # {} PROVE FALSE
    OBVIOUS
  <2>1. PICK m \in Bad : \A y \in Bad : m <= y
    <3>1. Bad \in SUBSET Nat
      OBVIOUS
    <3>2. QED
      BY <3>1, LeastNat
  <2>2. m \in 0..L /\ ~Good(m)
    BY <2>1, Zenon
  <2> HIDE DEF Bad
  <2>3. F[m] = AggRec(links, h0, lvl0, F, m)
    BY <1>2, <2>2
  <2>4. m # 0
    <3>1. CASE m = 0
      <4>1. F[0] = [ok |-> Len(links) > 0, h |-> h0, lvl |-> lvl0]
        BY <2>3, <3>1 DEF AggRec
      <4>2. Good(0)
        BY <4>1, SubTermSelf
      <4>3. QED
        BY <2>2, <3>1, <4>2
    <3>2. QED
      BY <3>1
  <2>5. m - 1 \in 0..L /\ ~(m <= m - 1)
    BY <2>2, <2>4
  <2>6. Good(m - 1)
    <3>1. m - 1 \in Bad => m <= m - 1
      BY <2>1, Zenon
    <3>2. QED
      BY <2>5, <3>1, Zenon DEF Bad
  <2> DEFINE cur == F[m - 1]
             link == links[m]
             lvl == cur.lvl + link.lc + 1
  <2>7. CASE ~cur.ok
    <3>1. F[m] = cur
      BY <2>3, <2>4, <2>7 DEF AggRec
    <3>2. QED
      BY <2>2, <2>6, <3>1
  <2>8. CASE cur.ok /\ lvl > MaxLevel
    <3>1. F[m] = [cur EXCEPT !.ok = FALSE]
      BY <2>3, <2>4, <2>8 DEF AggRec, LinkStep
    <3>2. DOMAIN F[m] = Fields /\ F[m].h = cur.h
      BY <2>6, <3>1
    <3>3. QED
      BY <2>2, <2>6, <3>2
  <2>9. CASE cur.ok /\ ~(lvl > MaxLevel)
    <3>1. F[m] = [ok |-> TRUE, lvl |-> lvl,
                  h |-> IF link.left THEN H(cur.h, link.sib, lvl) ELSE H(link.sib, cur.h, lvl)]
      BY <2>3, <2>4, <2>9 DEF AggRec, LinkStep
    <3>2. DOMAIN F[m] = Fields
      BY <3>1
    <3>3. F[m].h = H(cur.h, link.sib, lvl) \/ F[m].h = H(link.sib, cur.h, lvl)
      BY <3>1
    <3>4. F[m].h \in Hashes => cur.h \in Hashes /\ SubTerm[cur.h] \subseteq SubTerm[F[m].h]
      BY <3>3, SubTermNode
    <3>5. QED
      BY <2>2, <2>6, <3>2, <3>4
  <2>10. QED
    BY <2>7, <2>8, <2>9
<1>4. L \in 0..L
  BY <1>1
<1>5. QED
  BY <1>2, <1>3, <1>4

\* Stage i of the loop of validateInternal over the aggregation chains,
\* given the stages g before it.
LoopRec(chains, g, i) ==
  IF i = 0 THEN [ok |-> TRUE, h |-> NULL, lvl |-> 0, mismatch |-> FALSE]
  ELSE LET s == g[i - 1]
           c == chains[i]
           a == Aggregate(c.links, c.input, s.lvl)
       IN  IF ~s.ok THEN s
           ELSE [ok |-> a.ok, h |-> a.h, lvl |-> a.lvl,
                 mismatch |-> s.mismatch \/ (i > 1 /\ s.h # c.input)]

\* The stages 0..m of the loop exist.
LoopStages(chains, m) == \E g : g = [i \in 0..m |-> LoopRec(chains, g, i)]

\* The function AggrLoop's LET defines.
LoopFn(chains, L) == CHOOSE g : g = [i \in 0..L |-> LoopRec(chains, g, i)]

\* One more stage extends the loop.
LEMMA LoopExtend ==
  ASSUME NEW chains, NEW m \in Nat \ {0}, LoopStages(chains, m - 1)
  PROVE  LoopStages(chains, m)
<1>1. PICK g : g = [i \in 0..(m - 1) |-> LoopRec(chains, g, i)]
  BY Zenon DEF LoopStages
<1> DEFINE g2 == [i \in 0..m |-> IF i < m THEN g[i] ELSE LoopRec(chains, g, m)]
<1>2. ASSUME NEW i \in 0..m PROVE g2[i] = LoopRec(chains, g2, i)
  <2>1. CASE i < m
    <3>1. g2[i] = LoopRec(chains, g, i)
      BY <1>1, <2>1
    <3>2. i # 0 => g2[i - 1] = g[i - 1]
      BY <2>1
    <3>3. QED
      BY <3>1, <3>2 DEF LoopRec
  <2>2. CASE i = m
    <3>1. g2[m - 1] = g[m - 1] /\ g2[m] = LoopRec(chains, g, m)
      OBVIOUS
    <3>2. QED
      BY <2>2, <3>1 DEF LoopRec
  <2>3. QED
    BY <2>1, <2>2
<1>3. g2 = [i \in 0..m |-> LoopRec(chains, g2, i)]
  BY <1>2
<1>4. QED
  BY <1>3, Zenon DEF LoopStages

\* The loop's function exists and satisfies its recursion, and the loop's
\* result is its last stage.
LEMMA LoopFold ==
  ASSUME NEW chains, NEW L \in Nat, Len(chains) = L
  PROVE  /\ LoopFn(chains, L) = [i \in 0..L |-> LoopRec(chains, LoopFn(chains, L), i)]
         /\ AggrLoop(chains) = LoopFn(chains, L)[L]
<1>1. \A n \in 0..L : LoopStages(chains, n)
  <2> DEFINE Bad == {n \in 0..L : ~LoopStages(chains, n)}
  <2> SUFFICES ASSUME Bad # {} PROVE FALSE
    OBVIOUS
  <2>1. PICK m \in Bad : \A y \in Bad : m <= y
    <3>1. Bad \in SUBSET Nat
      OBVIOUS
    <3>2. QED
      BY <3>1, LeastNat
  <2>2. m \in 0..L /\ ~LoopStages(chains, m)
    BY <2>1, Zenon
  <2> HIDE DEF Bad
  <2>3. LoopStages(chains, 0)
    <3> DEFINE g0 == [i \in 0..0 |-> [ok |-> TRUE, h |-> NULL, lvl |-> 0, mismatch |-> FALSE]]
    <3>1. g0 = [i \in 0..0 |-> LoopRec(chains, g0, i)]
      BY DEF LoopRec
    <3>2. QED
      BY <3>1, Zenon DEF LoopStages
  <2>4. m # 0
    BY <2>2, <2>3, Zenon
  <2>5. m \in Nat \ {0} /\ m - 1 \in 0..L /\ ~(m <= m - 1)
    BY <2>2, <2>4
  <2>6. m - 1 \in Bad => m <= m - 1
    BY <2>1, Zenon
  <2>7. LoopStages(chains, m - 1)
    BY <2>5, <2>6, Zenon DEF Bad
  <2>8. QED
    BY <2>2, <2>5, <2>7, LoopExtend
<1>2. LoopStages(chains, L)
  <2>1. L \in 0..L
    OBVIOUS
  <2>2. QED
    BY <1>1, <2>1, Zenon
<1> DEFINE F == LoopFn(chains, L)
<1>3. F = [i \in 0..L |-> LoopRec(chains, F, i)]
  BY <1>2, Zenon DEF LoopStages, LoopFn
<1>4. AggrLoop(chains) = F[L]
  BY Zenon DEF AggrLoop, LoopFn, LoopRec
<1>5. QED
  BY <1>3, <1>4

\* When the loop over the aggregation chains succeeds, the hash it ends on
\* is the one the last chain aggregates to from its own input.
LEMMA LoopLast ==
  ASSUME NEW chains, NEW n \in Nat \ {0}, Len(chains) = n, AggrLoop(chains).ok
  PROVE  \E l : AggrLoop(chains).h = Aggregate(chains[n].links, chains[n].input, l).h
<1> DEFINE F == LoopFn(chains, n)
<1>1. F = [i \in 0..n |-> LoopRec(chains, F, i)] /\ AggrLoop(chains) = F[n]
  BY LoopFold
<1> HIDE DEF F
<1>2. F[n] = LoopRec(chains, F, n)
  BY <1>1
<1>3. F[n - 1].ok
  BY <1>1, <1>2 DEF LoopRec
<1> DEFINE a == Aggregate(chains[n].links, chains[n].input, F[n - 1].lvl)
<1>4. LoopRec(chains, F, n)
        = [ok |-> a.ok, h |-> a.h, lvl |-> a.lvl,
           mismatch |-> F[n - 1].mismatch \/ (n > 1 /\ F[n - 1].h # chains[n].input)]
  BY <1>3, Zenon DEF LoopRec
<1>5. AggrLoop(chains).h = a.h
  BY <1>1, <1>2, <1>4
<1>6. QED
  BY <1>5

\* A signature object that validateInternal accepts has an aggregation
\* chain, and the signed publication hash commits to the input of the last
\* one: the calendar chain hashes that input's output up to the signed
\* hash, and the last chain hashes its input up to the calendar's input.
LEMMA ValidatedCommitted ==
  ASSUME NEW s \in SigObj, ValidateInternal(s) = "OK"
  PROVE  /\ Len(s.chains) > 0
         /\ Committed(s.chains[Len(s.chains)].input, s.calAuth.pubHash)
<1> DEFINE n == Len(s.chains)
           c == s.chains[n]
           ag == AggrLoop(s.chains)
           cr == AggregateCalendar(s.cal.links, s.cal.input)
<1>1. /\ n > 0 /\ s.calAuth # NULL /\ ag.ok
      /\ ag.h = s.cal.input /\ cr.h = s.calAuth.pubHash
  BY DEF ValidateInternal, CalInputMatches
<1>2. s.calAuth.pubHash \in Hashes
  BY <1>1 DEF SigObj, CalAuthRec
<1>3. s.cal.links \in Seq(CalLink) /\ c.links \in Seq(AggrLink) /\ n \in Nat \ {0}
  <2>1. s.chains \in Seq(AggrChainRec) /\ s.cal \in CalChainRec
    BY DEF SigObj
  <2>2. n \in Nat \ {0} /\ c \in AggrChainRec
    BY <1>1, <2>1
  <2>3. QED
    BY <2>1, <2>2 DEF CalChainRec, AggrChainRec
<1>4. s.cal.input \in Hashes /\ SubTerm[s.cal.input] \subseteq SubTerm[s.calAuth.pubHash]
  BY <1>1, <1>2, <1>3, CalDescent
<1>5. PICK l : ag.h = Aggregate(c.links, c.input, l).h
  BY <1>1, <1>3, LoopLast
<1>6. c.input \in Hashes /\ SubTerm[c.input] \subseteq SubTerm[ag.h]
  <2>1. Aggregate(c.links, c.input, l).h \in Hashes
    BY <1>1, <1>4, <1>5
  <2>2. c.input \in Hashes
          /\ SubTerm[c.input] \subseteq SubTerm[Aggregate(c.links, c.input, l).h]
    BY <1>3, <2>1, AggDescent
  <2>3. QED
    BY <1>5, <2>2
<1>7. c.input \in SubTerm[c.input]
  BY <1>6, SubTermSelf
<1>8. QED
  BY <1>1, <1>2, <1>4, <1>6, <1>7 DEF Committed

\* The signed publication hash of every signature object the application
\* holds commits to the input of its last aggregation chain, whatever the
\* adversary did to the blob it was parsed from: LastInputCommitted.
THEOREM LastInputCommittedHolds == Spec => []LastInputCommitted
<1>1. TypeOK /\ IInv => LastInputCommitted
  BY ValidatedCommitted DEF TypeOK, IInv, HeldValid, LastInputCommitted
<1> QED
  BY <1>1, TypeCorrect, InitIInv, NextIInv, PTL DEF Spec

=============================================================================
