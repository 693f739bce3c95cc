-------------------------- MODULE MockAsyncProofs --------------------------
(***************************************************************************)
(* Proofs about the request queue of the mock asynchronous client          *)
(* (src/test/test_mock_async.c).                                           *)
(*                                                                         *)
(* The queue is a linked list threaded through the handles' next fields,   *)
(* and Walk reads it with a recursive function.  The provers cannot do     *)
(* induction over that function, but they need not: reqQueue_pushBack      *)
(* only ever links request added + 1 behind request added, so the list     *)
(* is always the run of consecutive requests front..back (QueueShape).     *)
(* For such a list the walk is computed once and for all (WalkOfInterval): *)
(* the run itself is a fixpoint of the walk's definition, and a least      *)
(* index where two fixpoints differ cannot exist.                          *)
(***************************************************************************)
EXTENDS MockAsync, NatLeast, FiniteSetTheorems, SequenceTheorems, TLAPS

\* The list from fr to bk is the run fr, fr + 1, ..., bk, ending in NULL.
Linked(fr, bk, nx) ==
  /\ bk \in Reqs
  /\ fr \in 1..bk
  /\ \A i \in fr..(bk - 1) : nx[i] = i + 1
  /\ nx[bk] = NULL

\* That run as a sequence; the empty queue when fr is NULL.
Interval(fr, bk) ==
  IF fr = NULL THEN << >> ELSE [k \in 1..(bk - fr + 1) |-> fr + k - 1]

-----------------------------------------------------------------------------
(***************************************************************************)
(* The walk of a run of consecutive handles.                               *)
(***************************************************************************)
\* The walk's i-th stage for the run fr..bk: its first i + 1 handles, or
\* the whole run.
Stage(fr, bk, i) ==
  IF fr = NULL THEN << >>
  ELSE LET n == IF i + 1 < bk - fr + 1 THEN i + 1 ELSE bk - fr + 1
       IN  [k \in 1..n |-> fr + k - 1]

\* Walking a run of consecutive handles from its front yields the run:
\* reqQueue_popFront, reqQueue_clearWithError and FileAsyncCtx_free visit
\* exactly the handles front..back, each once, in order.
LEMMA WalkOfInterval ==
  ASSUME NEW fr, NEW bk, NEW nx,
         fr = NULL \/ Linked(fr, bk, nx)
  PROVE  WalkOf(fr, nx) = Interval(fr, bk)
<1> USE MockAsyncAssumption DEF Reqs
<1> DEFINE N == MaxReq + 1
<1> DEFINE Def(g, i) == IF i = 0 THEN IF fr = NULL THEN << >> ELSE << fr >>
                                 ELSE Follow(nx, g[i - 1])
<1> DEFINE G == [i \in 0..N |-> Stage(fr, bk, i)]
<1>1. ASSUME NEW i \in 0..N PROVE Stage(fr, bk, i) = Def(G, i)
  <2>1. CASE fr = NULL
    BY <2>1 DEF Stage, Follow
  <2>2. CASE i = 0 /\ fr # NULL
    BY <2>2 DEF Stage, Linked
  <2>3. CASE i # 0 /\ fr # NULL
    <3> DEFINE p == Stage(fr, bk, i - 1)
    <3> DEFINE L == IF i < bk - fr + 1 THEN i ELSE bk - fr + 1
    <3>4. p = [k \in 1..L |-> fr + k - 1] /\ L \in 1..MaxReq
      BY <2>3 DEF Stage, Linked
    <3>1. fr \in 1..MaxReq /\ bk \in 1..MaxReq /\ fr <= bk
      BY <2>3 DEF Linked
    <3>2. p \in Seq(Nat) /\ Len(p) = L
      BY <3>1, <3>4
    <3>5. p \in Seq(Nat) /\ Len(p) = L /\ p # << >> /\ p[Len(p)] = fr + L - 1
      BY <3>1, <3>2, <3>4
    <3>6. CASE L = bk - fr + 1
      <4>1. nx[p[Len(p)]] = NULL
        BY <3>5, <3>6, <2>3 DEF Linked
      <4>2. Follow(nx, p) = p
        BY <4>1 DEF Follow
      <4>3. Stage(fr, bk, i) = p
        BY <2>3, <3>4, <3>6 DEF Stage, Linked
      <4>4. G[i - 1] = p
        BY <2>3
      <4>5. QED
        BY <4>2, <4>3, <4>4, <2>3
    <3>7. CASE L # bk - fr + 1
      <4>1. L = i /\ i < bk - fr + 1
        BY <3>7
      <4>2. nx[p[Len(p)]] = fr + i /\ fr + i # NULL
        BY <3>1, <3>5, <4>1, <2>3 DEF Linked
      <4>3. Follow(nx, p) = Append(p, fr + i)
        BY <3>5, <4>1, <4>2, <3>4 DEF Follow
      <4>4. Append(p, fr + i) = [k \in 1..(i + 1) |-> fr + k - 1]
        BY <3>4, <3>5, <4>1
      <4>5. Stage(fr, bk, i) = [k \in 1..(i + 1) |-> fr + k - 1]
        BY <2>3, <3>1, <4>1 DEF Stage
      <4>6. G[i - 1] = p
        BY <2>3
      <4>7. QED
        BY <4>3, <4>4, <4>5, <4>6, <2>3
    <3>8. QED
      BY <3>6, <3>7
  <2>9. QED
    BY <2>1, <2>2, <2>3
<1>2. G = [i \in 0..N |-> Def(G, i)]
  BY <1>1
<1>3. ASSUME NEW g, g = [i \in 0..N |-> Def(g, i)] PROVE g = G
  <2> DEFINE T == {i \in 0..N : g[i] # G[i]}
  <2>1. SUFFICES ASSUME T # {} PROVE FALSE
    BY <1>3
  <2>2. PICK x \in T : \A y \in T : x <= y
    <3>1. T \in SUBSET Nat
      OBVIOUS
    <3>2. QED
      BY <2>1, <3>1, LeastNat
  <2>3. x # 0 => g[x - 1] = G[x - 1]
    BY <2>2
  <2>4. g[x] = G[x]
    BY <2>3, <1>2, <1>3
  <2>5. QED
    BY <2>2, <2>4
<1>4. WalkOf(fr, nx) = (CHOOSE g : g = [i \in 0..N |-> Def(g, i)])[N]
  BY DEF WalkOf
<1>5. Stage(fr, bk, N) = Interval(fr, bk)
  <2>1. CASE fr = NULL
    BY <2>1 DEF Stage, Interval
  <2>2. CASE fr # NULL
    <3>1. fr \in 1..MaxReq /\ bk \in 1..MaxReq /\ fr <= bk
      BY <2>2 DEF Linked
    <3>2. QED
      BY <2>2, <3>1 DEF Stage, Interval
  <2>3. QED
    BY <2>1, <2>2
<1>6. (CHOOSE g : g = [i \in 0..N |-> Def(g, i)]) = G
  BY <1>2, <1>3
<1>7. G[N] = Stage(fr, bk, N)
  OBVIOUS
<1>8. QED
  BY <1>4, <1>5, <1>6, <1>7, Zenon
\* A handle occurs in the run fr..bk at most once: the walks of
\* reqQueue_clearWithError and FileAsyncCtx_free free each queued handle
\* exactly once and no other handle.
LEMMA IntervalCount ==
  ASSUME NEW fr, NEW bk, NEW h,
         fr = NULL \/ (fr \in Nat /\ bk \in Nat)
  PROVE  /\ (\E i \in DOMAIN Interval(fr, bk) : Interval(fr, bk)[i] = h)
             <=> (fr # NULL /\ h \in fr..bk)
         /\ Cardinality({i \in DOMAIN Interval(fr, bk) : Interval(fr, bk)[i] = h})
             = IF fr # NULL /\ h \in fr..bk THEN 1 ELSE 0
<1> DEFINE S == {i \in DOMAIN Interval(fr, bk) : Interval(fr, bk)[i] = h}
<1>1. CASE fr # NULL /\ h \in fr..bk
  <2>1. S = {h - fr + 1}
    BY <1>1 DEF Interval
  <2>2. QED
    BY <1>1, <2>1, FS_Singleton DEF Interval
<1>2. CASE ~(fr # NULL /\ h \in fr..bk)
  <2>1. S = {}
    BY <1>2 DEF Interval
  <2>2. QED
    BY <1>2, <2>1, FS_EmptySet DEF Interval
<1>3. QED
  BY <1>1, <1>2

-----------------------------------------------------------------------------
(***************************************************************************)
(* The inductive invariant.                                                *)
(***************************************************************************)
\* The queue is the run of consecutive requests front..back, back is the
\* last request added, and no request added later has been linked yet:
\* reqQueue_pushBack only ever links request added + 1 behind back.
QueueShape ==
  /\ (front = NULL) = (back = NULL)
  /\ front # NULL => back = added /\ Linked(front, back, nxt)
  /\ \A h \in Reqs : h > added => nxt[h] = NULL

\* While dispatch reads a response file, the file is open and is one of
\* the endpoint's: OutputDone opened it, and nothing else runs meanwhile.
InputShape ==
  pc = "input" => pathCount < nofPaths /\ file # NULL

IInv == TypeOK /\ QueueShape /\ InputShape /\ QueueOwnsUnreleased

\* A request is in the queue: between the front and the back.
InQueue(h) == front # NULL /\ h \in front..back

\* Under QueueShape, QueueOwnsUnreleased says: a request added and no
\* longer queued was freed once, any other request not at all.
LEMMA OwnsByInterval ==
  ASSUME TypeOK, QueueShape
  PROVE  QueueOwnsUnreleased
           <=> \A h \in Reqs : released[h] = IF h \in 1..added /\ ~InQueue(h) THEN 1 ELSE 0
<1> USE MockAsyncAssumption
<1>1. Walk = Interval(front, back)
  <2>1. front = NULL \/ Linked(front, back, nxt)
    BY DEF QueueShape
  <2>2. QED
    BY <2>1, WalkOfInterval, Zenon DEF Walk
<1>2. ASSUME NEW h \in Reqs
      PROVE  (\A i \in DOMAIN Walk : Walk[i] # h) <=> ~InQueue(h)
  <2>1. front = NULL \/ (front \in Nat /\ back \in Nat)
    BY DEF TypeOK, QueueShape, Reqs
  <2>2. (\E i \in DOMAIN Interval(front, back) : Interval(front, back)[i] = h)
          <=> InQueue(h)
    BY <2>1, IntervalCount DEF InQueue
  <2>3. QED
    BY <1>1, <2>2
<1>3. QED
  BY <1>2, Zenon DEF QueueOwnsUnreleased

\* OwnsByInterval for the state after a step.
LEMMA OwnsByIntervalNext ==
  ASSUME TypeOK', QueueShape'
  PROVE  QueueOwnsUnreleased'
           <=> \A h \in Reqs : released'[h] = IF h \in 1..added' /\ ~InQueue(h)' THEN 1 ELSE 0
<1> USE MockAsyncAssumption
<1>1. Walk' = Interval(front', back')
  <2>1. front' = NULL \/ Linked(front', back', nxt')
    BY DEF QueueShape
  <2>2. QED
    BY <2>1, WalkOfInterval, Zenon DEF Walk
<1>2. ASSUME NEW h \in Reqs
      PROVE  (\A i \in DOMAIN Walk' : Walk'[i] # h) <=> ~InQueue(h)'
  <2>1. front' = NULL \/ (front' \in Nat /\ back' \in Nat)
    BY DEF TypeOK, QueueShape, Reqs
  <2>2. (\E i \in DOMAIN Interval(front', back') : Interval(front', back')[i] = h)
          <=> InQueue(h)'
    BY <2>1, IntervalCount DEF InQueue
  <2>3. QED
    BY <1>1, <2>2
<1>3. QED
  BY <1>2, Zenon DEF QueueOwnsUnreleased

\* Only requests already added are queued.
LEMMA QueuedAdded ==
  ASSUME TypeOK, QueueShape, NEW h, InQueue(h)
  PROVE  h \in 1..added
BY DEF TypeOK, QueueShape, Linked, InQueue, Reqs

\* The walks of reqQueue_clearWithError and FileAsyncCtx_free free every
\* queued request once more, and no other.
LEMMA ReleasedAlongQueue ==
  ASSUME TypeOK, QueueShape
  PROVE  \A h \in Reqs : ReleasedAlong(Walk)[h] = released[h] + (IF InQueue(h) THEN 1 ELSE 0)
<1> USE MockAsyncAssumption
<1>1. Walk = Interval(front, back)
  <2>1. front = NULL \/ Linked(front, back, nxt)
    BY DEF QueueShape
  <2>2. QED
    BY <2>1, WalkOfInterval, Zenon DEF Walk
<1>2. front = NULL \/ (front \in Nat /\ back \in Nat)
  BY DEF TypeOK, QueueShape, Reqs
<1>3. ASSUME NEW h \in Reqs
      PROVE  Cardinality({i \in DOMAIN Walk : Walk[i] = h}) = IF InQueue(h) THEN 1 ELSE 0
  <2>1. Cardinality({i \in DOMAIN Interval(front, back) : Interval(front, back)[i] = h})
          = IF InQueue(h) THEN 1 ELSE 0
    BY <1>2, IntervalCount DEF InQueue
  <2>2. QED
    BY <1>1, <2>1
<1>4. ASSUME NEW h \in Reqs
      PROVE  ReleasedAlong(Walk)[h] = released[h] + Cardinality({i \in DOMAIN Walk : Walk[i] = h})
  BY DEF ReleasedAlong
<1>5. QED
  BY <1>3, <1>4

\* The client starts with an empty queue and has freed nothing.
LEMMA InitIInv == Init => IInv
<1> USE MockAsyncAssumption
<1> SUFFICES ASSUME Init PROVE IInv
  OBVIOUS
<1>1. TypeOK
  BY DEF Init, TypeOK, Reqs, States
<1>2. QueueShape
  BY DEF Init, QueueShape
<1>3. InputShape
  BY DEF Init, InputShape
<1>4. QueueOwnsUnreleased
  BY <1>1, <1>2, OwnsByInterval DEF Init, InQueue
<1>5. QED
  BY <1>1, <1>2, <1>3, <1>4 DEF IInv

-----------------------------------------------------------------------------
(***************************************************************************)
(* One lemma per action of Next.                                           *)
(***************************************************************************)
\* addToSendQueue links request added + 1 behind the back, so the run
\* grows by one; the client takes over a request it has not freed.
LEMMA AddIInv ==
  ASSUME IInv, AddToSendQueue
  PROVE  IInv'
<1> USE MockAsyncAssumption DEF IInv
<1> DEFINE r == added + 1
<1>1. r \in Reqs /\ added \in Nat
  BY DEF AddToSendQueue, TypeOK, Reqs
<1>2. /\ front = NULL => front' = r /\ back' = r /\ nxt' = nxt
      /\ front # NULL => front' = front /\ back' = r /\ nxt' = [nxt EXCEPT ![back] = r]
  BY DEF AddToSendQueue, PushBack
<1>0. front # NULL => front \in 1..added /\ back = added /\ Linked(front, back, nxt)
  BY DEF QueueShape, Linked, Reqs
<1>3. TypeOK'
  <2>1. nxt' \in [Reqs -> Reqs \cup {NULL}]
    BY <1>0, <1>1, <1>2 DEF TypeOK, Linked
  <2>2. QED
    BY <1>1, <1>2, <2>1 DEF AddToSendQueue, TypeOK, States, Reqs
<1>4. QueueShape'
  <2>1. CASE front = NULL
    BY <1>1, <1>2, <2>1 DEF AddToSendQueue, QueueShape, Linked, TypeOK, Reqs
  <2>2. CASE front # NULL
    <3>1. nxt' = [nxt EXCEPT ![added] = r] /\ front' = front /\ back' = r
      BY <1>0, <1>2, <2>2
    <3>2. \A i \in front..added : nxt'[i] = i + 1
      <4>1. added \in Reqs /\ front \in 1..added
        BY <1>0, <2>2 DEF TypeOK, Reqs
      <4>2. nxt'[added] = r
        BY <3>1, <4>1 DEF TypeOK
      <4>3. \A i \in front..(added - 1) : nxt'[i] = nxt[i] /\ nxt[i] = i + 1
        BY <1>0, <2>2, <3>1, <4>1 DEF TypeOK, Linked, Reqs
      <4>4. QED
        BY <4>1, <4>2, <4>3 DEF Reqs
    <3>3. \A h \in Reqs : h > added => nxt'[h] = nxt[h]
      BY <1>1, <3>1 DEF TypeOK, Reqs
    <3>4. QED
      BY <1>0, <1>1, <2>2, <3>1, <3>2, <3>3 DEF AddToSendQueue, QueueShape, Linked, Reqs
  <2>3. QED
    BY <2>1, <2>2
<1>5. InputShape'
  BY DEF AddToSendQueue, InputShape
<1>6. \A h \in Reqs : InQueue(h)' <=> InQueue(h) \/ h = r
  <2>1. CASE front = NULL
    BY <1>1, <1>2, <2>1 DEF InQueue
  <2>2. CASE front # NULL
    <3>1. front \in 1..added /\ back = added
      BY <2>2 DEF QueueShape, Linked, Reqs
    <3>2. QED
      BY <1>1, <1>2, <2>2, <3>1 DEF InQueue
  <2>3. QED
    BY <2>1, <2>2
<1>7. QueueOwnsUnreleased'
  <2>1. \A h \in Reqs : released[h] = IF h \in 1..added /\ ~InQueue(h) THEN 1 ELSE 0
    BY OwnsByInterval
  <2>2. \A h \in Reqs : released'[h] = IF h \in 1..added' /\ ~InQueue(h)' THEN 1 ELSE 0
    <3>1. released' = released /\ added' = r
      BY DEF AddToSendQueue
    <3>2. ~InQueue(r)
      BY <1>1, QueuedAdded
    <3>3. QED
      BY <1>1, <1>6, <2>1, <3>1, <3>2 DEF Reqs
  <2>3. QED
    BY <1>3, <1>4, <2>2, OwnsByIntervalNext
<1>8. QED
  BY <1>3, <1>4, <1>5, <1>7

\* A step that leaves the list, the count of requests and the frees alone
\* keeps the queue's shape and its ownership.
LEMMA QueueKept ==
  ASSUME IInv, UNCHANGED <<front, back, nxt, added, released>>
  PROVE  QueueShape' /\ QueueOwnsUnreleased'
<1>1. QueueShape'
  BY DEF IInv, QueueShape, Linked
<1>2. Walk' = Walk
  BY DEF Walk
<1>3. QED
  BY <1>1, <1>2 DEF IInv, QueueOwnsUnreleased

\* The service failing a request waiting for dispatch changes its state
\* only.
LEMMA ServiceFailIInv ==
  ASSUME IInv, NEW h \in Reqs, ServiceFail(h)
  PROVE  IInv'
<1>1. TypeOK'
  BY DEF IInv, ServiceFail, TypeOK, States
<1>2. InputShape'
  BY DEF IInv, ServiceFail, InputShape
<1>3. QED
  BY <1>1, <1>2, QueueKept DEF ServiceFail, IInv

\* setEndpoint is only called between calls of dispatch.
LEMMA SetEndpointIInv ==
  ASSUME IInv, NEW n \in 0..Len(Files), SetEndpoint(n)
  PROVE  IInv'
<1>1. TypeOK'
  BY DEF IInv, SetEndpoint, TypeOK
<1>2. InputShape'
  BY DEF IInv, SetEndpoint, InputShape
<1>3. QED
  BY <1>1, <1>2, QueueKept DEF SetEndpoint, IInv

\* getResponse takes the oldest response, the number of a request.
LEMMA GetResponseIInv ==
  ASSUME IInv, GetResponse
  PROVE  IInv'
<1>1. TypeOK'
  BY DEF IInv, GetResponse, TypeOK, States
<1>2. InputShape'
  BY DEF IInv, GetResponse, InputShape
<1>3. QED
  BY <1>1, <1>2, QueueKept DEF GetResponse, IInv

\* Entering dispatch.
LEMMA DispatchCallIInv ==
  ASSUME IInv, DispatchCall
  PROVE  IInv'
<1>1. TypeOK'
  BY DEF IInv, DispatchCall, TypeOK
<1>2. InputShape'
  BY DEF IInv, DispatchCall, InputShape
<1>3. QED
  BY <1>1, <1>2, QueueKept DEF DispatchCall, IInv

\* The end of the output loop opens the next file only if the endpoint
\* has one left.
LEMMA OutputDoneIInv ==
  ASSUME IInv, OutputDone
  PROVE  IInv'
<1> USE MockAsyncAssumption
<1>1. TypeOK'
  BY DEF IInv, OutputDone, TypeOK
<1>2. InputShape'
  BY DEF IInv, OutputDone, InputShape
<1>3. QED
  BY <1>1, <1>2, QueueKept DEF OutputDone, IInv

\* One iteration of the output loop pops the front: the run loses its first
\* request, and that request is freed for the first time.
LEMMA OutputStepIInv ==
  ASSUME IInv, OutputStep
  PROVE  IInv'
<1> USE MockAsyncAssumption DEF IInv
<1>0. front \in 1..added /\ back = added /\ Linked(front, back, nxt)
  BY DEF OutputStep, QueueShape, Linked, TypeOK, Reqs
<1>1. /\ front' = nxt[front]
      /\ back' = IF front = back THEN NULL ELSE back
      /\ released' = [released EXCEPT ![front] = @ + 1]
      /\ UNCHANGED <<nxt, added>>
  BY DEF OutputStep, PopFront
<1>2. /\ front = back => front' = NULL /\ back' = NULL
      /\ front # back => front' = front + 1 /\ back' = back /\ front + 1 <= back
  BY <1>0, <1>1 DEF Linked, Reqs
<1>3. TypeOK'
  BY <1>0, <1>1, <1>2 DEF OutputStep, TypeOK, States, Reqs, Linked
<1>4. QueueShape'
  BY <1>0, <1>1, <1>2 DEF QueueShape, Linked, TypeOK, Reqs
<1>5. InputShape'
  BY DEF OutputStep, InputShape
<1>6. \A h \in Reqs : InQueue(h)' <=> InQueue(h) /\ h # front
  BY <1>0, <1>2 DEF InQueue, Linked, Reqs
<1>7. QueueOwnsUnreleased'
  <2>1. \A h \in Reqs : released[h] = IF h \in 1..added /\ ~InQueue(h) THEN 1 ELSE 0
    BY OwnsByInterval
  <2>2. InQueue(front)
    BY <1>0 DEF InQueue, Linked
  <2>3. ASSUME NEW h \in Reqs
        PROVE  released'[h] = IF h \in 1..added' /\ ~InQueue(h)' THEN 1 ELSE 0
    <3>1. CASE h = front
      <4>1. released[h] = 0 /\ released'[h] = released[h] + 1
        BY <1>0, <1>1, <2>1, <2>2, <3>1 DEF TypeOK, Reqs
      <4>2. QED
        BY <1>0, <1>1, <1>6, <3>1, <4>1
    <3>2. CASE h # front
      BY <1>1, <1>6, <2>1, <3>2 DEF TypeOK
    <3>3. QED
      BY <3>1, <3>2
  <2>4. QED
    BY <1>3, <1>4, <2>3, OwnsByIntervalNext
<1>8. QED
  BY <1>3, <1>4, <1>5, <1>7

\* After a walk that frees every queued request, every request added has
\* been freed exactly once.
LEMMA ClearReleased ==
  ASSUME IInv, released' = ReleasedAlong(Walk)
  PROVE  /\ released' \in [Reqs -> Nat]
         /\ \A h \in Reqs : released'[h] = IF h \in 1..added THEN 1 ELSE 0
<1> USE DEF IInv
<1>1. \A h \in Reqs : released'[h] = released[h] + (IF InQueue(h) THEN 1 ELSE 0)
  BY ReleasedAlongQueue
<1>2. \A h \in Reqs : released[h] = IF h \in 1..added /\ ~InQueue(h) THEN 1 ELSE 0
  BY OwnsByInterval
<1>3. \A h \in Reqs : released'[h] = IF h \in 1..added THEN 1 ELSE 0
  BY <1>1, <1>2, QueuedAdded
<1>4. released' \in [Reqs -> Nat]
  BY <1>3 DEF ReleasedAlong
<1>5. QED
  BY <1>3, <1>4

\* One KSI_FTLV_fileRead: a directory changes nothing, the end of the file
\* closes it, a truncated TLV fails and clears the queue, and a whole TLV
\* is queued as a response.
LEMMA InputStepIInv ==
  ASSUME IInv, InputStep
  PROVE  IInv'
<1> USE MockAsyncAssumption DEF IInv
<1> DEFINE f == Files[pathCount + 1]
<1>0. /\ pc = "input" /\ pathCount < nofPaths /\ file \in Nat \ {0}
      /\ pathCount + 1 \in 1..Len(Files)
      /\ f.kind \in FileKinds /\ f.items \in Seq(0..MaxReq)
  <2>1. /\ pc = "input" /\ pathCount < nofPaths /\ file \in Nat \ {0}
        /\ pathCount + 1 \in 1..Len(Files)
    BY DEF InputStep, InputShape, TypeOK
  <2>2. f \in [kind : FileKinds, items : Seq(0..MaxReq)]
    <3>1. Files \in [1..Len(Files) -> [kind : FileKinds, items : Seq(0..MaxReq)]]
      BY LenProperties
    <3>2. QED
      BY <2>1, <3>1
  <2>3. QED
    BY <2>1, <2>2
<1>1. CASE f.kind = "DIR"
  <2>1. UNCHANGED vars
    BY <1>1 DEF InputStep
  <2>2. QED
    BY <2>1, QueueKept DEF vars, TypeOK, InputShape
<1>2. CASE f.kind # "DIR" /\ file > Len(f.items)
  <2>1. Cleanup /\ UNCHANGED <<front, back, nxt, state, added, respQueue, nofPaths, released>>
    BY <1>2 DEF InputStep
  <2>2. TypeOK'
    BY <1>0, <2>1 DEF Cleanup, TypeOK
  <2>3. InputShape'
    BY <2>1 DEF Cleanup, InputShape
  <2>4. QED
    BY <2>1, <2>2, <2>3, QueueKept
<1>3. CASE f.kind # "DIR" /\ file <= Len(f.items) /\ ReadFails(f.items[file])
  <2>1. ClearWithError /\ Cleanup /\ UNCHANGED <<added, respQueue, nofPaths>>
    BY <1>0, <1>3 DEF InputStep
  <2>2. /\ released' \in [Reqs -> Nat]
        /\ \A h \in Reqs : released'[h] = IF h \in 1..added THEN 1 ELSE 0
    BY <2>1, ClearReleased DEF ClearWithError
  <2>3. TypeOK'
    BY <1>0, <2>1, <2>2 DEF ClearWithError, Cleanup, TypeOK, States
  <2>4. QueueShape'
    BY <2>1 DEF ClearWithError, QueueShape
  <2>5. InputShape'
    BY <2>1 DEF Cleanup, InputShape
  <2>6. \A h \in Reqs : ~InQueue(h)'
    BY <2>1 DEF ClearWithError, InQueue
  <2>7. QueueOwnsUnreleased'
    BY <2>1, <2>2, <2>3, <2>4, <2>6, OwnsByIntervalNext
  <2>8. QED
    BY <2>3, <2>4, <2>5, <2>7
<1>4. CASE f.kind # "DIR" /\ file <= Len(f.items) /\ ~ReadFails(f.items[file])
  <2>1. /\ respQueue' = Append(respQueue, f.items[file])
        /\ file' = file + 1
        /\ UNCHANGED <<front, back, nxt, state, added, pathCount, nofPaths, pc, res, released>>
    BY <1>0, <1>4 DEF InputStep
  <2>2. f.items[file] \in Reqs
    BY <1>0, <1>4 DEF ReadFails, Truncated, Reqs
  <2>3. TypeOK'
    BY <1>0, <2>1, <2>2 DEF TypeOK
  <2>4. InputShape'
    BY <1>0, <2>1 DEF InputShape
  <2>5. QED
    BY <2>1, <2>3, <2>4, QueueKept
<1>5. Len(f.items) \in Nat
  BY <1>0
<1>6. QED
  BY <1>0, <1>1, <1>2, <1>3, <1>4, <1>5

\* FileAsyncCtx_free frees every queued request and leaves no queue.
LEMMA CtxFreeIInv ==
  ASSUME IInv, CtxFree
  PROVE  IInv'
<1> USE DEF IInv
<1>1. /\ released' \in [Reqs -> Nat]
      /\ \A h \in Reqs : released'[h] = IF h \in 1..added THEN 1 ELSE 0
  BY ClearReleased DEF CtxFree, FileAsyncCtxFree
<1>2. TypeOK'
  BY <1>1 DEF CtxFree, TypeOK
<1>3. QueueShape'
  BY DEF CtxFree, QueueShape
<1>4. InputShape'
  BY DEF CtxFree, InputShape
<1>5. \A h \in Reqs : ~InQueue(h)'
  BY DEF CtxFree, InQueue
<1>6. QueueOwnsUnreleased'
  BY <1>1, <1>2, <1>3, <1>5, OwnsByIntervalNext DEF CtxFree
<1>7. QED
  BY <1>2, <1>3, <1>4, <1>6

\* Every step of the client and its service keeps the invariant.
LEMMA NextIInv == IInv /\ [Next]_vars => IInv'
<1> SUFFICES ASSUME IInv, [Next]_vars PROVE IInv'
  OBVIOUS
<1>1. CASE AddToSendQueue
  BY <1>1, AddIInv
<1>2. CASE \E h \in Reqs : ServiceFail(h)
  BY <1>2, ServiceFailIInv
<1>3. CASE \E n \in 0..Len(Files) : SetEndpoint(n)
  BY <1>3, SetEndpointIInv
<1>4. CASE GetResponse
  BY <1>4, GetResponseIInv
<1>5. CASE DispatchCall
  BY <1>5, DispatchCallIInv
<1>6. CASE OutputStep
  BY <1>6, OutputStepIInv
<1>7. CASE OutputDone
  BY <1>7, OutputDoneIInv
<1>8. CASE InputStep
  BY <1>8, InputStepIInv
<1>9. CASE CtxFree
  BY <1>9, CtxFreeIInv
<1>10. CASE UNCHANGED vars
  BY <1>10, QueueKept DEF vars, IInv, TypeOK, InputShape
<1>11. QED
  BY <1>1, <1>2, <1>3, <1>4, <1>5, <1>6, <1>7, <1>8, <1>9, <1>10 DEF Next, DispatchStep

-----------------------------------------------------------------------------
(***************************************************************************)
(* The invariants.                                                         *)
(***************************************************************************)
\* Every variable of the mock client keeps its type, whatever the service
\* calls and whatever the response files hold.
THEOREM TypeCorrect == Spec => []TypeOK
<1>1. IInv => TypeOK
  BY DEF IInv
<1>2. QED
  BY <1>1, InitIInv, NextIInv, PTL DEF Spec

\* The client frees every request handed to addToSendQueue exactly once,
\* when it leaves the queue by reqQueue_popFront, reqQueue_clearWithError
\* or FileAsyncCtx_free, and never while it is still queued.
THEOREM QueueOwnsUnreleasedHolds == Spec => []QueueOwnsUnreleased
<1>1. IInv => QueueOwnsUnreleased
  BY DEF IInv
<1>2. QED
  BY <1>1, InitIInv, NextIInv, PTL DEF Spec

-----------------------------------------------------------------------------
(***************************************************************************)
(* The linked queue implements the ordered queue of AsyncQueue.            *)
(***************************************************************************)
\* Pushing request bk + 1 behind the run fr..bk appends it.
LEMMA IntervalAppend ==
  ASSUME NEW fr \in Nat, NEW bk \in Nat, fr <= bk
  PROVE  Append(Interval(fr, bk), bk + 1) = Interval(fr, bk + 1)
<1> USE MockAsyncAssumption
<1>1. fr # NULL
  OBVIOUS
<1>2. Interval(fr, bk) = [k \in 1..(bk - fr + 1) |-> fr + k - 1]
      /\ Interval(fr, bk + 1) = [k \in 1..(bk + 1 - fr + 1) |-> fr + k - 1]
  BY <1>1 DEF Interval
<1>3. QED
  BY <1>2

\* Popping the front of the run fr..bk leaves the run fr + 1..bk, or
\* nothing when fr was the back.
LEMMA IntervalTail ==
  ASSUME NEW fr \in Nat, NEW bk \in Nat, fr <= bk
  PROVE  /\ Interval(fr, bk) # << >>
         /\ Tail(Interval(fr, bk)) = IF fr = bk THEN << >> ELSE Interval(fr + 1, bk)
<1> DEFINE run == [k \in 1..(bk - fr + 1) |-> fr + k - 1]
<1> DEFINE rest == [k \in 1..(bk - fr) |-> fr + k]
<1>1. Interval(fr, bk) = run /\ (fr < bk => Interval(fr + 1, bk) = rest)
  BY MockAsyncAssumption DEF Interval
<1>2. run \in Seq(Nat) /\ run # << >> /\ Len(run) = bk - fr + 1
  <2>1. run \in Seq(Nat) /\ Len(run) = bk - fr + 1
    OBVIOUS
  <2>2. QED
    BY <2>1, EmptySeq
<1>3. /\ Tail(run) \in Seq(Nat)
      /\ Len(Tail(run)) = bk - fr
      /\ \A i \in 1..(bk - fr) : Tail(run)[i] = fr + i
  BY <1>2, HeadTailProperties
<1>4. rest \in Seq(Nat) /\ Len(rest) = bk - fr /\ \A i \in 1..(bk - fr) : rest[i] = fr + i
  OBVIOUS
<1>5. Tail(run) = IF fr = bk THEN << >> ELSE rest
  <2>1. CASE fr = bk
    BY <1>3, <2>1, EmptySeq
  <2>2. CASE fr # bk
    BY <1>3, <1>4, <2>2, SeqEqual
  <2>3. QED
    BY <2>1, <2>2
<1>6. CASE fr = bk
  BY <1>1, <1>2, <1>5, <1>6
<1>7. CASE fr < bk
  BY <1>1, <1>2, <1>5, <1>7
<1>8. QED
  BY <1>6, <1>7

\* The walk of a queue of the right shape is its run, in the state before
\* a step and in the state after it.
LEMMA WalkIsRun ==
  ASSUME QueueShape
  PROVE  Walk = Interval(front, back)
<1>1. front = NULL \/ Linked(front, back, nxt)
  BY DEF QueueShape
<1>2. QED
  BY <1>1, WalkOfInterval, Zenon DEF Walk

LEMMA WalkIsRunNext ==
  ASSUME QueueShape'
  PROVE  Walk' = Interval(front', back')
<1>1. front' = NULL \/ Linked(front', back', nxt')
  BY DEF QueueShape
<1>2. QED
  BY <1>1, WalkOfInterval, Zenon DEF Walk

\* A read of a response file either leaves the list alone or, on a
\* truncated TLV, empties it (reqQueue_clearWithError).
LEMMA InputStepQueue ==
  ASSUME IInv, InputStep
  PROVE  \/ UNCHANGED <<front, nxt, added>>
         \/ front' = NULL /\ UNCHANGED added
<1> DEFINE f == Files[pathCount + 1]
<1>1. CASE f.kind = "DIR"
  BY <1>1 DEF InputStep, vars
<1>2. CASE f.kind # "DIR" /\ file > Len(f.items)
  BY <1>2 DEF InputStep
<1>3. CASE f.kind # "DIR" /\ ~(file > Len(f.items)) /\ ReadFails(f.items[file])
  BY <1>3 DEF InputStep, ClearWithError
<1>4. CASE f.kind # "DIR" /\ ~(file > Len(f.items)) /\ ~ReadFails(f.items[file])
  BY <1>4 DEF InputStep
<1>5. QED
  BY <1>1, <1>2, <1>3, <1>4

\* Every step of the client is a step of the ordered queue or leaves the
\* queue and the set of requests handed over as they were: addToSendQueue
\* pushes at the back a request never handed over, an output iteration
\* pops the front, and clearWithError and FileAsyncCtx_free clear it.
LEMMA NextRefines ==
  ASSUME IInv, IInv', [Next]_vars
  PROVE  [AQ!Next]_<<Walk, 1..added>>
<1> USE DEF IInv
<1>1. Walk = Interval(front, back) /\ Walk' = Interval(front', back')
  BY WalkIsRun, WalkIsRunNext
<1>2. ASSUME UNCHANGED <<front, nxt, added>>
      PROVE  [AQ!Next]_<<Walk, 1..added>>
  <2>1. Walk' = Walk
    BY <1>2 DEF Walk
  <2>2. QED
    BY <1>2, <2>1
<1>3. ASSUME front' = NULL, UNCHANGED added
      PROVE  [AQ!Next]_<<Walk, 1..added>>
  <2>1. Walk' = << >>
    BY <1>1, <1>3 DEF QueueShape, Interval
  <2>2. AQ!Clear
    BY <1>3, <2>1 DEF AQ!Clear
  <2>3. QED
    BY <2>2 DEF AQ!Next
<1>4. CASE AddToSendQueue
  <2> DEFINE r == added + 1
  <2>1. r \in Reqs /\ r \notin 1..added /\ 1..added' = (1..added) \cup {r}
    BY <1>4 DEF AddToSendQueue, TypeOK, Reqs
  <2>2. Walk' = Append(Walk, r)
    <3>1. CASE front = NULL
      <4>1. Walk = << >> /\ front' = r /\ back' = r
        BY <1>1, <1>4, <3>1 DEF Interval, AddToSendQueue, PushBack
      <4>2. r # NULL /\ r \in Nat
        BY <2>1, MockAsyncAssumption DEF Reqs
      <4>3. Interval(r, r) = << r >>
        BY <4>2 DEF Interval
      <4>4. QED
        BY <1>1, <4>1, <4>3
    <3>2. CASE front # NULL
      <4>1. front \in 1..added /\ back = added /\ front' = front /\ back' = r
        BY <1>4, <3>2 DEF QueueShape, Linked, TypeOK, Reqs, AddToSendQueue, PushBack
      <4>2. front \in Nat /\ added \in Nat /\ front <= added
        BY <4>1 DEF TypeOK
      <4>3. Append(Interval(front, added), added + 1) = Interval(front, added + 1)
        BY <4>2, IntervalAppend
      <4>4. QED
        BY <1>1, <4>1, <4>3, Zenon
    <3>3. QED
      BY <3>1, <3>2
  <2>3. AQ!PushBack(r)
    BY <2>1, <2>2 DEF AQ!PushBack
  <2>4. QED
    BY <2>1, <2>3 DEF AQ!Next
<1>5. CASE OutputStep
  <2>1. front \in 1..added /\ back = added /\ Linked(front, back, nxt)
    BY <1>5 DEF OutputStep, QueueShape, Linked, TypeOK, Reqs
  <2>2. /\ front = back => front' = NULL /\ back' = NULL
        /\ front # back => front' = front + 1 /\ back' = back /\ front + 1 <= back
        /\ UNCHANGED added
    BY <1>5, <2>1, MockAsyncAssumption DEF OutputStep, PopFront, Linked, Reqs
  <2>3. Walk # << >> /\ Walk' = Tail(Walk)
    <3>1. front \in Nat /\ back \in Nat /\ front <= back
      BY <2>1 DEF Linked, Reqs
    <3>2. /\ Interval(front, back) # << >>
          /\ Tail(Interval(front, back))
               = IF front = back THEN << >> ELSE Interval(front + 1, back)
      BY <3>1, IntervalTail
    <3>3. Interval(NULL, NULL) = << >>
      BY DEF Interval
    <3>4. QED
      BY <1>1, <2>2, <3>2, <3>3
  <2>4. AQ!PopFront
    BY <2>2, <2>3 DEF AQ!PopFront
  <2>5. QED
    BY <2>4 DEF AQ!Next
<1>6. CASE InputStep
  BY <1>2, <1>3, <1>6, InputStepQueue
<1>7. CASE CtxFree
  BY <1>3, <1>7 DEF CtxFree
<1>8. CASE \/ \E h \in Reqs : ServiceFail(h)
           \/ \E n \in 0..Len(Files) : SetEndpoint(n)
           \/ GetResponse \/ DispatchCall \/ OutputDone \/ UNCHANGED vars
  BY <1>2, <1>8 DEF ServiceFail, SetEndpoint, GetResponse, DispatchCall, OutputDone, vars
<1>9. QED
  BY <1>4, <1>5, <1>6, <1>7, <1>8 DEF Next, DispatchStep

\* The linked list of reqQueue_pushBack and reqQueue_popFront, read from
\* the front along next, behaves as the ordered queue with push-back and
\* pop-front: the client's specification implements AsyncQueue's under the
\* mapping queue <- Walk, pushed <- 1..added.
THEOREM QueueRefinementHolds == Spec => QueueRefinement
<1>1. Init => AQ!Init
  <2>1. ASSUME Init PROVE Walk = << >> /\ 1..added = {}
    <3>1. QueueShape
      BY <2>1 DEF Init, QueueShape
    <3>2. QED
      BY <2>1, <3>1, WalkIsRun DEF Init, Interval
  <2>2. QED
    BY <2>1 DEF AQ!Init
<1>2. IInv /\ IInv' /\ [Next]_vars => [AQ!Next]_<<Walk, 1..added>>
  BY NextRefines
<1>3. QED
  BY <1>1, <1>2, InitIInv, NextIInv, PTL DEF Spec, QueueRefinement, AQ!Spec

=============================================================================
