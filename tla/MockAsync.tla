----------------------------- MODULE MockAsync -----------------------------
(***************************************************************************)
(* The file-backed asynchronous client of src/test/test_mock_async.c, the *)
(* stand-in for the TCP aggregator client that the async service drives.   *)
(*                                                                         *)
(* The service (not in the repository) is the environment: it adds        *)
(* requests, calls dispatch, takes responses, and may fail a request that  *)
(* waits for dispatch.  dispatch runs in steps, one per iteration of its   *)
(* two loops, so that a loop that never ends can be seen; nothing else     *)
(* runs while it does.  Requests are numbered in the order they are added; *)
(* a response is the number of the request it answers.                    *)
(***************************************************************************)
EXTENDS Naturals, Sequences, FiniteSets

CONSTANTS
  MaxReq,   \* requests the service adds
  Files,    \* the response files of the endpoint, in order
  NULL

\* A file item that is not a whole TLV: KSI_FTLV_fileRead fails on it
\* with some bytes read.
Truncated == 0

FileKinds == {"FILE", "DIR", "MISSING"}

ASSUME MockAsyncAssumption ==
  /\ MaxReq \in Nat
  /\ NULL \notin Nat
  /\ Files \in Seq([kind : FileKinds, items : Seq(0..MaxReq)])

VARIABLES
  front, back,  \* reqQueueFront, reqQueueBack
  nxt,          \* the next field of every handle
  state,        \* the state field of every handle
  added,        \* requests added so far
  respQueue,    \* the response queue
  file,         \* the open file: the item read next, or NULL
  pathCount,    \* files read so far
  nofPaths,     \* files the endpoint has
  pc,           \* where dispatch is: "idle", "output" or "input", or
                \* "freed" once FileAsyncCtx_free has run
  res,          \* status of the last call that returned
  released      \* KSI_AsyncHandle_free calls the client made on each handle

vars == <<front, back, nxt, state, added, respQueue, file, pathCount, nofPaths, pc, res,
          released>>

Reqs == 1..MaxReq

States == {"UNDEFINED", "WAITING_FOR_DISPATCH", "WAITING_FOR_RESPONSE",
           "RESPONSE_RECEIVED", "ERROR"}

TypeOK ==
  /\ front \in Reqs \cup {NULL} /\ back \in Reqs \cup {NULL}
  /\ nxt \in [Reqs -> Reqs \cup {NULL}]
  /\ state \in [Reqs -> States]
  /\ added \in 0..MaxReq
  /\ respQueue \in Seq(Reqs)
  /\ file \in (Nat \ {0}) \cup {NULL}
  /\ pathCount \in 0..Len(Files) /\ nofPaths \in 0..Len(Files)
  /\ pc \in {"idle", "output", "input", "freed"}
  /\ res \in {"OK", "IO_ERROR", NULL}
  /\ released \in [Reqs -> Nat]

\* FileAsyncClient_new through FileAsyncCtx_new: empty queues, no file,
\* no endpoint.  Handles start with next NULL and no state.
Init ==
  /\ front = NULL /\ back = NULL
  /\ nxt = [h \in Reqs |-> NULL]
  /\ state = [h \in Reqs |-> "UNDEFINED"]
  /\ added = 0
  /\ respQueue = << >>
  /\ file = NULL
  /\ pathCount = 0 /\ nofPaths = 0
  /\ pc = "idle"
  /\ res = NULL
  /\ released = [h \in Reqs |-> 0]

\* One step along the list: the next of the last handle joins the walk,
\* unless the walk is empty, has reached a NULL next, or is already
\* MaxReq + 1 long.
Follow(nx, p) ==
  IF p = << >> \/ nx[p[Len(p)]] = NULL \/ Len(p) > MaxReq
    THEN p
    ELSE Append(p, nx[p[Len(p)]])

\* The list from the handle fr along the next fields nx, for at most
\* MaxReq + 1 handles.
WalkOf(fr, nx) ==
  LET w[i \in 0..(MaxReq + 1)] ==
        IF i = 0 THEN IF fr = NULL THEN << >> ELSE << fr >>
                 ELSE Follow(nx, w[i - 1])
  IN  w[MaxReq + 1]

\* The queue as the linked list holds it, read from the front.
Walk == WalkOf(front, nxt)

-----------------------------------------------------------------------------
(***************************************************************************)
(* The request queue.                                                      *)
(***************************************************************************)
\* Faulty variant: back set before back->next, so the new handle points to
\* itself.
PushBackSwapped(h) ==
  /\ back' = h
  /\ IF front # NULL THEN nxt' = [nxt EXCEPT ![h] = h] /\ front' = front
                     ELSE front' = h /\ nxt' = nxt

\* reqQueue_pushBack: the handle's own next is left as it is.
PushBack(h) ==
  /\ back' = h
  /\ IF front # NULL THEN nxt' = [nxt EXCEPT ![back] = h] /\ front' = front
                     ELSE front' = h /\ nxt' = nxt

\* reqQueue_popFront(clientCtx, NULL): the front's next becomes the front,
\* back is cleared when the last handle goes, and the handle is freed
\* (the queue's reference is dropped).  The handle's next is left as it is.
PopFront ==
  /\ front' = nxt[front]
  /\ back' = IF front = back THEN NULL ELSE back
  /\ released' = [released EXCEPT ![front] = @ + 1]
  /\ UNCHANGED nxt

\* addToSendQueue: the service hands over request added + 1.
AddToSendQueue ==
  /\ pc = "idle" /\ added < MaxReq
  /\ added' = added + 1
  /\ state' = [state EXCEPT ![added + 1] = "WAITING_FOR_DISPATCH"]
  /\ PushBack(added + 1)
  /\ UNCHANGED <<respQueue, file, pathCount, nofPaths, pc, res, released>>

\* The service fails a request that waits for dispatch (its send timeout),
\* which dispatch then finds in the queue.
ServiceFail(h) ==
  /\ pc = "idle" /\ state[h] = "WAITING_FOR_DISPATCH"
  /\ state' = [state EXCEPT ![h] = "ERROR"]
  /\ UNCHANGED <<front, back, nxt, added, respQueue, file, pathCount, nofPaths, pc, res,
                 released>>

\* KSITest_MockAsyncService_setEndpoint through setService: count files.
SetEndpoint(count) ==
  /\ pc = "idle"
  /\ nofPaths' = count
  /\ UNCHANGED <<front, back, nxt, state, added, respQueue, file, pathCount, pc, res,
                 released>>

\* getResponse: the oldest response leaves the queue; the service marks the
\* request it answers as received if it waits for one.
GetResponse ==
  /\ pc = "idle" /\ respQueue # << >>
  /\ respQueue' = Tail(respQueue)
  /\ LET h == Head(respQueue) IN
       state' = IF state[h] = "WAITING_FOR_RESPONSE"
                  THEN [state EXCEPT ![h] = "RESPONSE_RECEIVED"] ELSE state
  /\ UNCHANGED <<front, back, nxt, added, file, pathCount, nofPaths, pc, res, released>>

-----------------------------------------------------------------------------
(***************************************************************************)
(* dispatch.                                                               *)
(***************************************************************************)
DispatchCall ==
  /\ pc = "idle"
  /\ pc' = "output"
  /\ UNCHANGED <<front, back, nxt, state, added, respQueue, file, pathCount, nofPaths, res,
                 released>>

\* Faulty variant: a request that no longer waits for dispatch is left at
\* the front (the else branch dropped).
OutputStepNoSkip ==
  /\ pc = "output" /\ front # NULL
  /\ IF state[front] = "WAITING_FOR_DISPATCH"
       THEN /\ state' = [state EXCEPT ![front] = "WAITING_FOR_RESPONSE"]
            /\ PopFront
       ELSE UNCHANGED <<state, front, back, nxt, released>>
  /\ UNCHANGED <<added, respQueue, file, pathCount, nofPaths, pc, res>>

\* One iteration of the output loop: a request waiting for dispatch is
\* sent and waits for its response; any other is just removed.
OutputStep ==
  /\ pc = "output" /\ front # NULL
  /\ state' = IF state[front] = "WAITING_FOR_DISPATCH"
                THEN [state EXCEPT ![front] = "WAITING_FOR_RESPONSE"] ELSE state
  /\ PopFront
  /\ UNCHANGED <<added, respQueue, file, pathCount, nofPaths, pc, res>>

\* The output loop ends.  If a file is left, it is opened: a missing one
\* fails the call, and pathCount stays, so the next dispatch tries it again.
OutputDone ==
  /\ pc = "output" /\ front = NULL
  /\ IF pathCount < nofPaths
       THEN IF Files[pathCount + 1].kind = "MISSING"
              THEN pc' = "idle" /\ res' = "IO_ERROR" /\ UNCHANGED file
              ELSE pc' = "input" /\ file' = 1 /\ UNCHANGED res
       ELSE pc' = "idle" /\ res' = "OK" /\ UNCHANGED file
  /\ UNCHANGED <<front, back, nxt, state, added, respQueue, pathCount, nofPaths, released>>

\* The handles of w freed once for every time w holds them.
ReleasedAlong(w) ==
  [h \in Reqs |-> released[h] + Cardinality({i \in DOMAIN w : w[i] = h})]

\* reqQueue_clearWithError: every request still queued is failed and
\* removed by reqQueue_popFront(clientCtx, NULL); the loop runs until the
\* front is NULL.
ClearWithError ==
  /\ state' = [h \in Reqs |-> IF \E i \in DOMAIN Walk : Walk[i] = h
                               THEN "ERROR" ELSE state[h]]
  /\ front' = NULL /\ back' = NULL
  /\ released' = ReleasedAlong(Walk)
  /\ UNCHANGED nxt

\* Faulty variant: the read's status not tested.
ReadFailsNever(item) == FALSE

\* KSI_FTLV_fileRead fails with bytes read: the item is not a whole TLV.
ReadFails(item) == item = Truncated

\* The cleanup label: the file is closed and counted.
Cleanup ==
  /\ file' = NULL /\ pathCount' = pathCount + 1
  /\ pc' = "idle" /\ res' = "OK"

\* One iteration of the input loop, one KSI_FTLV_fileRead.  A directory
\* opens but reads nothing and never reaches end-of-file; at the end of a
\* file the read fails with no bytes and sets end-of-file; a truncated TLV
\* fails with bytes read; a whole TLV is queued as a response.
InputStep ==
  /\ pc = "input"
  /\ LET f == Files[pathCount + 1] IN
     IF f.kind = "DIR" THEN UNCHANGED vars
     ELSE IF file > Len(f.items)
       THEN /\ Cleanup
            /\ UNCHANGED <<front, back, nxt, state, added, respQueue, nofPaths, released>>
     ELSE IF ReadFails(f.items[file])
       THEN /\ ClearWithError /\ Cleanup
            /\ UNCHANGED <<added, respQueue, nofPaths>>
     ELSE /\ respQueue' = Append(respQueue, f.items[file])
          /\ file' = file + 1
          /\ UNCHANGED <<front, back, nxt, state, added, pathCount, nofPaths, pc, res,
                         released>>

DispatchStep == OutputStep \/ OutputDone \/ InputStep

-----------------------------------------------------------------------------
\* Faulty variant: the loop is an if, so only the front handle is freed.
FileAsyncCtxFreeFrontOnly ==
  /\ released' = ReleasedAlong(SubSeq(Walk, 1, IF Walk = << >> THEN 0 ELSE 1))

\* FileAsyncCtx_free, when the service frees its client between calls:
\* every handle still queued is freed along next, the response queue is
\* freed and the open file closed.  Nothing is called on the client again.
FileAsyncCtxFree ==
  /\ released' = ReleasedAlong(Walk)

CtxFree ==
  /\ pc = "idle"
  /\ FileAsyncCtxFree
  /\ front' = NULL /\ back' = NULL
  /\ respQueue' = << >> /\ file' = NULL
  /\ pc' = "freed"
  /\ UNCHANGED <<nxt, state, added, pathCount, nofPaths, res>>

Next ==
  \/ AddToSendQueue
  \/ \E h \in Reqs : ServiceFail(h)
  \/ \E n \in 0..Len(Files) : SetEndpoint(n)
  \/ GetResponse
  \/ DispatchCall
  \/ DispatchStep
  \/ CtxFree

\* A call of dispatch, once made, runs on: its steps are weakly fair.  The
\* service's calls are not assumed to happen.
Spec == Init /\ [][Next]_vars /\ WF_vars(DispatchStep)

-----------------------------------------------------------------------------
(***************************************************************************)
(* Properties.                                                             *)
(***************************************************************************)

AQ == INSTANCE AsyncQueue WITH Requests <- Reqs, queue <- Walk, pushed <- 1..added

\* The linked list of reqQueue_pushBack and reqQueue_popFront, read from
\* the front along next, behaves as the ordered queue with push-back and
\* pop-front that spec.md describes: every change of front, back or next
\* is one push at the back, one pop at the front, or a clear.
QueueRefinement == AQ!Spec

\* Every call of dispatch returns: its output loop and its input loop end.
DispatchReturns == pc \in {"output", "input"} ~> pc = "idle"

\* The client holds a reference to exactly the handles in its queue: a
\* handle handed over by addToSendQueue is freed once by the client when
\* it leaves the queue (popFront, clearWithError, FileAsyncCtx_free), and
\* never while it is still queued.  After FileAsyncCtx_free every handle
\* handed over has been freed exactly once.
QueueOwnsUnreleased ==
  \A h \in Reqs :
    released[h] = IF h \in 1..added /\ \A i \in DOMAIN Walk : Walk[i] # h
                  THEN 1 ELSE 0

\* When dispatch cannot read a response file (reqQueue_clearWithError is
\* called with the read's error), every request waiting for a response
\* from that endpoint is failed with the error.
ReadErrorReachesRequests ==
  [][pc = "input" /\ Files[pathCount + 1].kind = "FILE"
     /\ file <= Len(Files[pathCount + 1].items)
     /\ Files[pathCount + 1].items[file] = Truncated
       => \A h \in Reqs : state[h] = "WAITING_FOR_RESPONSE" => state'[h] = "ERROR"]_vars

=============================================================================
