----------------------------- MODULE AsyncQueue -----------------------------
(***************************************************************************)
(* What the request queue of an asynchronous client promises (spec.md,     *)
(* section 9: the queue threaded through the handles is an ordered         *)
(* sequence with push-back and pop-front, in the order of the source).    *)
(* pushed holds every request ever handed to the queue, so that a request  *)
(* that is handed over must join it.  Clearing the queue, as               *)
(* reqQueue_clearWithError does, is a run of pop-fronts that leaves it     *)
(* empty.                                                                  *)
(***************************************************************************)
EXTENDS Sequences

CONSTANT Requests

VARIABLES queue, pushed

Init == queue = << >> /\ pushed = {}

\* A request never handed over before joins at the back.
PushBack(r) ==
  /\ r \notin pushed
  /\ queue' = Append(queue, r)
  /\ pushed' = pushed \cup {r}

\* The request at the front leaves.
PopFront ==
  /\ queue # << >>
  /\ queue' = Tail(queue)
  /\ UNCHANGED pushed

\* Every request leaves, front first.
Clear ==
  /\ queue' = << >>
  /\ UNCHANGED pushed

Next == (\E r \in Requests : PushBack(r)) \/ PopFront \/ Clear

Spec == Init /\ [][Next]_<<queue, pushed>>

=============================================================================
