----------------------------- MODULE HashChain -----------------------------
(***************************************************************************)
(* The hash-chain engine that ksi_signature.c calls:                       *)
(* KSI_HashChain_aggregate, KSI_HashChain_aggregateCalendar and            *)
(* KSI_HashChain_getCalendarAggregationTime.  Their code is not under      *)
(* src/, so every definition here is modelled from spec.md section 4.2.    *)
(*                                                                         *)
(* Hashing is ideal: the imprint of left || right || level is the term     *)
(* H(left, right, level) itself, so two imprints are equal exactly when    *)
(* they were computed from equal inputs (no collisions).                   *)
(*                                                                         *)
(* Link orientation.  A link with left = TRUE (wire tag 0x07) means the    *)
(* running hash is the left child and the sibling the right one; this is  *)
(* the orientation under which "right links emit 1-bits" (the calendar     *)
(* time rule) and the combination rule describe the same tree.             *)
(***************************************************************************)
EXTENDS Naturals, Sequences

CONSTANTS
  MaxLevel,   \* largest level an aggregation step may produce (a byte: 255)
  CalLevel    \* the level byte of every calendar-tree node

ASSUME LevelAssumption == MaxLevel \in Nat /\ CalLevel \in Nat

\* The imprint of left || right || level.
H(left, right, level) == <<"H", left, right, level>>

\* One aggregation link (spec 4.2): the level grows by the level
\* correction plus one; a level past MaxLevel is an error.
LinkStep(cur, link) ==
  LET lvl == cur.lvl + link.lc + 1 IN
  IF lvl > MaxLevel
    THEN [cur EXCEPT !.ok = FALSE]
    ELSE [ok  |-> TRUE,
          lvl |-> lvl,
          h   |-> IF link.left THEN H(cur.h, link.sib, lvl)
                               ELSE H(link.sib, cur.h, lvl)]

\* KSI_HashChain_aggregate(chain, input, startLevel, ...): the output hash
\* and level of an aggregation chain, or ok = FALSE.  A chain without links
\* is a NULL list in the code and fails the precondition.
Aggregate(links, h0, lvl0) ==
  LET f[i \in 0..Len(links)] ==
        IF i = 0 THEN [ok |-> Len(links) > 0, h |-> h0, lvl |-> lvl0]
        ELSE IF f[i - 1].ok THEN LinkStep(f[i - 1], links[i])
        ELSE f[i - 1]
  IN  f[Len(links)]

\* One calendar link: the same rule with level correction 0 and the
\* fixed calendar level.
CalStep(h, link) ==
  IF link.left THEN H(h, link.sib, CalLevel) ELSE H(link.sib, h, CalLevel)

\* KSI_HashChain_aggregateCalendar(chain, input, &root).
AggregateCalendar(links, h0) ==
  LET f[i \in 0..Len(links)] ==
        IF i = 0 THEN h0 ELSE CalStep(f[i - 1], links[i])
  IN  [ok |-> Len(links) > 0, h |-> f[Len(links)]]

\* The largest power of two not above r (r >= 1).
HighBit(r) == CHOOSE p \in {2^k : k \in 0..r} : p <= r /\ r < 2 * p

\* KSI_HashChain_getCalendarAggregationTime(chain, pubTime, &t): walk the
\* links from the root down keeping r, the index of the last leaf in the
\* current subtree, and t, the first leaf of it.  A left link enters the
\* left (complete) subtree, a right link the right one; the walk must end
\* at a single leaf (r = 0) and never step below one.
CalendarTime(links, pubTime) ==
  LET n == Len(links)
      g[i \in 0..n] ==
        IF i = 0 THEN [ok |-> pubTime \in Nat, r |-> pubTime, t |-> 0]
        ELSE LET s    == g[i - 1]
                 link == links[n - i + 1]
             IN  IF ~s.ok \/ s.r = 0 THEN [s EXCEPT !.ok = FALSE]
                 ELSE IF link.left THEN [s EXCEPT !.r = HighBit(s.r) - 1]
                 ELSE [s EXCEPT !.t = s.t + HighBit(s.r),
                                !.r = s.r - HighBit(s.r)]
  IN  [ok |-> g[n].ok /\ g[n].r = 0, t |-> g[n].t]

=============================================================================
