---------------------------- MODULE MCSignature ----------------------------
(***************************************************************************)
(* Model of Signature for TLC: an honest aggregator and calendar over the  *)
(* seconds 0..MaxTime, one document per second, and the blobs they issue.  *)
(***************************************************************************)
EXTENDS Signature

\* The atoms: the documents of seconds 0..2, a foreign document and the
\* two siblings the aggregator adds.  An atom is a pair, never the
\* 4-tuple imprint of a node (HashAssumption).
D0 == <<"atom", "D0">>
D1 == <<"atom", "D1">>
D2 == <<"atom", "D2">>
X  == <<"atom", "X">>
S1 == <<"atom", "S1">>
S2 == <<"atom", "S2">>

MaxTime == 2
MCTimes == 0..MaxTime
MCMaxLevel == 3
MCCalLevel == 255
MCLevelCorrections == 0..1
MCAtoms == {D0, D1, D2, X, S1, S2}
\* A foreign document and the document of second 0.
MCInject == {X, D0}

DocAt(t) == <<D0, D1, D2>>[t + 1]

\* The aggregator's round at second t: two chains, the second ending on
\* level MaxLevel exactly.
Chain1(t) == [input |-> DocAt(t),
              links |-> <<[left |-> TRUE, sib |-> S1, lc |-> 0]>>]
Out1(t) == Aggregate(Chain1(t).links, DocAt(t), 0).h
Chain2(t) == [input |-> Out1(t),
              links |-> <<[left |-> FALSE, sib |-> S2, lc |-> MCMaxLevel - 2]>>]
RoundRootOf(t) == Aggregate(Chain2(t).links, Out1(t), 1).h

\* The calendar tree over the leaves lo..hi: a complete left subtree of
\* the largest power-of-two size, and the rest on the right.
RECURSIVE Tree(_, _)
Tree(lo, hi) ==
  IF lo = hi THEN RoundRootOf(lo)
  ELSE LET hb == HighBit(hi - lo)
       IN  H(Tree(lo, lo + hb - 1), Tree(lo + hb, hi), CalLevel)

\* The calendar chain from leaf t to the root of Tree(lo, hi), leaf first.
RECURSIVE Path(_, _, _)
Path(lo, hi, t) ==
  IF lo = hi THEN <<>>
  ELSE LET hb == HighBit(hi - lo)
       IN  IF t < lo + hb
             THEN Path(lo, lo + hb - 1, t)
                    \o <<[left |-> TRUE, sib |-> Tree(lo + hb, hi)]>>
             ELSE Path(lo + hb, hi, t)
                    \o <<[left |-> FALSE, sib |-> Tree(lo, lo + hb - 1)]>>

GenuineSig(t, p) ==
  << [tag |-> "aggr", rec |-> Chain1(t)],
     [tag |-> "aggr", rec |-> Chain2(t)],
     [tag |-> "cal", rec |-> [pubTime |-> p, aggrTime |-> t,
                              input |-> RoundRootOf(t), links |-> Path(0, p, t)]],
     [tag |-> "calAuth", rec |-> [pubTime |-> p, pubHash |-> Tree(0, p),
                                  signs |-> <<p, Tree(0, p)>>]] >>

PubTimes == 1..MaxTime

\* Every (leaf, publication) pair, and the form without an aggregation
\* time when the two coincide.
MCGenuine ==
  UNION {{GenuineSig(t, p) : t \in 0..p} : p \in PubTimes}
    \cup {[GenuineSig(p, p) EXCEPT ![3].rec.aggrTime = NULL] : p \in PubTimes}

MCSigned == {<<p, Tree(0, p)>> : p \in PubTimes}

MCRoundRoot == [t \in MCTimes |-> RoundRootOf(t)]

RECURSIVE Sub(_)
Sub(h) == IF h \in MCAtoms THEN {h} ELSE {h} \cup Sub(h[2]) \cup Sub(h[3])

MCHashes == MCAtoms \cup UNION {Sub(Tree(0, p)) : p \in PubTimes}

\* No action reads res: it is the output of the call just made.  States
\* that differ only in it have the same successors, and the action
\* properties read res' on each step as it is generated, so TLC may keep
\* one of them.
SigView == <<wire, edits, sig>>

=============================================================================
