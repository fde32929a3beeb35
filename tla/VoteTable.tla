----------------------------- MODULE VoteTable -----------------------------
(***************************************************************************)
(* The memory layout of one vote certificate of tbft_certificate.c: a      *)
(* bitmap of the senders counted so far and at most CertMaxVals pairs of a *)
(* digest and its number of votes.  add and add_mine change these fields   *)
(* alike.  The history variable `votes' is the function from sender to     *)
(* digest that module Certificates computes with; the invariants say that  *)
(* the layout answers every question as the function does.                 *)
(***************************************************************************)
EXTENDS Certificates, Sequences

CONSTANT Digest      \* what a vote can be for
ASSUME DigestAssumption == NoDigest \notin Digest

VARIABLES
  bmap,    \* senders whose vote was counted
  vals,    \* <<[digest, count], ...>>: val_digests, correct and num_vals
  votes    \* history: the votes that were counted
vars == <<bmap, vals, votes>>

Init ==
  /\ bmap = {}
  /\ vals = <<>>
  /\ votes = EmptyCert

Held == {vals[i].digest : i \in DOMAIN vals}

\* Mutants of RoomFor: one slot too many, one too few.
RoomForOneMore(d) == d \in Held \/ Len(vals) <= CertMaxVals
RoomForOneLess(d) == d \in Held \/ Len(vals) + 1 < CertMaxVals

RoomFor(d) == d \in Held \/ Len(vals) < CertMaxVals

\* The digest is one of the stored values.
CountKnown(d) ==
  \E i \in DOMAIN vals :
    /\ vals[i].digest = d
    /\ \A j \in 1 .. i - 1 : vals[j].digest # d
    /\ vals' = [vals EXCEPT ![i].count = @ + 1]

\* It is a new one and there is a free slot.
StoreNew(d) ==
  /\ d \notin Held
  /\ vals' = Append(vals, [digest |-> d, count |-> 1])

Add(q, d) ==
  /\ q \notin bmap
  /\ RoomFor(d)
  /\ CountKnown(d) \/ StoreNew(d)
  /\ bmap' = bmap \union {q}
  /\ votes' = [votes EXCEPT ![q] = d]

\* Mutant of Clear: the values survive.
ClearSenders == bmap' = {} /\ votes' = EmptyCert /\ UNCHANGED vals

Clear ==
  /\ bmap' = {}
  /\ vals' = <<>>
  /\ votes' = EmptyCert

Next == Clear \/ \E q \in Replica, d \in Digest : Add(q, d)

Spec == Init /\ [][Next]_vars

\* Mutant of CValue: one vote more than a quorum is needed.
CValueLate(threshold) ==
  LET winners == {i \in DOMAIN vals : vals[i].count > threshold}
  IN  IF winners = {} THEN NoDigest
      ELSE vals[CHOOSE i \in winners : \A j \in winners : i <= j].digest

\* cvalue: the first value with a quorum.
CValue(threshold) ==
  LET winners == {i \in DOMAIN vals : vals[i].count >= threshold}
  IN  IF winners = {} THEN NoDigest
      ELSE vals[CHOOSE i \in winners : \A j \in winners : i <= j].digest

-----------------------------------------------------------------------------
(* Properties *)

\* The type invariant; the array of values is never overrun.
TypeOK ==
  /\ bmap \subseteq Replica
  /\ vals \in Seq([digest : Digest, count : Nat])
  /\ Len(vals) <= CertMaxVals
  /\ votes \in [Replica -> Digest \union {NoDigest}]

\* prefix##_add keeps the bitmap and the counters in step: a sender is in the
\* bitmap exactly if its vote is in one counter, digests are stored once, and
\* each counter is the number of senders that voted for its digest.
LayoutFaithful ==
  /\ bmap = {q \in Replica : votes[q] # NoDigest}
  /\ Held = Digests(votes)
  /\ \A i, j \in DOMAIN vals : vals[i].digest = vals[j].digest => i = j
  /\ \A i \in DOMAIN vals : vals[i].count = Cardinality(Voters(votes, vals[i].digest))

\* The two questions asked of a certificate have the answer that the vote
\* function gives: whether a vote would be counted (add), and which digest has
\* a quorum (cvalue).
AnswersFaithful ==
  /\ \A q \in Replica, d \in Digest :
       (q \notin bmap /\ RoomFor(d)) <=> HasRoom(votes, q, d)
  /\ \A d \in Digest : CValue(Threshold) = d <=> Wins(votes, d, Threshold)

\* tbft_replica.c:1300, on Commits that arrive before the Pre_prepare: votes
\* with wrong digests "cannot prevent the correct digest from reaching the
\* 2f+1 quorum".  A digest that is refused for lack of a slot could not have
\* reached it even if every replica still to be heard voted for it.
RefusedCannotWin ==
  \A d \in Digest :
    ~RoomFor(d) =>
      Cardinality(Voters(votes, d) \union (Replica \ bmap)) < Threshold
=============================================================================
