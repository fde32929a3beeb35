-------------------------- MODULE VoteTableProofs --------------------------
(***************************************************************************)
(* Proofs about module VoteTable: the bitmap and the counters of a         *)
(* certificate answer as the function from sender to digest that modules   *)
(* Certificates and Agreement compute with, for every number of replicas,  *)
(* of value slots and of digests.                                          *)
(***************************************************************************)
EXTENDS VoteTable, FiniteSetTheorems, TLAPS

\* TypeOK and LayoutFaithful are inductive together.
TInv == TypeOK /\ LayoutFaithful

Vals == Seq([digest : Digest, count : Nat])

LEMMA ReplicaFinite ==
  /\ IsFiniteSet(Replica)
  /\ Cardinality(Replica) = N
  /\ N \in Nat /\ F \in Nat /\ CertMaxVals \in Nat /\ CertMaxVals >= F + 1
<1>1. N \in Nat /\ F \in Nat /\ CertMaxVals \in Nat /\ CertMaxVals >= F + 1
  BY ConfigAssumption
<1>2. IsFiniteSet(0 .. N - 1) /\ Cardinality(0 .. N - 1) = N
  BY <1>1, FS_Interval
<1>. QED
  BY <1>1, <1>2 DEF Replica

LEMMA VotersFinite ==
  ASSUME NEW t \in [Replica -> Digest \union {NoDigest}], NEW d
  PROVE  /\ Voters(t, d) \subseteq Replica
         /\ IsFiniteSet(Voters(t, d))
         /\ Cardinality(Voters(t, d)) \in Nat
<1>1. Voters(t, d) \subseteq Replica
  BY DEF Voters
<1>. QED
  BY <1>1, ReplicaFinite, FS_Subset, FS_CardinalityType

LEMMA SequenceType ==
  ASSUME NEW S, NEW s \in Seq(S)
  PROVE  DOMAIN s = 1 .. Len(s) /\ Len(s) \in Nat /\ \A i \in DOMAIN s : s[i] \in S
OBVIOUS

LEMMA InitTable == Init => TInv
<1>. SUFFICES ASSUME Init PROVE TInv
  OBVIOUS
<1>1. votes \in [Replica -> Digest \union {NoDigest}] /\ Digests(votes) = {}
  BY DEF Init, EmptyCert, Digests
<1>2. vals = <<>> /\ DOMAIN vals = {} /\ Held = {}
  BY DEF Init, Held
<1>3. TypeOK
  BY <1>1, <1>2, ReplicaFinite DEF Init, TypeOK
<1>4. bmap = {q \in Replica : votes[q] # NoDigest}
  BY DEF Init, EmptyCert
<1>. QED
  BY <1>1, <1>2, <1>3, <1>4 DEF TInv, LayoutFaithful

LEMMA AddTable ==
  ASSUME TInv, NEW q \in Replica, NEW d \in Digest, Add(q, d)
  PROVE  TInv'
<1>0. /\ bmap \subseteq Replica /\ vals \in Vals /\ Len(vals) <= CertMaxVals
      /\ votes \in [Replica -> Digest \union {NoDigest}]
      /\ bmap = {p \in Replica : votes[p] # NoDigest}
      /\ Held = Digests(votes)
      /\ \A i, j \in DOMAIN vals : vals[i].digest = vals[j].digest => i = j
      /\ \A i \in DOMAIN vals : vals[i].count = Cardinality(Voters(votes, vals[i].digest))
  BY DEF TInv, TypeOK, LayoutFaithful, Vals
<1>1. /\ votes[q] = NoDigest /\ votes' = [votes EXCEPT ![q] = d]
      /\ bmap' = bmap \union {q} /\ RoomFor(d)
  BY <1>0 DEF Add
<1>2. /\ votes' \in [Replica -> Digest \union {NoDigest}]
      /\ Digests(votes') = Digests(votes) \union {d}
      /\ Cardinality(Voters(votes', d)) = Cardinality(Voters(votes, d)) + 1
      /\ \A e \in Digest \ {d} : Voters(votes', e) = Voters(votes, e)
      /\ {p \in Replica : votes'[p] # NoDigest} = {p \in Replica : votes[p] # NoDigest} \union {q}
  <2>. NoDigest \notin Digest
    BY DigestAssumption
  <2>1. /\ votes' \in [Replica -> Digest \union {NoDigest}] /\ votes'[q] = d
        /\ \A p \in Replica \ {q} : votes'[p] = votes[p]
    BY <1>0, <1>1
  <2>2. Digests(votes') = Digests(votes) \union {d}
    BY <1>1, <2>1 DEF Digests
  <2>3. Voters(votes', d) = Voters(votes, d) \union {q} /\ q \notin Voters(votes, d)
    BY <1>1, <2>1 DEF Voters
  <2>4. Cardinality(Voters(votes', d)) = Cardinality(Voters(votes, d)) + 1
    <3>1. IsFiniteSet(Voters(votes, d))
      BY <1>0, VotersFinite
    <3>. QED
      BY <2>3, <3>1, FS_AddElement
  <2>5. \A e \in Digest \ {d} : Voters(votes', e) = Voters(votes, e)
    BY <1>1, <2>1 DEF Voters
  <2>6. {p \in Replica : votes'[p] # NoDigest} = {p \in Replica : votes[p] # NoDigest} \union {q}
    BY <1>1, <2>1
  <2>. QED
    BY <2>1, <2>2, <2>4, <2>5, <2>6
<1>3. bmap' \subseteq Replica /\ bmap' = {p \in Replica : votes'[p] # NoDigest}
  BY <1>0, <1>1, <1>2
<1>. SUFFICES /\ vals' \in Vals /\ Len(vals') <= CertMaxVals
              /\ Held' = Digests(votes')
              /\ \A i, j \in DOMAIN vals' : vals'[i].digest = vals'[j].digest => i = j
              /\ \A i \in DOMAIN vals' :
                   vals'[i].count = Cardinality(Voters(votes', vals'[i].digest))
  BY <1>2, <1>3 DEF TInv, TypeOK, LayoutFaithful, Vals
<1>. DEFINE E == [digest : Digest, count : Nat]
<1>t. \A i \in DOMAIN vals : vals[i] \in E
  BY <1>0, SequenceType DEF Vals
<1>4. CASE CountKnown(d)
  <2>1. PICK i \in DOMAIN vals : vals[i].digest = d /\ vals' = [vals EXCEPT ![i].count = @ + 1]
    BY <1>4 DEF CountKnown
  <2>2. vals \in Vals /\ vals[i] \in [digest : Digest, count : Nat]
    BY <1>0, <1>t, <2>1
  <2>3. /\ vals' \in Vals /\ Len(vals') = Len(vals) /\ DOMAIN vals' = DOMAIN vals
        /\ vals'[i].digest = d /\ vals'[i].count = vals[i].count + 1
        /\ \A j \in DOMAIN vals \ {i} : vals'[j] = vals[j]
    BY <2>1, <2>2 DEF Vals
  <2>4. \A j \in DOMAIN vals : vals'[j].digest = vals[j].digest
    BY <2>1, <2>3
  <2>5. Held' = Held /\ d \in Held
    BY <2>1, <2>3, <2>4 DEF Held
  <2>6. \A j \in DOMAIN vals' : vals'[j].count = Cardinality(Voters(votes', vals'[j].digest))
    <3>. TAKE j \in DOMAIN vals'
    <3>1. CASE j = i
      BY <3>1, <1>0, <1>2, <2>1, <2>3
    <3>2. CASE j # i
      <4>1. vals[j] \in E /\ vals[j].digest # d
        BY <1>t, <3>2, <1>0, <2>1, <2>3
      <4>. QED
        BY <3>2, <4>1, <1>0, <1>2, <2>3
    <3>. QED
      BY <3>1, <3>2
  <2>. QED
    BY <1>0, <1>2, <2>3, <2>4, <2>5, <2>6
<1>5. CASE StoreNew(d)
  <2>1. vals' = Append(vals, [digest |-> d, count |-> 1]) /\ d \notin Held
    BY <1>5 DEF StoreNew
  <2>2. vals \in Vals /\ Len(vals) \in Nat /\ DOMAIN vals = 1 .. Len(vals)
    BY <1>0 DEF Vals
  <2>3. /\ vals' \in Vals /\ Len(vals') = Len(vals) + 1 /\ DOMAIN vals' = 1 .. Len(vals) + 1
        /\ vals'[Len(vals) + 1] = [digest |-> d, count |-> 1]
        /\ \A j \in 1 .. Len(vals) : vals'[j] = vals[j]
    BY <2>1, <2>2 DEF Vals
  <2>4. Len(vals') <= CertMaxVals
    BY <1>1, <2>1, <2>2, <2>3, ReplicaFinite DEF RoomFor
  <2>5. \A j \in 1 .. Len(vals) : vals[j].digest \in Held
    BY <2>2 DEF Held
  <2>6. Held' = Held \union {d}
    BY <2>2, <2>3 DEF Held
  <2>7. \A i, j \in DOMAIN vals' : vals'[i].digest = vals'[j].digest => i = j
    <3>1. \A j \in DOMAIN vals' : j \in 1 .. Len(vals) \/ j = Len(vals) + 1
      BY <2>2, <2>3
    <3>. QED
      BY <3>1, <1>0, <2>1, <2>2, <2>3, <2>5
  <2>8. Voters(votes, d) = {}
    BY <1>0, <2>1, DigestAssumption DEF Digests, Voters
  <2>9. \A j \in DOMAIN vals' : vals'[j].count = Cardinality(Voters(votes', vals'[j].digest))
    <3>1. Cardinality(Voters(votes', d)) = 1
      BY <1>2, <2>8, FS_EmptySet
    <3>2. \A j \in 1 .. Len(vals) : vals[j] \in E /\ vals[j].digest # d
      BY <1>t, <2>1, <2>2, <2>5
    <3>3. \A j \in DOMAIN vals' : j \in 1 .. Len(vals) \/ j = Len(vals) + 1
      BY <2>2, <2>3
    <3>. QED
      BY <3>1, <3>2, <3>3, <1>0, <1>2, <2>2, <2>3
  <2>. QED
    BY <1>0, <1>2, <2>3, <2>4, <2>6, <2>7, <2>9
<1>. QED
  BY <1>4, <1>5 DEF Add

LEMMA StepTable == TInv /\ [Next]_vars => TInv'
<1>. SUFFICES ASSUME TInv, [Next]_vars PROVE TInv'
  OBVIOUS
<1>1. CASE Clear
  <2>1. bmap' = {} /\ vals' = <<>> /\ votes' = EmptyCert
    BY <1>1 DEF Clear
  <2>2. votes' \in [Replica -> Digest \union {NoDigest}] /\ Digests(votes') = {}
    BY <2>1 DEF EmptyCert, Digests
  <2>3. DOMAIN vals' = {} /\ Held' = {} /\ Len(vals') = 0
    BY <2>1 DEF Held
  <2>4. bmap' = {q \in Replica : votes'[q] # NoDigest}
    BY <2>1 DEF EmptyCert
  <2>. QED
    BY <2>1, <2>2, <2>3, <2>4, ReplicaFinite DEF TInv, TypeOK, LayoutFaithful
<1>2. CASE \E q \in Replica, d \in Digest : Add(q, d)
  BY <1>2, AddTable
<1>3. CASE UNCHANGED vars
  <2>1. bmap' = bmap /\ vals' = vals /\ votes' = votes
    BY <1>3 DEF vars
  <2>2. Held' = Held
    BY <2>1 DEF Held
  <2>. QED
    BY <2>1, <2>2 DEF TInv, TypeOK, LayoutFaithful
<1>. QED
  BY <1>1, <1>2, <1>3 DEF Next

\* add and clear keep the bitmap, the value slots and their counters in the
\* ranges of their C types.
THEOREM TableTyped == Spec => []TypeOK
<1>1. TInv => TypeOK
  BY DEF TInv
<1>. QED
  BY <1>1, InitTable, StepTable, PTL DEF Spec

\* The layout of prefix##_add and prefix##_clear represents the vote function.
THEOREM Layout == Spec => []LayoutFaithful
<1>1. TInv => LayoutFaithful
  BY DEF TInv
<1>. QED
  BY <1>1, InitTable, StepTable, PTL DEF Spec

-----------------------------------------------------------------------------
(* Quorums *)

\* No more replicas than F faulty ones need.
Bounded == N <= 3 * F + 1

\* There is one stored value for each digest that was voted for.
LEMMA StoredOnce ==
  ASSUME TInv
  PROVE  /\ Len(vals) \in Nat /\ DOMAIN vals = 1 .. Len(vals)
         /\ \A i \in DOMAIN vals : vals[i].digest \in Digest
         /\ Cardinality(Digests(votes)) = Len(vals)
<1>1. /\ Len(vals) \in Nat /\ DOMAIN vals = 1 .. Len(vals)
      /\ \A i \in DOMAIN vals : vals[i] \in [digest : Digest, count : Nat]
  BY SequenceType DEF TInv, TypeOK
<1>. DEFINE f == [i \in 1 .. Len(vals) |-> vals[i].digest]
<1>2. f \in Bijection(1 .. Len(vals), Held)
  <2>1. \A i \in 1 .. Len(vals) : f[i] = vals[i].digest /\ f[i] \in Held
    BY <1>1 DEF Held
  <2>2. f \in [1 .. Len(vals) -> Held]
    BY <2>1
  <2>3. \A i, j \in 1 .. Len(vals) : f[i] = f[j] => i = j
    BY <1>1, <2>1 DEF TInv, LayoutFaithful
  <2>4. \A d \in Held : \E i \in 1 .. Len(vals) : f[i] = d
    BY <1>1, <2>1 DEF Held
  <2>. QED
    BY <2>2, <2>3, <2>4 DEF Bijection, Injection, IsInjective, Surjection
<1>3. IsFiniteSet(1 .. Len(vals)) /\ Cardinality(1 .. Len(vals)) = Len(vals)
  BY <1>1, FS_Interval
<1>4. Cardinality(Held) = Len(vals)
  BY <1>2, <1>3, FS_Bijection DEF ExistsBijection
<1>. QED
  BY <1>1, <1>4 DEF TInv, LayoutFaithful

LEMMA OneWinner ==
  ASSUME Bounded, NEW t \in [Replica -> Digest \union {NoDigest}], NEW d, NEW e,
         Wins(t, d, Threshold), Wins(t, e, Threshold)
  PROVE  d = e
<1>. SUFFICES ASSUME d # e PROVE FALSE
  OBVIOUS
<1>1. Voters(t, d) \intersect Voters(t, e) = {}
  BY DEF Voters
<1>2. Cardinality(Voters(t, d) \union Voters(t, e))
        = Cardinality(Voters(t, d)) + Cardinality(Voters(t, e)) - 0
  BY <1>1, VotersFinite, FS_Union, FS_EmptySet
<1>3. Voters(t, d) \union Voters(t, e) \subseteq Replica
  BY VotersFinite
<1>4. Cardinality(Voters(t, d) \union Voters(t, e)) <= N
  BY <1>3, ReplicaFinite, FS_Subset
<1>. QED
  BY <1>2, <1>4, VotersFinite, ReplicaFinite DEF Wins, Threshold, Bounded

\* The bitmap and the counters answer add and cvalue as the vote function does.
THEOREM Answers == ASSUME Bounded PROVE Spec => []AnswersFaithful
<1>1. ASSUME TInv PROVE AnswersFaithful
  <2>. USE <1>1
  <2>1. /\ votes \in [Replica -> Digest \union {NoDigest}]
        /\ bmap = {q \in Replica : votes[q] # NoDigest}
        /\ Held = Digests(votes)
        /\ \A i \in DOMAIN vals : vals[i].count = Cardinality(Voters(votes, vals[i].digest))
        /\ \A i, j \in DOMAIN vals : vals[i].digest = vals[j].digest => i = j
    BY DEF TInv, TypeOK, LayoutFaithful
  <2>2. ASSUME NEW q \in Replica, NEW d \in Digest
        PROVE  (q \notin bmap /\ RoomFor(d)) <=> HasRoom(votes, q, d)
    BY <2>1, <2>2, StoredOnce DEF RoomFor, HasRoom
  <2>3. ASSUME NEW d \in Digest
        PROVE  CValue(Threshold) = d <=> Wins(votes, d, Threshold)
    <3>. DEFINE W == {i \in DOMAIN vals : vals[i].count >= Threshold}
                k == CHOOSE i \in W : \A j \in W : i <= j
    <3>. d # NoDigest
      BY <2>3, DigestAssumption
    <3>1. \A i \in W : Wins(votes, vals[i].digest, Threshold)
      BY <2>1, StoredOnce, DigestAssumption DEF Wins
    <3>2. \A i, j \in W : i = j
      BY <3>1, <2>1, OneWinner
    <3>3. \A i \in W : k = i
      BY <3>2, StoredOnce
    <3>4. \A i \in W : CValue(Threshold) = vals[i].digest
      BY <3>3 DEF CValue
    <3>5. W = {} => CValue(Threshold) = NoDigest
      BY DEF CValue
    <3>6. ASSUME Wins(votes, d, Threshold) PROVE CValue(Threshold) = d
      <4>1. Voters(votes, d) # {}
        BY <3>6, FS_EmptySet, ReplicaFinite DEF Wins, Threshold
      <4>2. d \in Held
        BY <4>1, <2>1 DEF Voters, Digests
      <4>3. PICK i \in DOMAIN vals : vals[i].digest = d
        BY <4>2 DEF Held
      <4>4. i \in W
        BY <4>3, <3>6, <2>1 DEF Wins
      <4>. QED
        BY <4>3, <4>4, <3>4
    <3>7. ASSUME CValue(Threshold) = d PROVE Wins(votes, d, Threshold)
      <4>1. PICK i \in W : TRUE
        BY <3>5, <3>7
      <4>. QED
        BY <4>1, <3>1, <3>4, <3>7
    <3>. QED
      BY <3>6, <3>7
  <2>. QED
    BY <2>2, <2>3 DEF AnswersFaithful
<1>. QED
  BY <1>1, InitTable, StepTable, PTL DEF Spec

\* Wrong digests cannot keep the right one from its quorum: the pigeonhole
\* argument of handle_commit.
THEOREM Refused == ASSUME Bounded PROVE Spec => []RefusedCannotWin
<1>1. ASSUME TInv PROVE RefusedCannotWin
  <2>. USE <1>1
  <2>1. SUFFICES ASSUME NEW d \in Digest, ~RoomFor(d)
                 PROVE  Cardinality(Voters(votes, d) \union (Replica \ bmap)) < Threshold
    BY DEF RefusedCannotWin
  <2>2. /\ votes \in [Replica -> Digest \union {NoDigest}] /\ bmap \subseteq Replica
        /\ bmap = {q \in Replica : votes[q] # NoDigest}
        /\ Held = Digests(votes)
        /\ \A i, j \in DOMAIN vals : vals[i].digest = vals[j].digest => i = j
    BY DEF TInv, TypeOK, LayoutFaithful
  <2>3. d \notin Held /\ Len(vals) >= CertMaxVals
    BY <2>1, StoredOnce, ReplicaFinite DEF RoomFor
  <2>4. Voters(votes, d) = {}
    BY <2>2, <2>3, DigestAssumption DEF Digests, Voters
  <2>5. \A i \in DOMAIN vals : \E q \in bmap : votes[q] = vals[i].digest
    <3>. TAKE i \in DOMAIN vals
    <3>1. vals[i].digest \in Digests(votes)
      BY <2>2 DEF Held
    <3>. QED
      BY <3>1, <2>2 DEF Digests
  <2>. DEFINE g == [i \in 1 .. Len(vals) |-> CHOOSE q \in bmap : votes[q] = vals[i].digest]
  <2>6. g \in Injection(1 .. Len(vals), bmap)
    <3>1. \A i \in 1 .. Len(vals) : g[i] \in bmap /\ votes[g[i]] = vals[i].digest
      BY <2>5, StoredOnce
    <3>2. DOMAIN vals = 1 .. Len(vals)
      BY StoredOnce
    <3>3. \A i, j \in 1 .. Len(vals) : g[i] = g[j] => i = j
      BY <3>1, <3>2, <2>2
    <3>4. g \in [1 .. Len(vals) -> bmap]
      BY <3>1
    <3>. QED
      BY <3>3, <3>4 DEF Injection, IsInjective
  <2>7. /\ IsFiniteSet(bmap) /\ Cardinality(bmap) \in Nat
        /\ Replica \intersect bmap = bmap
    BY <2>2, ReplicaFinite, FS_Subset, FS_CardinalityType
  <2>8. Cardinality(1 .. Len(vals)) = Len(vals)
    <3>1. Len(vals) \in Nat
      BY StoredOnce
    <3>2. Cardinality(1 .. Len(vals)) = IF 1 > Len(vals) THEN 0 ELSE Len(vals) - 1 + 1
      BY <3>1, FS_Interval
    <3>. QED
      BY <3>1, <3>2
  <2>9. Len(vals) <= Cardinality(bmap)
    BY <2>6, <2>7, <2>8, FS_Injection
  <2>10. Cardinality(Replica \ bmap) = N - Cardinality(bmap)
    BY <2>7, ReplicaFinite, FS_Difference
  <2>11. Voters(votes, d) \union (Replica \ bmap) = Replica \ bmap
    BY <2>4
  <2>. QED
    <3>1. Len(vals) \in Nat
      BY StoredOnce
    <3>2. N - Cardinality(bmap) < Threshold
      BY <3>1, <2>3, <2>7, <2>9, ReplicaFinite DEF Threshold, Bounded
    <3>. QED
      BY <3>2, <2>10, <2>11
<1>. QED
  BY <1>1, InitTable, StepTable, PTL DEF Spec
=============================================================================
