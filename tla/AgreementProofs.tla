-------------------------- MODULE AgreementProofs --------------------------
(***************************************************************************)
(* Proofs about module Agreement, for every number of replicas, requests,  *)
(* views, sequence numbers and faulty replicas' claims.                    *)
(*                                                                         *)
(* The inductive invariant says of each correct replica's record s, given  *)
(* the Commits C that every correct replica has sent so far:               *)
(*   - a Commit it sent is for the request its slot still holds, or for a  *)
(*     sequence number at or below its stable checkpoint;                  *)
(*   - hence it never sent two Commits for different requests;             *)
(*   - a vote it counted for a correct replica was really sent by it;      *)
(*   - what it executed was backed by a commit certificate.                *)
(* A handler works on one record and reads the others only through the     *)
(* messages they sent, so each handler is proved on a record alone.        *)
(***************************************************************************)
EXTENDS AgreementLedger, FiniteSetTheorems, WellFoundedInduction, SequenceTheorems, TLAPS

SentIn(C, q, n, d) == \E m \in C[q] : m.seqno = n /\ m.digest = d

Backers(C, n, d) == Faulty \union {q \in Correct : SentIn(C, q, n, d)}

Locked(s) ==
  \A m \in s.commitSent : m.seqno <= s.stable \/ s.pp[m.seqno].digest = m.digest

OneVote(s) ==
  \A m1, m2 \in s.commitSent : m1.seqno = m2.seqno => m1.digest = m2.digest

VotesBacked(s, C) ==
  \A n \in Seqno : \A q \in Correct :
    s.commits[n][q] # NoDigest => SentIn(C, q, n, s.commits[n][q])

LogBacked(s, C) ==
  \A n \in Seqno :
    s.log[n] # NoDigest => Cardinality(Backers(C, n, s.log[n])) >= Threshold

Good(s, r, C) ==
  /\ s \in State
  /\ s.commitSent \subseteq C[r]
  /\ Locked(s)
  /\ OneVote(s)
  /\ VotesBacked(s, C)
  /\ LogBacked(s, C)

Sent == [q \in Correct |-> replica[q].commitSent]

\* The inductive invariant.
IInv == replica \in [Correct -> State] /\ \A r \in Correct : Good(replica[r], r, Sent)

\* The replicas number at most 3F+1 and at most F of them are faulty.
FaultBound == N <= 3 * F + 1 /\ Cardinality(Faulty) <= F

-----------------------------------------------------------------------------
(* Constants and certificates *)

LEMMA ConstantTypes ==
  /\ Replica \subseteq Int /\ Correct \subseteq Replica /\ Faulty \subseteq Replica
  /\ IsFiniteSet(Replica)
  /\ PrepareThreshold \in Nat /\ Threshold \in Nat
  /\ View \subseteq Nat /\ Seqno \subseteq Nat
  /\ NumCkptSlots \in Nat \ {0}
<1>1. IsFiniteSet(Replica)
  BY ConfigAssumption, FS_Interval DEF Replica
<1>2. NumCkptSlots \in Nat \ {0}
  BY ConfigAssumption DEF NumCkptSlots
<1>. QED
  BY <1>1, <1>2, ConfigAssumption, FaultyAssumption, BoundAssumption
  DEF Replica, Correct, PrepareThreshold, Threshold, View, Seqno

LEMMA SlotIndexType == ASSUME NEW n \in Nat PROVE SlotIndex(n) \in 0 .. NumCkptSlots - 1
<1>1. n \div CheckpointInterval \in Int
  BY ConfigAssumption
<1>. QED
  BY <1>1, ConstantTypes DEF SlotIndex

\* A vote changes only the sender's entry, and only to the digest voted for.
LEMMA AddVoteType ==
  ASSUME NEW D, NEW cert \in [Replica -> D \union {NoDigest}], NEW q \in Replica, NEW d \in D
  PROVE  /\ AddVote(cert, q, d) \in [Replica -> D \union {NoDigest}]
         /\ \A p \in Replica : AddVote(cert, q, d)[p] = cert[p]
                               \/ (p = q /\ AddVote(cert, q, d)[p] = d)
BY DEF AddVote

LEMMA LargerType == \A a, b \in Nat : Larger(a, b) \in Nat
BY DEF Larger

\* The next seqno that a replica computes when it adopts a view.
LEMMA NextType ==
  ASSUME NEW s \in State, NEW k \in Nat
  PROVE  Larger(k, Larger(s.stable, Larger(s.prepared, s.executed)) + 1) \in Nat
<1>1. s.stable \in Nat /\ s.prepared \in Nat /\ s.executed \in Nat
  BY DEF State
<1>. DEFINE done == Larger(s.stable, Larger(s.prepared, s.executed))
<1>2. done \in Nat
  BY <1>1, LargerType
<1>. HIDE DEF done
<1>3. Larger(k, done + 1) \in Nat
  BY <1>2, LargerType
<1>. QED
  BY <1>3 DEF done

LEMMA AddVoteCert ==
  ASSUME NEW cert \in Cert, NEW q \in Replica, NEW d \in Request
  PROVE  /\ AddVote(cert, q, d) \in Cert
         /\ \A p \in Replica : AddVote(cert, q, d)[p] = cert[p]
                               \/ (p = q /\ AddVote(cert, q, d)[p] = d)
BY AddVoteType DEF Cert

LEMMA EmptyCertType == ASSUME NEW D PROVE EmptyCert \in [Replica -> D \union {NoDigest}]
BY DEF EmptyCert

-----------------------------------------------------------------------------
(* The steps that handlers share, on one replica's record *)

\* A step that touches none of the fields the invariant reads preserves it.
LEMMA FrameGood ==
  ASSUME NEW s, NEW t \in State, NEW r, NEW C, Good(s, r, C),
         t.stable = s.stable, t.pp = s.pp, t.commits = s.commits,
         t.log = s.log, t.commitSent = s.commitSent
  PROVE  Good(t, r, C)
BY DEF Good, Locked, OneVote, VotesBacked, LogBacked

LEMMA TruncateCkptType ==
  ASSUME NEW region \in [0 .. NumCkptSlots - 1 -> Slot], NEW n \in Nat
  PROVE  TruncateCkpt(region, n) \in [0 .. NumCkptSlots - 1 -> Slot]
BY EmptyCertType DEF TruncateCkpt, EmptySlot, Slot

LEMMA EnterViewGood ==
  ASSUME NEW s, NEW r, NEW C, Good(s, r, C), NEW v \in View
  PROVE  Good(EnterView(s, v), r, C)
<1>1. s \in State
  BY DEF Good
<1>2. EnterView(s, v) \in State
  BY <1>1, TruncateCkptType DEF EnterView, State
<1>. QED
  BY <1>1, <1>2, FrameGood DEF EnterView, State

LEMMA StorePPGood ==
  ASSUME NEW s, NEW r, NEW C, Good(s, r, C),
         NEW n \in Seqno, NEW v \in View, NEW d \in Request, SlotAccepts(s, n, v, d)
  PROVE  Good(StorePP(s, n, v, d), r, C)
<1>. DEFINE t == StorePP(s, n, v, d)
<1>1. s \in State
  BY DEF Good
<1>2. t \in State
  BY <1>1 DEF StorePP, State
<1>3. /\ t.stable = s.stable /\ t.commits = s.commits
      /\ t.log = s.log /\ t.commitSent = s.commitSent
      /\ \A k \in Seqno : k # n => t.pp[k] = s.pp[k]
      /\ t.pp[n].digest = d
  BY <1>1 DEF StorePP, State
<1>4. Locked(t)
  <2>1. SUFFICES ASSUME NEW m \in s.commitSent, m.seqno = n, ~(m.seqno <= s.stable)
                 PROVE  m.digest = d
    BY <1>1, <1>3 DEF Good, Locked, State, Vote
  <2>2. s.pp[n].digest = m.digest /\ m.digest \in Request
    BY <1>1, <2>1 DEF Good, Locked, State, Vote
  <2>3. HasPP(s, n)
    BY <2>2, RequestAssumption DEF HasPP, NoPP
  <2>. QED
    BY <2>2, <2>3 DEF SlotAccepts
<1>. QED
  BY <1>2, <1>3, <1>4 DEF Good, OneVote, VotesBacked, LogBacked

LEMMA SendPrepareGood ==
  ASSUME NEW s, NEW r \in Replica, NEW C, Good(s, r, C), NEW n \in Seqno, NEW d \in Request
  PROVE  Good(SendPrepare(s, r, n, d), r, C)
<1>1. s \in State
  BY DEF Good
<1>2. SendPrepare(s, r, n, d) \in State
  <2>. DEFINE c == AddVote(s.prepares[n], r, d)
              new == [view |-> s.view, seqno |-> n, digest |-> d]
  <2>1. c \in Cert
    BY <1>1, AddVoteType DEF State, Cert
  <2>2. new \in Vote
    BY <1>1 DEF State, Vote
  <2>. HIDE DEF c, new
  <2>3. [s EXCEPT !.prepares[n] = c, !.prepSent = @ \union {new}] \in State
    BY <1>1, <2>1, <2>2 DEF State
  <2>. QED
    BY <2>3 DEF SendPrepare, c, new
<1>. QED
  BY <1>1, <1>2, FrameGood DEF SendPrepare, State

\* The own Commit: in the window, for the request the slot holds.
LEMMA SendCommitFacts ==
  ASSUME NEW s \in State, NEW r \in Correct, NEW n \in Seqno
  PROVE  LET t == SendCommit(s, r, n)
             d == s.pp[n].digest
             new == [view |-> s.view, seqno |-> n, digest |-> d]
         IN  /\ t \in State
             /\ t.stable = s.stable /\ t.pp = s.pp /\ t.log = s.log
             /\ s.commitSent \subseteq t.commitSent
             /\ t = s \/ /\ InWindow(s, n) /\ d \in Request
                         /\ t.commitSent = s.commitSent \union {new}
                         /\ \A k \in Seqno : k # n => t.commits[k] = s.commits[k]
                         /\ \A p \in Replica : t.commits[n][p] = s.commits[n][p]
                                               \/ (p = r /\ t.commits[n][p] = d)
<1>1. CASE ~(InWindow(s, n) /\ HasPP(s, n))
  BY <1>1 DEF SendCommit
<1>2. CASE InWindow(s, n) /\ HasPP(s, n)
  <2>. DEFINE t == SendCommit(s, r, n)
              d == s.pp[n].digest
              c == AddVote(s.commits[n], r, d)
              new == [view |-> s.view, seqno |-> n, digest |-> d]
  <2>1. d \in Request /\ new \in Vote /\ r \in Replica
    BY <1>2, ConstantTypes DEF HasPP, State, Vote
  <2>. HIDE DEF d
  <2>2. c \in Cert /\ \A p \in Replica : c[p] = s.commits[n][p] \/ (p = r /\ c[p] = d)
    <3>1. s.commits[n] \in Cert
      BY DEF State
    <3>. QED
      BY <2>1, <3>1, AddVoteCert
  <2>3. t = [s EXCEPT !.commits[n] = c, !.commitSent = @ \union {new}]
    BY <1>2 DEF SendCommit, d
  <2>. HIDE DEF c, new, t
  <2>4. t \in State
    BY <2>1, <2>2, <2>3 DEF State
  <2>5. /\ t.stable = s.stable /\ t.pp = s.pp /\ t.log = s.log
        /\ t.commitSent = s.commitSent \union {new}
        /\ \A k \in Seqno : k # n => t.commits[k] = s.commits[k]
        /\ t.commits[n] = c
    BY <2>3 DEF State
  <2>. QED
    BY <1>2, <2>1, <2>2, <2>4, <2>5 DEF t, d, new
<1>. QED
  BY <1>1, <1>2

LEMMA SendCommitGood ==
  ASSUME NEW s, NEW r \in Correct, NEW C, Good(s, r, C), NEW n \in Seqno,
         SendCommit(s, r, n).commitSent \subseteq C[r]
  PROVE  Good(SendCommit(s, r, n), r, C)
<1>. DEFINE t == SendCommit(s, r, n)
            d == s.pp[n].digest
            new == [view |-> s.view, seqno |-> n, digest |-> d]
<1>1. s \in State
  BY DEF Good
<1>2. CASE t = s
  BY <1>2
<1>3. CASE t # s
  <2>1. /\ t \in State /\ t.stable = s.stable /\ t.pp = s.pp /\ t.log = s.log
        /\ t.commitSent = s.commitSent \union {new}
        /\ InWindow(s, n)
        /\ \A k \in Seqno : k # n => t.commits[k] = s.commits[k]
        /\ \A p \in Replica : t.commits[n][p] = s.commits[n][p]
                              \/ (p = r /\ t.commits[n][p] = d)
    BY <1>1, <1>3, SendCommitFacts
  <2>2. new.seqno = n /\ new.digest = d /\ t.commitSent \subseteq C[r]
    OBVIOUS
  <2>3. \A m \in s.commitSent : m.seqno = n => m.digest = d
    <3>1. s.stable \in Nat /\ n \in Nat
      BY <1>1, ConstantTypes DEF State
    <3>2. ~(n <= s.stable)
      BY <2>1, <3>1 DEF InWindow
    <3>. QED
      BY <3>2 DEF Good, Locked
  <2>. HIDE DEF t, new
  <2>4. Locked(t) /\ OneVote(t)
    BY <2>1, <2>2, <2>3 DEF Good, Locked, OneVote
  <2>5. SentIn(C, r, n, d)
    BY <2>1, <2>2 DEF SentIn
  <2>6. VotesBacked(t, C)
    <3>1. \A q \in Correct : t.commits[n][q] # NoDigest => SentIn(C, q, n, t.commits[n][q])
      BY <2>1, <2>5, ConstantTypes DEF Good, VotesBacked
    <3>. QED
      BY <2>1, <3>1 DEF Good, VotesBacked
  <2>. QED
    BY <2>1, <2>2, <2>4, <2>6 DEF Good, LogBacked, t
<1>. QED
  BY <1>2, <1>3

LEMMA TruncateGood ==
  ASSUME NEW s, NEW r, NEW C, Good(s, r, C), NEW n \in Nat, s.stable <= n
  PROVE  Good(Truncate(s, n), r, C)
<1>. DEFINE t == Truncate(s, n)
<1>1. s \in State
  BY DEF Good
<1>2. t \in State
  <2>1. TruncateCkpt(s.ckpt, n) \in [0 .. NumCkptSlots - 1 -> Slot]
    BY <1>1, TruncateCkptType DEF State
  <2>2. EmptyCert \in Cert
    BY EmptyCertType DEF Cert
  <2>3. /\ Larger(s.prepared, n) \in Nat /\ Larger(s.executed, n) \in Nat
        /\ (IF s.fill <= n THEN 0 ELSE s.fill) \in Nat
    BY <1>1 DEF Larger, State
  <2>. QED
    BY <1>1, <2>1, <2>2, <2>3 DEF Truncate, State
<1>3. /\ t.stable = n /\ t.log = s.log /\ t.commitSent = s.commitSent
      /\ \A k \in Seqno : t.pp[k] = IF k <= n THEN NoPP ELSE s.pp[k]
      /\ \A k \in Seqno : t.commits[k] = IF k <= n THEN EmptyCert ELSE s.commits[k]
  BY <1>1 DEF Truncate, State
<1>4. Locked(t)
  <2>1. \A m \in s.commitSent : m.seqno \in Seqno /\ m.seqno \in Int
    <3>1. s.commitSent \subseteq Vote
      BY <1>1 DEF State
    <3>2. \A m \in Vote : m.seqno \in Seqno
      BY DEF Vote
    <3>3. Seqno \subseteq Int
      BY ConstantTypes
    <3>. QED
      BY <3>1, <3>2, <3>3
  <2>2. s.stable \in Int
    BY <1>1 DEF State
  <2>. HIDE DEF t
  <2>3. SUFFICES ASSUME NEW m \in s.commitSent, ~(m.seqno <= n)
                 PROVE  t.pp[m.seqno].digest = m.digest
    BY <1>3 DEF Locked
  <2>. QED
    BY <1>3, <2>1, <2>2, <2>3 DEF Good, Locked
<1>5. VotesBacked(t, C)
  BY <1>3, ConstantTypes DEF Good, VotesBacked, EmptyCert
<1>. QED
  BY <1>2, <1>3, <1>4, <1>5 DEF Good, OneVote, LogBacked

LEMMA MayFetchGood ==
  ASSUME NEW s, NEW r, NEW C, Good(s, r, C), NEW n \in Nat, NEW t \in MayFetch(s, n)
  PROVE  Good(t, r, C)
<1>1. s \in State
  BY DEF Good
<1>2. CASE t = s
  BY <1>2
<1>3. CASE t = [s EXCEPT !.fetch = n]
  BY <1>1, <1>3, FrameGood DEF State
<1>. QED
  BY <1>2, <1>3 DEF MayFetch

LEMMA MarkStableGood ==
  ASSUME NEW s, NEW r, NEW C, Good(s, r, C), NEW n \in Nat, NEW t \in MarkStable(s, n)
  PROVE  Good(t, r, C)
<1>1. s.stable \in Nat
  BY DEF Good, State
<1>. QED
  BY <1>1, MayFetchGood, TruncateGood DEF MarkStable

LEMMA StoreCkptType ==
  ASSUME NEW region \in [0 .. NumCkptSlots - 1 -> Slot], NEW n \in Nat,
         NEW q \in Replica, NEW d \in Log
  PROVE  StoreCkpt(region, n, q, d) \in [0 .. NumCkptSlots - 1 -> Slot]
<1>. DEFINE slot == SlotFor(region, n)
            votes == AddVote(slot.votes, q, d)
            new == [slot EXCEPT !.votes = votes, !.present = @ \union {q}]
            best == IF Count(new, d) > Count(new, slot.winning) THEN d ELSE slot.winning
<1>1. slot \in Slot
  BY SlotIndexType, EmptyCertType DEF SlotFor, EmptySlot, Slot
<1>2. votes \in [Replica -> Log \union {NoDigest}]
  BY <1>1, AddVoteType DEF Slot
<1>. HIDE DEF slot, votes
<1>3. best \in Log \union {NoDigest}
  BY <1>1 DEF Slot
<1>. HIDE DEF best
<1>4. [new EXCEPT !.winning = best] \in Slot
  BY <1>1, <1>2, <1>3 DEF Slot
<1>5. [slot EXCEPT !.present = @ \union {q}] \in Slot
  BY <1>1 DEF Slot
<1>6. (IF Counted(region, n, q, d) THEN [new EXCEPT !.winning = best]
       ELSE [slot EXCEPT !.present = @ \union {q}]) \in Slot
  BY <1>4, <1>5
<1>. QED
  BY <1>6 DEF StoreCkpt, slot, votes, best

-----------------------------------------------------------------------------
(* execute_committed *)

LEMMA BackersFinite ==
  ASSUME NEW C, NEW n, NEW d
  PROVE  /\ Backers(C, n, d) \subseteq Replica
         /\ IsFiniteSet(Backers(C, n, d)) /\ Cardinality(Backers(C, n, d)) \in Nat
<1>1. Backers(C, n, d) \subseteq Replica
  BY ConstantTypes DEF Backers
<1>. QED
  BY <1>1, ConstantTypes, FS_Subset, FS_CardinalityType

\* A commit certificate is a quorum of replicas that sent the Commit.
LEMMA CertificateBacked ==
  ASSUME NEW s \in State, NEW C, VotesBacked(s, C), NEW n \in Seqno, NEW d \in Request,
         Wins(s.commits[n], d, Threshold)
  PROVE  Cardinality(Backers(C, n, d)) >= Threshold
<1>1. Voters(s.commits[n], d) \subseteq Backers(C, n, d)
  BY RequestAssumption DEF Voters, Backers, VotesBacked, Correct
<1>2. /\ IsFiniteSet(Voters(s.commits[n], d))
      /\ Cardinality(Voters(s.commits[n], d)) <= Cardinality(Backers(C, n, d))
      /\ Cardinality(Voters(s.commits[n], d)) \in Nat
  BY <1>1, BackersFinite, FS_Subset, FS_CardinalityType
<1>. QED
  BY <1>2, BackersFinite, ConstantTypes DEF Wins

LEMMA RunFacts ==
  ASSUME NEW s \in State
  PROVE  /\ Run(s) \subseteq Seqno
         /\ \A n \in Run(s) : s.pp[n].digest \in Request
                              /\ Wins(s.commits[n], s.pp[n].digest, Threshold)
<1>1. \A n \in Run(s) : n \in Seqno /\ Executable(s, n)
  BY DEF Run, State
<1>. QED
  BY <1>1 DEF Executable, Certified, HasPP, State

LEMMA LogAtType == ASSUME NEW s \in State, NEW n PROVE LogAt(s, n) \in Log
BY RunFacts DEF LogAt, Log, State

LEMMA OwnCkptsType ==
  ASSUME NEW s \in State, NEW r \in Replica
  PROVE  OwnCkpts(s, r) \in [0 .. NumCkptSlots - 1 -> Slot]
<1>1. Due(s) \subseteq Nat
  BY RunFacts, ConstantTypes DEF Due
<1>2. ASSUME NEW i \in 0 .. NumCkptSlots - 1, \E n \in Due(s) : SlotIndex(n) = i
      PROVE  LET n == CHOOSE n \in Due(s) : SlotIndex(n) = i
             IN  StoreCkpt(s.ckpt, n, r, LogAt(s, n))[i] \in Slot
  <2>. DEFINE n == CHOOSE n \in Due(s) : SlotIndex(n) = i
  <2>1. n \in Nat
    BY <1>1, <1>2
  <2>. HIDE DEF n
  <2>2. s.ckpt \in [0 .. NumCkptSlots - 1 -> Slot]
    BY DEF State
  <2>3. StoreCkpt(s.ckpt, n, r, LogAt(s, n)) \in [0 .. NumCkptSlots - 1 -> Slot]
    BY <2>1, <2>2, LogAtType, StoreCkptType
  <2>4. StoreCkpt(s.ckpt, n, r, LogAt(s, n))[i] \in Slot
    BY <2>3
  <2>. QED
    BY <2>4 DEF n
<1>. QED
  BY <1>2 DEF OwnCkpts, State

LEMMA ExecutedGood ==
  ASSUME NEW s, NEW r \in Correct, NEW C, Good(s, r, C), NEW last \in Nat
  PROVE  Good(Executed(s, r, last), r, C)
<1>. DEFINE t == Executed(s, r, last)
            root == IF Due(s) = {} THEN s.root
                    ELSE LogAt(s, CHOOSE n \in Due(s) : \A k \in Due(s) : k <= n)
            announced == {[seqno |-> n, digest |-> LogAt(s, n)] : n \in Due(s)}
            fill == IF /\ last < s.prepared
                       /\ ~(last + 1 \in Seqno /\ Certified(s, last + 1))
                       /\ ~s.inProgress
                    THEN last + 1 ELSE s.fill
<1>1. s \in State /\ r \in Replica
  BY ConstantTypes DEF Good
<1>2. /\ LogAt(s, last) \in Log /\ root \in Log
      /\ announced \subseteq [seqno : Nat, digest : Log]
      /\ fill \in Nat
      /\ OwnCkpts(s, r) \in [0 .. NumCkptSlots - 1 -> Slot]
  <2>1. LogAt(s, last) \in Log /\ root \in Log
    BY <1>1, LogAtType DEF State
  <2>2. announced \subseteq [seqno : Nat, digest : Log]
    <3>1. Due(s) \subseteq Nat
      BY <1>1, RunFacts, ConstantTypes DEF Due
    <3>. QED
      BY <1>1, <3>1, LogAtType
  <2>3. fill \in Nat
    BY <1>1 DEF State
  <2>. QED
    BY <1>1, <2>1, <2>2, <2>3, OwnCkptsType
<1>3. t = [s EXCEPT !.executed = last, !.log = LogAt(s, last), !.root = root,
                    !.ckpt = OwnCkpts(s, r), !.ckptSent = @ \union announced, !.fill = fill]
  BY DEF Executed
<1>. HIDE DEF t, root, announced, fill
<1>4. t \in State
  BY <1>1, <1>2, <1>3 DEF State
<1>5. /\ t.stable = s.stable /\ t.pp = s.pp /\ t.commits = s.commits
      /\ t.commitSent = s.commitSent /\ t.log = LogAt(s, last)
  BY <1>1, <1>3 DEF State
<1>6. LogBacked(t, C)
  <2>1. SUFFICES ASSUME NEW n \in Seqno, LogAt(s, last)[n] # NoDigest
                 PROVE  Cardinality(Backers(C, n, LogAt(s, last)[n])) >= Threshold
    BY <1>5 DEF LogBacked
  <2>2. CASE n \in Run(s) /\ n <= last
    <3>1. LogAt(s, last)[n] = s.pp[n].digest
      BY <2>2 DEF LogAt
    <3>. QED
      BY <1>1, <2>2, <3>1, RunFacts, CertificateBacked DEF Good
  <2>3. CASE ~(n \in Run(s) /\ n <= last)
    BY <2>1, <2>3 DEF LogAt, Good, LogBacked
  <2>. QED
    BY <2>2, <2>3
<1>7. Good(t, r, C)
  BY <1>4, <1>5, <1>6 DEF Good, Locked, OneVote, VotesBacked
<1>. QED
  BY <1>7 DEF t

LEMMA ExecuteCommittedGood ==
  ASSUME NEW s, NEW r \in Correct, NEW C, Good(s, r, C),
         NEW t \in ExecuteCommitted(s, r)
  PROVE  Good(t, r, C)
<1>1. s \in State /\ s.stable \in Nat /\ s.executed \in Nat
  BY DEF Good, State
<1>2. Run(s) \subseteq Nat /\ Due(s) \subseteq Nat
  BY <1>1, RunFacts, ConstantTypes DEF Due
<1>3. Confirmed(s, r) \subseteq Nat /\ Refuted(s, r) \subseteq Nat
  BY <1>2 DEF Confirmed, Refuted, SelfStable
<1>4. PICK m \in {s.stable} \union Confirmed(s, r), last \in {s.executed} \union Run(s) :
        \E e \in {Executed(s, r, last)} \union
                   {[Executed(s, r, last) EXCEPT !.fetch = n] : n \in Refuted(s, r)} :
          t = IF m > s.stable THEN Truncate(e, m) ELSE e
  BY DEF ExecuteCommitted
<1>5. last \in Nat /\ m \in Nat
  BY <1>1, <1>2, <1>3, <1>4
<1>6. Good(Executed(s, r, last), r, C) /\ Executed(s, r, last).stable = s.stable
  BY <1>1, <1>5, ExecutedGood DEF Executed, State
<1>7. PICK e \in {Executed(s, r, last)} \union
                   {[Executed(s, r, last) EXCEPT !.fetch = n] : n \in Refuted(s, r)} :
        t = IF m > s.stable THEN Truncate(e, m) ELSE e
  BY <1>4
<1>8. Good(e, r, C) /\ e.stable = s.stable
  <2>1. CASE e = Executed(s, r, last)
    BY <1>6, <2>1
  <2>2. ASSUME NEW n \in Refuted(s, r), e = [Executed(s, r, last) EXCEPT !.fetch = n]
        PROVE  Good(e, r, C) /\ e.stable = s.stable
    <3>. DEFINE x == Executed(s, r, last)
    <3>1. x \in State /\ e = [x EXCEPT !.fetch = n] /\ n \in Nat
      BY <1>3, <1>6, <2>2 DEF Good
    <3>. HIDE DEF x
    <3>2. /\ e \in State /\ e.stable = x.stable /\ e.pp = x.pp /\ e.commits = x.commits
          /\ e.log = x.log /\ e.commitSent = x.commitSent
      BY <3>1 DEF State
    <3>. QED
      BY <1>6, <3>2, FrameGood DEF x
  <2>. QED
    BY <1>7, <2>1, <2>2
<1>. QED
  BY <1>1, <1>5, <1>7, <1>8, TruncateGood

\* Executing sends no Commit.
LEMMA ExecuteCommittedSent ==
  ASSUME NEW s \in State, NEW r, NEW t \in ExecuteCommitted(s, r)
  PROVE  t.commitSent = s.commitSent
<1>1. \A last : /\ Executed(s, r, last).commitSent = s.commitSent
                /\ DOMAIN Executed(s, r, last) = DOMAIN s
  BY DEF Executed, State
<1>2. \A n, last : LET e == [Executed(s, r, last) EXCEPT !.fetch = n]
                   IN  e.commitSent = s.commitSent /\ DOMAIN e = DOMAIN s
  BY <1>1 DEF State
<1>3. \A e, m : DOMAIN e = DOMAIN s /\ e.commitSent = s.commitSent
                => Truncate(e, m).commitSent = s.commitSent
  BY DEF Truncate, State
<1>4. PICK m, last, e : /\ \/ e = Executed(s, r, last)
                           \/ \E n : e = [Executed(s, r, last) EXCEPT !.fetch = n]
                        /\ t = e \/ t = Truncate(e, m)
  <2>1. PICK m \in {s.stable} \union Confirmed(s, r), last \in {s.executed} \union Run(s) :
          \E e \in {Executed(s, r, last)} \union
                     {[Executed(s, r, last) EXCEPT !.fetch = n] : n \in Refuted(s, r)} :
            t = IF m > s.stable THEN Truncate(e, m) ELSE e
    BY DEF ExecuteCommitted
  <2>. QED
    BY <2>1
<1>5. DOMAIN e = DOMAIN s /\ e.commitSent = s.commitSent
  BY <1>1, <1>2, <1>4
<1>. QED
  BY <1>3, <1>4, <1>5

-----------------------------------------------------------------------------
(* The handlers *)

LEMMA ProposeGood ==
  ASSUME NEW s, NEW r \in Correct, NEW C, Good(s, r, C), NEW d \in Request,
         CanPropose(s, r, d)
  PROVE  /\ Good(ProposeRequest(s, r, d), r, C)
         /\ ProposeRequest(s, r, d).commitSent = s.commitSent
<1>. DEFINE sent == SendPrepare(StorePP(s, s.seqno, s.view, d), r, s.seqno, d)
            new == [view |-> s.view, seqno |-> s.seqno, digest |-> d]
            t == ProposeRequest(s, r, d)
<1>1. s \in State /\ s.seqno \in Seqno /\ s.view \in View /\ new \in Vote /\ r \in Replica
  BY ConstantTypes DEF Good, CanPropose, State, Vote
<1>2. Good(StorePP(s, s.seqno, s.view, d), r, C)
  BY <1>1, StorePPGood DEF CanPropose
<1>3. Good(sent, r, C)
  BY <1>1, <1>2, SendPrepareGood
<1>4. sent.seqno = s.seqno /\ sent.commitSent = s.commitSent
  BY <1>1 DEF SendPrepare, StorePP, State
<1>5. t = [sent EXCEPT !.ppSent = @ \union {new}, !.seqno = @ + 1]
  BY DEF ProposeRequest
<1>. HIDE DEF sent, t, new
<1>6. sent \in State /\ sent.seqno + 1 \in Nat
  <2>1. sent \in State
    BY <1>3 DEF Good
  <2>2. s.seqno \in Nat
    BY <1>1 DEF State
  <2>. QED
    BY <1>4, <2>1, <2>2
<1>7. t \in State
  BY <1>1, <1>5, <1>6 DEF State
<1>8. /\ t.stable = sent.stable /\ t.pp = sent.pp /\ t.commits = sent.commits
      /\ t.log = sent.log /\ t.commitSent = sent.commitSent
  BY <1>5, <1>6 DEF State
<1>. QED
  BY <1>3, <1>4, <1>7, <1>8, FrameGood DEF t

LEMMA PrePrepareGood ==
  ASSUME NEW s, NEW r \in Correct, NEW C, Good(s, r, C), NEW v \in View, NEW n \in Seqno,
         NEW d \in Request \union {NoDigest}
  PROVE  /\ Good(HandlePrePrepare(s, r, v, n, d), r, C)
         /\ HandlePrePrepare(s, r, v, n, d).commitSent = s.commitSent
<1>. DEFINE entered == [EnterView(s, v) EXCEPT !.prepared = Larger(@, s.stable),
                                               !.executed = Larger(@, s.stable)]
            here == IF v > s.view THEN entered ELSE s
            pp == StorePP(here, n, v, d)
            stored == [pp EXCEPT !.seqno = Larger(@, n + 1)]
<1>1. s \in State /\ r \in Replica /\ n + 1 \in Nat
  BY ConstantTypes DEF Good
<1>2. Good(entered, r, C) /\ entered.commitSent = s.commitSent
  <2>. DEFINE x == EnterView(s, v)
  <2>1. Good(x, r, C) /\ x.commitSent = s.commitSent
    BY <1>1, EnterViewGood DEF EnterView, State
  <2>2. x \in State /\ Larger(x.prepared, s.stable) \in Nat /\ Larger(x.executed, s.stable) \in Nat
    BY <1>1, <2>1 DEF Good, State, Larger
  <2>. HIDE DEF x
  <2>3. /\ entered \in State /\ entered.stable = x.stable /\ entered.pp = x.pp
        /\ entered.commits = x.commits /\ entered.log = x.log
        /\ entered.commitSent = x.commitSent
    BY <2>2 DEF State, x
  <2>. QED
    BY <2>1, <2>3, FrameGood
<1>3. Good(here, r, C) /\ here.commitSent = s.commitSent /\ here \in State
  BY <1>2 DEF Good
<1>. HIDE DEF here
<1>4. CASE d = NoDigest \/ ~SlotAccepts(here, n, v, d)
  BY <1>3, <1>4 DEF HandlePrePrepare, here
<1>5. CASE d \in Request /\ SlotAccepts(here, n, v, d)
  <2>1. Good(pp, r, C)
    BY <1>3, <1>5, StorePPGood
  <2>2. pp \in State /\ Larger(pp.seqno, n + 1) \in Nat /\ pp.commitSent = s.commitSent
    BY <1>1, <1>3, <2>1 DEF Good, State, Larger, StorePP
  <2>. HIDE DEF pp
  <2>3. /\ stored \in State /\ stored.stable = pp.stable /\ stored.pp = pp.pp
        /\ stored.commits = pp.commits /\ stored.log = pp.log
        /\ stored.commitSent = pp.commitSent
    BY <2>2 DEF State
  <2>4. Good(stored, r, C) /\ stored.commitSent = s.commitSent
    BY <2>1, <2>2, <2>3, FrameGood
  <2>. HIDE DEF stored
  <2>5. /\ Good(SendPrepare(stored, r, n, d), r, C)
        /\ SendPrepare(stored, r, n, d).commitSent = s.commitSent
    BY <1>1, <1>5, <2>3, <2>4, SendPrepareGood DEF SendPrepare, State
  <2>. QED
    BY <1>5, <2>4, <2>5, RequestAssumption DEF HandlePrePrepare, here, pp, stored
<1>. QED
  BY <1>4, <1>5

LEMMA PrepareGood ==
  ASSUME NEW s, NEW r \in Correct, NEW C, Good(s, r, C), NEW q \in Replica, NEW n \in Seqno,
         NEW d \in Request, NEW t \in HandlePrepare(s, r, q, n, d), t.commitSent \subseteq C[r]
  PROVE  Good(t, r, C) /\ s.commitSent \subseteq t.commitSent
<1>. DEFINE c == AddVote(s.prepares[n], q, d)
            added == [s EXCEPT !.prepares[n] = AddVote(@, q, d)]
            prep == [added EXCEPT !.prepared = Larger(@, n)]
            sent == IF prep.commits[n][r] = NoDigest THEN SendCommit(prep, r, n) ELSE prep
<1>1. s \in State /\ n \in Nat
  BY ConstantTypes DEF Good
<1>2. added \in State /\ Good(added, r, C) /\ added.commitSent = s.commitSent
  <2>1. c \in Cert
    BY <1>1, AddVoteType DEF State, Cert
  <2>2. added = [s EXCEPT !.prepares[n] = c]
    OBVIOUS
  <2>. HIDE DEF c, added
  <2>3. /\ added \in State /\ added.stable = s.stable /\ added.pp = s.pp
        /\ added.commits = s.commits /\ added.log = s.log /\ added.commitSent = s.commitSent
    BY <1>1, <2>1, <2>2 DEF State
  <2>. QED
    BY <2>3, FrameGood
<1>. HIDE DEF added
<1>3. prep \in State /\ Good(prep, r, C) /\ prep.commitSent = s.commitSent
  <2>1. Larger(added.prepared, n) \in Nat
    BY <1>1, <1>2 DEF State, Larger
  <2>2. /\ prep \in State /\ prep.stable = added.stable /\ prep.pp = added.pp
        /\ prep.commits = added.commits /\ prep.log = added.log
        /\ prep.commitSent = added.commitSent
    BY <1>2, <2>1 DEF State
  <2>. QED
    BY <1>2, <2>2, FrameGood
<1>. HIDE DEF prep
<1>4. sent \in State /\ s.commitSent \subseteq sent.commitSent
  BY <1>3, SendCommitFacts
<1>5. ASSUME sent.commitSent \subseteq C[r] PROVE Good(sent, r, C)
  BY <1>3, <1>5, SendCommitGood
<1>. HIDE DEF sent
<1>6. \/ t = added
      \/ t \in ExecuteCommitted(sent, r)
      \/ t = sent
  BY DEF HandlePrepare, added, prep, sent
<1>7. CASE t = added
  BY <1>2, <1>7
<1>8. CASE t \in ExecuteCommitted(sent, r)
  <2>1. t.commitSent = sent.commitSent
    BY <1>4, <1>8, ExecuteCommittedSent
  <2>. QED
    BY <1>4, <1>5, <1>8, <2>1, ExecuteCommittedGood
<1>9. CASE t = sent
  BY <1>4, <1>5, <1>9
<1>. QED
  BY <1>6, <1>7, <1>8, <1>9

\* A Commit of a correct replica is counted only if that replica sent it.
LEMMA CountCommitGood ==
  ASSUME NEW s, NEW r \in Correct, NEW C, Good(s, r, C), NEW q \in Replica, NEW n \in Seqno,
         NEW d \in Request, q \in Correct => SentIn(C, q, n, d)
  PROVE  LET t == [s EXCEPT !.commits[n] = AddVote(@, q, d)]
         IN  t \in State /\ Good(t, r, C) /\ t.commitSent = s.commitSent
<1>. DEFINE c == AddVote(s.commits[n], q, d)
            t == [s EXCEPT !.commits[n] = AddVote(@, q, d)]
<1>1. s \in State /\ s.commits[n] \in [Replica -> Request \union {NoDigest}]
  BY DEF Good, State, Cert
<1>2. c \in Cert /\ \A p \in Replica : c[p] = s.commits[n][p] \/ (p = q /\ c[p] = d)
  <2>1. s.commits[n] \in Cert
    BY <1>1 DEF State
  <2>. QED
    BY <2>1, AddVoteCert
<1>3. t = [s EXCEPT !.commits[n] = c]
  OBVIOUS
<1>. HIDE DEF c, t
<1>4. /\ t \in State /\ t.stable = s.stable /\ t.pp = s.pp /\ t.log = s.log
      /\ t.commitSent = s.commitSent /\ t.commits[n] = c
      /\ \A k \in Seqno : k # n => t.commits[k] = s.commits[k]
  BY <1>1, <1>2, <1>3 DEF State
<1>5. \A p \in Correct : c[p] # NoDigest => SentIn(C, p, n, c[p])
  BY <1>2, ConstantTypes DEF Good, VotesBacked
<1>6. VotesBacked(t, C)
  BY <1>4, <1>5 DEF Good, VotesBacked
<1>7. Good(t, r, C)
  BY <1>4, <1>6 DEF Good, Locked, OneVote, LogBacked
<1>. QED
  BY <1>4, <1>7 DEF t

LEMMA CommitGood ==
  ASSUME NEW s, NEW r \in Correct, NEW C, Good(s, r, C), NEW q \in Replica, NEW n \in Seqno,
         NEW d \in Request, q \in Correct => SentIn(C, q, n, d),
         NEW t \in HandleCommit(s, r, q, n, d), t.commitSent \subseteq C[r]
  PROVE  Good(t, r, C) /\ s.commitSent \subseteq t.commitSent
<1>. DEFINE added == [s EXCEPT !.commits[n] = AddVote(@, q, d)]
<1>1. added \in State /\ Good(added, r, C) /\ added.commitSent = s.commitSent
  BY CountCommitGood
<1>. HIDE DEF added
<1>2. PICK u \in {added, SendCommit(added, r, n)} : t = u \/ t \in ExecuteCommitted(u, r)
  BY DEF HandleCommit, added
<1>3. u \in State /\ s.commitSent \subseteq u.commitSent
  BY <1>1, <1>2, SendCommitFacts
<1>4. t.commitSent = u.commitSent
  BY <1>2, <1>3, ExecuteCommittedSent
<1>5. Good(u, r, C)
  BY <1>1, <1>2, <1>4, SendCommitGood
<1>. QED
  BY <1>2, <1>3, <1>4, <1>5, ExecuteCommittedGood

LEMMA MarkStableSent ==
  ASSUME NEW s \in State, NEW n \in Nat, NEW t \in MarkStable(s, n)
  PROVE  t.commitSent = s.commitSent
<1>1. Truncate(s, n).commitSent = s.commitSent
  BY DEF Truncate, State
<1>2. \A u \in MayFetch(s, n) : u.commitSent = s.commitSent
  BY DEF MayFetch, State
<1>. QED
  BY <1>1, <1>2 DEF MarkStable

LEMMA CheckpointGood ==
  ASSUME NEW s, NEW r, NEW C, Good(s, r, C), NEW q \in Replica, NEW n \in Nat,
         NEW d \in Log, NEW t \in HandleCheckpoint(s, q, n, d)
  PROVE  Good(t, r, C) /\ t.commitSent = s.commitSent
<1>. DEFINE region == StoreCkpt(s.ckpt, n, q, d)
            stored == [s EXCEPT !.ckpt = region]
<1>1. s \in State
  BY DEF Good
<1>2. region \in [0 .. NumCkptSlots - 1 -> Slot]
  BY <1>1, StoreCkptType DEF State
<1>3. stored = [s EXCEPT !.ckpt = StoreCkpt(@, n, q, d)]
  OBVIOUS
<1>4. t = stored \/ t \in MarkStable(stored, n)
  BY <1>3 DEF HandleCheckpoint
<1>. HIDE DEF region
<1>5. /\ stored \in State /\ stored.stable = s.stable /\ stored.pp = s.pp
      /\ stored.commits = s.commits /\ stored.log = s.log /\ stored.commitSent = s.commitSent
  BY <1>1, <1>2 DEF State
<1>. HIDE DEF stored
<1>6. Good(stored, r, C)
  BY <1>5, FrameGood
<1>. QED
  BY <1>4, <1>5, <1>6, MarkStableGood, MarkStableSent

LEMMA ResendFacts ==
  ASSUME NEW s \in State, NEW r \in Correct, NEW le \in Nat
  PROVE  LET t == ResendCommits(s, r, le)
         IN  /\ t \in State
             /\ t.stable = s.stable /\ t.pp = s.pp /\ t.log = s.log
             /\ s.commitSent \subseteq t.commitSent
             /\ \A m \in t.commitSent \ s.commitSent :
                  s.stable < m.seqno /\ m.digest = s.pp[m.seqno].digest
             /\ \A n \in Seqno : \A p \in Replica :
                  \/ t.commits[n][p] = s.commits[n][p]
                  \/ /\ p = r /\ t.commits[n][p] = s.pp[n].digest
                     /\ \E m \in t.commitSent : m.seqno = n /\ m.digest = s.pp[n].digest
<1>. DEFINE range == {n \in Seqno : le < n /\ n <= s.executed /\ InWindow(s, n) /\ HasPP(s, n)}
            msg(n) == [view |-> s.view, seqno |-> n, digest |-> s.pp[n].digest]
            msgs == {msg(n) : n \in range}
            certs == [n \in Seqno |-> IF n \in range THEN AddVote(s.commits[n], r, s.pp[n].digest)
                                      ELSE s.commits[n]]
            t == ResendCommits(s, r, le)
<1>1. \A n \in range : /\ n \in Seqno /\ s.stable < n /\ s.pp[n].digest \in Request
                       /\ msg(n) \in Vote
  BY DEF InWindow, HasPP, State, Vote
<1>2. msgs \subseteq Vote /\ \A n \in range : msg(n) \in msgs
  BY <1>1
<1>3. \A n \in range : \A p \in Replica :
        /\ AddVote(s.commits[n], r, s.pp[n].digest) \in Cert
        /\ \/ AddVote(s.commits[n], r, s.pp[n].digest)[p] = s.commits[n][p]
           \/ (p = r /\ AddVote(s.commits[n], r, s.pp[n].digest)[p] = s.pp[n].digest)
  <2>1. SUFFICES ASSUME NEW n \in range, NEW p \in Replica
                 PROVE  /\ AddVote(s.commits[n], r, s.pp[n].digest) \in Cert
                        /\ \/ AddVote(s.commits[n], r, s.pp[n].digest)[p] = s.commits[n][p]
                           \/ (p = r /\ AddVote(s.commits[n], r, s.pp[n].digest)[p]
                                          = s.pp[n].digest)
    OBVIOUS
  <2>. DEFINE d == s.pp[n].digest
  <2>2. d \in Request /\ s.commits[n] \in Cert /\ r \in Replica
    BY <1>1, ConstantTypes DEF State
  <2>. HIDE DEF d
  <2>3. /\ AddVote(s.commits[n], r, d) \in Cert
        /\ AddVote(s.commits[n], r, d)[p] = s.commits[n][p]
           \/ (p = r /\ AddVote(s.commits[n], r, d)[p] = d)
    BY <2>2, AddVoteCert
  <2>. QED
    BY <2>3 DEF d
<1>4. certs \in [Seqno -> Cert]
  <2>1. \A n \in Seqno : s.commits[n] \in Cert
    BY DEF State
  <2>2. Replica # {}
    BY ConstantTypes
  <2>. QED
    BY <1>3, <2>1, <2>2
<1>5. t = [s EXCEPT !.commits = certs, !.commitSent = @ \union msgs]
  BY DEF ResendCommits
<1>. HIDE DEF t, certs, msgs
<1>6. /\ t \in State /\ t.stable = s.stable /\ t.pp = s.pp /\ t.log = s.log
      /\ t.commitSent = s.commitSent \union msgs /\ t.commits = certs
  BY <1>2, <1>4, <1>5 DEF State
<1>7. \A m \in msgs : s.stable < m.seqno /\ m.digest = s.pp[m.seqno].digest
  BY <1>1 DEF msgs
<1>8. \A n \in Seqno : \A p \in Replica :
        \/ certs[n][p] = s.commits[n][p]
        \/ p = r /\ certs[n][p] = s.pp[n].digest /\ n \in range
  BY <1>3 DEF certs
<1>9. \A n \in range : msg(n).seqno = n /\ msg(n).digest = s.pp[n].digest
  OBVIOUS
<1>. HIDE DEF range, msg
<1>. QED
  BY <1>2, <1>6, <1>7, <1>8, <1>9 DEF t

LEMMA ResendGood ==
  ASSUME NEW s, NEW r \in Correct, NEW C, Good(s, r, C), NEW le \in Nat,
         ResendCommits(s, r, le).commitSent \subseteq C[r]
  PROVE  Good(ResendCommits(s, r, le), r, C)
<1>. DEFINE t == ResendCommits(s, r, le)
<1>1. s \in State /\ s.stable \in Nat
  BY DEF Good, State
<1>2. /\ t \in State /\ t.stable = s.stable /\ t.pp = s.pp /\ t.log = s.log
      /\ s.commitSent \subseteq t.commitSent /\ t.commitSent \subseteq C[r]
      /\ \A m \in t.commitSent \ s.commitSent :
           s.stable < m.seqno /\ m.digest = s.pp[m.seqno].digest
      /\ \A n \in Seqno : \A p \in Replica :
           \/ t.commits[n][p] = s.commits[n][p]
           \/ /\ p = r /\ t.commits[n][p] = s.pp[n].digest
              /\ \E m \in t.commitSent : m.seqno = n /\ m.digest = s.pp[n].digest
  BY <1>1, ResendFacts
<1>. HIDE DEF t
<1>3. \A m \in t.commitSent : m.seqno \in Nat
  <2>1. t.commitSent \subseteq Vote
    BY <1>2 DEF State
  <2>2. \A m \in Vote : m.seqno \in Seqno
    BY DEF Vote
  <2>. QED
    BY <2>1, <2>2, ConstantTypes
<1>4. Locked(t)
  BY <1>2 DEF Good, Locked
<1>5. \A m \in t.commitSent : ~(m.seqno <= s.stable) => m.digest = s.pp[m.seqno].digest
  BY <1>1, <1>2, <1>3 DEF Good, Locked
<1>6. OneVote(t)
  <2>1. SUFFICES ASSUME NEW m1 \in t.commitSent, NEW m2 \in t.commitSent, m1.seqno = m2.seqno
                 PROVE  m1.digest = m2.digest
    BY DEF OneVote
  <2>2. CASE m1.seqno <= s.stable
    <3>1. m1 \in s.commitSent /\ m2 \in s.commitSent
      BY <1>1, <1>2, <1>3, <2>1, <2>2
    <3>. QED
      BY <2>1, <3>1 DEF Good, OneVote
  <2>3. CASE ~(m1.seqno <= s.stable)
    BY <1>5, <2>1, <2>3
  <2>. QED
    BY <2>2, <2>3
<1>7. VotesBacked(t, C)
  <2>1. SUFFICES ASSUME NEW n \in Seqno, NEW p \in Correct, t.commits[n][p] # NoDigest
                 PROVE  SentIn(C, p, n, t.commits[n][p])
    BY DEF VotesBacked
  <2>2. CASE t.commits[n][p] = s.commits[n][p]
    BY <2>1, <2>2 DEF Good, VotesBacked
  <2>3. CASE t.commits[n][p] # s.commits[n][p]
    BY <1>2, <2>3, ConstantTypes DEF SentIn
  <2>. QED
    BY <2>2, <2>3
<1>. QED
  BY <1>2, <1>4, <1>6, <1>7 DEF Good, LogBacked, t

LEMMA StatusTargetType ==
  ASSUME NEW ls \in Nat, NEW le \in Nat PROVE StatusTarget(ls, le) \in Nat
<1>1. le \div CheckpointInterval \in Nat
  BY ConfigAssumption
<1>2. (le \div CheckpointInterval) * CheckpointInterval \in Nat
  BY <1>1, ConfigAssumption
<1>. QED
  BY <1>2, ConfigAssumption DEF StatusTarget, Larger

LEMMA AdoptGood ==
  ASSUME NEW s, NEW r, NEW C, Good(s, r, C), NEW v \in View, NEW ls \in Nat, NEW le \in Nat,
         NEW t \in AdoptStatusView(s, v, ls, le)
  PROVE  Good(t, r, C) /\ t.commitSent = s.commitSent
<1>. DEFINE x == EnterView(s, v)
            next == Larger(x.seqno, Larger(s.stable, Larger(s.prepared, s.executed)) + 1)
            entered == [x EXCEPT !.seqno = next]
<1>1. s \in State /\ x \in State /\ Good(x, r, C) /\ x.commitSent = s.commitSent
  BY EnterViewGood DEF Good, EnterView, State
<1>2. next \in Nat
  <2>1. x.seqno \in Nat
    BY <1>1 DEF State
  <2>. QED
    BY <1>1, <2>1, NextType
<1>3. t = entered \/ t = [entered EXCEPT !.fetch = StatusTarget(ls, le)]
  BY DEF AdoptStatusView
<1>. HIDE DEF x, next
<1>4. /\ entered \in State /\ entered.stable = x.stable /\ entered.pp = x.pp
      /\ entered.commits = x.commits /\ entered.log = x.log
      /\ entered.commitSent = x.commitSent
  BY <1>1, <1>2 DEF State
<1>5. Good(entered, r, C)
  BY <1>1, <1>4, FrameGood
<1>. HIDE DEF entered
<1>6. /\ t \in State /\ t.stable = entered.stable /\ t.pp = entered.pp
      /\ t.commits = entered.commits /\ t.log = entered.log
      /\ t.commitSent = entered.commitSent
  BY <1>3, <1>4, StatusTargetType DEF State
<1>. QED
  BY <1>1, <1>4, <1>5, <1>6, FrameGood

LEMMA StatusGood ==
  ASSUME NEW s, NEW r \in Correct, NEW C, Good(s, r, C), NEW v \in View, NEW ls \in Nat,
         NEW le \in Nat, NEW t \in HandleStatus(s, r, v, ls, le), t.commitSent \subseteq C[r]
  PROVE  Good(t, r, C) /\ s.commitSent \subseteq t.commitSent
<1>1. PICK u, w : /\ u = s \/ u \in AdoptStatusView(s, v, ls, le)
                  /\ w = u \/ w \in MayFetch(u, StatusTarget(ls, le))
                  /\ t = w \/ t = ResendCommits(w, r, le)
  BY DEF HandleStatus
<1>2. Good(u, r, C) /\ u.commitSent = s.commitSent
  BY <1>1, AdoptGood
<1>3. Good(w, r, C) /\ w.commitSent = s.commitSent
  <2>1. u \in State
    BY <1>2 DEF Good
  <2>2. \A y \in MayFetch(u, StatusTarget(ls, le)) : y.commitSent = u.commitSent
    BY <2>1 DEF MayFetch, State
  <2>. QED
    BY <1>1, <1>2, <2>2, StatusTargetType, MayFetchGood
<1>4. w \in State
  BY <1>3 DEF Good
<1>. QED
  BY <1>1, <1>3, <1>4, ResendFacts, ResendGood

-----------------------------------------------------------------------------
(* The invariant *)

\* More Commits sent by others never hurt.
LEMMA MonotoneGood ==
  ASSUME NEW s, NEW r \in Correct, NEW C, NEW D, Good(s, r, C),
         \A q \in Correct : C[q] \subseteq D[q]
  PROVE  Good(s, r, D)
<1>1. VotesBacked(s, D)
  BY DEF Good, VotesBacked, SentIn
<1>2. \A n, d : Cardinality(Backers(C, n, d)) <= Cardinality(Backers(D, n, d))
  <2>1. \A n, d : Backers(C, n, d) \subseteq Backers(D, n, d)
    BY DEF Backers, SentIn
  <2>. QED
    BY <2>1, BackersFinite, FS_Subset
<1>3. LogBacked(s, D)
  BY <1>2, BackersFinite, ConstantTypes DEF Good, LogBacked
<1>. QED
  BY <1>1, <1>3 DEF Good

LEMMA InitInv == Init => IInv
<1>. SUFFICES ASSUME Init PROVE IInv
  OBVIOUS
<1>1. InitState \in State
  <2>1. EmptyCert \in Cert
    BY EmptyCertType DEF Cert
  <2>2. EmptyRegion \in [0 .. NumCkptSlots - 1 -> Slot]
    BY EmptyCertType DEF EmptyRegion, EmptySlot, Slot
  <2>3. EmptyLog \in Log
    BY DEF EmptyLog, Log
  <2>4. 0 \in View
    BY BoundAssumption DEF View
  <2>. QED
    BY <2>1, <2>2, <2>3, <2>4 DEF InitState, State
<1>2. \A r \in Correct : replica[r] = InitState
  BY DEF Init
<1>3. ASSUME NEW r \in Correct PROVE Good(InitState, r, Sent)
  <2>1. InitState.commitSent = {} /\ InitState.log = EmptyLog
        /\ InitState.commits = [n \in Seqno |-> EmptyCert]
    BY DEF InitState
  <2>2. Locked(InitState) /\ OneVote(InitState)
    BY <2>1 DEF Locked, OneVote
  <2>3. VotesBacked(InitState, Sent) /\ LogBacked(InitState, Sent)
    BY <2>1, ConstantTypes DEF VotesBacked, LogBacked, EmptyCert, EmptyLog
  <2>. QED
    BY <1>1, <2>1, <2>2, <2>3 DEF Good
<1>. QED
  BY <1>1, <1>2, <1>3 DEF Init, IInv

\* A handler step of r preserves the invariant if, whatever Commits C the
\* correct replicas have sent, it keeps r's record good and forgets none.
Preserves(r, t) ==
  \A C : /\ Good(replica[r], r, C)
         /\ \A q \in Correct : Sent[q] \subseteq C[q]
         /\ t.commitSent \subseteq C[r]
         => Good(t, r, C) /\ replica[r].commitSent \subseteq t.commitSent

LEMMA BecomeInv ==
  ASSUME IInv, NEW r \in Correct, NEW t, Become(r, t), Preserves(r, t)
  PROVE  IInv'
<1>. DEFINE C == [q \in Correct |-> IF q = r THEN Sent[r] \union t.commitSent ELSE Sent[q]]
<1>1. \A q \in Correct : Sent[q] \subseteq C[q]
  OBVIOUS
<1>2. \A q \in Correct : Good(replica[q], q, C)
  BY <1>1, MonotoneGood DEF IInv
<1>3. Good(t, r, C) /\ replica[r].commitSent \subseteq t.commitSent
  BY <1>1, <1>2 DEF Preserves
<1>4. C = Sent'
  BY <1>3 DEF IInv, Sent, Become
<1>. HIDE DEF C
<1>5. \A q \in Correct : Good(replica'[q], q, C)
  BY <1>2, <1>3 DEF IInv, Become
<1>6. replica' \in [Correct -> State]
  BY <1>3 DEF IInv, Become, Good
<1>. QED
  BY <1>4, <1>5, <1>6 DEF IInv

\* What a message may say.
LEMMA MessageTypes ==
  ASSUME IInv, NEW q \in Replica
  PROVE  /\ PreparesOf(q) \subseteq Vote /\ CommitsOf(q) \subseteq Vote
         /\ \A v \in View : \A m \in PPsOf(v) :
              m.seqno \in Seqno /\ m.digest \in Request \union {NoDigest}
         /\ \A m \in CkptsOf(q) : m.seqno \in Nat /\ m.digest \in Log
<1>1. \A p \in Correct : /\ replica[p].prepSent \subseteq Vote
                         /\ replica[p].commitSent \subseteq Vote
                         /\ replica[p].ppSent \subseteq Vote
                         /\ replica[p].ckptSent \subseteq [seqno : Nat, digest : Log]
  BY DEF IInv, State
<1>2. \A m \in Vote : m.seqno \in Seqno /\ m.digest \in Request
  BY DEF Vote
<1>3. ASSUME NEW v \in View, NEW m \in PPsOf(v)
      PROVE  m.seqno \in Seqno /\ m.digest \in Request \union {NoDigest}
  <2>1. CASE PrimaryOf(v) \in Faulty
    BY <1>3, <2>1, BoundAssumption DEF PPsOf, FaultyMessages, Claim
  <2>2. CASE PrimaryOf(v) \notin Faulty
    BY <1>1, <1>2, <1>3, <2>2 DEF PPsOf
  <2>. QED
    BY <2>1, <2>2
<1>4. ASSUME NEW m \in CkptsOf(q) PROVE m.seqno \in Nat /\ m.digest \in Log
  <2>1. KnownRoots \subseteq Log /\ EmptyLog \in Log
    BY <1>1 DEF KnownRoots, EmptyLog, Log
  <2>2. CASE q \in Faulty
    BY <1>4, <2>1, <2>2, BoundAssumption DEF CkptsOf
  <2>3. CASE q \notin Faulty
    BY <1>1, <1>4, <2>3 DEF CkptsOf, Correct
  <2>. QED
    BY <2>2, <2>3
<1>. QED
  BY <1>1, <1>3, <1>4 DEF PreparesOf, CommitsOf, Correct

LEMMA StepInv == IInv /\ [Next]_vars => IInv'
<1>. SUFFICES ASSUME IInv, [Next]_vars PROVE IInv'
  OBVIOUS
<1>1. CASE UNCHANGED vars
  BY <1>1 DEF vars, IInv, Sent, Good, Locked, OneVote, VotesBacked, LogBacked
<1>2. ASSUME NEW r \in Correct, Propose(r) PROVE IInv'
  <2>1. PICK d \in Request : /\ CanPropose(replica[r], r, d)
                             /\ Become(r, ProposeRequest(replica[r], r, d))
    BY <1>2 DEF Propose
  <2>2. Preserves(r, ProposeRequest(replica[r], r, d))
    BY <2>1, ProposeGood DEF Preserves
  <2>. QED
    BY <2>1, <2>2, BecomeInv
<1>3. ASSUME NEW r \in Correct, RecvPrePrepare(r) PROVE IInv'
  <2>1. PICK v \in View : \E m \in PPsOf(v) :
          Become(r, HandlePrePrepare(replica[r], r, v, m.seqno, m.digest))
    BY <1>3 DEF RecvPrePrepare
  <2>2. PICK m \in PPsOf(v) : Become(r, HandlePrePrepare(replica[r], r, v, m.seqno, m.digest))
    BY <2>1
  <2>3. m.seqno \in Seqno /\ m.digest \in Request \union {NoDigest}
    BY <2>2, MessageTypes, ConstantTypes
  <2>4. Preserves(r, HandlePrePrepare(replica[r], r, v, m.seqno, m.digest))
    BY <2>3, PrePrepareGood DEF Preserves
  <2>. QED
    BY <2>2, <2>4, BecomeInv
<1>4. ASSUME NEW r \in Correct, RecvPrepare(r) PROVE IInv'
  <2>1. PICK q \in Replica, m \in Vote :
          \E t \in HandlePrepare(replica[r], r, q, m.seqno, m.digest) : Become(r, t)
    BY <1>4, MessageTypes DEF RecvPrepare
  <2>2. PICK t \in HandlePrepare(replica[r], r, q, m.seqno, m.digest) : Become(r, t)
    BY <2>1
  <2>3. m.seqno \in Seqno /\ m.digest \in Request
    BY DEF Vote
  <2>4. Preserves(r, t)
    BY <2>2, <2>3, PrepareGood DEF Preserves
  <2>. QED
    BY <2>2, <2>4, BecomeInv
<1>5. ASSUME NEW r \in Correct, RecvCommit(r) PROVE IInv'
  <2>1. PICK q \in Replica : \E m \in CommitsOf(q) :
          \E t \in HandleCommit(replica[r], r, q, m.seqno, m.digest) : Become(r, t)
    BY <1>5 DEF RecvCommit
  <2>2. PICK m \in CommitsOf(q) :
          \E t \in HandleCommit(replica[r], r, q, m.seqno, m.digest) : Become(r, t)
    BY <2>1
  <2>3. PICK t \in HandleCommit(replica[r], r, q, m.seqno, m.digest) : Become(r, t)
    BY <2>2
  <2>4. m \in Vote
    BY <2>2, MessageTypes
  <2>5. m.seqno \in Seqno /\ m.digest \in Request
    BY <2>4 DEF Vote
  <2>6. q \in Correct => SentIn(Sent, q, m.seqno, m.digest)
    BY <2>2 DEF CommitsOf, Correct, SentIn, Sent
  <2>7. Preserves(r, t)
    <3>1. SUFFICES ASSUME NEW C, Good(replica[r], r, C),
                          \A p \in Correct : Sent[p] \subseteq C[p],
                          t.commitSent \subseteq C[r]
                   PROVE  Good(t, r, C) /\ replica[r].commitSent \subseteq t.commitSent
      BY DEF Preserves
    <3>2. q \in Correct => SentIn(C, q, m.seqno, m.digest)
      BY <2>6, <3>1 DEF SentIn
    <3>. QED
      BY <2>3, <2>5, <3>1, <3>2, CommitGood
  <2>. QED
    BY <2>3, <2>7, BecomeInv
<1>6. ASSUME NEW r \in Correct, RecvCheckpoint(r) PROVE IInv'
  <2>1. PICK q \in Replica : \E m \in CkptsOf(q) :
          \E t \in HandleCheckpoint(replica[r], q, m.seqno, m.digest) : Become(r, t)
    BY <1>6 DEF RecvCheckpoint
  <2>2. PICK m \in CkptsOf(q) :
          \E t \in HandleCheckpoint(replica[r], q, m.seqno, m.digest) : Become(r, t)
    BY <2>1
  <2>3. PICK t \in HandleCheckpoint(replica[r], q, m.seqno, m.digest) : Become(r, t)
    BY <2>2
  <2>4. m.seqno \in Nat /\ m.digest \in Log
    BY <2>2, MessageTypes
  <2>5. Preserves(r, t)
    BY <2>3, <2>4, CheckpointGood DEF Preserves
  <2>. QED
    BY <2>3, <2>5, BecomeInv
<1>7. ASSUME NEW r \in Correct, RecvStatus(r) PROVE IInv'
  <2>1. PICK v \in View, ls \in PeerSeqno, le \in PeerSeqno :
          \E t \in HandleStatus(replica[r], r, v, ls, le) : Become(r, t)
    BY <1>7 DEF RecvStatus
  <2>2. PICK t \in HandleStatus(replica[r], r, v, ls, le) : Become(r, t)
    BY <2>1
  <2>3. ls \in Nat /\ le \in Nat
    BY BoundAssumption
  <2>4. Preserves(r, t)
    BY <2>2, <2>3, StatusGood DEF Preserves
  <2>. QED
    BY <2>2, <2>4, BecomeInv
<1>8. ASSUME NEW r \in Correct, StartViewChange(r) PROVE IInv'
  <2>. DEFINE t == [replica[r] EXCEPT !.inProgress = TRUE]
  <2>1. Become(r, t)
    BY <1>8 DEF StartViewChange
  <2>2. replica[r] \in State
    BY DEF IInv
  <2>3. /\ t \in State /\ t.stable = replica[r].stable /\ t.pp = replica[r].pp
        /\ t.commits = replica[r].commits /\ t.log = replica[r].log
        /\ t.commitSent = replica[r].commitSent
    BY <2>2 DEF State
  <2>4. Preserves(r, t)
    BY <2>3, FrameGood DEF Preserves
  <2>. QED
    BY <2>1, <2>4, BecomeInv
<1>. QED
  BY <1>1, <1>2, <1>3, <1>4, <1>5, <1>6, <1>7, <1>8 DEF Next

-----------------------------------------------------------------------------
(* Theorems *)

\* The inductive invariant holds of every behaviour.
THEOREM Invariant == Spec => []IInv
BY InitInv, StepInv, PTL DEF Spec

\* Every handler keeps a replica's record well typed.
THEOREM TypeCorrect == Spec => []TypeOK
<1>1. IInv => TypeOK
  BY DEF IInv, TypeOK
<1>. QED
  BY <1>1, Invariant, PTL

\* For any number of replicas and faulty ones: a correct replica never sends
\* Commits for two requests at one sequence number.
THEOREM CommitsOnce == Spec => []OneCommitPerSeqno
<1>1. IInv => OneCommitPerSeqno
  BY DEF IInv, Good, OneVote, OneCommitPerSeqno
<1>. QED
  BY <1>1, Invariant, PTL

LEMMA BackersCommitted ==
  ASSUME NEW n, NEW d
  PROVE  Backers(Sent, n, d) = Faulty \union {q \in Correct : HasCommitted(q, n, d)}
BY DEF Backers, SentIn, Sent, HasCommitted

\* For any number of replicas and faulty ones: exec_cb is only called with a
\* request that 2F+1 replicas committed to.
THEOREM ExecutionNeedsQuorum == Spec => []ExecutedByQuorum
<1>1. IInv => ExecutedByQuorum
  BY BackersCommitted DEF IInv, Good, LogBacked, ExecutedByQuorum
<1>. QED
  BY <1>1, Invariant, PTL

\* Two quorums have a correct replica in common.
LEMMA QuorumsMeet ==
  ASSUME FaultBound, NEW S \in SUBSET Replica, NEW T \in SUBSET Replica,
         Cardinality(S) >= Threshold, Cardinality(T) >= Threshold
  PROVE  \E q \in Correct : q \in S /\ q \in T
<1>1. IsFiniteSet(S) /\ IsFiniteSet(T) /\ IsFiniteSet(S \cap T) /\ IsFiniteSet(Faulty)
  BY ConstantTypes, FS_Subset, FS_Intersection
<1>2. /\ Cardinality(S \union T) = Cardinality(S) + Cardinality(T) - Cardinality(S \cap T)
      /\ Cardinality(S) \in Nat /\ Cardinality(T) \in Nat /\ Cardinality(S \cap T) \in Nat
      /\ Cardinality(S \union T) \in Nat /\ Cardinality(Faulty) \in Nat
  BY <1>1, FS_Union, FS_CardinalityType
<1>3. Cardinality(Replica) = N
  BY ConfigAssumption, FS_Interval DEF Replica
<1>4. Cardinality(S \union T) <= N
  BY <1>3, ConstantTypes, FS_Subset
<1>5. Cardinality(S \cap T) > Cardinality(Faulty)
  BY <1>2, <1>4, ConfigAssumption DEF FaultBound, Threshold
<1>6. ~(S \cap T \subseteq Faulty)
  BY <1>1, <1>2, <1>5, FS_Subset
<1>. QED
  BY <1>6 DEF Correct

LEMMA UniqueQuorum ==
  ASSUME FaultBound, IInv, NEW n, NEW d, NEW e,
         Cardinality(Backers(Sent, n, d)) >= Threshold,
         Cardinality(Backers(Sent, n, e)) >= Threshold
  PROVE  d = e
<1>1. PICK q \in Correct : q \in Backers(Sent, n, d) /\ q \in Backers(Sent, n, e)
  BY QuorumsMeet, BackersFinite
<1>2. SentIn(Sent, q, n, d) /\ SentIn(Sent, q, n, e)
  BY <1>1 DEF Backers, Correct
<1>. QED
  BY <1>2 DEF IInv, Good, OneVote, SentIn, Sent

\* With at most 3F+1 replicas of which at most F are faulty, only one request
\* per sequence number can get a commit certificate, in whatever views.
THEOREM OneCertificate == ASSUME FaultBound PROVE Spec => []UniqueCommitQuorum
<1>1. IInv => UniqueCommitQuorum
  BY UniqueQuorum, BackersCommitted DEF UniqueCommitQuorum
<1>. QED
  BY <1>1, Invariant, PTL

LEMMA AgreementHolds == ASSUME FaultBound, IInv PROVE Agreement
<1>1. SUFFICES ASSUME NEW r \in Correct, NEW q \in Correct, NEW n \in Seqno,
                      replica[r].log[n] # NoDigest, replica[q].log[n] # NoDigest
               PROVE  replica[r].log[n] = replica[q].log[n]
  BY DEF Agreement
<1>2. LogBacked(replica[r], Sent) /\ LogBacked(replica[q], Sent)
  BY DEF IInv, Good
<1>. QED
  BY <1>1, <1>2, UniqueQuorum DEF LogBacked

\* Under the same bound, no two correct replicas execute different requests
\* for one sequence number.
THEOREM Safety == ASSUME FaultBound PROVE Spec => []Agreement
BY AgreementHolds, Invariant, PTL

LEMMA LocksHold == ASSUME FaultBound, IInv PROVE ExecutedStaysLocked
<1>1. SUFFICES ASSUME NEW r \in Correct, NEW n \in Seqno, replica[r].log[n] # NoDigest
               PROVE  Cardinality({q \in Correct :
                                     \/ n <= replica[q].stable
                                     \/ replica[q].pp[n].digest = replica[r].log[n]}) >= F + 1
  BY DEF ExecutedStaysLocked
<1>. DEFINE d == replica[r].log[n]
            B == Backers(Sent, n, d)
            L == {q \in Correct : n <= replica[q].stable \/ replica[q].pp[n].digest = d}
<1>2. Cardinality(B) >= Threshold
  BY <1>1 DEF IInv, Good, LogBacked
<1>3. B \subseteq Faulty \union L
  <2>1. SUFFICES ASSUME NEW q \in Correct, SentIn(Sent, q, n, d)
                 PROVE  n <= replica[q].stable \/ replica[q].pp[n].digest = d
    BY DEF Backers
  <2>2. PICK m \in replica[q].commitSent : m.seqno = n /\ m.digest = d
    BY <2>1 DEF SentIn, Sent
  <2>3. Locked(replica[q])
    BY DEF IInv, Good
  <2>. QED
    BY <2>2, <2>3 DEF Locked
<1>. HIDE DEF d, B, L
<1>4. IsFiniteSet(Faulty) /\ IsFiniteSet(L)
  BY ConstantTypes, FS_Subset DEF L
<1>5. /\ IsFiniteSet(Faulty \union L)
      /\ Cardinality(Faulty \union L)
           = Cardinality(Faulty) + Cardinality(L) - Cardinality(Faulty \cap L)
  BY <1>4, FS_Union
<1>6. Cardinality(B) <= Cardinality(Faulty \union L) /\ IsFiniteSet(B)
  BY <1>3, <1>5, FS_Subset
<1>7. /\ Cardinality(B) \in Nat /\ Cardinality(Faulty) \in Nat /\ Cardinality(L) \in Nat
      /\ Cardinality(Faulty \cap L) \in Nat
  BY <1>4, <1>6, FS_CardinalityType, FS_Intersection
<1>8. Cardinality(L) >= F + 1
  BY <1>2, <1>5, <1>6, <1>7, ConfigAssumption DEF FaultBound, Threshold
<1>. QED
  BY <1>8 DEF L, d

\* Under the same bound, F+1 correct replicas stay unable to vote for another
\* request than the executed one: the reason why adopting a view without a
\* certificate does not break agreement.
THEOREM StaysLocked == ASSUME FaultBound PROVE Spec => []ExecutedStaysLocked
BY LocksHold, Invariant, PTL

-----------------------------------------------------------------------------
(***************************************************************************)
(* Proofs about execution and checkpoints in module Agreement: that the    *)
(* execution loop leaves no hole, that the window moves only on a proven   *)
(* checkpoint, and that correct replicas announce the same root digests.   *)
(*                                                                         *)
(* Nothing in mark_stable says that the checkpoint it takes for stable has *)
(* been executed; it compares the quorum's digest with the current root,   *)
(* whatever checkpoint that root belongs to.  The inductive invariant says *)
(* of each correct replica, given the checkpoints K that every correct     *)
(* replica announced so far:                                               *)
(*   - its log is filled exactly up to last_executed, and its root and     *)
(*     every digest it announced is the log up to some point before that;  *)
(*   - a vote in a checkpoint slot was announced by its sender;            *)
(*   - its stable point was announced by F+1 correct replicas.             *)
(* A digest therefore tells up to where it goes, and the root can only be  *)
(* the quorum's digest if the replica has executed as far.                 *)
(***************************************************************************)

Prefix(l, n) == [k \in Seqno |-> IF k <= n THEN l[k] ELSE NoDigest]

Filled(l, n) == \A k \in Seqno : l[k] # NoDigest <=> k <= n

InStep(s) ==
  /\ s.stable <= s.executed /\ s.executed <= MaxSeqno
  /\ Filled(s.log, s.executed)
  /\ \E m \in 0 .. MaxSeqno : m <= s.executed /\ s.root = Prefix(s.log, m)
  /\ \A a \in s.ckptSent :
       a.seqno \in Seqno /\ a.seqno <= s.executed /\ a.digest = Prefix(s.log, a.seqno)

RegionBacked(region, K) ==
  \A i \in 0 .. NumCkptSlots - 1 : \A q \in Correct :
    region[i].votes[q] # NoDigest =>
      [seqno |-> region[i].seqno, digest |-> region[i].votes[q]] \in K[q]

Announcers(K, n) == {q \in Correct : \E a \in K[q] : a.seqno = n}

StableBacked(s, K) == s.stable > 0 => Cardinality(Announcers(K, s.stable)) >= F + 1

Sound(s, r, K) ==
  /\ s.ckptSent \subseteq K[r]
  /\ InStep(s)
  /\ RegionBacked(s.ckpt, K)
  /\ StableBacked(s, K)

Told == [q \in Correct |-> replica[q].ckptSent]

\* The inductive invariant.
CInv == IInv /\ \A r \in Correct : Sound(replica[r], r, Told)

FewFaulty == Cardinality(Faulty) <= F

-----------------------------------------------------------------------------
(* Numbers *)

LEMMA LeastOf ==
  ASSUME NEW S \in SUBSET Nat, S # {} PROVE \E m \in S : \A k \in S : m <= k
<1>. DEFINE R == {ss \in Nat \X Nat : ss[1] < ss[2]}
<1>1. IsWellFoundedOn(R, Nat)
  BY NatLessThanWellFounded DEF OpToRel
<1>2. PICK m \in S : \A k \in S : ~(<<k, m>> \in R)
  <2>. HIDE DEF R
  <2>. QED
    BY <1>1, WFMin
<1>3. \A k \in Nat : <<k, m>> \notin R => m <= k
  <2>1. \A k \in Nat : <<k, m>> \in Nat \X Nat /\ <<k, m>>[1] = k /\ <<k, m>>[2] = m
    OBVIOUS
  <2>2. \A k \in Nat : k < m => <<k, m>> \in R
    BY <2>1
  <2>. HIDE DEF R
  <2>. QED
    BY <2>2
<1>. HIDE DEF R
<1>. QED
  BY <1>2, <1>3

LEMMA GreatestOf ==
  ASSUME NEW M \in Nat, NEW S \in SUBSET (0 .. M), S # {}
  PROVE  \E m \in S : \A k \in S : k <= m
<1>. DEFINE T == {M - k : k \in S}
<1>1. PICK x \in T : \A y \in T : x <= y
  <2>1. \A k \in S : M - k \in Nat
    OBVIOUS
  <2>2. T \subseteq Nat /\ T # {}
    BY <2>1
  <2>. HIDE DEF T
  <2>. QED
    BY <2>2, LeastOf
<1>2. PICK m \in S : x = M - m
  OBVIOUS
<1>3. \A k \in S : M - m <= M - k
  BY <1>1, <1>2
<1>. QED
  BY <1>3

-----------------------------------------------------------------------------
(* Logs *)

LEMMA PrefixFilled ==
  ASSUME NEW l, NEW m \in Nat, Filled(l, m), NEW n \in Nat, n <= m
  PROVE  Filled(Prefix(l, n), n)
BY ConstantTypes DEF Filled, Prefix

LEMMA PrefixType ==
  ASSUME NEW l \in Log, NEW n PROVE Prefix(l, n) \in Log
BY DEF Prefix, Log

\* A log tells how far it goes.
LEMMA OneLength ==
  ASSUME NEW l, NEW m \in 0 .. MaxSeqno, NEW n \in 0 .. MaxSeqno, Filled(l, m), Filled(l, n)
  PROVE  m = n
<1>1. m > 0 => m <= n
  BY BoundAssumption DEF Filled, Seqno
<1>2. n > 0 => n <= m
  BY BoundAssumption DEF Filled, Seqno
<1>. QED
  BY <1>1, <1>2, BoundAssumption

-----------------------------------------------------------------------------
(* Quorums of announcements *)

LEMMA AnnouncersFinite ==
  ASSUME NEW K, NEW n
  PROVE  /\ Announcers(K, n) \subseteq Replica
         /\ IsFiniteSet(Announcers(K, n)) /\ Cardinality(Announcers(K, n)) \in Nat
<1>1. Announcers(K, n) \subseteq Replica
  BY ConstantTypes DEF Announcers
<1>. QED
  BY <1>1, ConstantTypes, FS_Subset, FS_CardinalityType

LEMMA AnnouncersGrow ==
  ASSUME NEW K, NEW L, \A q \in Correct : K[q] \subseteq L[q], NEW n
  PROVE  Cardinality(Announcers(K, n)) <= Cardinality(Announcers(L, n))
<1>1. Announcers(K, n) \subseteq Announcers(L, n)
  BY DEF Announcers
<1>. QED
  BY <1>1, AnnouncersFinite, FS_Subset

\* A slot with a quorum for its winning digest: F+1 correct replicas announced
\* that sequence number, one of them that digest.
LEMMA QuorumAnnounced ==
  ASSUME FewFaulty, NEW region \in [0 .. NumCkptSlots - 1 -> Slot], NEW K,
         RegionBacked(region, K), NEW i \in 0 .. NumCkptSlots - 1,
         Count(region[i], region[i].winning) >= Threshold
  PROVE  /\ region[i].winning # NoDigest
         /\ Cardinality(Announcers(K, region[i].seqno)) >= F + 1
         /\ \E q \in Correct :
              [seqno |-> region[i].seqno, digest |-> region[i].winning] \in K[q]
<1>. DEFINE slot == region[i]
            V == Voters(slot.votes, slot.winning)
            G == {q \in Correct : [seqno |-> slot.seqno, digest |-> slot.winning] \in K[q]}
            A == Announcers(K, slot.seqno)
<1>1. slot.winning # NoDigest /\ Cardinality(V) >= Threshold
  BY ConfigAssumption DEF Count, Threshold
<1>2. V \subseteq Faulty \union G
  BY <1>1 DEF Voters, RegionBacked, Correct
<1>3. G \subseteq A
  BY DEF Announcers
<1>. HIDE DEF V, G, A
<1>4. IsFiniteSet(Faulty) /\ IsFiniteSet(G)
  BY ConstantTypes, FS_Subset DEF G
<1>5. /\ IsFiniteSet(Faulty \union G)
      /\ Cardinality(Faulty \union G)
           = Cardinality(Faulty) + Cardinality(G) - Cardinality(Faulty \cap G)
  BY <1>4, FS_Union
<1>6. Cardinality(V) <= Cardinality(Faulty \union G) /\ IsFiniteSet(V)
  BY <1>2, <1>5, FS_Subset
<1>7. /\ Cardinality(V) \in Nat /\ Cardinality(Faulty) \in Nat /\ Cardinality(G) \in Nat
      /\ Cardinality(Faulty \cap G) \in Nat
  BY <1>4, <1>6, FS_CardinalityType, FS_Intersection
<1>8. Cardinality(G) >= F + 1
  BY <1>1, <1>5, <1>6, <1>7, ConfigAssumption DEF FewFaulty, Threshold
<1>9. Cardinality(G) <= Cardinality(A) /\ Cardinality(A) \in Nat
  BY <1>3, AnnouncersFinite, FS_Subset DEF A
<1>10. G # {}
  <2>1. Cardinality({}) = 0
    BY FS_EmptySet
  <2>2. ~(0 >= F + 1)
    BY ConfigAssumption
  <2>. QED
    BY <1>8, <2>1, <2>2
<1>. QED
  BY <1>1, <1>7, <1>8, <1>9, <1>10, ConfigAssumption DEF G, A

-----------------------------------------------------------------------------
(* The steps that handlers share, on one replica's record *)

\* A step that touches none of the fields the invariant reads.
Same(s, t) ==
  /\ t \in State
  /\ t.stable = s.stable /\ t.executed = s.executed /\ t.log = s.log
  /\ t.root = s.root /\ t.ckptSent = s.ckptSent
  /\ t.ckpt = s.ckpt

LEMMA SameSound ==
  ASSUME NEW s, NEW t, NEW r, NEW K, Same(s, t), Sound(s, r, K)
  PROVE  Sound(t, r, K)
BY DEF Same, Sound, InStep, StableBacked

LEMMA SameTwice ==
  ASSUME NEW s, NEW t, NEW u, Same(s, t), Same(t, u) PROVE Same(s, u)
BY DEF Same

LEMMA TruncateCkptBacked ==
  ASSUME NEW region, NEW K, RegionBacked(region, K), NEW n
  PROVE  RegionBacked(TruncateCkpt(region, n), K)
BY ConstantTypes DEF RegionBacked, TruncateCkpt, EmptySlot, EmptyCert

LEMMA EnterViewSound ==
  ASSUME NEW s \in State, NEW r, NEW K, Sound(s, r, K), NEW v \in View
  PROVE  /\ EnterView(s, v) \in State
         /\ Sound(EnterView(s, v), r, K)
         /\ EnterView(s, v).stable = s.stable /\ EnterView(s, v).executed = s.executed
         /\ EnterView(s, v).ckptSent = s.ckptSent /\ EnterView(s, v).log = s.log
<1>. DEFINE t == EnterView(s, v)
            c == TruncateCkpt(s.ckpt, s.stable)
<1>1. s.stable \in Nat /\ s.ckpt \in [0 .. NumCkptSlots - 1 -> Slot]
  BY DEF State
<1>2. c \in [0 .. NumCkptSlots - 1 -> Slot]
  BY <1>1, TruncateCkptType
<1>3. RegionBacked(c, K)
  BY TruncateCkptBacked DEF Sound
<1>4. t = [s EXCEPT !.view = v, !.inProgress = FALSE, !.ckpt = c]
  BY DEF EnterView
<1>. HIDE DEF t, c
<1>5. /\ t \in State /\ t.ckpt = c
      /\ t.stable = s.stable /\ t.executed = s.executed /\ t.log = s.log
      /\ t.root = s.root /\ t.ckptSent = s.ckptSent
  BY <1>2, <1>4 DEF State
<1>6. Sound(t, r, K)
  BY <1>3, <1>5 DEF Sound, InStep, StableBacked
<1>. QED
  BY <1>5, <1>6 DEF t

\* The window moves to a checkpoint that was announced and executed.
LEMMA TruncateSound ==
  ASSUME NEW s \in State, NEW r, NEW K, Sound(s, r, K), NEW n \in Nat, n <= s.executed,
         Cardinality(Announcers(K, n)) >= F + 1
  PROVE  /\ Sound(Truncate(s, n), r, K)
         /\ Truncate(s, n).ckptSent = s.ckptSent /\ Truncate(s, n).log = s.log
         /\ Truncate(s, n).executed = s.executed
<1>. DEFINE t == Truncate(s, n)
<1>1. /\ t.stable = n /\ t.executed = Larger(s.executed, n) /\ t.log = s.log
      /\ t.root = s.root /\ t.ckptSent = s.ckptSent /\ t.ckpt = TruncateCkpt(s.ckpt, n)
  BY DEF Truncate, State
<1>2. Larger(s.executed, n) = s.executed
  BY DEF Larger, State
<1>3. RegionBacked(TruncateCkpt(s.ckpt, n), K)
  BY TruncateCkptBacked DEF Sound
<1>. HIDE DEF t
<1>4. Sound(t, r, K)
  BY <1>1, <1>2, <1>3 DEF Sound, InStep, StableBacked
<1>. QED
  BY <1>1, <1>2, <1>4 DEF t

LEMMA MayFetchSame ==
  ASSUME NEW s \in State, NEW n \in Nat, NEW t \in MayFetch(s, n)
  PROVE  Same(s, t)
<1>1. CASE t = s
  BY <1>1 DEF Same
<1>2. CASE t = [s EXCEPT !.fetch = n]
  BY <1>2 DEF Same, State
<1>. QED
  BY <1>1, <1>2 DEF MayFetch

\* A vote that its sender announced.
LEMMA StoreCkptBacked ==
  ASSUME NEW region \in [0 .. NumCkptSlots - 1 -> Slot], NEW K, RegionBacked(region, K),
         NEW n \in Nat, NEW q \in Replica, NEW d \in Log,
         q \in Correct => [seqno |-> n, digest |-> d] \in K[q]
  PROVE  /\ RegionBacked(StoreCkpt(region, n, q, d), K)
         /\ StoreCkpt(region, n, q, d)[SlotIndex(n)].seqno = n
<1>. DEFINE slot == SlotFor(region, n)
            votes == AddVote(slot.votes, q, d)
            new == [slot EXCEPT !.votes = votes, !.present = @ \union {q}]
            best == IF Count(new, d) > Count(new, slot.winning) THEN d ELSE slot.winning
            counted == [new EXCEPT !.winning = best]
            seen == [slot EXCEPT !.present = @ \union {q}]
            now == StoreCkpt(region, n, q, d)
<1>1. SlotIndex(n) \in 0 .. NumCkptSlots - 1
  BY SlotIndexType
<1>2. /\ slot \in Slot /\ slot.seqno = n
      /\ \A p \in Correct : slot.votes[p] # NoDigest =>
           [seqno |-> n, digest |-> slot.votes[p]] \in K[p]
  <2>1. CASE region[SlotIndex(n)].seqno = n
    BY <1>1, <2>1 DEF SlotFor, RegionBacked
  <2>2. CASE region[SlotIndex(n)].seqno # n
    BY <2>2, EmptyCertType, ConstantTypes DEF SlotFor, EmptySlot, EmptyCert, Slot
  <2>. QED
    BY <2>1, <2>2
<1>. HIDE DEF slot
<1>3. \A p \in Replica : votes[p] = slot.votes[p] \/ (p = q /\ votes[p] = d)
  <2>1. slot.votes \in [Replica -> Log \union {NoDigest}]
    BY <1>2 DEF Slot
  <2>. QED
    BY <2>1 DEF AddVote
<1>. HIDE DEF votes
<1>4. counted.seqno = n /\ counted.votes = votes
  BY <1>2 DEF Slot
<1>5. seen.seqno = n /\ seen.votes = slot.votes
  BY <1>2 DEF Slot
<1>6. /\ now[SlotIndex(n)] = counted \/ now[SlotIndex(n)] = seen
      /\ \A i \in 0 .. NumCkptSlots - 1 : i # SlotIndex(n) => now[i] = region[i]
  BY <1>1 DEF StoreCkpt, slot, votes
<1>. HIDE DEF new, best, counted, seen, now
<1>7. now[SlotIndex(n)].seqno = n
  BY <1>4, <1>5, <1>6
<1>8. \A p \in Correct : now[SlotIndex(n)].votes[p] # NoDigest =>
        [seqno |-> n, digest |-> now[SlotIndex(n)].votes[p]] \in K[p]
  BY <1>2, <1>3, <1>4, <1>5, <1>6, ConstantTypes
<1>9. RegionBacked(now, K)
  BY <1>6, <1>7, <1>8 DEF RegionBacked
<1>. QED
  BY <1>7, <1>9 DEF now

-----------------------------------------------------------------------------
(* Checkpoints of others *)

KFilled(K) ==
  \A q \in Correct : \A a \in K[q] : a.seqno \in Seqno /\ Filled(a.digest, a.seqno)

\* mark_stable, called with a quorum for n in the slot of n: if the quorum's
\* digest is the root, then the root is that of n and n has been executed.
LEMMA MarkStableSound ==
  ASSUME FewFaulty, NEW s \in State, NEW r, NEW K, Sound(s, r, K), KFilled(K), NEW n \in Nat,
         s.ckpt[SlotIndex(n)].seqno = n,
         Count(s.ckpt[SlotIndex(n)], s.ckpt[SlotIndex(n)].winning) >= Threshold,
         NEW t \in MarkStable(s, n)
  PROVE  Sound(t, r, K) /\ t.ckptSent = s.ckptSent /\ t.log = s.log /\ t.executed = s.executed
<1>. DEFINE slot == s.ckpt[SlotIndex(n)]
<1>1. /\ slot.winning # NoDigest
      /\ Cardinality(Announcers(K, n)) >= F + 1
      /\ \E q \in Correct : [seqno |-> n, digest |-> slot.winning] \in K[q]
  <2>1. SlotIndex(n) \in 0 .. NumCkptSlots - 1
    BY SlotIndexType
  <2>2. s.ckpt \in [0 .. NumCkptSlots - 1 -> Slot] /\ RegionBacked(s.ckpt, K)
    BY DEF State, Sound
  <2>. QED
    BY <2>1, <2>2, QuorumAnnounced
<1>2. WinningDigest(s.ckpt, n) = slot.winning
  BY DEF WinningDigest
<1>3. n \in Seqno /\ Filled(slot.winning, n)
  <2>1. PICK q \in Correct : [seqno |-> n, digest |-> slot.winning] \in K[q]
    BY <1>1
  <2>. QED
    BY <2>1 DEF KFilled
<1>. HIDE DEF slot
<1>4. CASE n <= s.stable
  BY <1>4 DEF MarkStable
<1>5. CASE ~(n <= s.stable) /\ slot.winning # s.root
  <2>1. t \in MayFetch(s, n)
    BY <1>1, <1>2, <1>5 DEF MarkStable
  <2>. QED
    BY <2>1, MayFetchSame, SameSound DEF Same
<1>6. CASE ~(n <= s.stable) /\ slot.winning = s.root
  <2>1. t = Truncate(s, n)
    BY <1>2, <1>6 DEF MarkStable
  <2>2. PICK m \in 0 .. MaxSeqno : m <= s.executed /\ s.root = Prefix(s.log, m)
    BY DEF Sound, InStep
  <2>3. Filled(s.root, m)
    BY <2>2, PrefixFilled DEF Sound, InStep, State
  <2>4. n \in 0 .. MaxSeqno
    BY <1>3 DEF Seqno
  <2>5. m = n
    BY <1>3, <1>6, <2>3, <2>4, OneLength
  <2>. QED
    BY <1>1, <2>1, <2>2, <2>5, TruncateSound
<1>. QED
  BY <1>4, <1>5, <1>6

LEMMA CheckpointSound ==
  ASSUME FewFaulty, NEW s \in State, NEW r, NEW K, Sound(s, r, K), KFilled(K),
         NEW q \in Replica, NEW n \in Nat, NEW d \in Log,
         q \in Correct => [seqno |-> n, digest |-> d] \in K[q],
         NEW t \in HandleCheckpoint(s, q, n, d)
  PROVE  Sound(t, r, K) /\ t.ckptSent = s.ckptSent /\ t.log = s.log /\ t.executed = s.executed
<1>. DEFINE region == StoreCkpt(s.ckpt, n, q, d)
            stored == [s EXCEPT !.ckpt = region]
<1>1. /\ region \in [0 .. NumCkptSlots - 1 -> Slot]
      /\ RegionBacked(region, K) /\ region[SlotIndex(n)].seqno = n
  BY StoreCkptType, StoreCkptBacked DEF State, Sound
<1>2. stored = [s EXCEPT !.ckpt = StoreCkpt(@, n, q, d)]
  OBVIOUS
<1>3. \/ t = stored
      \/ /\ t \in MarkStable(stored, n)
         /\ Count(region[SlotIndex(n)], region[SlotIndex(n)].winning) >= Threshold
  BY <1>2 DEF HandleCheckpoint, Completes
<1>. HIDE DEF region
<1>4. /\ stored \in State /\ stored.ckpt = region
      /\ stored.stable = s.stable /\ stored.executed = s.executed /\ stored.log = s.log
      /\ stored.root = s.root /\ stored.ckptSent = s.ckptSent
  BY <1>1 DEF State
<1>. HIDE DEF stored
<1>5. Sound(stored, r, K)
  BY <1>1, <1>4 DEF Sound, InStep, StableBacked
<1>6. CASE t = stored
  BY <1>4, <1>5, <1>6
<1>7. CASE /\ t \in MarkStable(stored, n)
           /\ Count(region[SlotIndex(n)], region[SlotIndex(n)].winning) >= Threshold
  <2>1. Sound(t, r, K) /\ t.ckptSent = stored.ckptSent /\ t.log = stored.log
        /\ t.executed = stored.executed
    BY <1>1, <1>4, <1>5, <1>7, MarkStableSound
  <2>. QED
    BY <1>4, <2>1
<1>. QED
  BY <1>3, <1>6, <1>7

-----------------------------------------------------------------------------
(* execute_committed *)

LEMMA RunShape ==
  ASSUME NEW s \in State
  PROVE  /\ Run(s) \subseteq Seqno
         /\ \A n \in Run(s) : n > s.executed /\ s.pp[n].digest # NoDigest
         /\ \A n \in Run(s) : \A k \in Seqno : s.executed < k /\ k <= n => k \in Run(s)
<1>1. Run(s) \subseteq Seqno /\ \A n \in Run(s) : s.pp[n].digest # NoDigest
  BY RunFacts, RequestAssumption
<1>2. s.executed \in Nat /\ s.prepared \in Nat
  BY DEF State
<1>3. \A n \in Run(s) : n > s.executed
  BY <1>2 DEF Run
<1>4. ASSUME NEW n \in Run(s), NEW k \in Seqno, s.executed < k, k <= n
      PROVE  k \in Run(s)
  <2>1. n \in s.executed + 1 .. s.prepared /\ n \in Int /\ k \in Int
    BY <1>1, <1>4, ConstantTypes DEF Run
  <2>2. k \in s.executed + 1 .. s.prepared
    BY <1>2, <1>4, <2>1
  <2>3. \A j \in s.executed + 1 .. k : j \in s.executed + 1 .. n
    BY <1>2, <1>4, <2>1
  <2>. QED
    BY <2>2, <2>3 DEF Run
<1>. QED
  BY <1>1, <1>3, <1>4

\* What the log is at each point of the loop, last being where it ends.
LEMMA LogAtShape ==
  ASSUME NEW s \in State, Filled(s.log, s.executed),
         NEW last \in {s.executed} \union Run(s), \A k \in Run(s) : k <= last
  PROVE  /\ Filled(LogAt(s, last), last)
         /\ \A n \in Run(s) : LogAt(s, n) = Prefix(LogAt(s, last), n)
         /\ \A m \in Nat : m <= s.executed => Prefix(s.log, m) = Prefix(LogAt(s, last), m)
         /\ \A k \in Seqno : LogAt(s, last)[k] # s.log[k] =>
              k > s.executed /\ LogAt(s, last)[k] # NoDigest
<1>1. s.executed \in Nat /\ last \in Nat /\ s.executed <= last
  BY RunShape, ConstantTypes DEF State
<1>2. \A k \in Seqno : k \in Run(s) <=> s.executed < k /\ k <= last
  BY <1>1, RunShape, ConstantTypes
<1>3. \A k \in Seqno : k \in Nat
  BY ConstantTypes
<1>4. \A k \in Run(s) : k \in Seqno /\ s.pp[k].digest # NoDigest
  BY RunShape
<1>5. \A n : \A k \in Seqno :
        LogAt(s, n)[k] = IF k \in Run(s) /\ k <= n THEN s.pp[k].digest ELSE s.log[k]
  BY DEF LogAt
<1>6. Filled(LogAt(s, last), last)
  BY <1>1, <1>2, <1>3, <1>4, <1>5 DEF Filled
<1>7. ASSUME NEW n \in Run(s) PROVE LogAt(s, n) = Prefix(LogAt(s, last), n)
  <2>1. ASSUME NEW k \in Seqno
        PROVE  LogAt(s, n)[k] = IF k <= n THEN LogAt(s, last)[k] ELSE NoDigest
    <3>1. n \in Nat /\ k \in Nat /\ s.executed < n /\ n <= last
      BY <1>1, <1>2, <1>3, <1>4, <1>7
    <3>2. CASE k <= n
      BY <1>1, <1>2, <1>5, <2>1, <3>1, <3>2
    <3>3. CASE ~(k <= n)
      <4>1. LogAt(s, n)[k] = s.log[k]
        BY <1>5, <2>1, <3>3
      <4>2. ~(k <= s.executed)
        BY <1>1, <3>1, <3>3
      <4>. QED
        BY <2>1, <3>3, <4>1, <4>2 DEF Filled
    <3>. QED
      BY <3>2, <3>3
  <2>. QED
    BY <2>1 DEF LogAt, Prefix
<1>8. ASSUME NEW m \in Nat, m <= s.executed
      PROVE  Prefix(s.log, m) = Prefix(LogAt(s, last), m)
  <2>1. \A k \in Seqno : k <= m => LogAt(s, last)[k] = s.log[k]
    BY <1>1, <1>2, <1>3, <1>5, <1>8
  <2>. QED
    BY <2>1 DEF Prefix
<1>9. ASSUME NEW k \in Seqno, LogAt(s, last)[k] # s.log[k]
      PROVE  k > s.executed /\ LogAt(s, last)[k] # NoDigest
  BY <1>1, <1>2, <1>3, <1>4, <1>5, <1>9
<1>. QED
  BY <1>6, <1>7, <1>8, <1>9

\* What a step does to the log: it fills entries beyond last_executed.
Extends(s, t) ==
  /\ s.executed <= t.executed
  /\ \A k \in Seqno : t.log[k] # s.log[k] => k > s.executed /\ t.log[k] # NoDigest

LEMMA OwnCkptsBacked ==
  ASSUME NEW s \in State, NEW r \in Replica, NEW K, RegionBacked(s.ckpt, K),
         \A n \in Due(s) : [seqno |-> n, digest |-> LogAt(s, n)] \in K[r]
  PROVE  RegionBacked(OwnCkpts(s, r), K)
<1>1. s.ckpt \in [0 .. NumCkptSlots - 1 -> Slot] /\ Due(s) \subseteq Nat
  BY RunFacts, ConstantTypes DEF State, Due
<1>2. \A n \in Due(s) : RegionBacked(StoreCkpt(s.ckpt, n, r, LogAt(s, n)), K)
  BY <1>1, LogAtType, StoreCkptBacked
<1>3. ASSUME NEW i \in 0 .. NumCkptSlots - 1, NEW q \in Correct,
             OwnCkpts(s, r)[i].votes[q] # NoDigest
      PROVE  [seqno |-> OwnCkpts(s, r)[i].seqno, digest |-> OwnCkpts(s, r)[i].votes[q]] \in K[q]
  <2>1. CASE \E n \in Due(s) : SlotIndex(n) = i
    <3>1. PICK n \in Due(s) : OwnCkpts(s, r)[i] = StoreCkpt(s.ckpt, n, r, LogAt(s, n))[i]
      BY <1>3, <2>1 DEF OwnCkpts
    <3>. QED
      BY <1>2, <1>3, <3>1 DEF RegionBacked
  <2>2. CASE ~ \E n \in Due(s) : SlotIndex(n) = i
    <3>1. OwnCkpts(s, r)[i] = s.ckpt[i]
      BY <1>3, <2>2 DEF OwnCkpts
    <3>. QED
      BY <1>3, <3>1 DEF RegionBacked
  <2>. QED
    BY <2>1, <2>2
<1>. QED
  BY <1>3 DEF RegionBacked

LEMMA ExecutedSound ==
  ASSUME NEW s, NEW r \in Correct, NEW C, Good(s, r, C), NEW K, Sound(s, r, K),
         NEW last \in {s.executed} \union Run(s), \A k \in Run(s) : k <= last,
         Executed(s, r, last).ckptSent \subseteq K[r]
  PROVE  /\ Executed(s, r, last) \in State
         /\ Sound(Executed(s, r, last), r, K)
         /\ Executed(s, r, last).executed = last
         /\ Extends(s, Executed(s, r, last))
<1>. DEFINE t == Executed(s, r, last)
            root == IF Due(s) = {} THEN s.root
                    ELSE LogAt(s, CHOOSE n \in Due(s) : \A k \in Due(s) : k <= n)
            announced == {[seqno |-> n, digest |-> LogAt(s, n)] : n \in Due(s)}
<1>1. s \in State /\ r \in Replica /\ s.executed \in Nat /\ last \in Nat /\ s.executed <= last
  <2>1. s \in State
    BY DEF Good
  <2>2. s.executed \in Nat
    BY <2>1 DEF State
  <2>3. Run(s) \subseteq Nat /\ \A n \in Run(s) : n > s.executed
    BY <2>1, RunShape, ConstantTypes
  <2>4. last = s.executed \/ last \in Run(s)
    OBVIOUS
  <2>. QED
    BY <2>1, <2>2, <2>3, <2>4, ConstantTypes
<1>2. t \in State
  BY <1>1, ExecutedGood DEF Good
<1>3. /\ t.stable = s.stable /\ t.executed = last /\ t.log = LogAt(s, last)
      /\ t.root = root /\ t.ckpt = OwnCkpts(s, r) /\ t.ckptSent = s.ckptSent \union announced
  BY <1>1 DEF Executed, State
<1>4. /\ Filled(LogAt(s, last), last)
      /\ \A n \in Run(s) : LogAt(s, n) = Prefix(LogAt(s, last), n)
      /\ \A m \in Nat : m <= s.executed => Prefix(s.log, m) = Prefix(LogAt(s, last), m)
      /\ \A k \in Seqno : LogAt(s, last)[k] # s.log[k] =>
           k > s.executed /\ LogAt(s, last)[k] # NoDigest
  BY <1>1, LogAtShape DEF Sound, InStep
<1>5. /\ Due(s) \subseteq Run(s) /\ Due(s) \in SUBSET (0 .. MaxSeqno)
      /\ \A n \in Due(s) : n \in Seqno /\ n <= last
  BY <1>1, RunShape DEF Due, Seqno
<1>6. \E m \in 0 .. MaxSeqno : m <= last /\ root = Prefix(LogAt(s, last), m)
  <2>1. CASE Due(s) = {}
    <3>1. PICK m \in 0 .. MaxSeqno : m <= s.executed /\ s.root = Prefix(s.log, m)
      BY DEF Sound, InStep
    <3>2. m \in Nat /\ m <= last
      BY <1>1, <3>1
    <3>. QED
      BY <1>4, <2>1, <3>1, <3>2
  <2>2. CASE Due(s) # {}
    <3>. DEFINE n == CHOOSE n \in Due(s) : \A k \in Due(s) : k <= n
    <3>1. \E k \in Due(s) : \A j \in Due(s) : j <= k
      BY <1>5, <2>2, GreatestOf, BoundAssumption
    <3>2. n \in Due(s)
      BY <3>1
    <3>3. root = LogAt(s, n)
      BY <2>2
    <3>. HIDE DEF n, root
    <3>. QED
      BY <1>4, <1>5, <3>2, <3>3
  <2>. QED
    BY <2>1, <2>2
<1>. HIDE DEF t, root
<1>7. \A a \in t.ckptSent :
        a.seqno \in Seqno /\ a.seqno <= last /\ a.digest = Prefix(LogAt(s, last), a.seqno)
  <2>1. ASSUME NEW a \in s.ckptSent
        PROVE  a.seqno \in Seqno /\ a.seqno <= last /\ a.digest = Prefix(LogAt(s, last), a.seqno)
    <3>1. a.seqno \in Seqno /\ a.seqno <= s.executed /\ a.digest = Prefix(s.log, a.seqno)
      BY <2>1 DEF Sound, InStep
    <3>2. a.seqno \in Nat
      BY <3>1, ConstantTypes
    <3>. QED
      BY <1>1, <1>4, <3>1, <3>2
  <2>2. ASSUME NEW a \in announced
        PROVE  a.seqno \in Seqno /\ a.seqno <= last /\ a.digest = Prefix(LogAt(s, last), a.seqno)
    BY <1>4, <1>5, <2>2
  <2>. QED
    BY <1>3, <2>1, <2>2
<1>8. RegionBacked(OwnCkpts(s, r), K)
  <2>1. announced \subseteq K[r]
    BY <1>3 DEF t
  <2>. QED
    BY <1>1, <2>1, OwnCkptsBacked DEF Sound
<1>9. s.stable <= last /\ last <= MaxSeqno
  <2>1. s.stable <= s.executed /\ s.executed <= MaxSeqno /\ s.stable \in Nat
    BY <1>1 DEF Sound, InStep, State
  <2>2. last = s.executed \/ last <= MaxSeqno
    BY <1>1, RunShape DEF Seqno
  <2>. QED
    BY <1>1, <2>1, <2>2
<1>10. Sound(t, r, K) /\ Extends(s, t)
  BY <1>1, <1>3, <1>4, <1>6, <1>7, <1>8, <1>9 DEF Sound, InStep, StableBacked, Extends, t
<1>. QED
  BY <1>2, <1>3, <1>10 DEF t

LEMMA ExecuteCommittedSound ==
  ASSUME FewFaulty, NEW s, NEW r \in Correct, NEW C, Good(s, r, C), NEW K, Sound(s, r, K),
         NEW t \in ExecuteCommitted(s, r), t.ckptSent \subseteq K[r]
  PROVE  Sound(t, r, K) /\ s.ckptSent \subseteq t.ckptSent /\ Extends(s, t)
<1>1. s \in State /\ r \in Replica /\ s.stable \in Nat
  BY ConstantTypes DEF Good, State
<1>2. PICK m \in {s.stable} \union Confirmed(s, r), last \in {s.executed} \union Run(s) :
        /\ \A k \in Run(s) : k <= last
        /\ \E e \in {Executed(s, r, last)} \union
                   {[Executed(s, r, last) EXCEPT !.fetch = n] : n \in Refuted(s, r)} :
             t = IF m > s.stable THEN Truncate(e, m) ELSE e
  BY DEF ExecuteCommitted
<1>. DEFINE x == Executed(s, r, last)
<1>3. PICK e \in {x} \union {[x EXCEPT !.fetch = n] : n \in Refuted(s, r)} :
        t = IF m > s.stable THEN Truncate(e, m) ELSE e
  BY <1>2
<1>4. x \in State /\ s.ckptSent \subseteq x.ckptSent /\ x.stable = s.stable
  <2>1. last \in Nat
    BY <1>1, RunShape, ConstantTypes DEF State
  <2>2. x \in State
    BY <2>1, ExecutedGood DEF Good
  <2>. QED
    BY <1>1, <2>2 DEF Executed, State
<1>. HIDE DEF x
<1>5. Same(x, e)
  <2>1. CASE e = x
    BY <1>4, <2>1 DEF Same
  <2>2. ASSUME NEW n \in Refuted(s, r), e = [x EXCEPT !.fetch = n] PROVE Same(x, e)
    <3>1. n \in Nat
      BY <1>1, RunShape, ConstantTypes DEF Refuted, SelfStable, Due
    <3>. QED
      BY <1>4, <2>2, <3>1 DEF Same, State
  <2>. QED
    BY <1>3, <2>1, <2>2
<1>6. t.ckptSent = x.ckptSent
  <2>1. e.ckptSent = x.ckptSent /\ e \in State
    BY <1>5 DEF Same
  <2>. QED
    BY <1>3, <2>1 DEF Truncate, State
<1>7. Sound(x, r, K) /\ x.executed = last /\ Extends(s, x)
  BY <1>2, <1>6, ExecutedSound DEF x
<1>8. Sound(e, r, K) /\ e \in State /\ e.executed = last /\ e.log = x.log
  BY <1>5, <1>7, SameSound DEF Same
<1>9. CASE ~(m > s.stable)
  BY <1>3, <1>4, <1>6, <1>7, <1>8, <1>9 DEF Extends
<1>10. CASE m > s.stable
  <2>1. m \in Confirmed(s, r) /\ m \in Run(s) /\ m \in Due(s) /\ m \in Nat
    BY <1>1, <1>2, <1>10, RunShape, ConstantTypes DEF Confirmed, SelfStable, Due
  <2>2. m <= last
    BY <1>2, <2>1
  <2>. DEFINE region == StoreCkpt(s.ckpt, m, r, LogAt(s, m))
  <2>3. Count(region[SlotIndex(m)], region[SlotIndex(m)].winning) >= Threshold
    BY <2>1 DEF Confirmed, SelfStable, Completes
  <2>4. [seqno |-> m, digest |-> LogAt(s, m)] \in K[r]
    <3>1. [seqno |-> m, digest |-> LogAt(s, m)] \in x.ckptSent
      BY <1>1, <2>1 DEF Executed, State, x
    <3>. QED
      BY <1>6, <3>1
  <2>5. /\ region \in [0 .. NumCkptSlots - 1 -> Slot] /\ RegionBacked(region, K)
        /\ region[SlotIndex(m)].seqno = m
    <3>1. s.ckpt \in [0 .. NumCkptSlots - 1 -> Slot] /\ LogAt(s, m) \in Log
      BY <1>1, LogAtType DEF State
    <3>. QED
      BY <1>1, <2>1, <2>4, <3>1, StoreCkptType, StoreCkptBacked DEF Sound
  <2>6. SlotIndex(m) \in 0 .. NumCkptSlots - 1
    BY <2>1, SlotIndexType
  <2>. HIDE DEF region
  <2>7. Cardinality(Announcers(K, m)) >= F + 1
    BY <2>3, <2>5, <2>6, QuorumAnnounced
  <2>8. /\ Sound(Truncate(e, m), r, K) /\ Truncate(e, m).log = e.log
        /\ Truncate(e, m).executed = e.executed
    BY <1>8, <2>1, <2>2, <2>7, TruncateSound
  <2>. QED
    BY <1>3, <1>4, <1>6, <1>7, <1>8, <1>10, <2>8 DEF Extends
<1>. QED
  BY <1>9, <1>10

-----------------------------------------------------------------------------
(* The handlers *)

\* What a handler leaves of a replica's record.
Follows(s, t, r, K) == Sound(t, r, K) /\ s.ckptSent \subseteq t.ckptSent /\ Extends(s, t)

LEMMA SameFollows ==
  ASSUME NEW s \in State, NEW t, NEW r, NEW K, Same(s, t), Sound(s, r, K)
  PROVE  Follows(s, t, r, K)
<1>1. s.executed \in Nat
  BY DEF State
<1>. QED
  BY <1>1, SameSound DEF Same, Follows, Extends

LEMMA FollowsSame ==
  ASSUME NEW s, NEW u, NEW t, NEW r, NEW K, Same(s, u), Follows(u, t, r, K)
  PROVE  Follows(s, t, r, K)
BY DEF Same, Follows, Extends

LEMMA ProposeFollows ==
  ASSUME NEW s, NEW r \in Correct, NEW C, Good(s, r, C), NEW K, Sound(s, r, K),
         NEW d \in Request, CanPropose(s, r, d)
  PROVE  Follows(s, ProposeRequest(s, r, d), r, K)
<1>. DEFINE t == ProposeRequest(s, r, d)
<1>1. s \in State /\ t \in State
  BY ProposeGood DEF Good
<1>2. /\ t.stable = s.stable /\ t.executed = s.executed /\ t.log = s.log
      /\ t.root = s.root /\ t.ckptSent = s.ckptSent /\ t.ckpt = s.ckpt
  BY <1>1 DEF ProposeRequest, SendPrepare, StorePP, State
<1>. HIDE DEF t
<1>3. Follows(s, t, r, K)
  BY <1>1, <1>2, SameFollows DEF Same
<1>. QED
  BY <1>3 DEF t

LEMMA EnteredFollows ==
  ASSUME NEW s \in State, NEW r, NEW K, Sound(s, r, K), NEW v \in View,
         NEW t, Same(EnterView(s, v), t)
  PROVE  Follows(s, t, r, K)
<1>. DEFINE x == EnterView(s, v)
<1>1. /\ Sound(x, r, K)
      /\ x.executed = s.executed /\ x.ckptSent = s.ckptSent /\ x.log = s.log
  BY EnterViewSound
<1>2. s.executed \in Nat
  BY DEF State
<1>. HIDE DEF x
<1>3. Sound(t, r, K)
  BY <1>1, SameSound DEF x
<1>4. t.executed = s.executed /\ t.ckptSent = s.ckptSent /\ t.log = s.log
  BY <1>1 DEF Same, x
<1>. QED
  BY <1>2, <1>3, <1>4 DEF Follows, Extends

LEMMA PrePrepareFollows ==
  ASSUME NEW s, NEW r \in Correct, NEW C, Good(s, r, C), NEW K, Sound(s, r, K),
         NEW v \in View, NEW n \in Seqno, NEW d \in Request \union {NoDigest}
  PROVE  Follows(s, HandlePrePrepare(s, r, v, n, d), r, K)
<1>. DEFINE x == EnterView(s, v)
            entered == [x EXCEPT !.prepared = Larger(@, s.stable),
                                 !.executed = Larger(@, s.stable)]
            here == IF v > s.view THEN entered ELSE s
            stored == [StorePP(here, n, v, d) EXCEPT !.seqno = Larger(@, n + 1)]
            t == HandlePrePrepare(s, r, v, n, d)
<1>1. s \in State /\ t \in State
  BY PrePrepareGood DEF Good
<1>2. /\ x \in State /\ x.executed = s.executed
      /\ s.executed \in Nat /\ s.stable \in Nat /\ s.stable <= s.executed
  <2>1. x \in State /\ x.executed = s.executed
    BY <1>1, EnterViewSound
  <2>2. s.executed \in Nat /\ s.stable \in Nat
    BY <1>1 DEF State
  <2>3. s.stable <= s.executed
    BY DEF Sound, InStep
  <2>. QED
    BY <2>1, <2>2, <2>3
<1>. HIDE DEF x
<1>3. Same(x, entered)
  <2>1. Larger(x.executed, s.stable) = x.executed /\ Larger(x.prepared, s.stable) \in Nat
    BY <1>2 DEF Larger, State
  <2>2. DOMAIN x = DOMAIN s
    BY <1>1, <1>2 DEF State
  <2>. QED
    BY <1>2, <2>1 DEF Same, State
<1>. HIDE DEF entered
<1>4. here \in State /\ Follows(s, here, r, K)
  <2>1. CASE v > s.view
    BY <1>1, <1>3, <2>1, EnteredFollows DEF Same, x
  <2>2. CASE ~(v > s.view)
    BY <1>1, <2>2, SameFollows DEF Same
  <2>. QED
    BY <2>1, <2>2
<1>5. t = here \/ t = stored \/ t = SendPrepare(stored, r, n, d)
  BY DEF HandlePrePrepare, entered, x
<1>. HIDE DEF here, t
<1>6. /\ t.stable = here.stable /\ t.executed = here.executed /\ t.log = here.log
      /\ t.root = here.root /\ t.ckptSent = here.ckptSent /\ t.ckpt = here.ckpt
  BY <1>4, <1>5 DEF SendPrepare, StorePP, State
<1>7. Follows(s, t, r, K)
  <2>1. Sound(t, r, K)
    BY <1>1, <1>4, <1>6, SameSound DEF Same, Follows
  <2>. QED
    BY <1>4, <1>6, <2>1 DEF Follows, Extends
<1>. QED
  BY <1>7 DEF t

LEMMA SendCommitSame ==
  ASSUME NEW s \in State, NEW r \in Correct, NEW n \in Seqno
  PROVE  Same(s, SendCommit(s, r, n))
<1>1. SendCommit(s, r, n) \in State
  BY SendCommitFacts
<1>. QED
  BY <1>1 DEF SendCommit, Same, State

LEMMA PrepareFollows ==
  ASSUME FewFaulty, NEW s, NEW r \in Correct, NEW C, Good(s, r, C), NEW K, Sound(s, r, K),
         NEW q \in Replica, NEW n \in Seqno, NEW d \in Request,
         NEW t \in HandlePrepare(s, r, q, n, d),
         t.commitSent \subseteq C[r], t.ckptSent \subseteq K[r]
  PROVE  Follows(s, t, r, K)
<1>. DEFINE c == AddVote(s.prepares[n], q, d)
            added == [s EXCEPT !.prepares[n] = AddVote(@, q, d)]
            prep == [added EXCEPT !.prepared = Larger(@, n)]
            sent == IF prep.commits[n][r] = NoDigest THEN SendCommit(prep, r, n) ELSE prep
<1>1. s \in State /\ n \in Nat
  BY ConstantTypes DEF Good
<1>2. added \in State /\ Good(added, r, C) /\ Same(s, added)
  <2>1. c \in Cert
    BY <1>1, AddVoteType DEF State, Cert
  <2>2. added = [s EXCEPT !.prepares[n] = c]
    OBVIOUS
  <2>. HIDE DEF c, added
  <2>3. /\ added \in State /\ added.stable = s.stable /\ added.pp = s.pp
        /\ added.commits = s.commits /\ added.log = s.log /\ added.commitSent = s.commitSent
    BY <1>1, <2>1, <2>2 DEF State
  <2>4. Same(s, added)
    BY <1>1, <2>2, <2>3 DEF Same, State
  <2>. QED
    BY <2>3, <2>4, FrameGood
<1>. HIDE DEF added
<1>3. prep \in State /\ Good(prep, r, C) /\ Same(added, prep)
  <2>1. Larger(added.prepared, n) \in Nat
    BY <1>1, <1>2 DEF State, Larger
  <2>2. /\ prep \in State /\ prep.stable = added.stable /\ prep.pp = added.pp
        /\ prep.commits = added.commits /\ prep.log = added.log
        /\ prep.commitSent = added.commitSent
    BY <1>2, <2>1 DEF State
  <2>3. Same(added, prep)
    BY <1>2, <2>2 DEF Same, State
  <2>. QED
    BY <1>2, <2>2, <2>3, FrameGood
<1>. HIDE DEF prep
<1>4. sent \in State /\ Same(prep, sent)
  BY <1>3, SendCommitSame DEF Same
<1>5. ASSUME sent.commitSent \subseteq C[r] PROVE Good(sent, r, C)
  BY <1>3, <1>5, SendCommitGood
<1>. HIDE DEF sent
<1>6. Same(s, sent)
  BY <1>2, <1>3, <1>4, SameTwice
<1>7. \/ t = added
      \/ t \in ExecuteCommitted(sent, r)
      \/ t = sent
  BY DEF HandlePrepare, added, prep, sent
<1>8. CASE t = added
  BY <1>1, <1>2, <1>8, SameFollows
<1>9. CASE t \in ExecuteCommitted(sent, r)
  <2>1. t.commitSent = sent.commitSent
    BY <1>4, <1>9, ExecuteCommittedSent
  <2>2. Good(sent, r, C) /\ Sound(sent, r, K)
    BY <1>5, <1>6, <2>1, SameSound
  <2>3. Follows(sent, t, r, K)
    BY <1>9, <2>2, ExecuteCommittedSound DEF Follows
  <2>. QED
    BY <1>6, <2>3, FollowsSame
<1>10. CASE t = sent
  BY <1>1, <1>6, <1>10, SameFollows
<1>. QED
  BY <1>7, <1>8, <1>9, <1>10

LEMMA CommitFollows ==
  ASSUME FewFaulty, NEW s, NEW r \in Correct, NEW C, Good(s, r, C), NEW K, Sound(s, r, K),
         NEW q \in Replica, NEW n \in Seqno, NEW d \in Request,
         q \in Correct => SentIn(C, q, n, d),
         NEW t \in HandleCommit(s, r, q, n, d),
         t.commitSent \subseteq C[r], t.ckptSent \subseteq K[r]
  PROVE  Follows(s, t, r, K)
<1>. DEFINE added == [s EXCEPT !.commits[n] = AddVote(@, q, d)]
<1>1. added \in State /\ Good(added, r, C)
  BY CountCommitGood
<1>2. s \in State /\ Same(s, added)
  <2>1. s \in State
    BY DEF Good
  <2>. QED
    BY <1>1, <2>1 DEF Same, State
<1>. HIDE DEF added
<1>3. PICK u \in {added, SendCommit(added, r, n)} : t = u \/ t \in ExecuteCommitted(u, r)
  BY DEF HandleCommit, added
<1>4. u \in State /\ Same(s, u)
  BY <1>1, <1>2, <1>3, SendCommitSame, SameTwice DEF Same
<1>5. CASE t = u
  BY <1>2, <1>4, <1>5, SameFollows
<1>6. CASE t \in ExecuteCommitted(u, r)
  <2>1. t.commitSent = u.commitSent
    BY <1>4, <1>6, ExecuteCommittedSent
  <2>2. Good(u, r, C)
    BY <1>1, <1>3, <2>1, SendCommitGood
  <2>3. Sound(u, r, K)
    BY <1>4, SameSound
  <2>4. Follows(u, t, r, K)
    BY <1>6, <2>2, <2>3, ExecuteCommittedSound DEF Follows
  <2>. QED
    BY <1>4, <2>4, FollowsSame
<1>. QED
  BY <1>3, <1>5, <1>6

LEMMA StatusFollows ==
  ASSUME NEW s \in State, NEW r \in Correct, NEW K, Sound(s, r, K), NEW v \in View,
         NEW ls \in Nat, NEW le \in Nat, NEW t \in HandleStatus(s, r, v, ls, le)
  PROVE  Follows(s, t, r, K)
<1>1. PICK u, w : /\ u = s \/ u \in AdoptStatusView(s, v, ls, le)
                  /\ w = u \/ w \in MayFetch(u, StatusTarget(ls, le))
                  /\ t = w \/ t = ResendCommits(w, r, le)
  BY DEF HandleStatus
<1>2. u \in State /\ Follows(s, u, r, K)
  <2>1. CASE u = s
    BY <2>1, SameFollows DEF Same
  <2>2. CASE u \in AdoptStatusView(s, v, ls, le)
    <3>. DEFINE x == EnterView(s, v)
                next == Larger(x.seqno, Larger(s.stable, Larger(s.prepared, s.executed)) + 1)
                entered == [x EXCEPT !.seqno = next]
    <3>1. x \in State
      BY EnterViewSound
    <3>2. next \in Nat
      <4>1. x.seqno \in Nat
        BY <3>1 DEF State
      <4>. QED
        BY <4>1, NextType
    <3>3. u = entered \/ u = [entered EXCEPT !.fetch = StatusTarget(ls, le)]
      BY <2>2 DEF AdoptStatusView
    <3>. HIDE DEF x, next
    <3>4. entered \in State /\ Same(x, entered)
      BY <3>1, <3>2 DEF Same, State
    <3>. HIDE DEF entered
    <3>5. Same(entered, u)
      <4>1. StatusTarget(ls, le) \in Nat
        BY StatusTargetType
      <4>. DEFINE target == StatusTarget(ls, le)
      <4>. HIDE DEF target
      <4>2. CASE u = entered
        BY <3>4, <4>2 DEF Same
      <4>3. CASE u = [entered EXCEPT !.fetch = target]
        BY <3>4, <4>1, <4>3 DEF Same, State, target
      <4>. QED
        BY <3>3, <4>2, <4>3 DEF target
    <3>6. Same(x, u)
      BY <3>4, <3>5, SameTwice
    <3>. QED
      BY <3>6, EnteredFollows DEF Same, x
  <2>. QED
    BY <1>1, <2>1, <2>2
<1>3. Same(u, w)
  BY <1>1, <1>2, StatusTargetType, MayFetchSame DEF Same
<1>4. Same(w, t)
  <2>1. w \in State
    BY <1>3 DEF Same
  <2>2. CASE t = w
    BY <2>1, <2>2 DEF Same
  <2>3. CASE t = ResendCommits(w, r, le)
    <3>1. t \in State
      BY <2>1, <2>3, ResendFacts
    <3>. QED
      BY <2>1, <2>3, <3>1 DEF ResendCommits, Same, State
  <2>. QED
    BY <1>1, <2>2, <2>3
<1>5. Same(u, t)
  BY <1>3, <1>4, SameTwice
<1>6. Sound(t, r, K) /\ t.ckptSent = u.ckptSent /\ t.log = u.log /\ t.executed = u.executed
  BY <1>2, <1>5, SameSound DEF Same, Follows
<1>. QED
  BY <1>2, <1>6 DEF Follows, Extends

-----------------------------------------------------------------------------
(* The invariant *)

\* More checkpoints announced by others never hurt.
LEMMA MonotoneSound ==
  ASSUME NEW s, NEW r \in Correct, NEW K, NEW L, Sound(s, r, K),
         \A q \in Correct : K[q] \subseteq L[q]
  PROVE  Sound(s, r, L)
<1>1. RegionBacked(s.ckpt, L)
  BY DEF Sound, RegionBacked
<1>2. StableBacked(s, L)
  <2>1. SUFFICES ASSUME s.stable > 0 PROVE Cardinality(Announcers(L, s.stable)) >= F + 1
    BY DEF StableBacked
  <2>2. Cardinality(Announcers(K, s.stable)) >= F + 1
    BY <2>1 DEF Sound, StableBacked
  <2>. QED
    BY <2>2, AnnouncersGrow, AnnouncersFinite, ConfigAssumption
<1>. QED
  BY <1>1, <1>2 DEF Sound

LEMMA InitSound == Init => CInv
<1>. SUFFICES ASSUME Init PROVE CInv
  OBVIOUS
<1>1. \A r \in Correct : replica[r] = InitState
  BY DEF Init
<1>2. /\ InitState.stable = 0 /\ InitState.executed = 0 /\ InitState.log = EmptyLog
      /\ InitState.root = EmptyLog /\ InitState.ckptSent = {} /\ InitState.ckpt = EmptyRegion
  BY DEF InitState
<1>3. InStep(InitState)
  <2>1. \A k \in Seqno : ~(k <= 0)
    BY BoundAssumption DEF Seqno
  <2>2. Filled(EmptyLog, 0) /\ EmptyLog = Prefix(EmptyLog, 0)
    BY <2>1 DEF Filled, EmptyLog, Prefix
  <2>3. 0 \in 0 .. MaxSeqno
    BY BoundAssumption
  <2>. QED
    BY <1>2, <2>2, <2>3 DEF InStep
<1>4. RegionBacked(InitState.ckpt, Told) /\ StableBacked(InitState, Told)
  BY <1>2, ConstantTypes DEF RegionBacked, StableBacked, EmptyRegion, EmptySlot, EmptyCert
<1>5. \A r \in Correct : Sound(InitState, r, Told)
  BY <1>2, <1>3, <1>4 DEF Sound
<1>. QED
  BY <1>1, <1>5, InitInv DEF CInv

\* What was sent once r's record is t.
SentWith(r, t) == [q \in Correct |-> IF q = r THEN Sent[q] \union t.commitSent ELSE Sent[q]]
ToldWith(r, t) == [q \in Correct |-> IF q = r THEN Told[q] \union t.ckptSent ELSE Told[q]]

LEMMA Before ==
  ASSUME CInv, NEW r \in Correct, NEW t
  PROVE  /\ replica[r] \in State
         /\ Good(replica[r], r, SentWith(r, t)) /\ t.commitSent \subseteq SentWith(r, t)[r]
         /\ \A q \in Correct : Sent[q] \subseteq SentWith(r, t)[q]
         /\ \A q \in Correct : Sound(replica[q], q, ToldWith(r, t))
         /\ t.ckptSent \subseteq ToldWith(r, t)[r]
<1>1. /\ \A q \in Correct : Sent[q] \subseteq SentWith(r, t)[q]
      /\ \A q \in Correct : Told[q] \subseteq ToldWith(r, t)[q]
  BY DEF SentWith, ToldWith
<1>2. t.commitSent \subseteq SentWith(r, t)[r] /\ t.ckptSent \subseteq ToldWith(r, t)[r]
  BY DEF SentWith, ToldWith
<1>3. replica[r] \in State /\ Good(replica[r], r, Sent)
  BY DEF CInv, IInv
<1>4. Good(replica[r], r, SentWith(r, t))
  BY <1>1, <1>3, MonotoneGood
<1>5. \A q \in Correct : Sound(replica[q], q, ToldWith(r, t))
  BY <1>1, MonotoneSound DEF CInv
<1>. QED
  BY <1>1, <1>2, <1>3, <1>4, <1>5

\* What a step keeps: the invariant, and every entry of a log.
Kept == CInv' /\ \A q \in Correct : Extends(replica[q], replica'[q])

LEMMA BecomeKept ==
  ASSUME CInv, IInv', NEW r \in Correct, NEW t, Become(r, t),
         Follows(replica[r], t, r, ToldWith(r, t))
  PROVE  Kept
<1>. DEFINE K == ToldWith(r, t)
<1>1. \A q \in Correct : Sound(replica[q], q, K)
  BY Before
<1>2. K = Told'
  BY DEF Follows, ToldWith, Told, Become, CInv, IInv
<1>. HIDE DEF K
<1>3. \A q \in Correct : replica'[q] = IF q = r THEN t ELSE replica[q]
  BY DEF Become, CInv, IInv
<1>4. \A q \in Correct : Sound(replica'[q], q, K)
  BY <1>1, <1>3 DEF Follows, K
<1>5. CInv'
  BY <1>2, <1>4 DEF CInv
<1>6. ASSUME NEW q \in Correct PROVE Extends(replica[q], replica'[q])
  <2>1. replica[q].executed \in Nat
    BY DEF CInv, IInv, State
  <2>. QED
    BY <1>3, <2>1 DEF Follows, Extends
<1>. QED
  BY <1>5, <1>6 DEF Kept

LEMMA ToldFilled == CInv => KFilled(Told)
<1>. SUFFICES ASSUME CInv, NEW q \in Correct, NEW a \in replica[q].ckptSent
              PROVE  a.seqno \in Seqno /\ Filled(a.digest, a.seqno)
  BY DEF KFilled, Told
<1>. DEFINE s == replica[q]
<1>1. s \in State /\ InStep(s)
  BY DEF CInv, IInv, Sound
<1>2. /\ a.seqno \in Seqno /\ a.seqno <= s.executed /\ a.digest = Prefix(s.log, a.seqno)
      /\ Filled(s.log, s.executed)
  BY <1>1 DEF InStep
<1>3. s.executed \in Nat /\ a.seqno \in Nat
  BY <1>1, <1>2, ConstantTypes DEF State
<1>. HIDE DEF s
<1>. QED
  BY <1>2, <1>3, PrefixFilled

LEMMA StepKept == ASSUME FewFaulty, CInv, [Next]_vars PROVE Kept
<1>0. IInv'
  BY StepInv DEF CInv
<1>1. CASE UNCHANGED vars
  <2>1. \A q \in Correct : replica[q].executed \in Nat
    BY DEF CInv, IInv, State
  <2>2. Told' = Told /\ replica' = replica
    BY <1>1 DEF vars, Told
  <2>3. CInv'
    BY <1>0, <2>2 DEF CInv
  <2>. QED
    BY <2>1, <2>2, <2>3 DEF Kept, Extends
<1>2. ASSUME NEW r \in Correct, Propose(r) PROVE Kept
  <2>1. PICK d \in Request : /\ CanPropose(replica[r], r, d)
                             /\ Become(r, ProposeRequest(replica[r], r, d))
    BY <1>2 DEF Propose
  <2>2. Follows(replica[r], ProposeRequest(replica[r], r, d), r,
                ToldWith(r, ProposeRequest(replica[r], r, d)))
    BY <2>1, Before, ProposeFollows
  <2>. QED
    BY <1>0, <2>1, <2>2, BecomeKept
<1>3. ASSUME NEW r \in Correct, RecvPrePrepare(r) PROVE Kept
  <2>1. PICK v \in View : \E m \in PPsOf(v) :
          Become(r, HandlePrePrepare(replica[r], r, v, m.seqno, m.digest))
    BY <1>3 DEF RecvPrePrepare
  <2>2. PICK m \in PPsOf(v) : Become(r, HandlePrePrepare(replica[r], r, v, m.seqno, m.digest))
    BY <2>1
  <2>3. m.seqno \in Seqno /\ m.digest \in Request \union {NoDigest}
    BY <2>2, MessageTypes, ConstantTypes DEF CInv
  <2>. DEFINE t == HandlePrePrepare(replica[r], r, v, m.seqno, m.digest)
  <2>4. Follows(replica[r], t, r, ToldWith(r, t))
    BY <2>3, Before, PrePrepareFollows
  <2>. HIDE DEF t
  <2>5. Become(r, t)
    BY <2>2 DEF t
  <2>. QED
    BY <1>0, <2>4, <2>5, BecomeKept
<1>4. ASSUME NEW r \in Correct, RecvPrepare(r) PROVE Kept
  <2>1. PICK q \in Replica, m \in Vote :
          \E t \in HandlePrepare(replica[r], r, q, m.seqno, m.digest) : Become(r, t)
    BY <1>4, MessageTypes DEF RecvPrepare, CInv
  <2>2. PICK t \in HandlePrepare(replica[r], r, q, m.seqno, m.digest) : Become(r, t)
    BY <2>1
  <2>3. m.seqno \in Seqno /\ m.digest \in Request
    BY DEF Vote
  <2>4. Follows(replica[r], t, r, ToldWith(r, t))
    BY <2>2, <2>3, Before, PrepareFollows
  <2>. QED
    BY <1>0, <2>2, <2>4, BecomeKept
<1>5. ASSUME NEW r \in Correct, RecvCommit(r) PROVE Kept
  <2>1. PICK q \in Replica : \E m \in CommitsOf(q) :
          \E t \in HandleCommit(replica[r], r, q, m.seqno, m.digest) : Become(r, t)
    BY <1>5 DEF RecvCommit
  <2>2. PICK m \in CommitsOf(q) :
          \E t \in HandleCommit(replica[r], r, q, m.seqno, m.digest) : Become(r, t)
    BY <2>1
  <2>3. PICK t \in HandleCommit(replica[r], r, q, m.seqno, m.digest) : Become(r, t)
    BY <2>2
  <2>4. m \in Vote
    BY <2>2, MessageTypes DEF CInv
  <2>5. m.seqno \in Seqno /\ m.digest \in Request
    BY <2>4 DEF Vote
  <2>6. q \in Correct => SentIn(Sent, q, m.seqno, m.digest)
    BY <2>2 DEF CommitsOf, Correct, SentIn, Sent
  <2>7. q \in Correct => SentIn(SentWith(r, t), q, m.seqno, m.digest)
    BY <2>6, Before DEF SentIn
  <2>8. Follows(replica[r], t, r, ToldWith(r, t))
    BY <2>3, <2>5, <2>7, Before, CommitFollows
  <2>. QED
    BY <1>0, <2>3, <2>8, BecomeKept
<1>6. ASSUME NEW r \in Correct, RecvCheckpoint(r) PROVE Kept
  <2>1. PICK q \in Replica : \E m \in CkptsOf(q) :
          \E t \in HandleCheckpoint(replica[r], q, m.seqno, m.digest) : Become(r, t)
    BY <1>6 DEF RecvCheckpoint
  <2>2. PICK m \in CkptsOf(q) :
          \E t \in HandleCheckpoint(replica[r], q, m.seqno, m.digest) : Become(r, t)
    BY <2>1
  <2>3. PICK t \in HandleCheckpoint(replica[r], q, m.seqno, m.digest) : Become(r, t)
    BY <2>2
  <2>4. m.seqno \in Nat /\ m.digest \in Log
    BY <2>2, MessageTypes DEF CInv
  <2>5. q \in Correct => [seqno |-> m.seqno, digest |-> m.digest] \in Told[q]
    <3>1. SUFFICES ASSUME q \in Correct
                   PROVE  [seqno |-> m.seqno, digest |-> m.digest] \in replica[q].ckptSent
      BY DEF Told
    <3>2. m \in replica[q].ckptSent
      BY <2>2, <3>1 DEF CkptsOf, Correct
    <3>3. m \in [seqno : Nat, digest : Log]
      BY <3>1, <3>2 DEF CInv, IInv, State
    <3>4. m = [seqno |-> m.seqno, digest |-> m.digest]
      BY <3>3
    <3>. QED
      BY <3>2, <3>4
  <2>6. replica[r] \in State /\ Sound(replica[r], r, Told)
    BY DEF CInv, IInv
  <2>7. /\ Sound(t, r, Told) /\ t.ckptSent = replica[r].ckptSent
        /\ t.log = replica[r].log /\ t.executed = replica[r].executed
    BY <2>3, <2>4, <2>5, <2>6, ToldFilled, CheckpointSound
  <2>8. ToldWith(r, t) = Told
    BY <2>7 DEF ToldWith, Told
  <2>9. replica[r].executed \in Nat
    BY <2>6 DEF State
  <2>10. Follows(replica[r], t, r, ToldWith(r, t))
    BY <2>7, <2>8, <2>9 DEF Follows, Extends
  <2>. QED
    BY <1>0, <2>3, <2>10, BecomeKept
<1>7. ASSUME NEW r \in Correct, RecvStatus(r) PROVE Kept
  <2>1. PICK v \in View, ls \in PeerSeqno, le \in PeerSeqno :
          \E t \in HandleStatus(replica[r], r, v, ls, le) : Become(r, t)
    BY <1>7 DEF RecvStatus
  <2>2. PICK t \in HandleStatus(replica[r], r, v, ls, le) : Become(r, t)
    BY <2>1
  <2>3. ls \in Nat /\ le \in Nat
    BY BoundAssumption
  <2>4. Follows(replica[r], t, r, ToldWith(r, t))
    BY <2>2, <2>3, Before, StatusFollows
  <2>. QED
    BY <1>0, <2>2, <2>4, BecomeKept
<1>8. ASSUME NEW r \in Correct, StartViewChange(r) PROVE Kept
  <2>. DEFINE t == [replica[r] EXCEPT !.inProgress = TRUE]
  <2>1. Become(r, t)
    BY <1>8 DEF StartViewChange
  <2>2. replica[r] \in State
    BY DEF CInv, IInv
  <2>3. Same(replica[r], t)
    BY <2>2 DEF Same, State
  <2>. HIDE DEF t
  <2>4. Follows(replica[r], t, r, ToldWith(r, t))
    BY <2>2, <2>3, Before, SameFollows
  <2>. QED
    BY <1>0, <2>1, <2>4, BecomeKept
<1>. QED
  BY <1>1, <1>2, <1>3, <1>4, <1>5, <1>6, <1>7, <1>8 DEF Next

-----------------------------------------------------------------------------
(* Theorems *)

\* With at most F faulty replicas, the inductive invariant holds of every
\* behaviour.
THEOREM CheckpointInvariant == ASSUME FewFaulty PROVE Spec => []CInv
<1>1. CInv /\ [Next]_vars => CInv'
  BY StepKept DEF Kept
<1>. QED
  BY <1>1, InitSound, PTL DEF Spec

\* execute_committed executes every sequence number up to last_executed and
\* none beyond, for any number of replicas, and the stable point never passes
\* it: mark_stable never takes a root for a checkpoint not yet executed.
THEOREM NothingSkipped == ASSUME FewFaulty PROVE Spec => []NoGaps
<1>1. CInv => NoGaps
  BY DEF CInv, Sound, InStep, Filled, NoGaps
<1>. QED
  BY <1>1, CheckpointInvariant, PTL

\* The stable point moves only to a checkpoint that F+1 correct replicas
\* executed up to and announced.
THEOREM StableProven == ASSUME FewFaulty PROVE Spec => []StableIsProven
<1>1. CInv => StableIsProven
  BY DEF CInv, Sound, StableBacked, Announcers, Told, StableIsProven
<1>. QED
  BY <1>1, CheckpointInvariant, PTL

\* exec_cb is called in the order of the sequence numbers and never twice for
\* one of them.
THEOREM InOrder == ASSUME FewFaulty PROVE Spec => ExecutesInOrder
<1>1. ASSUME CInv, Kept, NEW r \in Correct, NEW n \in Seqno,
             replica'[r].log[n] # replica[r].log[n]
      PROVE  /\ n > replica[r].executed
             /\ \A k \in 1 .. n : replica'[r].log[k] # NoDigest
  <2>1. n > replica[r].executed /\ replica'[r].log[n] # NoDigest
    BY <1>1 DEF Kept, Extends
  <2>2. Filled(replica'[r].log, replica'[r].executed)
    BY <1>1 DEF Kept, CInv, Sound, InStep
  <2>3. replica'[r].executed \in Nat
    BY <1>1 DEF Kept, CInv, IInv, State
  <2>4. n <= replica'[r].executed
    BY <2>1, <2>2 DEF Filled
  <2>5. \A k \in 1 .. n : k \in Seqno /\ k <= replica'[r].executed
    BY <2>3, <2>4, BoundAssumption DEF Seqno
  <2>. QED
    BY <2>1, <2>2, <2>5 DEF Filled
<1>2. CInv /\ [Next]_vars =>
        [\A r \in Correct : \A n \in Seqno :
           replica'[r].log[n] # replica[r].log[n] =>
             /\ n > replica[r].executed
             /\ \A k \in 1 .. n : replica'[r].log[k] # NoDigest]_vars
  BY <1>1, StepKept
<1>. QED
  BY <1>2, CheckpointInvariant, PTL DEF Spec, ExecutesInOrder

\* With at most 3F+1 replicas of which at most F are faulty, correct replicas
\* announce one root digest per checkpoint.
THEOREM OneRoot == ASSUME FaultBound PROVE Spec => []CheckpointAgreement
<1>1. ASSUME CInv, Agreement, NEW r \in Correct, NEW q \in Correct,
             NEW m1 \in replica[r].ckptSent, NEW m2 \in replica[q].ckptSent,
             m1.seqno = m2.seqno
      PROVE  m1.digest = m2.digest
  <2>. DEFINE n == m1.seqno
  <2>1. /\ n \in Seqno /\ n <= replica[r].executed /\ m1.digest = Prefix(replica[r].log, n)
        /\ n <= replica[q].executed /\ m2.digest = Prefix(replica[q].log, n)
        /\ Filled(replica[r].log, replica[r].executed)
        /\ Filled(replica[q].log, replica[q].executed)
    BY <1>1 DEF CInv, Sound, InStep
  <2>2. replica[r].executed \in Nat /\ replica[q].executed \in Nat /\ n \in Nat
    BY <1>1, <2>1, ConstantTypes DEF CInv, IInv, State
  <2>. HIDE DEF n
  <2>3. \A k \in Seqno : k <= n => k <= replica[r].executed /\ k <= replica[q].executed
    <3>1. \A k \in Seqno : k \in Nat
      BY ConstantTypes
    <3>. DEFINE e == replica[r].executed
                f == replica[q].executed
    <3>2. e \in Nat /\ f \in Nat /\ n <= e /\ n <= f
      BY <2>1, <2>2
    <3>. HIDE DEF e, f
    <3>3. \A k \in Seqno : k <= n => k <= e /\ k <= f
      BY <2>2, <3>1, <3>2
    <3>. QED
      BY <3>3 DEF e, f
  <2>4. \A k \in Seqno : k <= n => replica[r].log[k] = replica[q].log[k]
    BY <1>1, <2>1, <2>3 DEF Agreement, Filled
  <2>. QED
    BY <2>1, <2>4 DEF Prefix
<1>2. CInv /\ Agreement => CheckpointAgreement
  BY <1>1 DEF CheckpointAgreement
<1>3. FewFaulty
  BY DEF FaultBound, FewFaulty
<1>. QED
  BY <1>2, <1>3, CheckpointInvariant, Safety, PTL

-----------------------------------------------------------------------------
(***************************************************************************)
(* Proof that the agreement protocol implements the ledger, for every      *)
(* number of replicas, window, interval and behaviour of the faulty ones.  *)
(*                                                                         *)
(* The steps are proved on the function from correct replica to record     *)
(* before and after, of which three facts are needed: each log is filled   *)
(* exactly up to last_executed, logs agree where both are filled, and a    *)
(* step extends the log of one replica.  The logs of two replicas that are *)
(* furthest ahead are then the same, whichever of them CHOOSE takes.       *)
(***************************************************************************)

LogOf(s) == [n \in 1 .. s.executed |-> IF n \in Seqno THEN s.log[n] ELSE NoDigest]

Whole(rep) ==
  \A r \in Correct :
    /\ rep[r].executed \in 0 .. MaxSeqno
    /\ rep[r].log \in Log
    /\ Filled(rep[r].log, rep[r].executed)

Agreed(rep) ==
  \A r, q \in Correct : \A n \in Seqno :
    n <= rep[r].executed /\ n <= rep[q].executed => rep[r].log[n] = rep[q].log[n]

Foremost(rep, f) == f \in Correct /\ \A q \in Correct : rep[q].executed <= rep[f].executed

\* A step of r alone.
MovesOne(rep, new, r) ==
  /\ \A q \in Correct : q # r => new[q] = rep[q]
  /\ Extends(rep[r], new[r])

-----------------------------------------------------------------------------
(* Sequences *)

Rest(b, m, k) == [n \in 1 .. (k - m) |-> b[m + n]]

LEMMA AppendIsLonger ==
  ASSUME NEW S, NEW M \in Nat, NEW K \in Nat,
         NEW a \in [1 .. M -> S], NEW b \in [1 .. K -> S], K >= M,
         \A n \in 1 .. M : a[n] = b[n]
  PROVE  b = a \o Rest(b, M, K)
<1>. DEFINE c == Rest(b, M, K)
<1>1. \A n \in 1 .. (K - M) : M + n \in 1 .. K
  OBVIOUS
<1>2. c \in [1 .. (K - M) -> S]
  BY <1>1 DEF Rest
<1>3. a \in Seq(S) /\ Len(a) = M /\ b \in Seq(S) /\ Len(b) = K
  BY SeqDef
<1>4. c \in Seq(S) /\ Len(c) = K - M
  <2>1. K - M \in Nat
    OBVIOUS
  <2>. HIDE DEF c
  <2>. QED
    BY <1>2, <2>1
<1>5. \A n \in 1 .. (K - M) : c[n] = b[M + n]
  BY DEF Rest
<1>. HIDE DEF c
<1>6. a \o c \in Seq(S) /\ Len(a \o c) = K
  <2>1. a \o c \in Seq(S) /\ Len(a \o c) = Len(a) + Len(c)
    BY <1>3, <1>4, ConcatProperties
  <2>2. M + (K - M) = K
    OBVIOUS
  <2>. QED
    BY <1>3, <1>4, <2>1, <2>2
<1>7. ASSUME NEW n \in 1 .. K PROVE (a \o c)[n] = b[n]
  <2>1. CASE n <= M
    BY <1>3, <1>4, <2>1, ConcatProperties
  <2>2. CASE ~(n <= M)
    <3>1. n - M \in 1 .. (K - M) /\ M + (n - M) = n
      BY <2>2
    <3>2. (a \o c)[n] = c[n - M]
      BY <1>3, <1>4, <2>2, ConcatProperties
    <3>. QED
      BY <1>5, <3>1, <3>2
  <2>. QED
    BY <2>1, <2>2
<1>8. b = a \o c
  BY <1>3, <1>6, <1>7, SeqEqual
<1>. QED
  BY <1>8 DEF c

LEMMA SubSeqIs ==
  ASSUME NEW S, NEW K \in Nat, NEW k \in 0 .. K, NEW a \in [1 .. K -> S],
         NEW b \in [1 .. k -> S], \A n \in 1 .. k : a[n] = b[n]
  PROVE  b = SubSeq(a, 1, k)
<1>1. b \in Seq(S) /\ Len(b) = k /\ \A i \in 1 .. k : a[i] \in S
  OBVIOUS
<1>2. /\ SubSeq(a, 1, k) \in Seq(S)
      /\ Len(SubSeq(a, 1, k)) = IF 1 <= k THEN k - 1 + 1 ELSE 0
      /\ \A i \in 1 .. k - 1 + 1 : SubSeq(a, 1, k)[i] = a[1 + i - 1]
  BY <1>1, SubSeqProperties
<1>3. Len(SubSeq(a, 1, k)) = k
  BY <1>2
<1>4. \A i \in 1 .. k : SubSeq(a, 1, k)[i] = b[i]
  <2>1. SUFFICES ASSUME NEW i \in 1 .. k PROVE SubSeq(a, 1, k)[i] = b[i]
    OBVIOUS
  <2>2. i \in 1 .. k - 1 + 1 /\ 1 + i - 1 = i
    OBVIOUS
  <2>. QED
    BY <1>2, <2>2
<1>. QED
  BY <1>1, <1>2, <1>3, <1>4, SeqEqual

-----------------------------------------------------------------------------
(* One step *)

LEMMA LogOfType ==
  ASSUME NEW rep, Whole(rep), NEW r \in Correct
  PROVE  /\ rep[r].executed \in 0 .. MaxSeqno /\ rep[r].executed \in Nat
         /\ LogOf(rep[r]) \in [1 .. rep[r].executed -> Request]
         /\ Len(LogOf(rep[r])) = rep[r].executed
         /\ \A n \in 1 .. rep[r].executed : n \in Seqno /\ LogOf(rep[r])[n] = rep[r].log[n]
<1>. DEFINE s == rep[r]
            e == s.executed
<1>1. e \in 0 .. MaxSeqno /\ s.log \in Log /\ Filled(s.log, e)
  BY DEF Whole
<1>. HIDE DEF e
<1>2. e \in Nat /\ \A n \in 1 .. e : n \in Seqno /\ n <= e
  BY <1>1, BoundAssumption DEF Seqno
<1>3. \A n \in 1 .. e : s.log[n] \in Request
  BY <1>1, <1>2 DEF Filled, Log
<1>4. LogOf(s) = [n \in 1 .. e |-> IF n \in Seqno THEN s.log[n] ELSE NoDigest]
  BY DEF LogOf, e
<1>. HIDE DEF s
<1>5. LogOf(s) \in [1 .. e -> Request] /\ \A n \in 1 .. e : LogOf(s)[n] = s.log[n]
  BY <1>2, <1>3, <1>4
<1>6. Len(LogOf(s)) = e
  BY <1>2, <1>4
<1>. QED
  BY <1>1, <1>2, <1>5, <1>6 DEF s, e

\* What is executed stays executed, in every replica.
LEMMA EntriesStay ==
  ASSUME NEW rep, NEW new, NEW r \in Correct, Whole(rep), Whole(new), MovesOne(rep, new, r),
         NEW q \in Correct
  PROVE  /\ rep[q].executed <= new[q].executed
         /\ \A n \in 1 .. rep[q].executed : new[q].log[n] = rep[q].log[n]
<1>1. rep[q].executed \in Nat /\ \A n \in 1 .. rep[q].executed : n \in Seqno
  BY LogOfType
<1>. DEFINE e == rep[q].executed
<1>2. CASE q # r
  BY <1>1, <1>2 DEF MovesOne
<1>3. CASE q = r
  <2>1. /\ e <= new[q].executed
        /\ \A k \in Seqno : new[q].log[k] # rep[q].log[k] => k > e
    BY <1>3 DEF MovesOne, Extends
  <2>2. e \in Nat /\ \A n \in 1 .. e : n \in Seqno
    BY <1>1
  <2>. HIDE DEF e
  <2>3. \A n \in 1 .. e : ~(n > e)
    BY <2>2
  <2>4. e <= new[q].executed /\ \A n \in 1 .. e : new[q].log[n] = rep[q].log[n]
    BY <2>1, <2>2, <2>3
  <2>. QED
    BY <2>4 DEF e
<1>. QED
  BY <1>2, <1>3

\* Whoever is foremost, its log is the same.
LEMMA SamePoint ==
  ASSUME NEW rep, Whole(rep), Agreed(rep), NEW r \in Correct, NEW q \in Correct,
         NEW n \in Nat, n >= 1, n <= rep[r].executed, n <= rep[q].executed
  PROVE  rep[r].log[n] = rep[q].log[n]
<1>1. n \in Seqno
  <2>1. rep[r].executed \in Nat /\ \A k \in 1 .. rep[r].executed : k \in Seqno
    BY LogOfType
  <2>. QED
    BY <2>1
<1>. QED
  BY <1>1 DEF Agreed

LEMMA Still ==
  ASSUME NEW rep, NEW new, NEW r \in Correct, Whole(rep), Whole(new), Agreed(new),
         MovesOne(rep, new, r), NEW f, NEW g, Foremost(rep, f), Foremost(new, g),
         new[r].executed = rep[r].executed
  PROVE  /\ LogOf(new[g]) = LogOf(rep[f])
         /\ \A q \in Correct : LogOf(new[q]) = LogOf(rep[q])
<1>1. \A q \in Correct : new[q].executed = rep[q].executed
  BY DEF MovesOne
<1>2. ASSUME NEW q \in Correct PROVE LogOf(new[q]) = LogOf(rep[q])
  BY <1>1, EntriesStay DEF LogOf
<1>3. f \in Correct /\ g \in Correct /\ new[f].executed \in Nat /\ new[g].executed \in Nat
  BY LogOfType DEF Foremost
<1>4. new[f].executed = new[g].executed
  <2>1. new[f].executed <= new[g].executed /\ new[g].executed <= new[f].executed
    BY <1>1, <1>3 DEF Foremost
  <2>. QED
    BY <1>3, <2>1
<1>5. \A n \in 1 .. new[f].executed : new[g].log[n] = new[f].log[n]
  <2>1. SUFFICES ASSUME NEW n \in 1 .. new[f].executed PROVE new[g].log[n] = new[f].log[n]
    OBVIOUS
  <2>2. n \in Nat /\ n >= 1 /\ n <= new[f].executed /\ n <= new[g].executed
    BY <1>3, <1>4
  <2>. QED
    BY <1>3, <2>2, SamePoint
<1>6. LogOf(new[g]) = LogOf(new[f])
  BY <1>4, <1>5 DEF LogOf
<1>. QED
  BY <1>2, <1>3, <1>6

\* What Service!Execute says of the logs of r and of those furthest ahead.
Executes(rep, new, r, f, g) ==
  \E k \in Len(LogOf(rep[r])) + 1 .. MaxSeqno :
    \E more \in [1 .. (IF k > Len(LogOf(rep[f])) THEN k - Len(LogOf(rep[f])) ELSE 0)
                   -> Request] :
      /\ LogOf(new[g]) = LogOf(rep[f]) \o more
      /\ LogOf(new[r]) = SubSeq(LogOf(rep[f]) \o more, 1, k)

LEMMA Moved ==
  ASSUME NEW rep, NEW new, NEW r \in Correct, Whole(rep), Whole(new), Agreed(new),
         MovesOne(rep, new, r), NEW f, NEW g, Foremost(rep, f), Foremost(new, g),
         new[r].executed # rep[r].executed
  PROVE  Executes(rep, new, r, f, g)
<1>. DEFINE k == new[r].executed
            M == rep[f].executed
            K == new[g].executed
<1>1. f \in Correct /\ g \in Correct
  BY DEF Foremost
<1>2. /\ k \in Nat /\ M \in Nat /\ K \in Nat /\ k \in 0 .. MaxSeqno
      /\ rep[r].executed \in Nat /\ rep[g].executed \in Nat /\ new[f].executed \in Nat
  BY <1>1, LogOfType
<1>3. /\ rep[r].executed <= k /\ M <= new[f].executed
      /\ \A n \in 1 .. M : new[f].log[n] = rep[f].log[n]
  BY <1>1, EntriesStay
<1>4. k <= K /\ new[f].executed <= K /\ rep[g].executed <= M
  BY <1>1 DEF Foremost
<1>5. K = IF k > M THEN k ELSE M
  <2>1. CASE g = r
    BY <1>2, <1>3, <1>4, <2>1
  <2>2. CASE g # r
    <3>1. K = rep[g].executed
      BY <1>1, <2>2 DEF MovesOne
    <3>. QED
      BY <1>2, <1>3, <1>4, <3>1
  <2>. QED
    BY <2>1, <2>2
<1>6. /\ LogOf(rep[f]) \in [1 .. M -> Request] /\ Len(LogOf(rep[f])) = M
      /\ LogOf(new[g]) \in [1 .. K -> Request] /\ LogOf(new[r]) \in [1 .. k -> Request]
      /\ Len(LogOf(rep[r])) = rep[r].executed
      /\ \A n \in 1 .. M : LogOf(rep[f])[n] = rep[f].log[n]
      /\ \A n \in 1 .. K : LogOf(new[g])[n] = new[g].log[n]
      /\ \A n \in 1 .. k : LogOf(new[r])[n] = new[r].log[n]
  BY <1>1, LogOfType
<1>7. \A n \in Nat : n >= 1 /\ n <= new[f].executed /\ n <= K => new[f].log[n] = new[g].log[n]
  BY <1>1, SamePoint
<1>8. \A n \in Nat : n >= 1 /\ n <= k /\ n <= K => new[r].log[n] = new[g].log[n]
  BY <1>1, SamePoint
<1>9. k >= rep[r].executed + 1
  BY <1>2, <1>3
<1>. DEFINE a == LogOf(rep[f])
            b == LogOf(new[g])
            c == LogOf(new[r])
<1>. HIDE DEF k, M, K
<1>10. M <= new[f].executed /\ M <= K /\ k \in 0 .. K
  BY <1>2, <1>3, <1>4, <1>5
<1>11. \A n \in 1 .. M : a[n] = b[n]
  <2>1. SUFFICES ASSUME NEW n \in 1 .. M PROVE a[n] = b[n]
    OBVIOUS
  <2>2. n \in Nat /\ n >= 1 /\ n <= new[f].executed /\ n <= K /\ n \in 1 .. K
    BY <1>2, <1>10
  <2>. QED
    BY <1>3, <1>6, <1>7, <2>2
<1>12. \A n \in 1 .. k : b[n] = c[n]
  <2>1. SUFFICES ASSUME NEW n \in 1 .. k PROVE b[n] = c[n]
    OBVIOUS
  <2>2. n \in Nat /\ n >= 1 /\ n <= k /\ n <= K /\ n \in 1 .. K
    BY <1>2, <1>10
  <2>. QED
    BY <1>6, <1>8, <2>2
<1>13. a \in [1 .. M -> Request] /\ b \in [1 .. K -> Request] /\ c \in [1 .. k -> Request]
       /\ Len(a) = M
  BY <1>6
<1>. HIDE DEF a, b, c
<1>. DEFINE more == Rest(b, M, K)
<1>14. more \in [1 .. (K - M) -> Request] /\ b = a \o more
  <2>1. M \in Nat /\ K \in Nat /\ K >= M
    BY <1>2, <1>10
  <2>2. b = a \o Rest(b, M, K)
    <3>1. a \in [1 .. M -> Request] /\ b \in [1 .. K -> Request]
      BY <1>13
    <3>. QED
      BY <1>11, <2>1, <3>1, AppendIsLonger, Zenon
  <2>3. \A n \in 1 .. (K - M) : M + n \in 1 .. K
    BY <2>1
  <2>4. Rest(b, M, K) \in [1 .. (K - M) -> Request]
    BY <1>13, <2>3 DEF Rest
  <2>. QED
    BY <2>2, <2>4
<1>. HIDE DEF more
<1>15. c = SubSeq(b, 1, k)
  BY <1>2, <1>10, <1>12, <1>13, SubSeqIs
<1>16. K - M = IF k > Len(a) THEN k - Len(a) ELSE 0
  BY <1>2, <1>5, <1>13
<1>17. k \in rep[r].executed + 1 .. MaxSeqno
  BY <1>2, <1>9
<1>. QED
  BY <1>6, <1>14, <1>15, <1>16, <1>17 DEF a, b, c, Executes

-----------------------------------------------------------------------------
(* The refinement *)

LEMMA SomeForemost ==
  ASSUME NEW rep, Whole(rep), Correct # {}
  PROVE  \E f : Foremost(rep, f)
<1>. DEFINE S == {rep[q].executed : q \in Correct}
<1>1. S \in SUBSET (0 .. MaxSeqno) /\ S # {}
  BY DEF Whole
<1>2. PICK m \in S : \A k \in S : k <= m
  <2>. HIDE DEF S
  <2>. QED
    BY <1>1, GreatestOf, BoundAssumption
<1>3. PICK f \in Correct : m = rep[f].executed
  OBVIOUS
<1>. QED
  BY <1>2, <1>3 DEF Foremost

LEMMA FurthestForemost ==
  ASSUME Whole(replica), Correct # {} PROVE Foremost(replica, Furthest)
<1>1. PICK f : Foremost(replica, f)
  BY SomeForemost
<1>. QED
  BY <1>1 DEF Foremost, Furthest

LEMMA FurthestForemostNext ==
  ASSUME Whole(replica'), Correct # {} PROVE Foremost(replica', Furthest')
<1>1. PICK f : Foremost(replica', f)
  BY SomeForemost
<1>. QED
  BY <1>1 DEF Foremost, Furthest

LEMMA InvariantWhole == CInv => Whole(replica)
BY DEF CInv, IInv, Sound, InStep, Whole, State

LEMMA AgreementAgreed == CInv /\ Agreement => Agreed(replica)
BY DEF CInv, Sound, InStep, Filled, Agreement, Agreed

\* A handler changes the record of its own replica only.
LEMMA OneMoves ==
  ASSUME CInv, Kept, Correct # {}, [Next]_vars
  PROVE  \E r \in Correct : MovesOne(replica, replica', r)
<1>1. CASE UNCHANGED vars
  BY <1>1 DEF vars, Kept, MovesOne
<1>2. CASE Next
  <2>1. PICK r \in Correct : \E t : Become(r, t)
    BY <1>2 DEF Next, Propose, RecvPrePrepare, RecvPrepare, RecvCommit, RecvCheckpoint,
                RecvStatus, StartViewChange
  <2>2. \A q \in Correct : q # r => replica'[q] = replica[q]
    BY <2>1 DEF Become, CInv, IInv
  <2>. QED
    BY <2>2 DEF Kept, MovesOne
<1>. QED
  BY <1>1, <1>2

LEMMA LedgerInit ==
  ASSUME Init, Correct # {} PROVE Service!Init
<1>1. \A r \in Correct : replica[r].executed = 0
  BY DEF Init, InitState
<1>2. Furthest \in Correct
  BY <1>1 DEF Furthest
<1>3. \A r \in Correct : ExecutedLog(r) = <<>>
  BY <1>1 DEF ExecutedLog
<1>. QED
  BY <1>2, <1>3 DEF Service!Init

LEMMA LedgerStep ==
  ASSUME CInv, Agreement, Kept, Agreement', Correct # {}, [Next]_vars
  PROVE  [Service!Next]_(Service!vars)
<1>1. /\ Whole(replica) /\ Whole(replica') /\ Agreed(replica')
      /\ Foremost(replica, Furthest) /\ Foremost(replica', Furthest')
  <2>1. Whole(replica)
    BY InvariantWhole
  <2>2. Whole(replica') /\ Agreed(replica')
    <3>1. CInv'
      BY DEF Kept
    <3>2. (CInv => Whole(replica))' /\ (CInv /\ Agreement => Agreed(replica))'
      BY InvariantWhole, AgreementAgreed, PTL
    <3>. QED
      BY <3>1, <3>2
  <2>. QED
    BY <2>1, <2>2, FurthestForemost, FurthestForemostNext
<1>2. PICK r \in Correct : MovesOne(replica, replica', r)
  BY OneMoves
<1>3. /\ \A q \in Correct : ExecutedLog(q) = LogOf(replica[q])
      /\ \A q \in Correct : ExecutedLog(q)' = LogOf(replica'[q])
      /\ ExecutedLog(Furthest) = LogOf(replica[Furthest])
      /\ ExecutedLog(Furthest)' = LogOf(replica'[Furthest'])
  BY DEF ExecutedLog, LogOf
<1>4. CASE replica'[r].executed = replica[r].executed
  <2>1. /\ LogOf(replica'[Furthest']) = LogOf(replica[Furthest])
        /\ \A q \in Correct : LogOf(replica'[q]) = LogOf(replica[q])
    BY <1>1, <1>2, <1>4, Still
  <2>2. /\ ExecutedLog(Furthest)' = ExecutedLog(Furthest)
        /\ \A q \in Correct : ExecutedLog(q)' = ExecutedLog(q)
    BY <1>3, <2>1
  <2>3. [q \in Correct |-> ExecutedLog(q)]' = [q \in Correct |-> ExecutedLog(q)]
    BY <2>2
  <2>. QED
    BY <2>2, <2>3 DEF Service!vars
<1>5. CASE replica'[r].executed # replica[r].executed
  <2>. DEFINE done == [q \in Correct |-> ExecutedLog(q)]
  <2>1. PICK k \in Len(LogOf(replica[r])) + 1 .. MaxSeqno :
          \E more \in [1 .. (IF k > Len(LogOf(replica[Furthest]))
                             THEN k - Len(LogOf(replica[Furthest])) ELSE 0) -> Request] :
            /\ LogOf(replica'[Furthest']) = LogOf(replica[Furthest]) \o more
            /\ LogOf(replica'[r]) = SubSeq(LogOf(replica[Furthest]) \o more, 1, k)
    <3>1. Executes(replica, replica', r, Furthest, Furthest')
      BY <1>1, <1>2, <1>5, Moved
    <3>. QED
      BY <3>1 DEF Executes
  <2>2. done[r] = LogOf(replica[r])
    BY <1>3
  <2>3. \A q \in Correct : done'[q] = IF q = r THEN LogOf(replica'[r]) ELSE done[q]
    BY <1>2, <1>3 DEF MovesOne
  <2>4. done' = [done EXCEPT ![r] = LogOf(replica'[r])]
    BY <2>3
  <2>. HIDE DEF done
  <2>5. k \in Len(done[r]) + 1 .. MaxSeqno
    BY <2>1, <2>2
  <2>6. \E new \in [1 .. (IF k > Len(ExecutedLog(Furthest))
                          THEN k - Len(ExecutedLog(Furthest)) ELSE 0) -> Request] :
          /\ ExecutedLog(Furthest)' = ExecutedLog(Furthest) \o new
          /\ done' = [done EXCEPT ![r] = SubSeq(ExecutedLog(Furthest) \o new, 1, k)]
    BY <1>3, <2>1, <2>4
  <2>7. Service!Execute(r)
    BY <2>5, <2>6 DEF Service!Execute, done
  <2>. QED
    BY <2>7 DEF Service!Next
<1>. QED
  BY <1>4, <1>5

\* With at most 3F+1 replicas of which at most F, and not all, are faulty: the
\* replicas execute prefixes of one growing order of requests.
THEOREM Refinement == ASSUME FaultBound, Correct # {} PROVE Spec => ImplementsLedger
<1>1. FewFaulty
  BY DEF FaultBound, FewFaulty
<1>2. Init => Service!Init
  BY LedgerInit
<1>3. CInv /\ Agreement /\ Agreement' /\ [Next]_vars => [Service!Next]_(Service!vars)
  BY <1>1, StepKept, LedgerStep
<1>. QED
  BY <1>1, <1>2, <1>3, CheckpointInvariant, Safety, PTL DEF Spec, ImplementsLedger, Service!Spec
=============================================================================
