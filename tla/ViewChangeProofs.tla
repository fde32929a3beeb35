-------------------------- MODULE ViewChangeProofs --------------------------
(***************************************************************************)
(* Proofs about module ViewChange, for every number of replicas, requests, *)
(* views, sequence numbers and contents of faulty replicas' View_changes   *)
(* and New_views: view changes break nothing that AgreementProofs proves,  *)
(* a primary leads a view once, and what an installed New_view proves is   *)
(* never contradicted by an execution.                                     *)
(*                                                                         *)
(* Every handler, and every installation of a view, leaves a replica's     *)
(* record in the relation Grows to what it was: the counters grow, and a   *)
(* slot keeps its request until the stable point passes it.  Hence what a  *)
(* replica once said of a sequence number, in a Pre_prepare, a Commit or a *)
(* View_change, binds it for good.                                         *)
(***************************************************************************)
EXTENDS ViewChange, AgreementProofs

Grows(s, t) ==
  /\ s.stable <= t.stable /\ s.prepared <= t.prepared /\ s.executed <= t.executed
  /\ \A n \in Seqno :
       n > t.stable /\ s.pp[n].digest # NoDigest => t.pp[n].digest = s.pp[n].digest
  /\ s.commitSent \subseteq t.commitSent
  /\ \A c \in t.commitSent \ s.commitSent :
       c.seqno > s.stable
       /\ (s.pp[c.seqno].digest # NoDigest => c.digest = s.pp[c.seqno].digest)

\* What the handlers of module Agreement do besides: they never go back to an
\* earlier view, and only ProposeRequest sends Pre_prepares.
Steady(s, t) == Grows(s, t) /\ s.view <= t.view /\ t.ppSent = s.ppSent

\* p.seqno is past, or its slot holds p's request.
Binds(s, p) == p.seqno <= s.stable \/ s.pp[p.seqno].digest = p.digest

\* The replica committed to nothing else at p.seqno, and never will.
Bound(s, p) == Binds(s, p) /\ \A c \in s.commitSent : c.seqno = p.seqno => c.digest = p.digest

\* It stands by its Pre_prepares, one request per sequence number.
Faithful(s) ==
  /\ \A m \in s.ppSent : Binds(s, m)
  /\ \A m1, m2 \in s.ppSent : m1.seqno = m2.seqno => m1.digest = m2.digest

\* What a step of module Agreement does to the record of the replica.
Moves(s, t) == Grows(s, t) /\ s.view <= t.view /\ (Faithful(s) => Faithful(t))

-----------------------------------------------------------------------------
(* Growth, on one replica's record *)

LEMMA StateTypes ==
  ASSUME NEW s \in State
  PROVE  /\ s.view \in Nat /\ s.stable \in Nat /\ s.prepared \in Nat /\ s.executed \in Nat
         /\ \A n \in Seqno : s.pp[n].digest \in Request \union {NoDigest}
         /\ \A c \in s.commitSent : c.seqno \in Seqno /\ c.seqno \in Nat /\ c.digest \in Request
         /\ \A c \in s.ppSent : c.seqno \in Seqno /\ c.seqno \in Nat /\ c.digest \in Request
<1>1. s.view \in Nat /\ s.stable \in Nat /\ s.prepared \in Nat /\ s.executed \in Nat
  BY ConstantTypes DEF State
<1>2. \A n \in Seqno : s.pp[n].digest \in Request \union {NoDigest}
  BY DEF State, NoPP
<1>3. s.commitSent \subseteq Vote /\ s.ppSent \subseteq Vote
  BY DEF State
<1>4. \A c \in Vote : c.seqno \in Seqno /\ c.seqno \in Nat /\ c.digest \in Request
  BY ConstantTypes DEF Vote
<1>. QED
  BY <1>1, <1>2, <1>3, <1>4

LEMMA GrowsTrans ==
  ASSUME NEW s \in State, NEW u \in State, NEW t \in State, Grows(s, u), Grows(u, t)
  PROVE  Grows(s, t)
<1>1. /\ s.stable \in Nat /\ s.prepared \in Nat /\ s.executed \in Nat
      /\ u.stable \in Nat /\ u.prepared \in Nat /\ u.executed \in Nat
      /\ t.stable \in Nat /\ t.prepared \in Nat /\ t.executed \in Nat
  BY StateTypes
<1>2. s.stable <= t.stable /\ s.prepared <= t.prepared /\ s.executed <= t.executed
  BY <1>1 DEF Grows
<1>3. ASSUME NEW n \in Seqno, n > t.stable, s.pp[n].digest # NoDigest
      PROVE  t.pp[n].digest = s.pp[n].digest
  <2>1. n \in Nat
    BY ConstantTypes
  <2>2. n > u.stable
    BY <1>1, <1>3, <2>1 DEF Grows
  <2>. QED
    BY <1>3, <2>2 DEF Grows
<1>4. ASSUME NEW c \in t.commitSent \ s.commitSent
      PROVE  /\ c.seqno > s.stable
             /\ s.pp[c.seqno].digest # NoDigest => c.digest = s.pp[c.seqno].digest
  <2>1. c.seqno \in Seqno /\ c.seqno \in Nat
    BY StateTypes
  <2>2. CASE c \in u.commitSent
    BY <2>2 DEF Grows
  <2>3. CASE c \notin u.commitSent
    <3>1. /\ c.seqno > u.stable
          /\ u.pp[c.seqno].digest # NoDigest => c.digest = u.pp[c.seqno].digest
      BY <2>3 DEF Grows
    <3>2. c.seqno > s.stable
      BY <1>1, <2>1, <3>1 DEF Grows
    <3>. QED
      BY <2>1, <3>1, <3>2 DEF Grows
  <2>. QED
    BY <2>2, <2>3
<1>. QED
  BY <1>2, <1>3, <1>4 DEF Grows

LEMMA SteadyTrans ==
  ASSUME NEW s \in State, NEW u \in State, NEW t \in State, Steady(s, u), Steady(u, t)
  PROVE  Steady(s, t)
<1>1. s.view \in Nat /\ u.view \in Nat /\ t.view \in Nat
  BY StateTypes
<1>2. s.view <= t.view
  BY <1>1 DEF Steady
<1>. QED
  BY <1>2, GrowsTrans DEF Steady

\* A step that touches none of the fields Grows reads, or raises a counter.
LEMMA FrameSteady ==
  ASSUME NEW s \in State, NEW t \in State, s.view <= t.view,
         t.stable = s.stable, s.prepared <= t.prepared, s.executed <= t.executed,
         t.pp = s.pp, t.commitSent = s.commitSent, t.ppSent = s.ppSent
  PROVE  Steady(s, t)
<1>1. s.stable <= t.stable
  BY StateTypes
<1>. QED
  BY <1>1 DEF Steady, Grows

LEMMA BindsKept ==
  ASSUME NEW s \in State, NEW t \in State, Grows(s, t),
         NEW p, p.seqno \in Seqno, p.digest \in Request, Binds(s, p)
  PROVE  Binds(t, p)
<1>1. p.seqno \in Nat /\ s.stable \in Nat /\ t.stable \in Nat /\ s.stable <= t.stable
  BY ConstantTypes, StateTypes DEF Grows
<1>2. CASE p.seqno <= s.stable
  BY <1>1, <1>2 DEF Binds
<1>3. CASE s.pp[p.seqno].digest = p.digest /\ p.seqno > t.stable
  BY <1>3, RequestAssumption DEF Binds, Grows
<1>4. CASE p.seqno <= t.stable
  BY <1>4 DEF Binds
<1>. QED
  BY <1>1, <1>2, <1>3, <1>4 DEF Binds

LEMMA BoundKept ==
  ASSUME NEW s \in State, NEW t \in State, Grows(s, t),
         NEW p, p.seqno \in Seqno, p.digest \in Request, Bound(s, p)
  PROVE  Bound(t, p)
<1>1. Binds(t, p)
  BY BindsKept DEF Bound
<1>2. ASSUME NEW c \in t.commitSent, c.seqno = p.seqno PROVE c.digest = p.digest
  <2>1. CASE c \in s.commitSent
    BY <1>2, <2>1 DEF Bound
  <2>2. CASE c \notin s.commitSent
    <3>1. /\ p.seqno > s.stable
          /\ s.pp[p.seqno].digest # NoDigest => c.digest = s.pp[p.seqno].digest
      BY <1>2, <2>2 DEF Grows
    <3>2. p.seqno \in Nat /\ s.stable \in Nat
      BY ConstantTypes, StateTypes
    <3>3. s.pp[p.seqno].digest = p.digest
      BY <3>1, <3>2 DEF Bound, Binds
    <3>. QED
      BY <3>1, <3>3, RequestAssumption
  <2>. QED
    BY <2>1, <2>2
<1>. QED
  BY <1>1, <1>2 DEF Bound

LEMMA StorePPSteady ==
  ASSUME NEW s \in State, NEW n \in Seqno, NEW v \in View, NEW d \in Request,
         SlotAccepts(s, n, v, d), StorePP(s, n, v, d) \in State
  PROVE  Steady(s, StorePP(s, n, v, d))
<1>. DEFINE t == StorePP(s, n, v, d)
<1>1. /\ t.stable = s.stable /\ t.prepared = s.prepared /\ t.executed = s.executed
      /\ t.view = s.view /\ t.commitSent = s.commitSent /\ t.ppSent = s.ppSent
      /\ \A k \in Seqno : k # n => t.pp[k] = s.pp[k]
      /\ t.pp[n].digest = d
  BY DEF StorePP, State
<1>2. s.pp[n].digest # NoDigest => s.pp[n].digest = d
  BY DEF SlotAccepts, HasPP, NoPP
<1>3. /\ s.view \in Nat /\ s.stable \in Nat /\ s.prepared \in Nat /\ s.executed \in Nat
  BY StateTypes
<1>. HIDE DEF t
<1>4. Steady(s, t)
  BY <1>1, <1>2, <1>3 DEF Steady, Grows
<1>. QED
  BY <1>4 DEF t

LEMMA TruncateSteady ==
  ASSUME NEW s \in State, NEW n \in Nat, s.stable <= n
  PROVE  Steady(s, Truncate(s, n))
<1>. DEFINE t == Truncate(s, n)
<1>1. /\ t.stable = n /\ t.prepared = Larger(s.prepared, n)
      /\ t.executed = Larger(s.executed, n) /\ t.view = s.view
      /\ t.commitSent = s.commitSent /\ t.ppSent = s.ppSent
      /\ \A k \in Seqno : t.pp[k] = IF k <= n THEN NoPP ELSE s.pp[k]
  BY DEF Truncate, State
<1>2. s.view \in Nat /\ s.prepared \in Nat /\ s.executed \in Nat /\ \A k \in Seqno : k \in Nat
  BY StateTypes, ConstantTypes
<1>. HIDE DEF t
<1>3. s.prepared <= t.prepared /\ s.executed <= t.executed /\ s.view <= t.view
  BY <1>1, <1>2 DEF Larger
<1>4. \A k \in Seqno : k > t.stable => t.pp[k] = s.pp[k]
  BY <1>1, <1>2
<1>5. Steady(s, t)
  BY <1>1, <1>3, <1>4 DEF Steady, Grows
<1>. QED
  BY <1>5 DEF t

LEMMA SendCommitSteady ==
  ASSUME NEW s \in State, NEW r \in Correct, NEW n \in Seqno
  PROVE  SendCommit(s, r, n) \in State /\ Steady(s, SendCommit(s, r, n))
<1>. DEFINE t == SendCommit(s, r, n)
            new == [view |-> s.view, seqno |-> n, digest |-> s.pp[n].digest]
<1>1. /\ t \in State /\ t.stable = s.stable /\ t.pp = s.pp /\ s.commitSent \subseteq t.commitSent
      /\ t = s \/ (InWindow(s, n) /\ t.commitSent = s.commitSent \union {new})
  BY SendCommitFacts
<1>2. /\ t.prepared = s.prepared /\ t.executed = s.executed /\ t.view = s.view
      /\ t.ppSent = s.ppSent
  BY DEF SendCommit, State
<1>3. /\ s.view \in Nat /\ s.stable \in Nat /\ s.prepared \in Nat /\ s.executed \in Nat
      /\ n \in Nat
  BY StateTypes, ConstantTypes
<1>4. new.seqno = n /\ new.digest = s.pp[n].digest
  OBVIOUS
<1>. HIDE DEF t, new
<1>5. \A c \in t.commitSent \ s.commitSent : c = new /\ n > s.stable
  BY <1>1, <1>3 DEF InWindow
<1>6. Steady(s, t)
  BY <1>1, <1>2, <1>3, <1>4, <1>5 DEF Steady, Grows
<1>. QED
  BY <1>1, <1>6 DEF t

LEMMA EnterViewSteady ==
  ASSUME NEW s, NEW r, NEW C, Good(s, r, C), NEW v \in View, s.view <= v
  PROVE  EnterView(s, v) \in State /\ Steady(s, EnterView(s, v))
<1>. DEFINE t == EnterView(s, v)
<1>1. s \in State /\ t \in State
  BY EnterViewGood DEF Good
<1>2. /\ t.view = v /\ t.stable = s.stable /\ t.prepared = s.prepared
      /\ t.executed = s.executed /\ t.pp = s.pp /\ t.commitSent = s.commitSent
      /\ t.ppSent = s.ppSent
  BY <1>1 DEF EnterView, State
<1>3. s.prepared <= t.prepared /\ s.executed <= t.executed
  BY <1>1, <1>2, StateTypes
<1>. HIDE DEF t
<1>4. Steady(s, t)
  BY <1>1, <1>2, <1>3, FrameSteady
<1>. QED
  BY <1>1, <1>4 DEF t

LEMMA ExecutedSteady ==
  ASSUME NEW s \in State, NEW r \in Correct, NEW last \in Nat, s.executed <= last,
         Executed(s, r, last) \in State
  PROVE  Steady(s, Executed(s, r, last))
<1>. DEFINE t == Executed(s, r, last)
<1>1. /\ t.view = s.view /\ t.stable = s.stable /\ t.prepared = s.prepared
      /\ t.executed = last /\ t.pp = s.pp /\ t.commitSent = s.commitSent
      /\ t.ppSent = s.ppSent
  BY DEF Executed, State
<1>2. s.prepared <= t.prepared /\ s.view <= t.view
  BY <1>1, StateTypes
<1>. HIDE DEF t
<1>3. Steady(s, t)
  BY <1>1, <1>2, FrameSteady DEF t
<1>. QED
  BY <1>3 DEF t

LEMMA FetchSteady ==
  ASSUME NEW s \in State, NEW n \in Nat
  PROVE  [s EXCEPT !.fetch = n] \in State /\ Steady(s, [s EXCEPT !.fetch = n])
<1>. DEFINE t == [s EXCEPT !.fetch = n]
<1>1. /\ t \in State
      /\ t.view = s.view /\ t.stable = s.stable /\ t.prepared = s.prepared
      /\ t.executed = s.executed /\ t.pp = s.pp /\ t.commitSent = s.commitSent
      /\ t.ppSent = s.ppSent
  BY DEF State
<1>2. s.prepared <= t.prepared /\ s.executed <= t.executed /\ s.view <= t.view
  BY <1>1, StateTypes
<1>. HIDE DEF t
<1>3. Steady(s, t)
  BY <1>1, <1>2, FrameSteady
<1>. QED
  BY <1>1, <1>3 DEF t

LEMMA ExecuteCommittedSteady ==
  ASSUME NEW s, NEW r \in Correct, NEW C, Good(s, r, C),
         NEW t \in ExecuteCommitted(s, r)
  PROVE  t \in State /\ Steady(s, t)
<1>1. s \in State /\ s.stable \in Nat /\ s.executed \in Nat
  BY DEF Good, State
<1>2. Run(s) \subseteq Nat /\ Due(s) \subseteq Nat
  BY <1>1, RunFacts, ConstantTypes DEF Due
<1>3. Confirmed(s, r) \subseteq Nat /\ Refuted(s, r) \subseteq Nat
  BY <1>2 DEF Confirmed, Refuted, SelfStable
<1>4. \A n \in Run(s) : s.executed <= n
  BY <1>1, <1>2 DEF Run
<1>5. PICK m \in {s.stable} \union Confirmed(s, r), last \in {s.executed} \union Run(s) :
        \E e \in {Executed(s, r, last)} \union
                   {[Executed(s, r, last) EXCEPT !.fetch = n] : n \in Refuted(s, r)} :
          t = IF m > s.stable THEN Truncate(e, m) ELSE e
  BY DEF ExecuteCommitted
<1>6. last \in Nat /\ m \in Nat /\ s.executed <= last
  BY <1>1, <1>2, <1>3, <1>4, <1>5
<1>. DEFINE x == Executed(s, r, last)
<1>7. x \in State /\ x.stable = s.stable
  <2>1. Good(x, r, C)
    BY <1>6, ExecutedGood
  <2>2. x.stable = s.stable
    BY <1>1 DEF Executed, State
  <2>. QED
    BY <2>1, <2>2 DEF Good
<1>8. Steady(s, x)
  BY <1>1, <1>6, <1>7, ExecutedSteady
<1>9. PICK e \in {Executed(s, r, last)} \union
                   {[Executed(s, r, last) EXCEPT !.fetch = n] : n \in Refuted(s, r)} :
        t = IF m > s.stable THEN Truncate(e, m) ELSE e
  BY <1>5
<1>10. e \in State /\ Steady(x, e) /\ e.stable = s.stable
  <2>1. CASE e = x
    <3>1. x.view <= x.view /\ x.prepared <= x.prepared /\ x.executed <= x.executed
      BY <1>7, StateTypes
    <3>. QED
      BY <1>7, <2>1, <3>1, FrameSteady
  <2>2. ASSUME NEW n \in Refuted(s, r), e = [x EXCEPT !.fetch = n]
        PROVE  e \in State /\ Steady(x, e) /\ e.stable = s.stable
    <3>. HIDE DEF x
    <3>1. n \in Nat
      BY <1>3
    <3>2. e \in State /\ Steady(x, e)
      BY <1>7, <2>2, <3>1, FetchSteady
    <3>3. e.stable = x.stable
      BY <1>7, <2>2 DEF State
    <3>. QED
      BY <1>7, <3>2, <3>3
  <2>. QED
    BY <1>9, <2>1, <2>2
<1>. HIDE DEF x
<1>11. Steady(s, e)
  BY <1>1, <1>7, <1>8, <1>10, SteadyTrans
<1>12. t \in State
  BY ExecuteCommittedGood DEF Good
<1>13. CASE m > s.stable
  <2>1. t = Truncate(e, m) /\ e.stable <= m
    BY <1>1, <1>6, <1>9, <1>10, <1>13
  <2>2. Steady(e, t)
    BY <1>6, <1>10, <2>1, TruncateSteady
  <2>. QED
    BY <1>1, <1>10, <1>11, <1>12, <2>2, SteadyTrans
<1>14. CASE ~(m > s.stable)
  BY <1>9, <1>11, <1>12, <1>14
<1>. QED
  BY <1>13, <1>14

LEMMA MarkStableSteady ==
  ASSUME NEW s, NEW r, NEW C, Good(s, r, C), NEW n \in Nat, NEW t \in MarkStable(s, n)
  PROVE  t \in State /\ Steady(s, t)
<1>1. s \in State /\ t \in State
  BY MarkStableGood DEF Good
<1>2. Steady(s, s)
  <2>1. s.view <= s.view /\ s.prepared <= s.prepared /\ s.executed <= s.executed
    BY <1>1, StateTypes
  <2>. QED
    BY <1>1, <2>1, FrameSteady
<1>3. t = s \/ t = [s EXCEPT !.fetch = n] \/ (~(n <= s.stable) /\ t = Truncate(s, n))
  BY DEF MarkStable, MayFetch
<1>4. CASE ~(n <= s.stable) /\ t = Truncate(s, n)
  <2>1. s.stable <= n
    BY <1>1, <1>4, StateTypes
  <2>. QED
    BY <1>1, <1>4, <2>1, TruncateSteady
<1>. QED
  BY <1>1, <1>2, <1>3, <1>4, FetchSteady

-----------------------------------------------------------------------------
(* Growth, by handler *)

LEMMA PrePrepareSteady ==
  ASSUME NEW s, NEW r \in Correct, NEW C, Good(s, r, C), NEW v \in View, NEW n \in Seqno,
         NEW d \in Request \union {NoDigest}
  PROVE  Steady(s, HandlePrePrepare(s, r, v, n, d))
<1>. DEFINE x == EnterView(s, v)
            entered == [x EXCEPT !.prepared = Larger(@, s.stable),
                                 !.executed = Larger(@, s.stable)]
            here == IF v > s.view THEN entered ELSE s
            pp == StorePP(here, n, v, d)
            stored == [pp EXCEPT !.seqno = Larger(@, n + 1)]
            t == HandlePrePrepare(s, r, v, n, d)
<1>1. s \in State /\ r \in Replica /\ n + 1 \in Nat /\ v \in Nat /\ t \in State
  BY ConstantTypes, PrePrepareGood DEF Good
<1>2. ASSUME v > s.view PROVE Good(entered, r, C) /\ entered \in State /\ Steady(s, entered)
  <2>1. s.view <= v
    BY <1>1, <1>2, StateTypes
  <2>2. Good(x, r, C) /\ x \in State /\ Steady(s, x)
    BY <2>1, EnterViewGood, EnterViewSteady
  <2>. HIDE DEF x
  <2>3. s.stable \in Nat /\ x.prepared \in Nat /\ x.executed \in Nat /\ x.view \in Nat
    BY <1>1, <2>2, StateTypes
  <2>4. /\ Larger(x.prepared, s.stable) \in Nat /\ Larger(x.executed, s.stable) \in Nat
        /\ x.prepared <= Larger(x.prepared, s.stable)
        /\ x.executed <= Larger(x.executed, s.stable) /\ x.view <= x.view
    BY <2>3 DEF Larger
  <2>5. /\ entered \in State /\ entered.stable = x.stable /\ entered.pp = x.pp
        /\ entered.commits = x.commits /\ entered.log = x.log
        /\ entered.commitSent = x.commitSent /\ entered.ppSent = x.ppSent
        /\ entered.view = x.view
        /\ entered.prepared = Larger(x.prepared, s.stable)
        /\ entered.executed = Larger(x.executed, s.stable)
    BY <2>2, <2>4 DEF State
  <2>. HIDE DEF entered
  <2>6. Good(entered, r, C)
    BY <2>2, <2>5, FrameGood
  <2>7. Steady(x, entered)
    BY <2>2, <2>4, <2>5, FrameSteady
  <2>. QED
    BY <1>1, <2>2, <2>5, <2>6, <2>7, SteadyTrans
<1>3. Good(here, r, C) /\ here \in State /\ Steady(s, here)
  <2>1. Steady(s, s)
    <3>1. s.view <= s.view /\ s.prepared <= s.prepared /\ s.executed <= s.executed
      BY <1>1, StateTypes
    <3>. QED
      BY <1>1, <3>1, FrameSteady
  <2>. HIDE DEF entered
  <2>. QED
    BY <1>1, <1>2, <2>1
<1>. HIDE DEF here
<1>4. CASE d = NoDigest \/ ~SlotAccepts(here, n, v, d)
  BY <1>3, <1>4 DEF HandlePrePrepare, here
<1>5. CASE d \in Request /\ SlotAccepts(here, n, v, d)
  <2>1. Good(pp, r, C) /\ pp \in State
    BY <1>3, <1>5, StorePPGood DEF Good
  <2>2. Steady(here, pp)
    BY <1>3, <1>5, <2>1, StorePPSteady
  <2>. HIDE DEF pp
  <2>3. stored \in State /\ Steady(pp, stored) /\ stored.commitSent = pp.commitSent
    <3>1. /\ stored \in State /\ stored.stable = pp.stable /\ stored.pp = pp.pp
          /\ stored.commitSent = pp.commitSent /\ stored.ppSent = pp.ppSent
          /\ stored.view = pp.view /\ stored.prepared = pp.prepared
          /\ stored.executed = pp.executed
      <4>1. Larger(pp.seqno, n + 1) \in Nat
        BY <1>1, <2>1 DEF State, Larger
      <4>. QED
        BY <2>1, <4>1 DEF State
    <3>2. /\ pp.view <= stored.view /\ pp.prepared <= stored.prepared
          /\ pp.executed <= stored.executed
      BY <2>1, <3>1, StateTypes
    <3>. QED
      BY <2>1, <3>1, <3>2, FrameSteady
  <2>4. Steady(s, stored)
    BY <1>1, <1>3, <2>1, <2>2, <2>3, SteadyTrans
  <2>. HIDE DEF stored
  <2>5. t = stored \/ t = SendPrepare(stored, r, n, d)
    BY <1>5, RequestAssumption DEF HandlePrePrepare, here, pp, stored
  <2>6. CASE t = SendPrepare(stored, r, n, d)
    <3>1. /\ t.stable = stored.stable /\ t.pp = stored.pp
          /\ t.commitSent = stored.commitSent /\ t.ppSent = stored.ppSent
          /\ t.view = stored.view /\ t.prepared = stored.prepared
          /\ t.executed = stored.executed
      BY <2>3, <2>6 DEF SendPrepare, State
    <3>2. /\ stored.view <= t.view /\ stored.prepared <= t.prepared
          /\ stored.executed <= t.executed
      BY <2>3, <3>1, StateTypes
    <3>. HIDE DEF t
    <3>3. Steady(stored, t)
      BY <1>1, <2>3, <3>1, <3>2, FrameSteady
    <3>4. Steady(s, t)
      BY <1>1, <2>3, <2>4, <3>3, SteadyTrans
    <3>. QED
      BY <3>4 DEF t
  <2>. QED
    BY <2>4, <2>5, <2>6
<1>. QED
  BY <1>4, <1>5

LEMMA PrepareSteady ==
  ASSUME NEW s, NEW r \in Correct, NEW C, Good(s, r, C), NEW q \in Replica, NEW n \in Seqno,
         NEW d \in Request, NEW t \in HandlePrepare(s, r, q, n, d), t.commitSent \subseteq C[r]
  PROVE  Steady(s, t)
<1>. DEFINE c == AddVote(s.prepares[n], q, d)
            added == [s EXCEPT !.prepares[n] = AddVote(@, q, d)]
            prep == [added EXCEPT !.prepared = Larger(@, n)]
            sent == IF prep.commits[n][r] = NoDigest THEN SendCommit(prep, r, n) ELSE prep
<1>1. s \in State /\ n \in Nat
  BY ConstantTypes DEF Good
<1>2. added \in State /\ Good(added, r, C) /\ Steady(s, added)
  <2>1. c \in Cert
    BY <1>1, AddVoteType DEF State, Cert
  <2>2. added = [s EXCEPT !.prepares[n] = c]
    OBVIOUS
  <2>. HIDE DEF c, added
  <2>3. /\ added \in State /\ added.stable = s.stable /\ added.pp = s.pp
        /\ added.commits = s.commits /\ added.log = s.log /\ added.commitSent = s.commitSent
        /\ added.ppSent = s.ppSent /\ added.view = s.view /\ added.prepared = s.prepared
        /\ added.executed = s.executed
    BY <1>1, <2>1, <2>2 DEF State
  <2>4. s.view <= added.view /\ s.prepared <= added.prepared /\ s.executed <= added.executed
    BY <1>1, <2>3, StateTypes
  <2>5. Good(added, r, C)
    BY <2>3, FrameGood
  <2>. QED
    BY <1>1, <2>3, <2>4, <2>5, FrameSteady
<1>. HIDE DEF added
<1>3. prep \in State /\ Good(prep, r, C) /\ Steady(added, prep)
  <2>1. /\ Larger(added.prepared, n) \in Nat /\ added.prepared <= Larger(added.prepared, n)
        /\ added.view <= added.view /\ added.executed <= added.executed
    BY <1>1, <1>2, StateTypes DEF Larger
  <2>2. /\ prep \in State /\ prep.stable = added.stable /\ prep.pp = added.pp
        /\ prep.commits = added.commits /\ prep.log = added.log
        /\ prep.commitSent = added.commitSent
        /\ prep.ppSent = added.ppSent /\ prep.view = added.view
        /\ prep.prepared = Larger(added.prepared, n)
        /\ prep.executed = added.executed
    BY <1>2, <2>1 DEF State
  <2>. HIDE DEF prep
  <2>3. Good(prep, r, C)
    BY <1>2, <2>2, FrameGood
  <2>4. Steady(added, prep)
    BY <1>2, <2>1, <2>2, FrameSteady
  <2>. QED
    BY <2>2, <2>3, <2>4
<1>. HIDE DEF prep
<1>4. Steady(s, prep)
  BY <1>1, <1>2, <1>3, SteadyTrans
<1>5. sent \in State /\ (sent = prep \/ Steady(prep, sent))
  BY <1>3, SendCommitSteady
<1>6. Steady(s, sent)
  BY <1>1, <1>3, <1>4, <1>5, SteadyTrans
<1>7. ASSUME sent.commitSent \subseteq C[r] PROVE Good(sent, r, C)
  BY <1>3, <1>7, SendCommitGood
<1>. HIDE DEF sent
<1>8. \/ t = added
      \/ t \in ExecuteCommitted(sent, r)
      \/ t = sent
  BY DEF HandlePrepare, added, prep, sent
<1>9. CASE t \in ExecuteCommitted(sent, r)
  <2>1. t.commitSent = sent.commitSent
    BY <1>5, <1>9, ExecuteCommittedSent
  <2>2. t \in State /\ Steady(sent, t)
    BY <1>7, <1>9, <2>1, ExecuteCommittedSteady
  <2>. QED
    BY <1>1, <1>5, <1>6, <2>2, SteadyTrans
<1>. QED
  BY <1>2, <1>6, <1>8, <1>9

LEMMA CommitSteady ==
  ASSUME NEW s, NEW r \in Correct, NEW C, Good(s, r, C), NEW q \in Replica, NEW n \in Seqno,
         NEW d \in Request, q \in Correct => SentIn(C, q, n, d),
         NEW t \in HandleCommit(s, r, q, n, d), t.commitSent \subseteq C[r]
  PROVE  Steady(s, t)
<1>. DEFINE c == AddVote(s.commits[n], q, d)
            added == [s EXCEPT !.commits[n] = AddVote(@, q, d)]
<1>1. s \in State
  BY DEF Good
<1>2. added \in State /\ Good(added, r, C)
  BY CountCommitGood
<1>3. Steady(s, added)
  <2>1. /\ added.stable = s.stable /\ added.pp = s.pp /\ added.commitSent = s.commitSent
        /\ added.ppSent = s.ppSent /\ added.view = s.view /\ added.prepared = s.prepared
        /\ added.executed = s.executed
    BY <1>1 DEF State
  <2>2. s.view <= added.view /\ s.prepared <= added.prepared /\ s.executed <= added.executed
    BY <1>1, <2>1, StateTypes
  <2>. HIDE DEF added
  <2>. QED
    BY <1>1, <1>2, <2>1, <2>2, FrameSteady
<1>. HIDE DEF added
<1>4. PICK u \in {added, SendCommit(added, r, n)} : t = u \/ t \in ExecuteCommitted(u, r)
  BY DEF HandleCommit, added
<1>5. u \in State /\ Steady(s, u)
  <2>1. SendCommit(added, r, n) \in State /\ Steady(added, SendCommit(added, r, n))
    BY <1>2, SendCommitSteady
  <2>. QED
    BY <1>1, <1>2, <1>3, <1>4, <2>1, SteadyTrans
<1>6. CASE t \in ExecuteCommitted(u, r)
  <2>1. t.commitSent = u.commitSent
    BY <1>5, <1>6, ExecuteCommittedSent
  <2>2. Good(u, r, C)
    BY <1>2, <1>4, <2>1, SendCommitGood
  <2>3. t \in State /\ Steady(u, t)
    BY <1>6, <2>2, ExecuteCommittedSteady
  <2>. QED
    BY <1>1, <1>5, <2>3, SteadyTrans
<1>. QED
  BY <1>4, <1>5, <1>6

LEMMA CheckpointSteady ==
  ASSUME NEW s, NEW r, NEW C, Good(s, r, C), NEW q \in Replica, NEW n \in Nat,
         NEW d \in Log, NEW t \in HandleCheckpoint(s, q, n, d)
  PROVE  Steady(s, t)
<1>. DEFINE region == StoreCkpt(s.ckpt, n, q, d)
            stored == [s EXCEPT !.ckpt = region]
<1>1. s \in State
  BY DEF Good
<1>2. region \in [0 .. NumCkptSlots - 1 -> Slot]
  BY <1>1, StoreCkptType DEF State
<1>3. stored = [s EXCEPT !.ckpt = StoreCkpt(@, n, q, d)]
  OBVIOUS
<1>4. t = stored \/ t \in MarkStable(stored, n)
  BY <1>3 DEF HandleCheckpoint
<1>. HIDE DEF region
<1>5. /\ stored \in State /\ stored.stable = s.stable /\ stored.pp = s.pp
      /\ stored.commits = s.commits /\ stored.log = s.log /\ stored.commitSent = s.commitSent
      /\ stored.ppSent = s.ppSent /\ stored.view = s.view /\ stored.prepared = s.prepared
      /\ stored.executed = s.executed
  BY <1>1, <1>2 DEF State
<1>6. s.view <= stored.view /\ s.prepared <= stored.prepared /\ s.executed <= stored.executed
  BY <1>1, <1>5, StateTypes
<1>. HIDE DEF stored
<1>7. Good(stored, r, C)
  BY <1>5, FrameGood
<1>8. Steady(s, stored)
  BY <1>1, <1>5, <1>6, FrameSteady
<1>9. CASE t \in MarkStable(stored, n)
  <2>1. t \in State /\ Steady(stored, t)
    BY <1>7, <1>9, MarkStableSteady
  <2>. QED
    BY <1>1, <1>5, <1>8, <2>1, SteadyTrans
<1>. QED
  BY <1>4, <1>8, <1>9

LEMMA ResendSteady ==
  ASSUME NEW s \in State, NEW r \in Correct, NEW le \in Nat
  PROVE  Steady(s, ResendCommits(s, r, le))
<1>. DEFINE t == ResendCommits(s, r, le)
<1>1. /\ t \in State /\ t.stable = s.stable /\ t.pp = s.pp
      /\ s.commitSent \subseteq t.commitSent
      /\ \A m \in t.commitSent \ s.commitSent :
           s.stable < m.seqno /\ m.digest = s.pp[m.seqno].digest
  BY ResendFacts
<1>2. /\ t.prepared = s.prepared /\ t.executed = s.executed /\ t.view = s.view
      /\ t.ppSent = s.ppSent
  BY DEF ResendCommits, State
<1>3. /\ s.view \in Nat /\ s.stable \in Nat /\ s.prepared \in Nat /\ s.executed \in Nat
  BY StateTypes
<1>. HIDE DEF t
<1>4. \A m \in t.commitSent \ s.commitSent : m.seqno \in Nat
  BY <1>1, StateTypes
<1>5. \A m \in t.commitSent \ s.commitSent : m.seqno > s.stable
  BY <1>1, <1>3, <1>4
<1>6. Steady(s, t)
  BY <1>1, <1>2, <1>3, <1>5 DEF Steady, Grows
<1>. QED
  BY <1>6 DEF t

LEMMA StatusSteady ==
  ASSUME NEW s, NEW r \in Correct, NEW C, Good(s, r, C), NEW v \in View, NEW ls \in Nat,
         NEW le \in Nat, NEW t \in HandleStatus(s, r, v, ls, le)
  PROVE  Steady(s, t)
<1>1. PICK u, w : /\ u = s \/ (v > s.view /\ u \in AdoptStatusView(s, v, ls, le))
                  /\ w = u \/ w \in MayFetch(u, StatusTarget(ls, le))
                  /\ t = w \/ t = ResendCommits(w, r, le)
  BY DEF HandleStatus
<1>2. s \in State /\ Steady(s, s)
  <2>1. s \in State
    BY DEF Good
  <2>2. s.view <= s.view /\ s.prepared <= s.prepared /\ s.executed <= s.executed
    BY <2>1, StateTypes
  <2>. QED
    BY <2>1, <2>2, FrameSteady
<1>3. ASSUME v > s.view, u \in AdoptStatusView(s, v, ls, le)
      PROVE  u \in State /\ Steady(s, u)
  <2>. DEFINE x == EnterView(s, v)
              next == Larger(x.seqno, Larger(s.stable, Larger(s.prepared, s.executed)) + 1)
              entered == [x EXCEPT !.seqno = next]
  <2>1. s.view <= v
    BY <1>2, <1>3, StateTypes, ConstantTypes
  <2>2. x \in State /\ Steady(s, x)
    BY <2>1, EnterViewSteady
  <2>3. next \in Nat
    <3>1. x.seqno \in Nat
      BY <2>2 DEF State
    <3>. QED
      BY <1>2, <3>1, NextType
  <2>4. u = entered \/ u = [entered EXCEPT !.fetch = StatusTarget(ls, le)]
    BY <1>3 DEF AdoptStatusView
  <2>. HIDE DEF x, next
  <2>5. /\ entered \in State /\ entered.stable = x.stable /\ entered.pp = x.pp
        /\ entered.commitSent = x.commitSent /\ entered.ppSent = x.ppSent
        /\ entered.view = x.view /\ entered.prepared = x.prepared
        /\ entered.executed = x.executed
    BY <2>2, <2>3 DEF State
  <2>6. x.view <= entered.view /\ x.prepared <= entered.prepared
        /\ x.executed <= entered.executed
    BY <2>2, <2>5, StateTypes
  <2>. HIDE DEF entered
  <2>7. Steady(x, entered)
    BY <2>2, <2>5, <2>6, FrameSteady
  <2>8. Steady(s, entered)
    BY <1>2, <2>2, <2>5, <2>7, SteadyTrans
  <2>9. CASE u = [entered EXCEPT !.fetch = StatusTarget(ls, le)]
    <3>1. u \in State /\ Steady(entered, u)
      BY <2>5, <2>9, StatusTargetType, FetchSteady
    <3>. QED
      BY <1>2, <2>5, <2>8, <3>1, SteadyTrans
  <2>. QED
    BY <2>4, <2>5, <2>8, <2>9
<1>4. u \in State /\ Steady(s, u)
  BY <1>1, <1>2, <1>3
<1>5. w \in State /\ Steady(s, w)
  <2>1. w = u \/ w = [u EXCEPT !.fetch = StatusTarget(ls, le)]
    BY <1>1 DEF MayFetch
  <2>2. CASE w = [u EXCEPT !.fetch = StatusTarget(ls, le)]
    <3>1. w \in State /\ Steady(u, w)
      BY <1>4, <2>2, StatusTargetType, FetchSteady
    <3>. QED
      BY <1>2, <1>4, <3>1, SteadyTrans
  <2>. QED
    BY <1>4, <2>1, <2>2
<1>6. CASE t = ResendCommits(w, r, le)
  <2>1. t \in State /\ Steady(w, t)
    BY <1>5, <1>6, ResendSteady, ResendFacts
  <2>. QED
    BY <1>2, <1>5, <2>1, SteadyTrans
<1>. QED
  BY <1>1, <1>5, <1>6

LEMMA SteadyMoves ==
  ASSUME NEW s \in State, NEW t \in State, Grows(s, t), s.view <= t.view, t.ppSent = s.ppSent
  PROVE  Moves(s, t)
<1>1. ASSUME Faithful(s), NEW m \in s.ppSent PROVE Binds(t, m)
  BY <1>1, StateTypes, BindsKept DEF Faithful
<1>. QED
  BY <1>1 DEF Moves, Faithful

\* A primary whose next sequence number went back only finds its own request
\* in the slot.
LEMMA ProposeMoves ==
  ASSUME NEW s, NEW r \in Correct, NEW C, Good(s, r, C), NEW d \in Request,
         CanPropose(s, r, d)
  PROVE  ProposeRequest(s, r, d) \in State /\ Moves(s, ProposeRequest(s, r, d))
<1>. DEFINE n == s.seqno
            pp == StorePP(s, n, s.view, d)
            new == [view |-> s.view, seqno |-> n, digest |-> d]
            t == ProposeRequest(s, r, d)
<1>1. s \in State /\ n \in Seqno /\ n \in Nat /\ s.view \in View /\ s.stable \in Nat /\ t \in State
  BY ProposeGood, ConstantTypes DEF Good, CanPropose, State
<1>2. SlotAccepts(s, n, s.view, d) /\ s.stable < n
  BY DEF CanPropose, InWindow
<1>3. pp \in State /\ Steady(s, pp)
  BY <1>1, <1>2, StorePPGood, StorePPSteady DEF Good
<1>4. pp.pp[n].digest = d
  BY <1>1 DEF StorePP, State
<1>5. new.seqno = n /\ new.digest = d
  OBVIOUS
<1>6. /\ t.stable = pp.stable /\ t.pp = pp.pp /\ t.commitSent = pp.commitSent
      /\ t.view = pp.view /\ t.prepared = pp.prepared /\ t.executed = pp.executed
      /\ t.ppSent = pp.ppSent \union {new}
  BY <1>3 DEF ProposeRequest, SendPrepare, State
<1>. HIDE DEF pp, new, t, n
<1>7. Grows(s, t) /\ s.view <= t.view
  BY <1>3, <1>6 DEF Steady, Grows
<1>8. t.ppSent = s.ppSent \union {new}
  BY <1>3, <1>6 DEF Steady
<1>9. ASSUME Faithful(s), NEW m \in s.ppSent
      PROVE  Binds(t, m) /\ (m.seqno = n => m.digest = d)
  <2>1. m.seqno \in Seqno /\ m.digest \in Request /\ Binds(s, m)
    BY <1>1, <1>9, StateTypes DEF Faithful
  <2>2. Binds(t, m)
    BY <1>1, <1>7, <2>1, BindsKept
  <2>3. ASSUME m.seqno = n PROVE m.digest = d
    <3>1. s.pp[n].digest = m.digest
      BY <1>1, <1>2, <2>1, <2>3 DEF Binds
    <3>2. HasPP(s, n)
      BY <2>1, <3>1, RequestAssumption DEF HasPP, NoPP
    <3>. QED
      BY <1>2, <3>1, <3>2 DEF SlotAccepts
  <2>. QED
    BY <2>2, <2>3
<1>10. Binds(t, new)
  BY <1>4, <1>5, <1>6 DEF Binds
<1>11. Faithful(s) => Faithful(t)
  BY <1>5, <1>8, <1>9, <1>10 DEF Faithful
<1>12. t \in State /\ Moves(s, t)
  BY <1>1, <1>7, <1>11 DEF Moves
<1>. QED
  BY <1>12 DEF t

LEMMA Widened ==
  ASSUME IInv, NEW r \in Correct, NEW S
  PROVE  \E C : /\ Good(replica[r], r, C) /\ S \subseteq C[r]
                /\ \A q \in Correct : Sent[q] \subseteq C[q]
<1>. DEFINE C == [q \in Correct |-> Sent[q] \union S]
<1>1. S \subseteq C[r] /\ \A q \in Correct : Sent[q] \subseteq C[q]
  OBVIOUS
<1>. HIDE DEF C
<1>2. Good(replica[r], r, C)
  BY <1>1, MonotoneGood DEF IInv
<1>. QED
  BY <1>1, <1>2

\* Every step of module Agreement that the view change keeps.
LEMMA StepMoves ==
  ASSUME IInv, NEW r \in Correct,
         Propose(r) \/ RecvPrePrepare(r) \/ RecvPrepare(r) \/ RecvCommit(r)
           \/ RecvCheckpoint(r) \/ RecvStatus(r)
  PROVE  \E t : Become(r, t) /\ (t \in State => Moves(replica[r], t))
<1>. DEFINE s == replica[r]
<1>1. s \in State
  BY DEF IInv
<1>2. Good(s, r, Sent)
  BY DEF IInv
<1>3. CASE Propose(r)
  BY <1>2, <1>3, ProposeMoves DEF Propose
<1>4. SUFFICES ASSUME RecvPrePrepare(r) \/ RecvPrepare(r) \/ RecvCommit(r)
                        \/ RecvCheckpoint(r) \/ RecvStatus(r)
               PROVE  \E t : Become(r, t) /\ Steady(s, t)
  BY <1>1, <1>3, SteadyMoves DEF Steady
<1>5. CASE RecvPrePrepare(r)
  <2>1. PICK v \in View : \E m \in PPsOf(v) :
          Become(r, HandlePrePrepare(s, r, v, m.seqno, m.digest))
    BY <1>5 DEF RecvPrePrepare
  <2>2. PICK m \in PPsOf(v) : Become(r, HandlePrePrepare(s, r, v, m.seqno, m.digest))
    BY <2>1
  <2>3. m.seqno \in Seqno /\ m.digest \in Request \union {NoDigest}
    BY MessageTypes, ConstantTypes
  <2>. QED
    BY <1>2, <2>2, <2>3, PrePrepareSteady
<1>6. CASE RecvPrepare(r)
  <2>1. PICK q \in Replica, m \in Vote :
          \E t \in HandlePrepare(s, r, q, m.seqno, m.digest) : Become(r, t)
    BY <1>6, MessageTypes DEF RecvPrepare
  <2>2. PICK t \in HandlePrepare(s, r, q, m.seqno, m.digest) : Become(r, t)
    BY <2>1
  <2>3. m.seqno \in Seqno /\ m.digest \in Request
    BY DEF Vote
  <2>4. PICK C : Good(s, r, C) /\ t.commitSent \subseteq C[r]
    BY Widened
  <2>. HIDE DEF s
  <2>. QED
    BY <2>2, <2>3, <2>4, PrepareSteady
<1>7. CASE RecvCommit(r)
  <2>1. PICK q \in Replica : \E m \in CommitsOf(q) :
          \E t \in HandleCommit(s, r, q, m.seqno, m.digest) : Become(r, t)
    BY <1>7 DEF RecvCommit
  <2>2. PICK m \in CommitsOf(q) :
          \E t \in HandleCommit(s, r, q, m.seqno, m.digest) : Become(r, t)
    BY <2>1
  <2>3. PICK t \in HandleCommit(s, r, q, m.seqno, m.digest) : Become(r, t)
    BY <2>2
  <2>4. m \in Vote
    BY MessageTypes
  <2>5. m.seqno \in Seqno /\ m.digest \in Request
    BY <2>4 DEF Vote
  <2>6. q \in Correct => SentIn(Sent, q, m.seqno, m.digest)
    BY DEF CommitsOf, Correct, SentIn, Sent
  <2>7. PICK C : /\ Good(s, r, C) /\ t.commitSent \subseteq C[r]
                 /\ \A p \in Correct : Sent[p] \subseteq C[p]
    BY Widened
  <2>8. q \in Correct => SentIn(C, q, m.seqno, m.digest)
    BY <2>6, <2>7 DEF SentIn
  <2>. HIDE DEF s
  <2>. QED
    BY <2>3, <2>5, <2>7, <2>8, CommitSteady
<1>8. CASE RecvCheckpoint(r)
  <2>1. PICK q \in Replica : \E m \in CkptsOf(q) :
          \E t \in HandleCheckpoint(s, q, m.seqno, m.digest) : Become(r, t)
    BY <1>8 DEF RecvCheckpoint
  <2>2. PICK m \in CkptsOf(q) :
          \E t \in HandleCheckpoint(s, q, m.seqno, m.digest) : Become(r, t)
    BY <2>1
  <2>3. PICK t \in HandleCheckpoint(s, q, m.seqno, m.digest) : Become(r, t)
    BY <2>2
  <2>4. m.seqno \in Nat /\ m.digest \in Log
    BY MessageTypes
  <2>. HIDE DEF s
  <2>. QED
    BY <1>2, <2>3, <2>4, CheckpointSteady
<1>9. CASE RecvStatus(r)
  <2>1. PICK v \in View, ls \in PeerSeqno, le \in PeerSeqno :
          \E t \in HandleStatus(s, r, v, ls, le) : Become(r, t)
    BY <1>9 DEF RecvStatus
  <2>2. PICK t \in HandleStatus(s, r, v, ls, le) : Become(r, t)
    BY <2>1
  <2>3. ls \in Nat /\ le \in Nat
    BY BoundAssumption
  <2>. HIDE DEF s
  <2>. QED
    BY <1>2, <2>2, <2>3, StatusSteady
<1>. QED
  BY <1>4, <1>5, <1>6, <1>7, <1>8, <1>9

-----------------------------------------------------------------------------
(* Growth, by installing or entering a view *)

LEMMA InstallFacts ==
  ASSUME NEW s \in State, NEW nv, nv.v \in View, nv.min \in Nat, nv.proofs \subseteq ReqInfo,
         s.stable <= nv.min, NEW t \in Install(s, nv)
  PROVE  /\ t \in State /\ t.view = nv.v /\ t.stable = nv.min
         /\ s.prepared <= t.prepared /\ s.executed <= t.executed
         /\ t.log = s.log /\ t.commitSent = s.commitSent /\ t.ppSent = s.ppSent
         /\ \A k \in Seqno : t.pp[k] = IF k <= nv.min THEN NoPP ELSE s.pp[k]
         /\ \A k \in Seqno : t.commits[k] = IF k <= nv.min THEN EmptyCert ELSE s.commits[k]
<1>. DEFINE min == nv.min
            view == nv.v
            ckpt == TruncateCkpt(s.ckpt, min)
            stable == Larger(s.stable, min)
            executed == Larger(s.executed, min)
            prepared == Larger(s.prepared, min)
<1>1. PICK last \in Highest({min, s.prepared, s.executed} \union {p.seqno : p \in nv.proofs}) :
        t = [s EXCEPT !.view = view, !.inProgress = FALSE, !.seqno = last + 1,
             !.stable = stable, !.executed = executed,
             !.prepared = prepared, !.ckpt = ckpt,
             !.pp = [k \in Seqno |-> IF k <= min THEN NoPP ELSE @[k]],
             !.prepares = [k \in Seqno |-> IF k <= min THEN EmptyCert ELSE @[k]],
             !.commits = [k \in Seqno |-> IF k <= min THEN EmptyCert ELSE @[k]]]
  BY DEF Install
<1>2. s.stable \in Nat /\ s.prepared \in Nat /\ s.executed \in Nat /\ min \in Nat
  BY StateTypes
<1>3. last + 1 \in Nat
  <2>1. \A p \in nv.proofs : p.seqno \in Nat
    BY ConstantTypes DEF ReqInfo
  <2>2. last \in Nat
    BY <1>1, <1>2, <2>1 DEF Highest
  <2>. QED
    BY <2>2
<1>4. /\ stable = min /\ executed \in Nat /\ prepared \in Nat
      /\ s.prepared <= prepared /\ s.executed <= executed
  BY <1>2 DEF Larger
<1>5. ckpt \in [0 .. NumCkptSlots - 1 -> Slot]
  BY <1>2, TruncateCkptType DEF State
<1>6. EmptyCert \in Cert
  BY EmptyCertType DEF Cert
<1>7. view \in View
  OBVIOUS
<1>. DEFINE pps == [k \in Seqno |-> IF k <= min THEN NoPP ELSE s.pp[k]]
            prepares == [k \in Seqno |-> IF k <= min THEN EmptyCert ELSE s.prepares[k]]
            commits == [k \in Seqno |-> IF k <= min THEN EmptyCert ELSE s.commits[k]]
            Held == [view : View, digest : Request] \union {NoPP}
<1>. HIDE DEF min, view, ckpt, stable, executed, prepared
<1>8. t \in State
  <2>1. /\ pps \in [Seqno -> Held] /\ prepares \in [Seqno -> Cert] /\ commits \in [Seqno -> Cert]
    BY <1>6 DEF State
  <2>2. t = [s EXCEPT !.view = view, !.inProgress = FALSE, !.seqno = last + 1,
               !.stable = stable, !.executed = executed, !.prepared = prepared, !.ckpt = ckpt,
               !.pp = pps, !.prepares = prepares, !.commits = commits]
    BY <1>1
  <2>. HIDE DEF pps, prepares, commits
  <2>. QED
    BY <1>2, <1>3, <1>4, <1>5, <1>7, <2>1, <2>2 DEF State
<1>9. /\ t.view = view /\ t.stable = stable /\ t.prepared = prepared /\ t.executed = executed
      /\ t.log = s.log /\ t.commitSent = s.commitSent /\ t.ppSent = s.ppSent
      /\ t.pp = [k \in Seqno |-> IF k <= min THEN NoPP ELSE s.pp[k]]
      /\ t.commits = [k \in Seqno |-> IF k <= min THEN EmptyCert ELSE s.commits[k]]
  BY <1>1 DEF State
<1>. QED
  BY <1>4, <1>8, <1>9 DEF min, view

\* Installing a view that is not behind the stable point is a truncation.
LEMMA InstallGrows ==
  ASSUME NEW s \in State, NEW nv, nv.v \in View, nv.min \in Nat, nv.proofs \subseteq ReqInfo,
         s.stable <= nv.min, NEW t \in Install(s, nv)
  PROVE  t \in State /\ t.view = nv.v /\ t.ppSent = s.ppSent /\ Grows(s, t)
<1>1. /\ t \in State /\ t.view = nv.v /\ t.stable = nv.min
      /\ s.prepared <= t.prepared /\ s.executed <= t.executed
      /\ t.commitSent = s.commitSent /\ t.ppSent = s.ppSent
      /\ \A k \in Seqno : t.pp[k] = IF k <= nv.min THEN NoPP ELSE s.pp[k]
  BY InstallFacts
<1>2. \A k \in Seqno : k > t.stable => t.pp[k] = s.pp[k]
  BY <1>1, ConstantTypes
<1>. QED
  BY <1>1, <1>2 DEF Grows

LEMMA InstallGood ==
  ASSUME NEW s, NEW r, NEW C, Good(s, r, C), NEW nv, nv.v \in View, nv.min \in Nat,
         nv.proofs \subseteq ReqInfo, s.stable <= nv.min, NEW t \in Install(s, nv)
  PROVE  Good(t, r, C) /\ t.commitSent = s.commitSent
<1>1. s \in State
  BY DEF Good
<1>2. /\ t \in State /\ t.stable = nv.min /\ t.log = s.log /\ t.commitSent = s.commitSent
      /\ \A k \in Seqno : t.pp[k] = IF k <= nv.min THEN NoPP ELSE s.pp[k]
      /\ \A k \in Seqno : t.commits[k] = IF k <= nv.min THEN EmptyCert ELSE s.commits[k]
  BY <1>1, InstallFacts
<1>3. Locked(t)
  <2>1. SUFFICES ASSUME NEW m \in s.commitSent, ~(m.seqno <= nv.min)
                 PROVE  t.pp[m.seqno].digest = m.digest
    BY <1>2 DEF Locked
  <2>2. m.seqno \in Seqno /\ m.seqno \in Nat /\ s.stable \in Nat
    BY <1>1, StateTypes
  <2>3. ~(m.seqno <= s.stable)
    BY <2>1, <2>2
  <2>4. s.pp[m.seqno].digest = m.digest
    BY <2>3 DEF Good, Locked
  <2>. QED
    BY <1>2, <2>1, <2>2, <2>4
<1>4. VotesBacked(t, C)
  <2>1. SUFFICES ASSUME NEW k \in Seqno, NEW q \in Correct, t.commits[k][q] # NoDigest
                 PROVE  SentIn(C, q, k, t.commits[k][q])
    BY DEF VotesBacked
  <2>2. EmptyCert[q] = NoDigest
    BY ConstantTypes DEF EmptyCert
  <2>3. t.commits[k] = s.commits[k]
    BY <1>2, <2>1, <2>2
  <2>. QED
    BY <2>1, <2>3 DEF Good, VotesBacked
<1>. QED
  BY <1>2, <1>3, <1>4 DEF Good, OneVote, LogBacked

LEMMA SyncViewFacts ==
  ASSUME NEW s \in State, NEW v \in View
  PROVE  LET t == SyncView(s, v)
         IN  /\ t \in State /\ t.view = v /\ t.stable = s.stable /\ t.pp = s.pp
             /\ t.commits = s.commits /\ t.log = s.log /\ t.commitSent = s.commitSent
             /\ t.ppSent = s.ppSent /\ Grows(s, t)
<1>. DEFINE t == SyncView(s, v)
            seqno == Larger(s.seqno, Larger(s.stable, Larger(s.prepared, s.executed)) + 1)
            prepared == Larger(s.prepared, s.stable)
            executed == Larger(s.executed, s.stable)
            ckpt == TruncateCkpt(s.ckpt, s.stable)
<1>1. s.stable \in Nat /\ s.prepared \in Nat /\ s.executed \in Nat /\ s.seqno \in Nat
  BY StateTypes DEF State
<1>2. /\ seqno \in Nat /\ prepared \in Nat /\ executed \in Nat
      /\ s.prepared <= prepared /\ s.executed <= executed
  BY <1>1 DEF Larger
<1>3. ckpt \in [0 .. NumCkptSlots - 1 -> Slot]
  BY <1>1, TruncateCkptType DEF State
<1>4. t = [s EXCEPT !.view = v, !.seqno = seqno, !.prepared = prepared,
                    !.executed = executed, !.ckpt = ckpt]
  BY DEF SyncView
<1>. HIDE DEF t, seqno, prepared, executed, ckpt
<1>5. t \in State
  BY <1>2, <1>3, <1>4 DEF State
<1>6. /\ t.view = v /\ t.stable = s.stable /\ t.pp = s.pp
      /\ t.commits = s.commits /\ t.log = s.log /\ t.commitSent = s.commitSent
      /\ t.ppSent = s.ppSent /\ t.prepared = prepared /\ t.executed = executed
  BY <1>4 DEF State
<1>7. Grows(s, t)
  BY <1>1, <1>2, <1>6 DEF Grows
<1>. QED
  BY <1>5, <1>6, <1>7 DEF t

LEMMA AssignInv ==
  ASSUME IInv, NEW r \in Correct, NEW t, replica' = [replica EXCEPT ![r] = t], Preserves(r, t)
  PROVE  IInv'
<1>1. CASE t # replica[r]
  BY <1>1, BecomeInv DEF Become
<1>2. CASE t = replica[r]
  <2>1. UNCHANGED vars
    BY <1>2 DEF IInv, vars
  <2>. QED
    BY <2>1, StepInv
<1>. QED
  BY <1>1, <1>2

-----------------------------------------------------------------------------
(* The invariant *)

\* What r sent as a primary is for views it is past.
Led(r) ==
  /\ \A nv \in nvSent[r] : nv.v < vi[r].target /\ nv.v <= replica[r].view
  /\ \A nv1, nv2 \in nvSent[r] : nv1.v = nv2.v => nv1 = nv2

\* r stores one View_change a sender, and a correct sender's is its own.
OnePerSender(i) == \A m1, m2 \in i.vcs : m1.id = m2.id => m1 = m2
Genuine(i, sent) == \A m \in i.vcs : m.id \in Correct => m \in sent[m.id]

\* What r reports as prepared binds it for good.
Reported(r) == \A m \in vcSent[r] : m.id = r /\ \A p \in m.reqs : Bound(replica[r], p)

\* What a New_view that r verified proves is reported by a quorum.
Attesters(p) == Faulty \union {q \in Correct : \E m \in vcSent[q] : p \in m.reqs}
Attested(r)  == \A p \in proven[r] : Cardinality(Attesters(p)) >= Threshold

VCInv ==
  /\ IInv
  /\ VCTypeOK
  /\ \A r \in Correct :
       /\ Faithful(replica[r])
       /\ Led(r)
       /\ OnePerSender(vi[r]) /\ Genuine(vi[r], vcSent)
       /\ Reported(r)
       /\ Attested(r)

ViewInfo == [target : 0 .. MaxView + 1, vcs : SUBSET ViewChangeMsg]

LEMMA ResetType ==
  ASSUME NEW v \in 0 .. MaxView + 1
  PROVE  /\ ViReset(v) \in ViewInfo /\ ViReset(v).target = v
         /\ OnePerSender(ViReset(v)) /\ \A sent : Genuine(ViReset(v), sent)
BY DEF ViReset, ViewInfo, OnePerSender, Genuine

LEMMA CollectFacts ==
  ASSUME NEW i \in ViewInfo, NEW m \in ViewChangeMsg, Collects(i, m), OnePerSender(i),
         NEW sent, Genuine(i, sent), m.id \in Correct => m \in sent[m.id]
  PROVE  /\ Collect(i, m) \in ViewInfo /\ Collect(i, m).target = m.v /\ m.v >= i.target
         /\ OnePerSender(Collect(i, m)) /\ Genuine(Collect(i, m), sent)
<1>1. m.v \in View /\ m.v \in Nat /\ i.target \in Nat /\ m.v \in 0 .. MaxView + 1
  BY BoundAssumption DEF ViewChangeMsg, ViewInfo, View
<1>2. CASE m.v > i.target
  <2>. DEFINE c == [target |-> m.v, vcs |-> {m}]
  <2>1. Collect(i, m) = c
    BY <1>2 DEF Collect
  <2>2. c \in ViewInfo /\ c.target = m.v /\ m.v >= i.target
    BY <1>1, <1>2 DEF ViewInfo
  <2>3. OnePerSender(c) /\ Genuine(c, sent)
    BY DEF OnePerSender, Genuine
  <2>. QED
    BY <2>1, <2>2, <2>3
<1>3. CASE ~(m.v > i.target)
  <2>. DEFINE c == [i EXCEPT !.vcs = @ \union {m}]
  <2>1. m.v = i.target /\ (\A k \in i.vcs : k.id # m.id) /\ Collect(i, m) = c
    BY <1>3 DEF Collects, Collect
  <2>2. c \in ViewInfo /\ c.target = i.target /\ c.vcs = i.vcs \union {m}
    BY DEF ViewInfo
  <2>. HIDE DEF c
  <2>3. OnePerSender(c) /\ Genuine(c, sent)
    BY <2>1, <2>2 DEF OnePerSender, Genuine
  <2>4. m.v >= i.target
    BY <1>1, <2>1
  <2>. QED
    BY <2>1, <2>2, <2>3, <2>4
<1>. QED
  BY <1>2, <1>3

LEMMA NewViewType ==
  ASSUME NEW i \in ViewInfo, i.target \in View, NEW nv \in NewViews(i)
  PROVE  nv \in NewViewMsg /\ nv.v = i.target
<1>. DEFINE mins == Highest({m.ls : m \in i.vcs})
            maxs == Lowest({m.ls + WindowSize : m \in i.vcs})
            proofs(min, max) == {p \in UNION {m.reqs : m \in i.vcs} :
                                   /\ min <= p.seqno /\ p.seqno <= max
                                   /\ Listed(i, p) >= 2 * ((N - 1) \div 3) + 1}
            made(min, max) == [v |-> i.target, min |-> min, max |-> max,
                               proofs |-> proofs(min, max)]
<1>1. NewViews(i) = {made(min, max) : min \in mins, max \in maxs}
  BY DEF NewViews
<1>2. \A m \in i.vcs : m.ls \in Nat /\ m.reqs \subseteq ReqInfo
  BY DEF ViewInfo, ViewChangeMsg
<1>3. mins \subseteq Nat
  BY <1>2 DEF Highest
<1>4. maxs \subseteq Nat
  BY <1>2, ConfigAssumption DEF Lowest
<1>5. \A min, max : proofs(min, max) \subseteq ReqInfo
  BY <1>2
<1>. HIDE DEF mins, maxs, proofs
<1>6. \A min \in mins, max \in maxs : made(min, max) \in NewViewMsg /\ made(min, max).v = i.target
  BY <1>3, <1>4, <1>5 DEF NewViewMsg
<1>. HIDE DEF made
<1>. QED
  BY <1>1, <1>6

LEMMA VCMessages ==
  ASSUME VCInv, NEW q \in Replica
  PROVE  /\ \A m \in VCsOf(q) : m \in ViewChangeMsg /\ (m.id \in Correct => m \in vcSent[m.id])
         /\ \A nv \in NVsOf(q) : nv \in NewViewMsg
<1>1. CASE q \in Faulty
  <2>1. ASSUME NEW m \in VCsOf(q) PROVE m \in ViewChangeMsg /\ m.id \notin Correct
    <3>1. PICK v \in View, c \in FaultyVCs :
            m = [id |-> q, v |-> v, ls |-> c.ls, reqs |-> c.reqs, copies |-> c.copies]
      BY <1>1 DEF VCsOf
    <3>2. c.ls \in Nat /\ c.reqs \subseteq ReqInfo /\ c.copies \in Nat \ {0}
      BY FaultyChangeAssumption
    <3>. QED
      BY <1>1, <3>1, <3>2 DEF ViewChangeMsg, Correct
  <2>2. ASSUME NEW nv \in NVsOf(q) PROVE nv \in NewViewMsg
    <3>1. PICK v \in View, c \in FaultyNVs :
            nv = [v |-> v, min |-> c.min, max |-> c.max, proofs |-> c.proofs]
      BY <1>1 DEF NVsOf
    <3>2. c.min \in Nat /\ c.max \in Nat /\ c.proofs \subseteq ReqInfo
      BY FaultyChangeAssumption
    <3>. QED
      BY <3>1, <3>2 DEF NewViewMsg
  <2>. QED
    BY <2>1, <2>2
<1>2. CASE q \notin Faulty
  <2>1. q \in Correct
    BY <1>2 DEF Correct
  <2>2. vcSent[q] \subseteq ViewChangeMsg /\ nvSent[q] \subseteq NewViewMsg
        /\ \A m \in vcSent[q] : m.id = q
    BY <2>1 DEF VCInv, VCTypeOK, Reported
  <2>. QED
    BY <1>2, <2>1, <2>2 DEF VCsOf, NVsOf
<1>. QED
  BY <1>1, <1>2

LEMMA ReportedKept ==
  ASSUME VCInv, NEW r \in Correct, NEW t \in State, replica' = [replica EXCEPT ![r] = t],
         Grows(replica[r], t), vcSent' = vcSent, NEW q \in Correct
  PROVE  Reported(q)'
<1>1. /\ replica \in [Correct -> State] /\ Reported(q) /\ vcSent[q] \subseteq ViewChangeMsg
  BY DEF VCInv, IInv, VCTypeOK
<1>2. \A m \in vcSent[q] : \A p \in m.reqs : p.seqno \in Seqno /\ p.digest \in Request
  BY <1>1 DEF ViewChangeMsg, ReqInfo
<1>3. CASE q = r
  <2>1. replica'[q] = t /\ replica[q] \in State /\ Grows(replica[q], t)
    BY <1>1, <1>3
  <2>2. \A m \in vcSent[q] : \A p \in m.reqs : Bound(t, p)
    BY <1>1, <1>2, <2>1, BoundKept DEF Reported
  <2>. QED
    BY <1>1, <2>1, <2>2 DEF Reported
<1>4. CASE q # r
  <2>1. replica'[q] = replica[q]
    BY <1>1, <1>4
  <2>. QED
    BY <1>1, <2>1 DEF Reported
<1>. QED
  BY <1>3, <1>4

LEMMA AttestersGrow ==
  ASSUME \A q \in Correct : vcSent[q] \subseteq vcSent'[q], NEW p,
         Cardinality(Attesters(p)) >= Threshold
  PROVE  Cardinality(Attesters(p)') >= Threshold
<1>1. Attesters(p) \subseteq Attesters(p)' /\ Attesters(p)' \subseteq Replica
  BY ConstantTypes DEF Attesters
<1>2. IsFiniteSet(Attesters(p)')
  BY <1>1, ConstantTypes, FS_Subset
<1>3. /\ Cardinality(Attesters(p)) <= Cardinality(Attesters(p)')
      /\ IsFiniteSet(Attesters(p))
  BY <1>1, <1>2, FS_Subset
<1>4. Cardinality(Attesters(p)) \in Nat /\ Cardinality(Attesters(p)') \in Nat
  BY <1>2, <1>3, FS_CardinalityType
<1>. QED
  BY <1>3, <1>4, ConstantTypes

LEMMA VerifiedAttested ==
  ASSUME NEW i \in ViewInfo, OnePerSender(i), Genuine(i, vcSent), NEW nv, Verifies(i, nv),
         NEW p \in nv.proofs
  PROVE  Cardinality(Attesters(p)) >= Threshold
<1>. DEFINE S == Attesting(i, p)
            T == Attesters(p)
            f == [m \in S |-> m.id]
<1>1. Cardinality(S) >= Threshold
  BY DEF Verifies
<1>2. \A m \in S : m.id \in T
  <2>1. SUFFICES ASSUME NEW m \in S PROVE m.id \in T
    OBVIOUS
  <2>2. m \in i.vcs /\ p \in m.reqs /\ m.id \in Replica
    BY <2>1 DEF Attesting, ViewInfo, ViewChangeMsg
  <2>3. CASE m.id \in Correct
    BY <2>2, <2>3 DEF Genuine, Attesters
  <2>4. CASE m.id \notin Correct
    BY <2>2, <2>4 DEF Correct, Attesters
  <2>. QED
    BY <2>3, <2>4
<1>3. f \in Injection(S, T)
  <2>1. \A a, b \in S : f[a] = f[b] => a = b
    BY DEF OnePerSender, Attesting
  <2>2. f \in [S -> T]
    BY <1>2
  <2>. QED
    BY <2>1, <2>2 DEF Injection, IsInjective
<1>4. T \subseteq Replica /\ IsFiniteSet(T)
  <2>1. T \subseteq Replica
    BY ConstantTypes DEF Attesters
  <2>. QED
    BY <2>1, ConstantTypes, FS_Subset
<1>. HIDE DEF f, S, T
<1>5. IsFiniteSet(S) /\ Cardinality(S) <= Cardinality(T)
  BY <1>3, <1>4, FS_Injection
<1>6. Cardinality(S) \in Nat /\ Cardinality(T) \in Nat
  BY <1>4, <1>5, FS_CardinalityType
<1>7. Cardinality(T) >= Threshold
  BY <1>1, <1>5, <1>6, ConstantTypes
<1>. QED
  BY <1>7 DEF T

-----------------------------------------------------------------------------
(* Its steps *)

LEMMA NewViewNat == ASSUME NEW nv \in NewViewMsg PROVE nv.v \in Nat /\ nv.v \in View
<1>1. nv.v \in View
  BY DEF NewViewMsg
<1>. QED
  BY <1>1, ConstantTypes

\* What an action of r must show.
LEMMA StepVCInv ==
  ASSUME VCInv, IInv', NEW r \in Correct, NEW t \in State, NEW i \in ViewInfo,
         replica' = [replica EXCEPT ![r] = t], Faithful(t),
         vi' = [vi EXCEPT ![r] = i], OnePerSender(i), Genuine(i, vcSent'),
         vcSent' \in [Correct -> SUBSET ViewChangeMsg],
         \A q \in Correct : vcSent[q] \subseteq vcSent'[q],
         \A q \in Correct : Reported(q)',
         nvSent' \in [Correct -> SUBSET NewViewMsg],
         \A q \in Correct : q # r => nvSent'[q] = nvSent[q], Led(r)',
         proven' \in [Correct -> SUBSET ReqInfo],
         \A q \in Correct : \A p \in proven'[q] :
           p \in proven[q] \/ Cardinality(Attesters(p)) >= Threshold
  PROVE  VCInv'
<1>1. VCTypeOK'
  <2>1. TypeOK'
    BY DEF IInv, TypeOK
  <2>2. vi \in [Correct -> ViewInfo]
    BY DEF VCInv, VCTypeOK, ViewInfo
  <2>3. vi' \in [Correct -> ViewInfo]
    BY <2>2
  <2>. QED
    BY <2>1, <2>3 DEF VCTypeOK, ViewInfo
<1>2. vi \in [Correct -> ViewInfo] /\ replica \in [Correct -> State]
  BY DEF VCInv, VCTypeOK, ViewInfo, IInv
<1>3. ASSUME NEW q \in Correct PROVE Faithful(replica[q])'
  <2>1. Faithful(replica[q]) /\ (replica'[q] = replica[q] \/ replica'[q] = t)
    BY <1>2 DEF VCInv
  <2>2. Faithful(replica'[q])
    BY <2>1
  <2>. QED
    BY <2>2 DEF Faithful, Binds
<1>4. ASSUME NEW q \in Correct PROVE Led(q)'
  <2>1. CASE q # r
    <3>1. vi'[q] = vi[q] /\ replica'[q] = replica[q] /\ nvSent'[q] = nvSent[q]
      BY <1>2, <2>1
    <3>. QED
      BY <3>1 DEF VCInv, Led
  <2>. QED
    BY <2>1
<1>5. ASSUME NEW q \in Correct PROVE OnePerSender(vi[q])' /\ Genuine(vi[q], vcSent)'
  <2>1. CASE q = r
    <3>1. vi'[q] = i
      BY <1>2, <2>1
    <3>. QED
      BY <3>1 DEF OnePerSender, Genuine
  <2>2. CASE q # r
    <3>1. vi'[q] = vi[q] /\ OnePerSender(vi[q]) /\ Genuine(vi[q], vcSent)
      BY <1>2, <2>2 DEF VCInv
    <3>. QED
      BY <3>1 DEF OnePerSender, Genuine
  <2>. QED
    BY <2>1, <2>2
<1>6. ASSUME NEW q \in Correct PROVE Attested(q)'
  <2>1. \A p \in proven'[q] : Cardinality(Attesters(p)) >= Threshold
    BY DEF VCInv, Attested
  <2>2. \A p \in proven'[q] : Cardinality(Attesters(p)') >= Threshold
    BY <2>1, AttestersGrow
  <2>. QED
    BY <2>2 DEF Attested, Attesters
<1>. QED
  BY <1>1, <1>3, <1>4, <1>5, <1>6 DEF VCInv

LEMMA AgreementVCInv ==
  ASSUME VCInv, NEW r \in Correct \ Idle, AgreementStep(r) \/ PrePrepareStep(r) \/ StatusStep(r)
  PROVE  VCInv'
<1>1. IInv'
  <2>1. Next
    BY DEF Next, AgreementStep, PrePrepareStep, StatusStep
  <2>. QED
    BY <2>1, StepInv DEF VCInv
<1>2. PICK t : Become(r, t) /\ (t \in State => Moves(replica[r], t))
  BY StepMoves DEF VCInv, AgreementStep, PrePrepareStep, StatusStep
<1>3. /\ replica \in [Correct -> State] /\ vi \in [Correct -> ViewInfo]
      /\ vcSent \in [Correct -> SUBSET ViewChangeMsg]
      /\ nvSent \in [Correct -> SUBSET NewViewMsg] /\ proven \in [Correct -> SUBSET ReqInfo]
  BY DEF VCInv, IInv, VCTypeOK, ViewInfo
<1>4. replica' = [replica EXCEPT ![r] = t] /\ replica'[r] = t /\ t \in State
  BY <1>1, <1>2, <1>3 DEF Become, IInv
<1>5. vcSent' = vcSent /\ nvSent' = nvSent /\ proven' = proven
  BY DEF AgreementStep, PrePrepareStep, StatusStep
<1>6. Grows(replica[r], t) /\ replica[r].view <= t.view /\ Faithful(t)
  BY <1>2, <1>4 DEF Moves, VCInv
<1>7. t.view \in View /\ t.view \in Nat /\ replica[r].view \in Nat /\ t.view + 1 \in 0 .. MaxView + 1
  <2>1. replica[r] \in State
    BY <1>3
  <2>2. t.view \in View /\ replica[r].view \in View
    BY <1>4, <2>1 DEF State
  <2>. QED
    BY <2>2, BoundAssumption DEF View
<1>8. PICK i : vi' = [vi EXCEPT ![r] = i] /\ (i = vi[r] \/ i = ViReset(t.view + 1))
  <2>1. CASE AgreementStep(r)
    BY <1>3, <2>1 DEF AgreementStep
  <2>2. CASE PrePrepareStep(r)
    BY <1>4, <2>2 DEF PrePrepareStep
  <2>3. CASE StatusStep(r)
    BY <1>4, <2>3 DEF StatusStep
  <2>. QED
    BY <2>1, <2>2, <2>3
<1>9. i \in ViewInfo /\ OnePerSender(i) /\ Genuine(i, vcSent)
  BY <1>3, <1>7, <1>8, ResetType DEF VCInv
<1>10. Led(r)'
  <2>1. vi'[r] = i
    BY <1>3, <1>8
  <2>2. Led(r)
    BY DEF VCInv
  <2>3. \A nv \in nvSent[r] : nv.v \in Nat
    BY <1>3, NewViewNat
  <2>4. \A nv \in nvSent[r] : nv.v <= t.view
    BY <1>6, <1>7, <2>2, <2>3 DEF Led
  <2>5. \A nv \in nvSent[r] : nv.v < i.target
    <3>1. CASE i = vi[r]
      BY <2>2, <3>1 DEF Led
    <3>2. CASE i = ViReset(t.view + 1)
      <4>1. i.target = t.view + 1
        BY <3>2 DEF ViReset
      <4>. QED
        BY <1>7, <2>3, <2>4, <4>1
    <3>. QED
      BY <1>8, <3>1, <3>2
  <2>. QED
    BY <1>4, <1>5, <2>1, <2>2, <2>4, <2>5 DEF Led
<1>11. \A q \in Correct : Reported(q)'
  BY <1>4, <1>5, <1>6, ReportedKept
<1>. HIDE DEF VCInv
<1>. QED
  BY <1>1, <1>3, <1>4, <1>5, <1>6, <1>8, <1>9, <1>10, <1>11, StepVCInv

LEMMA SendVCInv ==
  ASSUME VCInv, NEW r \in Correct, SendViewChange(r) PROVE VCInv'
<1>. DEFINE s == replica[r]
            target == Larger(s.view + 1, vi[r].target)
            asked == IF vi[r].target # target THEN ViReset(target) ELSE vi[r]
            vc == [id |-> r, v |-> target, ls |-> Larger(s.stable, s.executed - WindowSize),
                   reqs |-> PreparedReqs(s), copies |-> 1]
            t == [s EXCEPT !.inProgress = TRUE]
            i == IF Collects(asked, vc) THEN Collect(asked, vc) ELSE asked
<1>0. PICK S \in {{}, {vc}} :
        /\ target \in View /\ replica' = [replica EXCEPT ![r].inProgress = TRUE]
        /\ vi' = [vi EXCEPT ![r] = IF S = {} THEN asked ELSE i]
        /\ vcSent' = [vcSent EXCEPT ![r] = @ \union S]
        /\ nvSent' = nvSent /\ proven' = proven
  <2>. DEFINE Sends(S) ==
                /\ target \in View /\ replica' = [replica EXCEPT ![r].inProgress = TRUE]
                /\ vi' = [vi EXCEPT ![r] = IF S = {} THEN asked ELSE i]
                /\ vcSent' = [vcSent EXCEPT ![r] = @ \union S]
                /\ nvSent' = nvSent /\ proven' = proven
  <2>1. /\ target \in View /\ replica' = [replica EXCEPT ![r].inProgress = TRUE]
        /\ \/ vi' = [vi EXCEPT ![r] = i] /\ vcSent' = [vcSent EXCEPT ![r] = @ \union {vc}]
           \/ vi' = [vi EXCEPT ![r] = asked] /\ vcSent' = vcSent
        /\ nvSent' = nvSent /\ proven' = proven
    BY DEF SendViewChange
  <2>2. vcSent = [vcSent EXCEPT ![r] = @ \union {}]
    BY DEF VCInv, VCTypeOK
  <2>. HIDE DEF target, asked, vc, i
  <2>3. Sends({}) \/ Sends({vc})
    BY <2>1, <2>2
  <2>. QED
    BY <2>3
<1>. DEFINE j == IF S = {} THEN asked ELSE i
<1>1. /\ target \in View /\ replica' = [replica EXCEPT ![r].inProgress = TRUE]
      /\ vi' = [vi EXCEPT ![r] = j] /\ vcSent' = [vcSent EXCEPT ![r] = @ \union S]
      /\ nvSent' = nvSent /\ proven' = proven
  BY <1>0
<1>2. /\ replica \in [Correct -> State] /\ vi \in [Correct -> ViewInfo]
      /\ vcSent \in [Correct -> SUBSET ViewChangeMsg]
      /\ nvSent \in [Correct -> SUBSET NewViewMsg] /\ proven \in [Correct -> SUBSET ReqInfo]
  BY DEF VCInv, IInv, VCTypeOK, ViewInfo
<1>3. s \in State /\ Good(s, r, Sent) /\ Faithful(s) /\ Led(r)
  BY DEF VCInv, IInv
<1>4. replica' = [replica EXCEPT ![r] = t]
  BY <1>1, <1>2
<1>5. vi[r] \in ViewInfo /\ OnePerSender(vi[r]) /\ Genuine(vi[r], vcSent)
  BY <1>2 DEF VCInv
<1>6. s.view \in Nat /\ s.stable \in Nat /\ s.executed \in Nat /\ vi[r].target \in Nat
      /\ vi[r].target <= target /\ target \in 0 .. MaxView + 1
  BY <1>1, <1>3, <1>5, StateTypes, BoundAssumption DEF ViewInfo, View, Larger
<1>. HIDE DEF target
<1>7. PreparedReqs(s) \subseteq ReqInfo /\ \A p \in PreparedReqs(s) : Bound(s, p)
  <2>1. SUFFICES ASSUME NEW n \in Seqno, s.stable < n, HasPP(s, n)
                 PROVE  LET p == [seqno |-> n, digest |-> s.pp[n].digest]
                        IN  p \in ReqInfo /\ Bound(s, p)
    BY DEF PreparedReqs, Prepared
  <2>. DEFINE d == s.pp[n].digest
              p == [seqno |-> n, digest |-> d]
  <2>2. d \in Request
    BY <1>3, <2>1 DEF State, HasPP, NoPP
  <2>3. p \in ReqInfo /\ p.seqno = n /\ p.digest = d
    BY <2>2 DEF ReqInfo
  <2>4. ~(n <= s.stable)
    BY <1>6, <2>1, ConstantTypes
  <2>5. \A c \in s.commitSent : c.seqno = n => c.digest = d
    BY <1>3, <2>4 DEF Good, Locked
  <2>. HIDE DEF p
  <2>6. Bound(s, p)
    BY <2>3, <2>5 DEF Bound, Binds
  <2>. QED
    BY <2>3, <2>6 DEF p
<1>8. vc \in ViewChangeMsg /\ vc.id = r /\ vc.v = target /\ vc.reqs = PreparedReqs(s)
  <2>1. Larger(s.stable, s.executed - WindowSize) \in Nat
    BY <1>6, ConfigAssumption DEF Larger
  <2>. QED
    BY <1>1, <1>7, <2>1, ConstantTypes DEF ViewChangeMsg
<1>. HIDE DEF vc
<1>9. /\ t \in State /\ t.view = s.view /\ t.stable = s.stable /\ t.pp = s.pp
      /\ t.commits = s.commits /\ t.log = s.log /\ t.commitSent = s.commitSent
      /\ t.ppSent = s.ppSent /\ t.prepared = s.prepared /\ t.executed = s.executed
  BY <1>3 DEF State
<1>. HIDE DEF t
<1>10. IInv'
  <2>1. Preserves(r, t)
    BY <1>9, FrameGood DEF Preserves
  <2>. QED
    BY <1>4, <2>1, AssignInv DEF VCInv
<1>11. Faithful(t)
  BY <1>3, <1>9 DEF Faithful, Binds
<1>12. asked \in ViewInfo /\ OnePerSender(asked) /\ Genuine(asked, vcSent')
       /\ asked.target = target
  <2>1. Genuine(vi[r], vcSent')
    BY <1>1, <1>2, <1>5 DEF Genuine
  <2>. QED
    BY <1>5, <1>6, <2>1, ResetType
<1>. HIDE DEF asked
<1>13. (S # {} => vc \in vcSent'[r]) /\ \A q \in Correct : vcSent[q] \subseteq vcSent'[q]
  BY <1>1, <1>2
<1>14. j \in ViewInfo /\ OnePerSender(j) /\ Genuine(j, vcSent') /\ j.target = target
  <2>1. CASE S = {}
    BY <1>12, <2>1
  <2>2. CASE S # {}
    <3>1. i \in ViewInfo /\ OnePerSender(i) /\ Genuine(i, vcSent') /\ i.target = target
      BY <1>8, <1>12, <1>13, <2>2, CollectFacts
    <3>. QED
      BY <2>2, <3>1
  <2>. QED
    BY <2>1, <2>2
<1>. HIDE DEF j, i, s
<1>15. vcSent' \in [Correct -> SUBSET ViewChangeMsg]
  BY <1>1, <1>2, <1>8
<1>16. ASSUME NEW q \in Correct PROVE Reported(q)'
  <2>1. Reported(q) /\ (q # r => vcSent'[q] = vcSent[q] /\ replica'[q] = replica[q])
        /\ vcSent'[r] = vcSent[r] \union S /\ replica'[r] = t
    BY <1>1, <1>2, <1>4 DEF VCInv
  <2>2. CASE q = r
    <3>1. \A p : Bound(s, p) => Bound(t, p)
      BY <1>9 DEF Bound, Binds
    <3>2. \A m \in vcSent'[r] : m.id = r /\ \A p \in m.reqs : Bound(t, p)
      BY <1>7, <1>8, <2>1, <2>2, <3>1 DEF Reported, s
    <3>. QED
      BY <2>1, <2>2, <3>2 DEF Reported
  <2>3. CASE q # r
    BY <2>1, <2>3 DEF Reported
  <2>. QED
    BY <2>2, <2>3
<1>17. Led(r)'
  <2>1. vi'[r] = j /\ replica'[r] = t
    BY <1>1, <1>2, <1>4
  <2>2. \A nv \in nvSent[r] : nv.v \in Nat
    BY <1>2, NewViewNat
  <2>3. \A nv \in nvSent[r] : nv.v < j.target /\ nv.v <= t.view
    BY <1>3, <1>6, <1>9, <1>14, <2>2, ConstantTypes, <1>1 DEF Led, s
  <2>. QED
    BY <1>1, <1>3, <2>1, <2>3 DEF Led
<1>. QED
  BY <1>1, <1>2, <1>4, <1>9, <1>10, <1>11, <1>13, <1>14, <1>15, <1>16, <1>17, StepVCInv

LEMMA CollectVCInv ==
  ASSUME VCInv, NEW r \in Correct, CollectViewChange(r) PROVE VCInv'
<1>0. PICK q \in Replica : \E m \in VCsOf(q) :
        /\ Collects(vi[r], m) /\ vi' = [vi EXCEPT ![r] = Collect(@, m)]
        /\ UNCHANGED <<replica, vcSent, nvSent, proven>>
  BY DEF CollectViewChange
<1>1. PICK m \in VCsOf(q) :
        /\ Collects(vi[r], m) /\ vi' = [vi EXCEPT ![r] = Collect(@, m)]
        /\ UNCHANGED <<replica, vcSent, nvSent, proven>>
  BY <1>0
<1>. DEFINE i == Collect(vi[r], m)
<1>2. /\ replica \in [Correct -> State] /\ vi \in [Correct -> ViewInfo]
      /\ vcSent \in [Correct -> SUBSET ViewChangeMsg]
      /\ nvSent \in [Correct -> SUBSET NewViewMsg] /\ proven \in [Correct -> SUBSET ReqInfo]
  BY DEF VCInv, IInv, VCTypeOK, ViewInfo
<1>3. m \in ViewChangeMsg /\ (m.id \in Correct => m \in vcSent[m.id])
  BY VCMessages
<1>4. vi[r] \in ViewInfo /\ OnePerSender(vi[r]) /\ Genuine(vi[r], vcSent)
  BY <1>2 DEF VCInv
<1>5. /\ i \in ViewInfo /\ OnePerSender(i) /\ Genuine(i, vcSent)
      /\ i.target = m.v /\ m.v >= vi[r].target
  BY <1>1, <1>3, <1>4, CollectFacts
<1>6. vi' = [vi EXCEPT ![r] = i]
  BY <1>1
<1>. HIDE DEF i
<1>7. IInv'
  <2>1. UNCHANGED vars
    BY <1>1 DEF vars
  <2>. QED
    BY <2>1, StepInv DEF VCInv
<1>8. Led(r)'
  <2>1. vi'[r] = i /\ Led(r)
    BY <1>2, <1>6 DEF VCInv
  <2>2. \A nv \in nvSent[r] : nv.v \in Nat /\ nv.v < vi[r].target
    BY <1>2, <2>1, NewViewNat DEF Led
  <2>3. m.v \in Nat /\ vi[r].target \in Nat
    <3>1. m.v \in View
      BY <1>3 DEF ViewChangeMsg
    <3>2. vi[r].target \in 0 .. MaxView + 1
      BY <1>4 DEF ViewInfo
    <3>3. m.v \in Nat
      BY <3>1, ConstantTypes
    <3>4. vi[r].target \in Nat
      BY <3>2, BoundAssumption
    <3>. QED
      BY <3>3, <3>4
  <2>4. \A nv \in nvSent[r] : nv.v < i.target
    BY <1>5, <2>2, <2>3
  <2>. QED
    BY <1>1, <2>1, <2>4 DEF Led
<1>9. /\ replica' = [replica EXCEPT ![r] = replica[r]] /\ replica[r] \in State
      /\ Faithful(replica[r])
  BY <1>1, <1>2 DEF VCInv
<1>10. \A p \in Correct : Reported(p)'
  BY <1>1 DEF VCInv, Reported
<1>. QED
  BY <1>1, <1>2, <1>5, <1>6, <1>7, <1>8, <1>9, <1>10, StepVCInv

LEMMA SyncVCInv ==
  ASSUME VCInv, NEW r \in Correct, SyncToViewChange(r) PROVE VCInv'
<1>0. PICK q \in Replica : \E m \in VCsOf(q) :
        /\ m.v > replica[r].view
        /\ replica' = [replica EXCEPT ![r] = SyncView(@, m.v)]
        /\ UNCHANGED <<vi, vcSent, nvSent, proven>>
  BY DEF SyncToViewChange
<1>1. PICK m \in VCsOf(q) :
        /\ m.v > replica[r].view
        /\ replica' = [replica EXCEPT ![r] = SyncView(@, m.v)]
        /\ UNCHANGED <<vi, vcSent, nvSent, proven>>
  BY <1>0
<1>. DEFINE s == replica[r]
            t == SyncView(s, m.v)
<1>2. /\ replica \in [Correct -> State] /\ vi \in [Correct -> ViewInfo]
      /\ vcSent \in [Correct -> SUBSET ViewChangeMsg]
      /\ nvSent \in [Correct -> SUBSET NewViewMsg] /\ proven \in [Correct -> SUBSET ReqInfo]
  BY DEF VCInv, IInv, VCTypeOK, ViewInfo
<1>3. m.v \in View /\ m.v \in Nat
  BY VCMessages, ConstantTypes DEF ViewChangeMsg
<1>4. s \in State /\ Faithful(s) /\ Led(r) /\ s.view \in Nat
  BY <1>2, StateTypes DEF VCInv
<1>5. /\ t \in State /\ t.view = m.v /\ t.stable = s.stable /\ t.pp = s.pp
      /\ t.commits = s.commits /\ t.log = s.log /\ t.commitSent = s.commitSent
      /\ t.ppSent = s.ppSent /\ Grows(s, t)
  BY <1>3, <1>4, SyncViewFacts
<1>6. replica' = [replica EXCEPT ![r] = t] /\ replica'[r] = t
  BY <1>1, <1>2
<1>. HIDE DEF t
<1>7. IInv'
  <2>1. Preserves(r, t)
    BY <1>5, FrameGood DEF Preserves
  <2>. QED
    BY <1>6, <2>1, AssignInv DEF VCInv
<1>8. Faithful(t)
  BY <1>4, <1>5 DEF Faithful, Binds
<1>9. Led(r)'
  <2>1. \A nv \in nvSent[r] : nv.v \in Nat /\ nv.v <= s.view
    BY <1>2, <1>4, NewViewNat DEF Led
  <2>2. \A nv \in nvSent[r] : nv.v <= t.view
    BY <1>1, <1>3, <1>4, <1>5, <2>1
  <2>. QED
    BY <1>1, <1>4, <1>6, <2>2 DEF Led
<1>10. \A p \in Correct : Reported(p)'
  BY <1>1, <1>5, <1>6, ReportedKept
<1>11. /\ vi' = [vi EXCEPT ![r] = vi[r]] /\ vi[r] \in ViewInfo
       /\ OnePerSender(vi[r]) /\ Genuine(vi[r], vcSent)
  BY <1>1, <1>2 DEF VCInv
<1>. QED
  BY <1>1, <1>2, <1>5, <1>6, <1>7, <1>8, <1>9, <1>10, <1>11, StepVCInv

\* Both ways to install a New_view.
LEMMA InstallStep ==
  ASSUME VCInv, NEW r \in Correct, NEW nv \in NewViewMsg, NEW t \in Install(replica[r], nv),
         replica[r].stable <= nv.min, replica' = [replica EXCEPT ![r] = t], vcSent' = vcSent
  PROVE  /\ IInv' /\ t \in State /\ Faithful(t) /\ t.view = nv.v
         /\ \A q \in Correct : Reported(q)'
<1>. DEFINE s == replica[r]
<1>1. nv.v \in View /\ nv.min \in Nat /\ nv.proofs \subseteq ReqInfo
  BY DEF NewViewMsg
<1>2. s \in State /\ Faithful(s)
  BY DEF VCInv, IInv
<1>3. t \in State /\ t.view = nv.v /\ t.ppSent = s.ppSent /\ Grows(s, t)
  BY <1>1, <1>2, InstallGrows
<1>4. Faithful(t)
  <2>1. \A m \in s.ppSent : m.seqno \in Seqno /\ m.digest \in Request /\ Binds(s, m)
    BY <1>2, StateTypes DEF Faithful
  <2>2. \A m \in s.ppSent : Binds(t, m)
    BY <1>2, <1>3, <2>1, BindsKept
  <2>. QED
    BY <1>2, <1>3, <2>2 DEF Faithful
<1>5. IInv'
  <2>1. Preserves(r, t)
    BY <1>1, InstallGood DEF Preserves
  <2>. QED
    BY <2>1, AssignInv DEF VCInv
<1>6. \A q \in Correct : Reported(q)'
  BY <1>3, ReportedKept
<1>. QED
  BY <1>3, <1>4, <1>5, <1>6

\* The next view change is for a later view than the one installed.
LEMMA PastView ==
  ASSUME NEW v \in View, NEW vs \in SUBSET NewViewMsg, \A nv \in vs : nv.v <= v
  PROVE  /\ ViReset(v + 1) \in ViewInfo /\ OnePerSender(ViReset(v + 1))
         /\ \A sent : Genuine(ViReset(v + 1), sent)
         /\ \A nv \in vs : nv.v < ViReset(v + 1).target
<1>1. v + 1 \in 0 .. MaxView + 1 /\ v \in Nat
  BY BoundAssumption DEF View
<1>2. \A nv \in vs : nv.v \in Nat
  BY NewViewNat
<1>3. ViReset(v + 1).target = v + 1
  BY <1>1, ResetType
<1>4. \A nv \in vs : nv.v < ViReset(v + 1).target
  BY <1>1, <1>2, <1>3
<1>. QED
  BY <1>1, <1>4, ResetType

LEMMA LeadVCInv ==
  ASSUME VCInv, NEW r \in Correct, LeadNewView(r) PROVE VCInv'
<1>. DEFINE s == replica[r]
<1>1. PICK q \in Replica :
        \E m \in VCsOf(q) : \E nv \in NewViews(Collect(vi[r], m)) :
          /\ Collects(vi[r], m)
          /\ \E t \in Install(s, nv) :
               Orderly(s, t, nv) /\ replica' = [replica EXCEPT ![r] = t]
          /\ vi' = [vi EXCEPT ![r] = ViReset(m.v + 1)]
          /\ nvSent' = [nvSent EXCEPT ![r] = @ \union {nv}]
          /\ UNCHANGED <<vcSent, proven>>
  BY DEF LeadNewView
<1>2. PICK m \in VCsOf(q) : \E nv \in NewViews(Collect(vi[r], m)) :
          /\ Collects(vi[r], m)
          /\ \E t \in Install(s, nv) :
               Orderly(s, t, nv) /\ replica' = [replica EXCEPT ![r] = t]
          /\ vi' = [vi EXCEPT ![r] = ViReset(m.v + 1)]
          /\ nvSent' = [nvSent EXCEPT ![r] = @ \union {nv}]
          /\ UNCHANGED <<vcSent, proven>>
  BY <1>1
<1>3. PICK nv \in NewViews(Collect(vi[r], m)) :
          /\ Collects(vi[r], m)
          /\ \E t \in Install(s, nv) :
               Orderly(s, t, nv) /\ replica' = [replica EXCEPT ![r] = t]
          /\ vi' = [vi EXCEPT ![r] = ViReset(m.v + 1)]
          /\ nvSent' = [nvSent EXCEPT ![r] = @ \union {nv}]
          /\ UNCHANGED <<vcSent, proven>>
  BY <1>2
<1>4. PICK t \in Install(s, nv) : Orderly(s, t, nv) /\ replica' = [replica EXCEPT ![r] = t]
  BY <1>3
<1>5. /\ replica \in [Correct -> State] /\ vi \in [Correct -> ViewInfo]
      /\ vcSent \in [Correct -> SUBSET ViewChangeMsg]
      /\ nvSent \in [Correct -> SUBSET NewViewMsg] /\ proven \in [Correct -> SUBSET ReqInfo]
  BY DEF VCInv, IInv, VCTypeOK, ViewInfo
<1>6. vi[r] \in ViewInfo /\ OnePerSender(vi[r]) /\ Genuine(vi[r], vcSent) /\ Led(r)
  BY <1>5 DEF VCInv
<1>7. m \in ViewChangeMsg /\ (m.id \in Correct => m \in vcSent[m.id])
  BY VCMessages
<1>8. /\ Collect(vi[r], m) \in ViewInfo /\ Collect(vi[r], m).target = m.v
      /\ m.v >= vi[r].target
  BY <1>3, <1>6, <1>7, CollectFacts
<1>9. m.v \in View /\ m.v \in Nat
  BY <1>7, ConstantTypes DEF ViewChangeMsg
<1>10. nv \in NewViewMsg /\ nv.v = m.v
  BY <1>8, <1>9, NewViewType
<1>11. s.stable <= nv.min
  BY <1>4 DEF Orderly
<1>12. /\ IInv' /\ t \in State /\ Faithful(t) /\ t.view = m.v
       /\ \A p \in Correct : Reported(p)'
  BY <1>3, <1>4, <1>10, <1>11, InstallStep
<1>13. \A old \in nvSent[r] : old.v \in Nat /\ old.v < m.v
  <2>1. \A old \in nvSent[r] : old.v \in Nat /\ old.v < vi[r].target
    BY <1>5, <1>6, NewViewNat DEF Led
  <2>2. vi[r].target \in 0 .. MaxView + 1
    BY <1>6 DEF ViewInfo
  <2>3. vi[r].target \in Nat
    BY <2>2, BoundAssumption
  <2>. QED
    BY <1>8, <1>9, <2>1, <2>3
<1>. DEFINE vs == nvSent[r] \union {nv}
<1>14. vs \in SUBSET NewViewMsg /\ \A x \in vs : x.v <= m.v
  BY <1>5, <1>9, <1>10, <1>13
<1>15. nvSent'[r] = vs /\ nvSent' \in [Correct -> SUBSET NewViewMsg]
       /\ \A p \in Correct : p # r => nvSent'[p] = nvSent[p]
  BY <1>3, <1>5, <1>14
<1>16. \A x, y \in vs : x.v = y.v => x = y
  BY <1>6, <1>9, <1>10, <1>13 DEF Led
<1>. HIDE DEF vs
<1>. DEFINE i == ViReset(m.v + 1)
<1>17. /\ i \in ViewInfo /\ OnePerSender(i) /\ Genuine(i, vcSent')
       /\ \A x \in vs : x.v < i.target
  BY <1>9, <1>14, PastView
<1>18. vi' = [vi EXCEPT ![r] = i]
  BY <1>3
<1>. HIDE DEF i
<1>19. Led(r)'
  <2>1. vi'[r] = i /\ replica'[r] = t
    BY <1>4, <1>5, <1>18
  <2>. QED
    BY <1>12, <1>14, <1>15, <1>16, <1>17, <2>1 DEF Led
<1>20. vcSent' = vcSent /\ proven' = proven
  BY <1>3
<1>. HIDE DEF s
<1>. QED
  BY <1>4, <1>5, <1>12, <1>15, <1>17, <1>18, <1>19, <1>20, StepVCInv

LEMMA NewViewVCInv ==
  ASSUME VCInv, NEW r \in Correct, RecvNewView(r) PROVE VCInv'
<1>. DEFINE s == replica[r]
<1>1. PICK q \in Replica : \E nv \in NVsOf(q) :
        /\ nv.v >= s.view /\ Verifies(vi[r], nv)
        /\ \E t \in Install(s, nv) :
             Orderly(s, t, nv) /\ replica' = [replica EXCEPT ![r] = t]
        /\ vi' = [vi EXCEPT ![r] = ViReset(nv.v + 1)]
        /\ proven' = [proven EXCEPT ![r] = @ \union nv.proofs]
        /\ UNCHANGED <<vcSent, nvSent>>
  BY DEF RecvNewView
<1>2. PICK nv \in NVsOf(q) :
        /\ nv.v >= s.view /\ Verifies(vi[r], nv)
        /\ \E t \in Install(s, nv) :
             Orderly(s, t, nv) /\ replica' = [replica EXCEPT ![r] = t]
        /\ vi' = [vi EXCEPT ![r] = ViReset(nv.v + 1)]
        /\ proven' = [proven EXCEPT ![r] = @ \union nv.proofs]
        /\ UNCHANGED <<vcSent, nvSent>>
  BY <1>1
<1>3. PICK t \in Install(s, nv) : Orderly(s, t, nv) /\ replica' = [replica EXCEPT ![r] = t]
  BY <1>2
<1>4. /\ replica \in [Correct -> State] /\ vi \in [Correct -> ViewInfo]
      /\ vcSent \in [Correct -> SUBSET ViewChangeMsg]
      /\ nvSent \in [Correct -> SUBSET NewViewMsg] /\ proven \in [Correct -> SUBSET ReqInfo]
  BY DEF VCInv, IInv, VCTypeOK, ViewInfo
<1>5. vi[r] \in ViewInfo /\ OnePerSender(vi[r]) /\ Genuine(vi[r], vcSent) /\ Led(r)
  BY <1>4 DEF VCInv
<1>6. nv \in NewViewMsg
  BY VCMessages
<1>7. nv.v \in View /\ nv.v \in Nat /\ nv.proofs \subseteq ReqInfo /\ s.view \in Nat
  BY <1>4, <1>6, NewViewNat, StateTypes DEF NewViewMsg
<1>8. s.stable <= nv.min
  BY <1>3 DEF Orderly
<1>9. /\ IInv' /\ t \in State /\ Faithful(t) /\ t.view = nv.v
      /\ \A p \in Correct : Reported(p)'
  BY <1>2, <1>3, <1>6, <1>8, InstallStep
<1>10. \A p \in nv.proofs : Cardinality(Attesters(p)) >= Threshold
  BY <1>2, <1>5, VerifiedAttested
<1>11. \A old \in nvSent[r] : old.v <= nv.v
  <2>1. \A old \in nvSent[r] : old.v \in Nat /\ old.v <= s.view
    BY <1>4, <1>5, NewViewNat DEF Led
  <2>. QED
    BY <1>2, <1>7, <2>1
<1>. DEFINE i == ViReset(nv.v + 1)
<1>12. /\ i \in ViewInfo /\ OnePerSender(i) /\ Genuine(i, vcSent')
       /\ \A x \in nvSent[r] : x.v < i.target
  BY <1>4, <1>7, <1>11, PastView
<1>13. vi' = [vi EXCEPT ![r] = i]
  BY <1>2
<1>. HIDE DEF i
<1>14. vcSent' = vcSent /\ nvSent' = nvSent
  BY <1>2
<1>15. Led(r)'
  <2>1. vi'[r] = i /\ replica'[r] = t
    BY <1>3, <1>4, <1>13
  <2>. QED
    BY <1>5, <1>9, <1>11, <1>12, <1>14, <2>1 DEF Led
<1>16. /\ proven' \in [Correct -> SUBSET ReqInfo]
       /\ \A p \in Correct : proven'[p] \subseteq proven[p] \union nv.proofs
  BY <1>2, <1>4, <1>7
<1>17. \A p \in Correct : \A x \in proven'[p] :
         x \in proven[p] \/ Cardinality(Attesters(x)) >= Threshold
  BY <1>10, <1>16
<1>. HIDE DEF s
<1>. QED
  BY <1>3, <1>4, <1>9, <1>12, <1>13, <1>14, <1>15, <1>16, <1>17, StepVCInv

LEMMA InitVCInv == VCInit => VCInv
<1>. SUFFICES ASSUME VCInit PROVE VCInv
  OBVIOUS
<1>1. IInv
  BY InitInv DEF VCInit
<1>2. /\ \A r \in Correct : replica[r] = InitState /\ vi[r] = ViReset(0)
      /\ \A r \in Correct : vcSent[r] = {} /\ nvSent[r] = {} /\ proven[r] = {}
  BY DEF VCInit, Init
<1>3. 0 \in 0 .. MaxView + 1
  BY BoundAssumption
<1>4. /\ ViReset(0) \in ViewInfo /\ OnePerSender(ViReset(0))
      /\ \A sent : Genuine(ViReset(0), sent)
  BY <1>3, ResetType
<1>5. VCTypeOK
  <2>1. TypeOK
    BY <1>1 DEF IInv, TypeOK
  <2>2. vi \in [Correct -> ViewInfo]
    BY <1>4 DEF VCInit
  <2>3. /\ vcSent \in [Correct -> SUBSET ViewChangeMsg]
        /\ nvSent \in [Correct -> SUBSET NewViewMsg] /\ proven \in [Correct -> SUBSET ReqInfo]
    BY DEF VCInit
  <2>. QED
    BY <2>1, <2>2, <2>3 DEF VCTypeOK, ViewInfo
<1>6. InitState.ppSent = {}
  BY DEF InitState
<1>7. \A r \in Correct : Faithful(replica[r])
  BY <1>2, <1>6 DEF Faithful
<1>8. \A r \in Correct : OnePerSender(vi[r]) /\ Genuine(vi[r], vcSent)
  BY <1>2, <1>4
<1>9. \A r \in Correct : Led(r) /\ Reported(r) /\ Attested(r)
  BY <1>2 DEF Led, Reported, Attested
<1>. QED
  BY <1>1, <1>5, <1>7, <1>8, <1>9 DEF VCInv

LEMMA NextVCInv == VCInv /\ [VCNext]_vcVars => VCInv'
<1>. SUFFICES ASSUME VCInv, [VCNext]_vcVars PROVE VCInv'
  OBVIOUS
<1>1. CASE UNCHANGED vcVars
  <2>1. UNCHANGED vars /\ UNCHANGED <<replica, vi, vcSent, nvSent, proven>>
    BY <1>1 DEF vcVars, vars
  <2>2. IInv'
    BY <2>1, StepInv DEF VCInv
  <2>3. VCTypeOK'
    BY <2>1 DEF VCInv, VCTypeOK, TypeOK
  <2>4. ASSUME NEW r \in Correct
        PROVE  /\ Faithful(replica[r])' /\ Led(r)' /\ OnePerSender(vi[r])'
               /\ Genuine(vi[r], vcSent)' /\ Reported(r)' /\ Attested(r)'
    <3>1. /\ Faithful(replica[r]) /\ Led(r) /\ OnePerSender(vi[r])
          /\ Genuine(vi[r], vcSent) /\ Reported(r) /\ Attested(r)
      BY DEF VCInv
    <3>2. Faithful(replica[r])' /\ Led(r)' /\ OnePerSender(vi[r])'
      BY <2>1, <3>1 DEF Faithful, Binds, Led, OnePerSender
    <3>3. Genuine(vi[r], vcSent)' /\ Reported(r)' /\ Attested(r)'
      BY <2>1, <3>1 DEF Genuine, Reported, Bound, Binds, Attested, Attesters
    <3>. QED
      BY <3>2, <3>3
  <2>. QED
    BY <2>2, <2>3, <2>4 DEF VCInv
<1>2. ASSUME NEW r \in Correct, SendViewChange(r) PROVE VCInv'
  BY <1>2, SendVCInv
<1>3. ASSUME NEW r \in Correct \ Idle, AgreementStep(r) \/ PrePrepareStep(r) \/ StatusStep(r)
      PROVE  VCInv'
  BY <1>3, AgreementVCInv
<1>4. ASSUME NEW r \in Correct, CollectViewChange(r) PROVE VCInv'
  BY <1>4, CollectVCInv
<1>5. ASSUME NEW r \in Correct, LeadNewView(r) PROVE VCInv'
  BY <1>5, LeadVCInv
<1>6. ASSUME NEW r \in Correct, SyncToViewChange(r) PROVE VCInv'
  BY <1>6, SyncVCInv
<1>7. ASSUME NEW r \in Correct, RecvNewView(r) PROVE VCInv'
  BY <1>7, NewViewVCInv
<1>. HIDE DEF VCInv
<1>. QED
  BY <1>1, <1>2, <1>3, <1>4, <1>5, <1>6, <1>7 DEF VCNext

\* Whatever a step does, the record of the replica it changes only grows.
LEMMA NextGrows ==
  ASSUME VCInv, VCNext
  PROVE  \E r \in Correct, t \in State :
           replica' = [replica EXCEPT ![r] = t] /\ (t = replica[r] \/ Grows(replica[r], t))
<1>1. replica \in [Correct -> State]
  BY DEF VCInv, IInv
<1>2. replica' \in [Correct -> State]
  BY NextVCInv DEF VCInv, IInv
<1>3. ASSUME NEW r \in Correct, SendViewChange(r)
      PROVE  \E t \in State : replica' = [replica EXCEPT ![r] = t] /\ Grows(replica[r], t)
  <2>. DEFINE s == replica[r]
              t == [s EXCEPT !.inProgress = TRUE]
  <2>1. replica' = [replica EXCEPT ![r] = t]
    BY <1>1, <1>3 DEF SendViewChange
  <2>2. s \in State
    BY <1>1
  <2>3. /\ t \in State /\ t.stable = s.stable /\ t.pp = s.pp /\ t.commitSent = s.commitSent
        /\ t.ppSent = s.ppSent /\ t.prepared = s.prepared /\ t.executed = s.executed
        /\ t.view = s.view
    BY <2>2 DEF State
  <2>4. s.view <= t.view /\ s.prepared <= t.prepared /\ s.executed <= t.executed
    BY <2>2, <2>3, StateTypes
  <2>. HIDE DEF s, t
  <2>5. Grows(s, t)
    BY <2>2, <2>3, <2>4, FrameSteady DEF Steady
  <2>. QED
    BY <2>1, <2>3, <2>5 DEF s
<1>4. ASSUME NEW r \in Correct \ Idle, AgreementStep(r) \/ PrePrepareStep(r) \/ StatusStep(r)
      PROVE  \E t \in State : replica' = [replica EXCEPT ![r] = t] /\ Grows(replica[r], t)
  <2>1. PICK t : Become(r, t) /\ (t \in State => Moves(replica[r], t))
    BY <1>4, StepMoves DEF VCInv, AgreementStep, PrePrepareStep, StatusStep
  <2>2. replica' = [replica EXCEPT ![r] = t] /\ t \in State
    <3>1. replica' = [replica EXCEPT ![r] = t]
      BY <2>1 DEF Become
    <3>2. replica'[r] = t
      BY <1>1, <3>1
    <3>. QED
      BY <1>2, <3>1, <3>2
  <2>. QED
    BY <2>1, <2>2 DEF Moves
<1>5. ASSUME NEW r \in Correct, SyncToViewChange(r)
      PROVE  \E t \in State : replica' = [replica EXCEPT ![r] = t] /\ Grows(replica[r], t)
  <2>1. PICK q \in Replica : \E m \in VCsOf(q) :
          replica' = [replica EXCEPT ![r] = SyncView(@, m.v)]
    BY <1>5 DEF SyncToViewChange
  <2>2. PICK m \in VCsOf(q) : replica' = [replica EXCEPT ![r] = SyncView(replica[r], m.v)]
    BY <1>1, <2>1
  <2>3. m.v \in View
    BY VCMessages DEF ViewChangeMsg
  <2>. QED
    BY <1>1, <2>2, <2>3, SyncViewFacts
<1>6. ASSUME NEW r \in Correct, NEW nv \in NewViewMsg,
             \E t \in Install(replica[r], nv) :
               Orderly(replica[r], t, nv) /\ replica' = [replica EXCEPT ![r] = t]
      PROVE  \E t \in State : replica' = [replica EXCEPT ![r] = t] /\ Grows(replica[r], t)
  <2>1. nv.v \in View /\ nv.min \in Nat /\ nv.proofs \subseteq ReqInfo
    BY DEF NewViewMsg
  <2>. QED
    BY <1>1, <1>6, <2>1, InstallGrows DEF Orderly
<1>7. ASSUME NEW r \in Correct, RecvNewView(r)
      PROVE  \E t \in State : replica' = [replica EXCEPT ![r] = t] /\ Grows(replica[r], t)
  BY <1>6, <1>7, VCMessages DEF RecvNewView
<1>8. ASSUME NEW r \in Correct, LeadNewView(r)
      PROVE  \E t \in State : replica' = [replica EXCEPT ![r] = t] /\ Grows(replica[r], t)
  <2>1. PICK q \in Replica : \E m \in VCsOf(q) : \E nv \in NewViews(Collect(vi[r], m)) :
          /\ Collects(vi[r], m)
          /\ \E t \in Install(replica[r], nv) :
               Orderly(replica[r], t, nv) /\ replica' = [replica EXCEPT ![r] = t]
    BY <1>8 DEF LeadNewView
  <2>2. PICK m \in VCsOf(q) : \E nv \in NewViews(Collect(vi[r], m)) :
          /\ Collects(vi[r], m)
          /\ \E t \in Install(replica[r], nv) :
               Orderly(replica[r], t, nv) /\ replica' = [replica EXCEPT ![r] = t]
    BY <2>1
  <2>3. /\ vi[r] \in ViewInfo /\ OnePerSender(vi[r]) /\ Genuine(vi[r], vcSent)
        /\ m \in ViewChangeMsg /\ (m.id \in Correct => m \in vcSent[m.id])
    BY VCMessages DEF VCInv, VCTypeOK, ViewInfo
  <2>4. Collect(vi[r], m) \in ViewInfo /\ Collect(vi[r], m).target = m.v
    BY <2>2, <2>3, CollectFacts
  <2>5. m.v \in View
    BY <2>3 DEF ViewChangeMsg
  <2>6. \A nv \in NewViews(Collect(vi[r], m)) : nv \in NewViewMsg
    BY <2>4, <2>5, NewViewType
  <2>. QED
    BY <1>6, <2>2, <2>6
<1>9. ASSUME NEW r \in Correct, CollectViewChange(r)
      PROVE  replica' = [replica EXCEPT ![r] = replica[r]] /\ replica[r] \in State
  BY <1>1, <1>9 DEF CollectViewChange
<1>. QED
  BY <1>3, <1>4, <1>5, <1>7, <1>8, <1>9 DEF VCNext

-----------------------------------------------------------------------------
(* Theorems *)

\* The inductive invariant holds of every behaviour.
THEOREM VCInvariant == VCSpec => []VCInv
BY InitVCInv, NextVCInv, PTL DEF VCSpec

\* Every handler and every view change keeps the records, the messages and
\* the collected View_changes well typed.
THEOREM ViewsTyped == VCSpec => []VCTypeOK
<1>1. VCInv => VCTypeOK
  BY DEF VCInv
<1>. QED
  BY <1>1, VCInvariant, PTL

\* View changes included, a correct replica never sends Commits for two
\* requests at one sequence number.
THEOREM ViewsCommitOnce == VCSpec => []OneCommitPerSeqno
<1>1. VCInv => OneCommitPerSeqno
  BY DEF VCInv, IInv, Good, OneVote, OneCommitPerSeqno
<1>. QED
  BY <1>1, VCInvariant, PTL

\* View changes included, and with at most F faulty of at most 3F+1 replicas,
\* no two correct replicas execute different requests for a sequence number.
THEOREM ViewsAgree == ASSUME FaultBound PROVE VCSpec => []Agreement
<1>1. VCInv => Agreement
  BY AgreementHolds DEF VCInv
<1>. QED
  BY <1>1, VCInvariant, PTL

\* Under the same bound, installing a view never frees more correct replicas
\* to vote against an executed request than its F+1 holders leave.
THEOREM ViewsStayLocked == ASSUME FaultBound PROVE VCSpec => []ExecutedStaysLocked
<1>1. VCInv => ExecutedStaysLocked
  BY LocksHold DEF VCInv
<1>. QED
  BY <1>1, VCInvariant, PTL

\* For any number of faulty replicas, a correct primary gives a sequence number
\* to one request, although a New_view may set its next one back.
THEOREM PrimaryFaithful == VCSpec => []NoEquivocation
<1>1. VCInv => NoEquivocation
  BY DEF VCInv, Faithful, NoEquivocation
<1>. QED
  BY <1>1, VCInvariant, PTL

\* A correct primary sends one New_view for a view.
THEOREM LeadsOnce == VCSpec => []OneNewView
<1>1. VCInv => OneNewView
  BY DEF VCInv, Led, OneNewView
<1>. QED
  BY <1>1, VCInvariant, PTL

\* With at most F faulty of at most 3F+1 replicas, what a verified New_view
\* proves of a sequence number is never contradicted by an execution there:
\* the quorums of its View_changes and of the Commits share a correct replica.
THEOREM ProvenStands == ASSUME FaultBound PROVE VCSpec => []ProofsStand
<1>1. VCInv => ProofsStand
  <2>1. SUFFICES ASSUME VCInv, NEW r \in Correct, NEW q \in Correct, NEW p \in proven[r],
                        replica[q].log[p.seqno] # NoDigest
                 PROVE  replica[q].log[p.seqno] = p.digest
    BY DEF ProofsStand
  <2>. DEFINE n == p.seqno
              d == replica[q].log[p.seqno]
  <2>2. p \in ReqInfo
    BY <2>1 DEF VCInv, VCTypeOK
  <2>3. n \in Seqno
    BY <2>2 DEF ReqInfo
  <2>4. Cardinality(Backers(Sent, n, d)) >= Threshold
    BY <2>1, <2>3 DEF VCInv, IInv, Good, LogBacked
  <2>5. Cardinality(Attesters(p)) >= Threshold
    BY <2>1 DEF VCInv, Attested
  <2>. HIDE DEF n, d
  <2>6. Backers(Sent, n, d) \in SUBSET Replica /\ Attesters(p) \in SUBSET Replica
    BY BackersFinite, ConstantTypes DEF Attesters
  <2>7. PICK w \in Correct : w \in Backers(Sent, n, d) /\ w \in Attesters(p)
    BY <2>4, <2>5, <2>6, QuorumsMeet
  <2>8. PICK c \in replica[w].commitSent : c.seqno = n /\ c.digest = d
    BY <2>7 DEF Backers, SentIn, Sent, Correct
  <2>9. Bound(replica[w], p)
    BY <2>1, <2>7 DEF Attesters, Correct, VCInv, Reported
  <2>10. d = p.digest
    BY <2>8, <2>9 DEF Bound, n
  <2>. QED
    BY <2>10 DEF d
<1>. QED
  BY <1>1, VCInvariant, PTL

\* No handler and no installation of a view takes back what is stable, prepared
\* or executed.
THEOREM Monotone == VCSpec => CountersGrow
<1>. DEFINE Grow == \A r \in Correct :
                      /\ replica'[r].stable >= replica[r].stable
                      /\ replica'[r].prepared >= replica[r].prepared
                      /\ replica'[r].executed >= replica[r].executed
<1>1. VCInv /\ [VCNext]_vcVars => [Grow]_vcVars
  <2>1. SUFFICES ASSUME VCInv, VCNext, NEW q \in Correct
                 PROVE  /\ replica'[q].stable >= replica[q].stable
                        /\ replica'[q].prepared >= replica[q].prepared
                        /\ replica'[q].executed >= replica[q].executed
    OBVIOUS
  <2>2. PICK r \in Correct, t \in State :
          replica' = [replica EXCEPT ![r] = t] /\ (t = replica[r] \/ Grows(replica[r], t))
    BY <2>1, NextGrows
  <2>3. replica \in [Correct -> State]
    BY <2>1 DEF VCInv, IInv
  <2>4. replica[q] \in State /\ replica'[q] \in State
        /\ (replica'[q] = replica[q] \/ Grows(replica[q], replica'[q]))
    BY <2>2, <2>3
  <2>5. /\ replica[q].stable \in Nat /\ replica'[q].stable \in Nat
        /\ replica[q].prepared \in Nat /\ replica'[q].prepared \in Nat
        /\ replica[q].executed \in Nat /\ replica'[q].executed \in Nat
    BY <2>4, StateTypes
  <2>. QED
    BY <2>4, <2>5 DEF Grows
<1>2. VCSpec => [][Grow]_vcVars
  BY <1>1, VCInvariant, PTL DEF VCSpec
<1>. QED
  BY <1>2 DEF CountersGrow
=============================================================================
