-------------------------- MODULE RequestsProofs --------------------------
(***************************************************************************)
(* Proofs about Requests, for every number of replicas and clients, every  *)
(* queue, window and interval, and whatever the network loses.             *)
(*                                                                         *)
(* A handler changes the record of one replica, or of those a Pre_prepare  *)
(* reaches, so each is proved on one record: it leaves the record sound,   *)
(* keeps what its slots hold, and leaves no backup waiting without its     *)
(* timer but for a View_change that cannot be signed.  What was executed   *)
(* at a sequence number stays: the quorum that held the request then       *)
(* cannot come to hold another.                                            *)
(***************************************************************************)
EXTENDS Requests, FiniteSetTheorems, SequenceTheorems, WellFoundedInduction, TLAPS

State ==
  [view : View, changing : BOOLEAN, asks : BOOLEAN, stranded : BOOLEAN, trouble : Nat,
   vtimer : BOOLEAN, fired : BOOLEAN, start : 0 .. MaxSeqno,
   rqueue : Seq(Request), ro_rqueue : Seq(Request), assigned : Request \union {None},
   received : [Client -> 0 .. MaxRid], forwarded : [Client -> 0 .. MaxRid],
   done : [Client -> 0 .. MaxRid],
   seqno : 1 .. MaxSeqno + 1, slot : [Seqno -> Slot \union {None}],
   executed : 0 .. MaxSeqno, stable : 0 .. MaxSeqno, fill : 0 .. MaxSeqno]

\* The requests of either queue.
Writing == {req \in Request : req[1] \notin ReadOnly}
Reading == {req \in Request : req[1] \in ReadOnly}

NoTwice(q) == \A i, j \in 1 .. Len(q) : q[i] = q[j] => i = j
Among(e, q) == \E i \in 1 .. Len(q) : q[i] = e
QueueOK(q, S) == q \in Seq(S) /\ Len(q) <= QueueMax /\ NoTwice(q)

\* A record as the handlers leave it: a slot up to the stable point is free.
Sound(s) ==
  /\ s \in State
  /\ s.stable <= s.executed
  /\ \A n \in Seqno : s.slot[n] # None => n > s.stable
  /\ QueueOK(s.rqueue, Writing) /\ QueueOK(s.ro_rqueue, Reading)

\* PendingIsTimed, of one record.
OnTime(r, s) ==
  s.changing \/ (Primary(s.view) # r /\ Pending(r, s)) => s.vtimer \/ s.fired \/ s.stranded

\* What a slot holds stays there until it is stable.
Keeps(s, t) ==
  /\ s.stable <= t.stable
  /\ \A n \in Seqno :
       s.slot[n] # None =>
         t.stable >= n \/ (t.slot[n] # None /\ t.slot[n].req = s.slot[n].req)

\* What a step may do to the record of replica r.
Moves(r, s, t) == Sound(t) /\ Keeps(s, t) /\ (OnTime(r, s) => OnTime(r, t))

-----------------------------------------------------------------------------
(* Numbers and queues *)

LEMMA ConstantTypes ==
  /\ N \in Nat /\ F \in Nat /\ MaxSeqno \in Nat /\ MaxRid \in Nat /\ MaxView \in Nat
  /\ QueueMax \in Nat /\ WindowSize \in Nat
  /\ IsFiniteSet(Replica)
  /\ \A n \in Seqno : n \in Nat /\ n \in 0 .. MaxSeqno
  /\ \A req \in Request : req[1] \in Client /\ req[2] \in Nat /\ req[2] \in 0 .. MaxRid
  /\ \A pp \in Slot : pp.req \in Request /\ pp.view \in View /\ pp # None
  /\ \A v \in View : v \in Nat
<1>1. N \in Nat /\ F \in Nat /\ MaxSeqno \in Nat /\ MaxRid \in Nat /\ MaxView \in Nat
      /\ QueueMax \in Nat /\ WindowSize \in Nat
  BY SizeAssumption
<1>2. IsFiniteSet(Replica)
  BY <1>1, FS_Interval DEF Replica
<1>3. \A pp \in Slot : pp.req \in Request /\ pp.view \in View /\ pp # None
  BY PartsAssumption DEF Slot
<1>4. \A req \in Request : req[1] \in Client /\ req[2] \in Nat /\ req[2] \in 0 .. MaxRid
  BY <1>1 DEF Request
<1>. QED
  BY <1>1, <1>2, <1>3, <1>4 DEF Seqno, View

LEMMA LeastOf ==
  ASSUME NEW S \in SUBSET Nat, S # {} PROVE \E m \in S : \A k \in S : m <= k
<1>. DEFINE R == {ss \in Nat \X Nat : ss[1] < ss[2]}
<1>1. IsWellFoundedOn(R, Nat)
  BY NatLessThanWellFounded DEF OpToRel
<1>2. PICK m \in S : \A k \in S : ~(<<k, m>> \in R)
  <2>. HIDE DEF R
  <2>. QED
    BY <1>1, WFMin
<1>3. \A k \in S : ~(k < m)
  <2>1. \A k \in S : <<k, m>> \in Nat \X Nat /\ <<k, m>>[1] = k /\ <<k, m>>[2] = m
    OBVIOUS
  <2>. QED
    BY <1>2, <2>1
<1>. HIDE DEF R
<1>. QED
  BY <1>3

\* Largest is the greatest of a set that has a bound.
LEMMA LargestIs ==
  ASSUME NEW M \in Nat, NEW S \in SUBSET (0 .. M), S # {}
  PROVE  Largest(S) \in S /\ \A k \in S : k <= Largest(S)
<1>. DEFINE T == {M - k : k \in S}
<1>1. PICK x \in T : \A y \in T : x <= y
  <2>1. \A k \in S : M - k \in Nat
    OBVIOUS
  <2>2. T \subseteq Nat /\ T # {}
    BY <2>1
  <2>. HIDE DEF T
  <2>. QED
    BY <2>2, LeastOf
<1>2. PICK m \in S : x = M - m
  OBVIOUS
<1>3. \A k \in S : M - m <= M - k
  BY <1>1, <1>2
<1>. HIDE DEF T
<1>4. ASSUME NEW k \in S PROVE m >= k
  <2>1. M - m <= M - k
    BY <1>3
  <2>2. m \in Nat /\ k \in Nat
    OBVIOUS
  <2>. QED
    BY <2>1, <2>2
<1>5. \E m1 \in S : \A k \in S : m1 >= k
  BY <1>4
<1>. QED
  BY <1>5 DEF Largest

LEMMA TailOK ==
  ASSUME NEW S, NEW q, QueueOK(q, S), q # <<>>
  PROVE  QueueOK(Tail(q), S) /\ Head(q) \in S
<1>1. q \in Seq(S) /\ Len(q) <= QueueMax /\ Len(q) \in Nat /\ QueueMax \in Nat
  BY LenProperties, ConstantTypes DEF QueueOK
<1>2. /\ Head(q) \in S /\ Tail(q) \in Seq(S) /\ Len(Tail(q)) = Len(q) - 1
      /\ \A i \in 1 .. Len(Tail(q)) : Tail(q)[i] = q[i + 1]
  BY <1>1, HeadTailProperties
<1>3. NoTwice(Tail(q))
  BY <1>1, <1>2 DEF QueueOK, NoTwice
<1>. QED
  BY <1>1, <1>2, <1>3 DEF QueueOK

LEMMA AppendOK ==
  ASSUME NEW S, NEW q, QueueOK(q, S), NEW e \in S, Len(q) < QueueMax, ~Among(e, q)
  PROVE  QueueOK(Append(q, e), S) /\ Append(q, e) # <<>>
<1>1. q \in Seq(S) /\ Len(q) \in Nat /\ QueueMax \in Nat
  BY LenProperties, ConstantTypes DEF QueueOK
<1>2. /\ Append(q, e) \in Seq(S) /\ Append(q, e) # <<>> /\ Len(Append(q, e)) = Len(q) + 1
      /\ \A i \in 1 .. Len(q) : Append(q, e)[i] = q[i]
      /\ Append(q, e)[Len(q) + 1] = e
  BY <1>1, AppendProperties
<1>3. NoTwice(Append(q, e))
  BY <1>1, <1>2 DEF QueueOK, NoTwice, Among
<1>. QED
  BY <1>1, <1>2, <1>3 DEF QueueOK

LEMMA NotInParts ==
  ASSUME NEW S, NEW p \in Seq(S), NEW q \in Seq(S), NEW e, ~Among(e, p \o q)
  PROVE  ~Among(e, p) /\ ~Among(e, q)
<1>1. PICK m \in Nat : m = Len(p)
  BY LenProperties
<1>2. PICK n \in Nat : n = Len(q)
  BY LenProperties
<1>3. /\ Len(p \o q) = m + n
      /\ \A i \in 1 .. m + n : (p \o q)[i] = IF i <= m THEN p[i] ELSE q[i - m]
  BY <1>1, <1>2, ConcatProperties
<1>4. \A i \in 1 .. m : i \in 1 .. m + n /\ (p \o q)[i] = p[i]
  BY <1>3
<1>5. \A i \in 1 .. n : i + m \in 1 .. m + n /\ (p \o q)[i + m] = q[i]
  BY <1>3
<1>. QED
  BY <1>1, <1>2, <1>3, <1>4, <1>5 DEF Among

-----------------------------------------------------------------------------
(* One record *)

LEMMA StateTypes ==
  ASSUME NEW s \in State
  PROVE  /\ s.view \in View /\ s.view \in Nat /\ s.changing \in BOOLEAN
         /\ s.executed \in Nat /\ s.stable \in Nat /\ s.fill \in Nat /\ s.seqno \in Nat
         /\ \A n \in Seqno : s.slot[n] # None =>
              s.slot[n] \in Slot /\ s.slot[n].req \in Request /\ s.slot[n].view \in Nat
         /\ \A c \in Client :
              s.received[c] \in 0 .. MaxRid /\ s.forwarded[c] \in 0 .. MaxRid
              /\ s.done[c] \in 0 .. MaxRid
<1>1. /\ s.view \in View /\ s.changing \in BOOLEAN
      /\ s.executed \in 0 .. MaxSeqno /\ s.stable \in 0 .. MaxSeqno
      /\ s.fill \in 0 .. MaxSeqno /\ s.seqno \in 1 .. MaxSeqno + 1
  BY DEF State
<1>2. s.slot \in [Seqno -> Slot \union {None}]
  BY DEF State
<1>3. /\ s.received \in [Client -> 0 .. MaxRid] /\ s.forwarded \in [Client -> 0 .. MaxRid]
      /\ s.done \in [Client -> 0 .. MaxRid]
  BY DEF State
<1>4. \A n \in Seqno : s.slot[n] # None => s.slot[n] \in Slot
  BY <1>2
<1>5. \A n \in Seqno : s.slot[n] # None => s.slot[n].req \in Request /\ s.slot[n].view \in Nat
  BY <1>4, ConstantTypes
<1>. QED
  BY <1>1, <1>3, <1>4, <1>5, ConstantTypes

\* A timer that is started when something is pending.
LEMMA TimedMoves ==
  ASSUME NEW r, NEW s, Sound(s)
  PROVE  LET t == Timed(r, s) IN
         /\ Sound(t) /\ Keeps(s, t) /\ OnTime(r, t)
         /\ t.seqno = s.seqno /\ t.slot = s.slot /\ t.stable = s.stable /\ t.view = s.view
<1>. DEFINE t == Timed(r, s)
<1>1. Pending(r, s) \in BOOLEAN
  BY DEF Pending, Sound, State
<1>2. t = [s EXCEPT !.vtimer = Pending(r, s), !.stranded = FALSE] /\ s \in State
  BY DEF Timed, Sound
<1>3. t \in State /\ t.vtimer = Pending(r, s)
  BY <1>1, <1>2 DEF State
<1>4. /\ t.view = s.view /\ t.changing = s.changing /\ t.received = s.received
      /\ t.forwarded = s.forwarded /\ t.done = s.done /\ t.seqno = s.seqno
      /\ t.slot = s.slot /\ t.stable = s.stable /\ t.executed = s.executed
      /\ t.rqueue = s.rqueue /\ t.ro_rqueue = s.ro_rqueue
  BY <1>1, <1>2 DEF State
<1>. HIDE DEF t
<1>5. Sound(t)
  BY <1>3, <1>4 DEF Sound
<1>6. Keeps(s, t)
  BY <1>4, <1>2, StateTypes DEF Keeps
<1>7. OnTime(r, t)
  BY <1>3, <1>4 DEF OnTime, Pending
<1>. QED
  BY <1>4, <1>5, <1>6, <1>7 DEF t

LEMMA MoveToMoves ==
  ASSUME NEW r, NEW s, Sound(s), NEW v \in View
  PROVE  LET t == MoveTo(r, s, v) IN
         /\ Sound(t) /\ Keeps(s, t) /\ OnTime(r, t)
         /\ t.seqno = s.seqno /\ t.slot = s.slot /\ t.stable = s.stable /\ t.view = v
<1>. DEFINE u == [s EXCEPT !.view = v, !.start = s.executed, !.forwarded = s.done]
<1>1. s \in State /\ MoveTo(r, s, v) = Timed(r, u)
  BY DEF Sound, MoveTo
<1>2. u \in State
  BY <1>1 DEF State
<1>3. /\ u.seqno = s.seqno /\ u.slot = s.slot /\ u.stable = s.stable /\ u.executed = s.executed
      /\ u.rqueue = s.rqueue /\ u.ro_rqueue = s.ro_rqueue /\ u.view = v
  BY <1>1 DEF State
<1>. HIDE DEF u
<1>4. Sound(u)
  BY <1>2, <1>3 DEF Sound
<1>5. LET t == Timed(r, u) IN
      /\ Sound(t) /\ OnTime(r, t)
      /\ t.seqno = u.seqno /\ t.slot = u.slot /\ t.stable = u.stable /\ t.view = u.view
  BY <1>4, TimedMoves
<1>6. Keeps(s, Timed(r, u))
  BY <1>1, <1>3, <1>5, StateTypes DEF Keeps
<1>. QED
  BY <1>1, <1>3, <1>5, <1>6

LEMMA EnterViewMoves ==
  ASSUME NEW r, NEW s, Sound(s), NEW v \in View
  PROVE  LET t == EnterView(r, s, v) IN
         /\ Sound(t) /\ Keeps(s, t) /\ OnTime(r, t)
         /\ t.seqno = s.seqno /\ t.slot = s.slot /\ t.stable = s.stable /\ t.view = v
<1>. DEFINE u == [s EXCEPT !.changing = FALSE, !.asks = FALSE]
<1>1. s \in State /\ EnterView(r, s, v) = MoveTo(r, u, v)
  BY DEF Sound, EnterView
<1>2. /\ u \in State
      /\ u.seqno = s.seqno /\ u.slot = s.slot /\ u.stable = s.stable /\ u.executed = s.executed
      /\ u.rqueue = s.rqueue /\ u.ro_rqueue = s.ro_rqueue
  BY <1>1 DEF State
<1>. HIDE DEF u
<1>3. Sound(u)
  BY <1>2 DEF Sound
<1>4. LET t == MoveTo(r, u, v) IN
      /\ Sound(t) /\ OnTime(r, t)
      /\ t.seqno = u.seqno /\ t.slot = u.slot /\ t.stable = u.stable /\ t.view = v
  BY <1>3, MoveToMoves
<1>5. Keeps(s, MoveTo(r, u, v))
  BY <1>1, <1>2, <1>4, StateTypes DEF Keeps
<1>. QED
  BY <1>1, <1>2, <1>4, <1>5

\* A change of timers and of the bookkeeping of the view change.
LEMMA TimersMove ==
  ASSUME NEW r, NEW s, Sound(s), NEW t \in State, t.slot = s.slot, t.stable = s.stable,
         t.executed = s.executed, t.rqueue = s.rqueue, t.ro_rqueue = s.ro_rqueue,
         t.vtimer \/ t.fired \/ t.stranded
  PROVE  Moves(r, s, t)
<1>1. Sound(t)
  BY DEF Sound
<1>2. Keeps(s, t)
  BY StateTypes DEF Keeps, Sound
<1>3. OnTime(r, t)
  BY DEF OnTime
<1>. QED
  BY <1>1, <1>2, <1>3 DEF Moves

LEMMA TroubledIs ==
  ASSUME NEW s \in State
  PROVE  LET t == Troubled(s) IN
         /\ t \in State /\ t.slot = s.slot /\ t.stable = s.stable /\ t.executed = s.executed
         /\ t.rqueue = s.rqueue /\ t.ro_rqueue = s.ro_rqueue
         /\ t.view = s.view /\ t.changing = s.changing /\ t.vtimer = s.vtimer
         /\ t.fired = s.fired /\ t.stranded = s.stranded
         /\ t.received = s.received /\ t.forwarded = s.forwarded /\ t.done = s.done
<1>1. PICK k \in Nat : k = s.trouble + 1
  BY DEF State
<1>2. Troubled(s) = [s EXCEPT !.trouble = k]
  BY <1>1 DEF Troubled, State
<1>. QED
  BY <1>2 DEF State

\* A View_change that is sent, put off, or not signed leaves these alone.
LEMMA OutcomeIs ==
  ASSUME NEW s \in State, NEW t \in {Sent(s), PutOff(s), Unsigned(s)}
  PROVE  /\ t \in State /\ t.slot = s.slot /\ t.stable = s.stable /\ t.executed = s.executed
         /\ t.rqueue = s.rqueue /\ t.ro_rqueue = s.ro_rqueue
         /\ t.vtimer \/ t.fired \/ t.stranded
<1>1. CASE t = Sent(s)
  BY <1>1 DEF Sent, State
<1>2. CASE t = PutOff(s)
  BY <1>2 DEF PutOff, State
<1>3. CASE t = Unsigned(s)
  <2>1. PICK b \in BOOLEAN : b = ~(s.vtimer \/ s.fired)
    OBVIOUS
  <2>2. t = [s EXCEPT !.changing = TRUE, !.stranded = b]
    BY <1>3, <2>1 DEF Unsigned
  <2>3. /\ t \in State /\ t.slot = s.slot /\ t.stable = s.stable /\ t.executed = s.executed
        /\ t.rqueue = s.rqueue /\ t.ro_rqueue = s.ro_rqueue
        /\ t.vtimer = s.vtimer /\ t.fired = s.fired /\ t.stranded = b
    BY <2>2 DEF State
  <2>. QED
    BY <2>1, <2>3
<1>. QED
  BY <1>1, <1>2, <1>3

\* So does what send_view_change makes of them, and it leaves the replica timed
\* or stranded.
LEMMA AttemptIs ==
  ASSUME NEW r, NEW s \in State, NEW t \in SendViewChange(r, s) \union Attempt(r, s)
  PROVE  /\ t \in State /\ t.slot = s.slot /\ t.stable = s.stable /\ t.executed = s.executed
         /\ t.rqueue = s.rqueue /\ t.ro_rqueue = s.ro_rqueue
         /\ t.vtimer \/ t.fired \/ t.stranded
<1>1. \/ t \in {Sent(s), PutOff(s), Unsigned(s)}
      \/ \E u \in {PutOff(s), Unsigned(s)} : t = Troubled(u)
  BY DEF SendViewChange, Attempt
<1>2. CASE t \in {Sent(s), PutOff(s), Unsigned(s)}
  BY <1>2, OutcomeIs
<1>3. ASSUME NEW u \in {PutOff(s), Unsigned(s)}, t = Troubled(u)
      PROVE  /\ t \in State /\ t.slot = s.slot /\ t.stable = s.stable /\ t.executed = s.executed
             /\ t.rqueue = s.rqueue /\ t.ro_rqueue = s.ro_rqueue
             /\ t.vtimer \/ t.fired \/ t.stranded
  <2>1. /\ u \in State /\ u.slot = s.slot /\ u.stable = s.stable /\ u.executed = s.executed
        /\ u.rqueue = s.rqueue /\ u.ro_rqueue = s.ro_rqueue
        /\ u.vtimer \/ u.fired \/ u.stranded
    BY OutcomeIs
  <2>. QED
    BY <1>3, <2>1, TroubledIs
<1>. QED
  BY <1>1, <1>2, <1>3

LEMMA AttemptMoves ==
  ASSUME NEW r, NEW s, Sound(s), NEW t \in SendViewChange(r, s) \union Attempt(r, s)
  PROVE  Moves(r, s, t) /\ OnTime(r, t)
<1>1. s \in State
  BY DEF Sound
<1>2. /\ t \in State /\ t.slot = s.slot /\ t.stable = s.stable /\ t.executed = s.executed
      /\ t.rqueue = s.rqueue /\ t.ro_rqueue = s.ro_rqueue
      /\ t.vtimer \/ t.fired \/ t.stranded
  BY <1>1, AttemptIs
<1>. QED
  BY <1>2, TimersMove DEF OnTime

-----------------------------------------------------------------------------
(* The queues of the primary *)

LEMMA BacklogHead ==
  ASSUME NEW s, Sound(s)
  PROVE  /\ Backlog(s) = <<>> <=> s.rqueue = <<>> /\ s.ro_rqueue = <<>>
         /\ Backlog(s) # <<>> => Head(Backlog(s)) \in Request
         /\ Backlog(s) \in Seq(Request)
<1>1. s.rqueue \in Seq(Request) /\ s.ro_rqueue \in Seq(Request)
  BY DEF Sound, State
<1>2. Backlog(s) \in Seq(Request)
  BY <1>1, ConcatProperties DEF Backlog
<1>3. Backlog(s) = <<>> <=> s.rqueue = <<>> /\ s.ro_rqueue = <<>>
  BY <1>1, ConcatEqualIffEmpty DEF Backlog
<1>4. Backlog(s) # <<>> => Head(Backlog(s)) \in Request
  BY <1>2, HeadTailProperties
<1>. QED
  BY <1>2, <1>3, <1>4

\* What Pop and the other changes of queues and timers leave alone.
Alike(s, t) ==
  /\ t.view = s.view /\ t.changing = s.changing /\ t.seqno = s.seqno
  /\ t.slot = s.slot /\ t.stable = s.stable /\ t.executed = s.executed

LEMMA PopSound ==
  ASSUME NEW s, Sound(s), Backlog(s) # <<>>
  PROVE  Sound(Pop(s)) /\ Alike(s, Pop(s))
<1>. DEFINE t == Pop(s)
<1>1. s \in State
  BY DEF Sound
<1>2. CASE s.rqueue # <<>>
  <2>1. t = [s EXCEPT !.rqueue = Tail(s.rqueue)]
    BY <1>2 DEF Pop
  <2>2. QueueOK(Tail(s.rqueue), Writing)
    BY <1>2, TailOK DEF Sound
  <2>3. Tail(s.rqueue) \in Seq(Request)
    BY <1>1, <1>2, HeadTailProperties DEF State
  <2>4. t \in State /\ t.rqueue = Tail(s.rqueue) /\ t.ro_rqueue = s.ro_rqueue /\ Alike(s, t)
    BY <1>1, <2>1, <2>3 DEF State, Alike
  <2>. QED
    BY <2>2, <2>4 DEF Sound, Alike
<1>3. CASE s.rqueue = <<>>
  <2>1. t = [s EXCEPT !.ro_rqueue = Tail(s.ro_rqueue)] /\ s.ro_rqueue # <<>>
    BY <1>3, BacklogHead DEF Pop
  <2>2. QueueOK(Tail(s.ro_rqueue), Reading)
    BY <2>1, TailOK DEF Sound
  <2>3. Tail(s.ro_rqueue) \in Seq(Request)
    BY <1>1, <2>1, HeadTailProperties DEF State
  <2>4. t \in State /\ t.ro_rqueue = Tail(s.ro_rqueue) /\ t.rqueue = s.rqueue /\ Alike(s, t)
    BY <1>1, <2>1, <2>3 DEF State, Alike
  <2>. QED
    BY <2>2, <2>4 DEF Sound, Alike
<1>. QED
  BY <1>2, <1>3

\* A request that is not queued is queued once.
LEMMA EnqueueSound ==
  ASSUME NEW s, Sound(s), NEW req \in Request, ~Queued(s, req)
  PROVE  LET t == Enqueue(s, req) IN
         /\ Sound(t) /\ Alike(s, t) /\ (t # s => Backlog(t) # <<>>)
<1>. DEFINE t == Enqueue(s, req)
<1>1. s \in State /\ s.rqueue \in Seq(Request) /\ s.ro_rqueue \in Seq(Request)
  BY DEF Sound, State
<1>2. ~Among(req, s.rqueue \o s.ro_rqueue)
  BY DEF Queued, Backlog, Among
<1>3. ~Among(req, s.rqueue) /\ ~Among(req, s.ro_rqueue)
  BY <1>1, <1>2, NotInParts
<1>6. CASE req[1] \in ReadOnly /\ Len(s.ro_rqueue) < QueueMax
  <2>1. t = [s EXCEPT !.ro_rqueue = Append(s.ro_rqueue, req)]
    BY <1>6 DEF Enqueue
  <2>2. QueueOK(Append(s.ro_rqueue, req), Reading) /\ Append(s.ro_rqueue, req) # <<>>
    BY <1>3, <1>6, AppendOK DEF Sound, Reading
  <2>3. Append(s.ro_rqueue, req) \in Seq(Request)
    BY <1>1, AppendProperties
  <2>4. /\ t \in State /\ t.ro_rqueue = Append(s.ro_rqueue, req) /\ t.rqueue = s.rqueue
        /\ Alike(s, t)
    BY <1>1, <2>1, <2>3 DEF State, Alike
  <2>5. Sound(t)
    BY <2>2, <2>4 DEF Sound, Alike
  <2>. QED
    BY <2>2, <2>4, <2>5, BacklogHead
<1>7. CASE req[1] \notin ReadOnly /\ Len(s.rqueue) < QueueMax
  <2>1. t = [s EXCEPT !.rqueue = Append(s.rqueue, req)]
    BY <1>7 DEF Enqueue
  <2>2. QueueOK(Append(s.rqueue, req), Writing) /\ Append(s.rqueue, req) # <<>>
    BY <1>3, <1>7, AppendOK DEF Sound, Writing
  <2>3. Append(s.rqueue, req) \in Seq(Request)
    BY <1>1, AppendProperties
  <2>4. /\ t \in State /\ t.rqueue = Append(s.rqueue, req) /\ t.ro_rqueue = s.ro_rqueue
        /\ Alike(s, t)
    BY <1>1, <2>1, <2>3 DEF State, Alike
  <2>5. Sound(t)
    BY <2>2, <2>4 DEF Sound, Alike
  <2>. QED
    BY <2>2, <2>4, <2>5, BacklogHead
<1>8. CASE ~(req[1] \in ReadOnly /\ Len(s.ro_rqueue) < QueueMax)
           /\ ~(req[1] \notin ReadOnly /\ Len(s.rqueue) < QueueMax)
  <2>1. t = s
    BY <1>8 DEF Enqueue
  <2>. QED
    BY <2>1 DEF Alike
<1>. QED
  BY <1>6, <1>7, <1>8

-----------------------------------------------------------------------------
(* Pre_prepares *)

\* What a slot accepts enters it, and what it held stays.
LEMMA FillSlot ==
  ASSUME NEW s, Sound(s), NEW n \in Seqno, NEW pp \in Slot, InWindow(s, n), Accepts(s, n, pp)
  PROVE  LET t == [s EXCEPT !.slot[n] = pp] IN
         /\ Sound(t) /\ Keeps(s, t) /\ t.slot[n] = pp
         /\ t.seqno = s.seqno /\ t.stable = s.stable /\ t.view = s.view
         /\ t.changing = s.changing /\ t.vtimer = s.vtimer /\ t.fired = s.fired
         /\ t.stranded = s.stranded
         /\ t.received = s.received /\ t.forwarded = s.forwarded /\ t.done = s.done
<1>. DEFINE t == [s EXCEPT !.slot[n] = pp]
<1>1. s \in State /\ s.slot \in [Seqno -> Slot \union {None}]
  BY DEF Sound, State
<1>2. t = [s EXCEPT !.slot = [s.slot EXCEPT ![n] = pp]]
  BY <1>1 DEF State
<1>3. [s.slot EXCEPT ![n] = pp] \in [Seqno -> Slot \union {None}]
  BY <1>1
<1>4. /\ t \in State /\ t.slot = [s.slot EXCEPT ![n] = pp]
      /\ t.seqno = s.seqno /\ t.stable = s.stable /\ t.view = s.view /\ t.executed = s.executed
      /\ t.changing = s.changing /\ t.vtimer = s.vtimer /\ t.fired = s.fired
      /\ t.stranded = s.stranded
      /\ t.received = s.received /\ t.forwarded = s.forwarded /\ t.done = s.done
      /\ t.rqueue = s.rqueue /\ t.ro_rqueue = s.ro_rqueue
  BY <1>1, <1>2, <1>3 DEF State
<1>. HIDE DEF t
<1>5. \A i \in Seqno : t.slot[i] = IF i = n THEN pp ELSE s.slot[i]
  BY <1>1, <1>4
<1>6. n > s.stable /\ pp # None
  BY <1>1, StateTypes, ConstantTypes DEF InWindow
<1>7. Sound(t)
  BY <1>4, <1>5, <1>6 DEF Sound
<1>8. s.slot[n] # None => s.slot[n].req = pp.req
  BY DEF Accepts
<1>9. Keeps(s, t)
  BY <1>1, <1>4, <1>5, <1>6, <1>8, StateTypes DEF Keeps
<1>. QED
  BY <1>4, <1>5, <1>7, <1>9 DEF t

LEMMA SendPrePrepareMoves ==
  ASSUME NEW r, NEW s, Sound(s), ~s.changing, Primary(s.view) = r, Backlog(s) # <<>>
  PROVE  LET t == SendPrePrepare(r, s) IN
         /\ Moves(r, s, t)
         /\ t.seqno # s.seqno => s.seqno \in Seqno /\ t.slot[s.seqno] \in Slot
<1>. DEFINE a == [s EXCEPT !.vtimer = TRUE]
            b == DropAssigned(a)
            pp == [req |-> Head(Backlog(b)), view |-> b.view]
            t == SendPrePrepare(r, s)
<1>1. s \in State
  BY DEF Sound
<1>2. Sound(a) /\ Alike(s, a) /\ Backlog(a) = Backlog(s)
  <2>1. a \in State /\ Alike(s, a) /\ a.rqueue = s.rqueue /\ a.ro_rqueue = s.ro_rqueue
    BY <1>1 DEF State, Alike
  <2>. QED
    BY <2>1 DEF Sound, Alike, Backlog
<1>3. Sound(b) /\ Alike(s, b)
  BY <1>2, PopSound DEF DropAssigned, Alike
<1>. HIDE DEF a
<1>4. ASSUME NEW u, Sound(u), u.view = s.view, u.changing = s.changing, Keeps(s, u)
      PROVE  Moves(r, s, u)
  BY <1>4 DEF Moves, OnTime
<1>5. ASSUME NEW u, Sound(u), Alike(s, u) PROVE Moves(r, s, u)
  <2>1. Keeps(s, u)
    BY <1>1, <1>5, StateTypes DEF Keeps, Alike
  <2>. QED
    BY <2>1, <1>4, <1>5 DEF Alike
<1>6. t = IF Backlog(b) = <<>> \/ b.seqno > MaxSeqno \/ ~InWindow(b, b.seqno) THEN b
          ELSE IF Accepts(b, b.seqno, pp)
          THEN Timed(r, [Pop(b) EXCEPT !.slot[b.seqno] = pp, !.assigned = pp.req, !.seqno = @ + 1])
          ELSE [Pop(b) EXCEPT !.assigned = None]
  BY DEF SendPrePrepare, a
<1>. HIDE DEF b, t
<1>7. CASE Backlog(b) = <<>> \/ b.seqno > MaxSeqno \/ ~InWindow(b, b.seqno)
  <2>1. t = b
    BY <1>6, <1>7
  <2>. QED
    BY <2>1, <1>3, <1>5 DEF t, Alike
<1>. DEFINE w == Pop(b)
<1>8. ASSUME Backlog(b) # <<>>, ~(b.seqno > MaxSeqno), InWindow(b, b.seqno)
      PROVE  /\ Sound(w) /\ Alike(s, w) /\ w.seqno \in Seqno /\ s.seqno = w.seqno
             /\ pp \in Slot /\ pp.req \in Request /\ InWindow(w, w.seqno)
             /\ Accepts(b, b.seqno, pp) => Accepts(w, w.seqno, pp)
  <2>1. Sound(w) /\ Alike(b, w)
    BY <1>3, <1>8, PopSound
  <2>2. Head(Backlog(b)) \in Request
    BY <1>3, <1>8, BacklogHead
  <2>3. b.view \in View /\ b.seqno \in 1 .. MaxSeqno + 1
    BY <1>3 DEF Sound, State
  <2>4. b.seqno \in Seqno
    BY <2>3, <1>8, ConstantTypes DEF Seqno
  <2>5. pp \in Slot /\ pp.req \in Request
    BY <2>2, <2>3 DEF Slot
  <2>. HIDE DEF w, pp
  <2>. QED
    BY <2>1, <2>4, <2>5, <1>3, <1>8 DEF Alike, InWindow, Accepts
<1>9. CASE ~(Backlog(b) = <<>> \/ b.seqno > MaxSeqno \/ ~InWindow(b, b.seqno))
           /\ ~Accepts(b, b.seqno, pp)
  <2>1. t = [w EXCEPT !.assigned = None]
    BY <1>6, <1>9
  <2>2. Sound(w) /\ Alike(s, w) /\ w \in State
    BY <1>8, <1>9 DEF Sound
  <2>. HIDE DEF w
  <2>3. t \in State /\ Alike(w, t) /\ t.rqueue = w.rqueue /\ t.ro_rqueue = w.ro_rqueue
    BY <2>1, <2>2 DEF State, Alike
  <2>4. Sound(t) /\ Alike(s, t)
    BY <2>2, <2>3 DEF Sound, Alike
  <2>. QED
    BY <2>4, <1>5 DEF t, Alike
<1>10. CASE ~(Backlog(b) = <<>> \/ b.seqno > MaxSeqno \/ ~InWindow(b, b.seqno))
            /\ Accepts(b, b.seqno, pp)
  <2>. DEFINE n == w.seqno
              x == [w EXCEPT !.slot[n] = pp]
              y == [x EXCEPT !.assigned = pp.req, !.seqno = n + 1]
  <2>1. /\ Sound(w) /\ Alike(s, w) /\ n \in Seqno /\ s.seqno = n
        /\ pp \in Slot /\ pp.req \in Request /\ InWindow(w, n) /\ Accepts(w, n, pp)
    BY <1>8, <1>10
  <2>2. b.seqno = n
    BY <2>1, <1>3 DEF Alike
  <2>3. t = Timed(r, [w EXCEPT !.slot[b.seqno] = pp, !.assigned = pp.req, !.seqno = @ + 1])
    BY <1>6, <1>10
  <2>. HIDE DEF w, pp
  <2>4. [w EXCEPT !.slot[n] = pp, !.assigned = pp.req, !.seqno = @ + 1] = y
    BY <2>1 DEF Sound, State
  <2>5. /\ Sound(x) /\ Keeps(w, x) /\ x.slot[n] = pp /\ x.seqno = n /\ x.stable = w.stable
        /\ x.view = w.view /\ x.changing = w.changing
    BY <2>1, FillSlot
  <2>. HIDE DEF x
  <2>6. n + 1 \in 1 .. MaxSeqno + 1
    BY <2>1, ConstantTypes DEF Seqno
  <2>7. /\ y \in State /\ y.rqueue = x.rqueue /\ y.ro_rqueue = x.ro_rqueue /\ y.slot = x.slot
        /\ y.stable = x.stable /\ y.executed = x.executed /\ y.view = x.view
        /\ y.changing = x.changing
    BY <2>1, <2>5, <2>6 DEF Sound, State
  <2>. HIDE DEF y
  <2>8. Sound(y)
    BY <2>5, <2>7 DEF Sound
  <2>14. t = Timed(r, y)
    BY <2>2, <2>3, <2>4
  <2>9. Sound(t) /\ t.slot = y.slot /\ t.stable = y.stable /\ t.view = y.view /\ OnTime(r, t)
    BY <2>8, <2>14, TimedMoves
  <2>10. Keeps(s, t)
    BY <2>1, <2>5, <2>7, <2>9 DEF Keeps, Alike
  <2>11. t.view = s.view
    BY <2>1, <2>5, <2>7, <2>9 DEF Alike
  <2>13. t.slot[s.seqno] \in Slot /\ s.seqno \in Seqno
    BY <2>1, <2>5, <2>7, <2>9
  <2>. QED
    BY <2>9, <2>10, <2>13 DEF Moves, t
<1>. QED
  BY <1>7, <1>9, <1>10

\* A backup that waits is timed as before if nothing it waits for has changed.
Watched(s, t) ==
  /\ t.view = s.view /\ t.changing = s.changing /\ t.vtimer = s.vtimer /\ t.fired = s.fired
  /\ t.stranded = s.stranded
  /\ t.forwarded = s.forwarded /\ t.done = s.done

LEMMA StillOnTime ==
  ASSUME NEW r, NEW s, NEW t, Watched(s, t), OnTime(r, s) PROVE OnTime(r, t)
BY DEF Watched, OnTime, Pending

LEMMA KeepsOn ==
  ASSUME NEW s \in State, NEW u \in State, NEW t \in State, Keeps(s, u), Keeps(u, t)
  PROVE  Keeps(s, t)
<1>1. s.stable \in Nat /\ u.stable \in Nat /\ t.stable \in Nat
  BY StateTypes
<1>2. s.stable <= t.stable
  BY <1>1 DEF Keeps
<1>3. ASSUME NEW n \in Seqno, s.slot[n] # None
      PROVE  t.stable >= n \/ (t.slot[n] # None /\ t.slot[n].req = s.slot[n].req)
  <2>1. u.stable >= n \/ (u.slot[n] # None /\ u.slot[n].req = s.slot[n].req)
    BY <1>3 DEF Keeps
  <2>2. u.stable <= t.stable /\ n \in Nat
    BY ConstantTypes DEF Keeps
  <2>3. u.slot[n] # None => t.stable >= n \/ (t.slot[n] # None /\ t.slot[n].req = u.slot[n].req)
    BY DEF Keeps
  <2>. QED
    BY <1>1, <2>1, <2>2, <2>3
<1>. QED
  BY <1>2, <1>3 DEF Keeps

\* A request that is seen for the first time, or again.
LEMMA ReceivedSound ==
  ASSUME NEW s, Sound(s), NEW c \in Client, NEW rid \in 0 .. MaxRid
  PROVE  LET t == [s EXCEPT !.received[c] = Larger(s.received[c], rid)] IN
         /\ Sound(t) /\ Keeps(s, t) /\ Watched(s, t) /\ Alike(s, t)
<1>. DEFINE f == [s.received EXCEPT ![c] = Larger(s.received[c], rid)]
            t == [s EXCEPT !.received[c] = Larger(s.received[c], rid)]
<1>1. s \in State /\ s.received \in [Client -> 0 .. MaxRid]
  BY DEF Sound, State
<1>2. t = [s EXCEPT !.received = f]
  BY <1>1 DEF State
<1>3. Larger(s.received[c], rid) \in 0 .. MaxRid
  BY <1>1, StateTypes DEF Larger
<1>4. f \in [Client -> 0 .. MaxRid]
  BY <1>1, <1>3
<1>. HIDE DEF f
<1>5. /\ t \in State /\ Watched(s, t) /\ Alike(s, t)
      /\ t.rqueue = s.rqueue /\ t.ro_rqueue = s.ro_rqueue
  BY <1>1, <1>2, <1>4 DEF State, Watched, Alike
<1>. HIDE DEF t
<1>6. Keeps(s, t)
  BY <1>1, <1>5, StateTypes DEF Keeps, Alike
<1>7. Sound(t)
  BY <1>5 DEF Sound, Alike
<1>. QED
  BY <1>5, <1>6, <1>7 DEF t

\* A replica that takes a Pre_prepare.
LEMMA HandlePrePrepareMoves ==
  ASSUME NEW r, NEW s, Sound(s), NEW n \in Seqno, NEW pp \in Slot
  PROVE  Moves(r, s, HandlePrePrepare(r, s, n, pp))
<1>. DEFINE a == IF pp.view > s.view THEN EnterView(r, s, pp.view) ELSE s
            x == [a EXCEPT !.slot[n] = pp]
            y == [x EXCEPT !.seqno = Larger(a.seqno, n + 1)]
            b == IF Accepts(a, n, pp) THEN y ELSE a
            c == pp.req[1]
            t == [b EXCEPT !.received[c] = Larger(b.received[c], pp.req[2])]
<1>1. /\ s \in State /\ pp.view \in View /\ pp.req \in Request /\ c \in Client
      /\ pp.req[2] \in 0 .. MaxRid
  BY ConstantTypes DEF Sound
<1>2. Keeps(s, s)
  BY <1>1, StateTypes DEF Keeps
<1>3. /\ Sound(a) /\ Keeps(s, a) /\ (OnTime(r, s) => OnTime(r, a)) /\ a.stable = s.stable
      /\ a \in State
  BY <1>1, <1>2, EnterViewMoves DEF Sound
<1>4. HandlePrePrepare(r, s, n, pp) =
        IF pp.view < s.view \/ (pp.view = s.view /\ Primary(pp.view) = r) \/ ~InWindow(s, n)
        THEN s ELSE t
  <2>1. Accepts(a, n, pp) =>
          [a EXCEPT !.slot[n] = pp, !.seqno = Larger(@, n + 1)] = y
    BY <1>3 DEF Sound, State
  <2>. QED
    BY <2>1 DEF HandlePrePrepare
<1>. HIDE DEF a
<1>5. ASSUME InWindow(s, n) PROVE Sound(b) /\ Keeps(a, b) /\ (OnTime(r, a) => OnTime(r, b))
  <2>1. CASE ~Accepts(a, n, pp)
    <3>1. Keeps(a, a)
      BY <1>3, StateTypes DEF Keeps
    <3>. QED
      BY <2>1, <3>1, <1>3
  <2>2. CASE Accepts(a, n, pp)
    <3>1. InWindow(a, n)
      BY <1>3, <1>5 DEF InWindow
    <3>2. /\ Sound(x) /\ Keeps(a, x) /\ x.seqno = a.seqno /\ x.stable = a.stable
          /\ Watched(a, x)
      BY <2>2, <3>1, <1>3, FillSlot DEF Watched
    <3>. HIDE DEF x
    <3>3. Larger(a.seqno, n + 1) \in 1 .. MaxSeqno + 1
      <4>1. a.seqno \in 1 .. MaxSeqno + 1
        BY <1>3 DEF Sound, State
      <4>2. MaxSeqno \in Nat /\ n + 1 \in 1 .. MaxSeqno + 1
        BY ConstantTypes DEF Seqno
      <4>. QED
        BY <4>1, <4>2 DEF Larger
    <3>4. /\ y \in State /\ Watched(x, y) /\ y.slot = x.slot /\ y.stable = x.stable
          /\ y.executed = x.executed /\ y.rqueue = x.rqueue /\ y.ro_rqueue = x.ro_rqueue
      BY <3>2, <3>3 DEF Sound, State, Watched
    <3>. HIDE DEF y
    <3>5. Sound(y)
      BY <3>2, <3>4 DEF Sound
    <3>6. Keeps(a, y)
      BY <3>2, <3>4 DEF Keeps
    <3>. QED
      BY <2>2, <3>2, <3>4, <3>5, <3>6, StillOnTime
  <2>. QED
    BY <2>1, <2>2
<1>. HIDE DEF b
<1>6. ASSUME Sound(b)
      PROVE  Sound(t) /\ Keeps(b, t) /\ Watched(b, t)
  BY <1>1, <1>6, ReceivedSound
<1>. HIDE DEF t
<1>7. CASE pp.view < s.view \/ (pp.view = s.view /\ Primary(pp.view) = r) \/ ~InWindow(s, n)
  BY <1>2, <1>4, <1>7 DEF Moves
<1>8. CASE ~(pp.view < s.view \/ (pp.view = s.view /\ Primary(pp.view) = r) \/ ~InWindow(s, n))
  <2>1. HandlePrePrepare(r, s, n, pp) = t
    BY <1>4, <1>8
  <2>2. Sound(b) /\ Keeps(a, b) /\ (OnTime(r, a) => OnTime(r, b))
    BY <1>5, <1>8
  <2>3. Sound(t) /\ Keeps(b, t) /\ (OnTime(r, b) => OnTime(r, t))
    BY <2>2, <1>6, StillOnTime
  <2>4. Keeps(s, b) /\ b \in State /\ t \in State
    BY <1>1, <1>3, <2>2, <2>3, KeepsOn DEF Sound
  <2>5. Keeps(s, t)
    BY <1>1, <2>3, <2>4, KeepsOn
  <2>. QED
    BY <1>3, <2>1, <2>2, <2>3, <2>5 DEF Moves
<1>. QED
  BY <1>7, <1>8

\* A backup that forwards a request starts its timer.
LEMMA ForwardMoves ==
  ASSUME NEW r, NEW s, Sound(s), NEW req \in Request
  PROVE  LET c == req[1]
             u == [s EXCEPT !.received[c] = Larger(@, req[2]), !.forwarded[c] = Larger(@, req[2])]
         IN Moves(r, s, [u EXCEPT !.vtimer = @ \/ u.forwarded[c] > u.done[c],
                                  !.stranded = @ /\ ~(u.forwarded[c] > u.done[c])])
<1>. DEFINE c == req[1]
            f == [s.received EXCEPT ![c] = Larger(s.received[c], req[2])]
            g == [s.forwarded EXCEPT ![c] = Larger(s.forwarded[c], req[2])]
            u == [s EXCEPT !.received[c] = Larger(@, req[2]), !.forwarded[c] = Larger(@, req[2])]
            late == s.vtimer \/ g[c] > s.done[c]
            left == s.stranded /\ ~(g[c] > s.done[c])
            t == [u EXCEPT !.vtimer = @ \/ u.forwarded[c] > u.done[c],
                           !.stranded = @ /\ ~(u.forwarded[c] > u.done[c])]
<1>1. /\ s \in State /\ c \in Client /\ req[2] \in 0 .. MaxRid
      /\ s.received \in [Client -> 0 .. MaxRid] /\ s.forwarded \in [Client -> 0 .. MaxRid]
      /\ s.vtimer \in BOOLEAN /\ s.stranded \in BOOLEAN
  BY ConstantTypes DEF Sound, State
<1>2. Larger(s.received[c], req[2]) \in 0 .. MaxRid /\ Larger(s.forwarded[c], req[2]) \in 0 .. MaxRid
  BY <1>1, StateTypes DEF Larger
<1>3. f \in [Client -> 0 .. MaxRid] /\ g \in [Client -> 0 .. MaxRid]
  BY <1>1, <1>2
<1>4. u = [s EXCEPT !.received = f, !.forwarded = g]
  BY <1>1 DEF State
<1>5. \A d \in Client : d # c => g[d] = s.forwarded[d]
  BY <1>1
<1>. HIDE DEF f, g, u
<1>6. /\ u \in State /\ u.forwarded = g /\ u.vtimer = s.vtimer /\ u.done = s.done
      /\ u.stranded = s.stranded
  BY <1>1, <1>3, <1>4 DEF State
<1>7. t = [s EXCEPT !.received = f, !.forwarded = g, !.vtimer = late, !.stranded = left]
  BY <1>1, <1>4, <1>6 DEF State
<1>8. late \in BOOLEAN /\ left \in BOOLEAN
  BY <1>1
<1>. HIDE DEF t, late, left
<1>9. /\ t \in State /\ t.vtimer = late /\ t.forwarded = g /\ t.done = s.done
      /\ t.stranded = left
      /\ t.view = s.view /\ t.changing = s.changing /\ t.fired = s.fired
      /\ t.slot = s.slot /\ t.stable = s.stable
      /\ t.executed = s.executed /\ t.rqueue = s.rqueue /\ t.ro_rqueue = s.ro_rqueue
  BY <1>1, <1>3, <1>7, <1>8 DEF State
<1>10. Sound(t)
  BY <1>9 DEF Sound
<1>11. Keeps(s, t)
  BY <1>1, <1>9, StateTypes DEF Keeps
<1>12. OnTime(r, s) => OnTime(r, t)
  <2>1. ASSUME OnTime(r, s), Primary(t.view) # r, NEW d \in Client, t.forwarded[d] > t.done[d]
        PROVE  t.vtimer \/ t.fired \/ t.stranded
    <3>1. CASE d = c
      BY <2>1, <3>1, <1>9 DEF late
    <3>2. CASE d # c
      <4>1. s.vtimer \/ s.fired \/ s.stranded
        BY <2>1, <3>2, <1>5, <1>9 DEF OnTime, Pending
      <4>2. t.forwarded[c] > t.done[c] => t.vtimer
        BY <1>9 DEF late
      <4>. QED
        BY <4>1, <4>2, <1>9 DEF late, left
    <3>. QED
      BY <3>1, <3>2
  <2>2. OnTime(r, s) /\ t.changing => t.vtimer \/ t.fired \/ t.stranded
    BY <1>9 DEF OnTime, late, left
  <2>. QED
    BY <2>1, <2>2 DEF OnTime, Pending
<1>. QED
  BY <1>10, <1>11, <1>12 DEF Moves, t, u

LEMMA MovesOn ==
  ASSUME NEW r, NEW s, NEW u, NEW t, Sound(s), Moves(r, s, u), Moves(r, u, t)
  PROVE  Moves(r, s, t)
<1>1. s \in State /\ u \in State /\ t \in State /\ Keeps(s, u) /\ Keeps(u, t)
  BY DEF Moves, Sound
<1>. QED
  BY <1>1, KeepsOn DEF Moves

\* The primary orders a request, in a free slot.
LEMMA OrderMoves ==
  ASSUME NEW r, NEW s, Sound(s), Primary(s.view) = r, NEW req \in Request
  PROVE  LET seen == [s EXCEPT !.received[req[1]] = Larger(@, req[2])]
             queued == Enqueue(seen, req)
             t == IF seen.changing \/ Queued(seen, req) \/ queued = seen
                  THEN seen ELSE SendPrePrepare(r, queued)
         IN /\ Moves(r, s, t)
            /\ t.seqno # s.seqno => s.seqno \in Seqno /\ t.slot[s.seqno] \in Slot
<1>. DEFINE seen == [s EXCEPT !.received[req[1]] = Larger(s.received[req[1]], req[2])]
            queued == Enqueue(seen, req)
            t == IF seen.changing \/ Queued(seen, req) \/ queued = seen
                 THEN seen ELSE SendPrePrepare(r, queued)
<1>1. Sound(seen) /\ Keeps(s, seen) /\ Watched(s, seen) /\ Alike(s, seen)
  BY ReceivedSound, ConstantTypes
<1>2. Moves(r, s, seen)
  BY <1>1, StillOnTime DEF Moves
<1>. HIDE DEF seen
<1>3. ASSUME ~(seen.changing \/ Queued(seen, req) \/ queued = seen)
      PROVE  /\ Moves(r, s, t)
             /\ t.seqno # s.seqno => s.seqno \in Seqno /\ t.slot[s.seqno] \in Slot
  <2>1. Sound(queued) /\ Alike(seen, queued) /\ Backlog(queued) # <<>>
    BY <1>1, <1>3, EnqueueSound
  <2>2. t = SendPrePrepare(r, queued)
    BY <1>3
  <2>3. queued.view = s.view /\ ~queued.changing /\ queued.seqno = s.seqno
    BY <1>1, <1>3, <2>1 DEF Alike
  <2>. HIDE DEF queued, t
  <2>4. Moves(r, queued, t) /\ (t.seqno # queued.seqno =>
          queued.seqno \in Seqno /\ t.slot[queued.seqno] \in Slot)
    BY <2>1, <2>2, <2>3, SendPrePrepareMoves
  <2>5. Keeps(seen, queued)
    BY <1>1, <2>1, StateTypes DEF Keeps, Alike, Sound
  <2>6. Moves(r, seen, queued)
    BY <2>1, <2>3, <2>5 DEF Moves, OnTime
  <2>. QED
    BY <1>1, <1>2, <2>3, <2>4, <2>6, MovesOn
<1>4. CASE seen.changing \/ Queued(seen, req) \/ queued = seen
  <2>1. t = seen
    BY <1>4
  <2>. HIDE DEF t
  <2>. QED
    BY <2>1, <1>1, <1>2 DEF t, seen, Alike
<1>. QED
  BY <1>3, <1>4 DEF seen

-----------------------------------------------------------------------------
(* Execution, checkpoints, the fill, timers and views *)

LEMMA ExecuteMoves ==
  ASSUME NEW r, NEW s, Sound(s), NEW k \in s.executed .. MaxSeqno,
         NEW d \in [Client -> 0 .. MaxRid], NEW f \in 0 .. MaxSeqno
  PROVE  Moves(r, s, Timed(r, [s EXCEPT !.executed = k, !.done = d, !.fill = f]))
<1>. DEFINE u == [s EXCEPT !.executed = k, !.done = d, !.fill = f]
<1>1. s \in State /\ k \in 0 .. MaxSeqno /\ s.stable \in Nat /\ s.stable <= k
  BY ConstantTypes, StateTypes DEF Sound
<1>2. /\ u \in State /\ u.executed = k /\ u.stable = s.stable /\ u.slot = s.slot
      /\ u.rqueue = s.rqueue /\ u.ro_rqueue = s.ro_rqueue
  BY <1>1 DEF State
<1>. HIDE DEF u
<1>3. Sound(u)
  BY <1>1, <1>2 DEF Sound
<1>4. /\ Sound(Timed(r, u)) /\ OnTime(r, Timed(r, u)) /\ Timed(r, u).slot = u.slot
      /\ Timed(r, u).stable = u.stable
  BY <1>3, TimedMoves
<1>5. Keeps(s, Timed(r, u))
  BY <1>1, <1>2, <1>4, StateTypes DEF Keeps
<1>. QED
  BY <1>4, <1>5 DEF Moves, u

LEMMA CheckpointMoves ==
  ASSUME NEW r, NEW s, Sound(s), NEW n \in Seqno, n > s.stable
  PROVE  Moves(r, s, Timed(r,
           [s EXCEPT !.stable = n, !.executed = Larger(@, n), !.seqno = Larger(@, n + 1),
                     !.slot = [i \in Seqno |-> IF i <= n THEN None ELSE @[i]]]))
<1>. DEFINE g == [i \in Seqno |-> IF i <= n THEN None ELSE s.slot[i]]
            u == [s EXCEPT !.stable = n, !.executed = Larger(s.executed, n),
                           !.seqno = Larger(s.seqno, n + 1), !.slot = g]
<1>1. /\ s \in State /\ n \in Nat /\ n \in 0 .. MaxSeqno /\ s.stable \in Nat
      /\ s.executed \in 0 .. MaxSeqno /\ s.seqno \in 1 .. MaxSeqno + 1
      /\ s.slot \in [Seqno -> Slot \union {None}]
  BY ConstantTypes, StateTypes DEF Sound, State
<1>2. g \in [Seqno -> Slot \union {None}]
  BY <1>1
<1>3. Larger(s.executed, n) \in 0 .. MaxSeqno /\ n <= Larger(s.executed, n)
  BY <1>1 DEF Larger
<1>4. Larger(s.seqno, n + 1) \in 1 .. MaxSeqno + 1
  BY <1>1, ConstantTypes DEF Larger
<1>5. \A i \in Seqno : g[i] = IF i <= n THEN None ELSE s.slot[i]
  OBVIOUS
<1>. HIDE DEF g
<1>6. /\ u \in State /\ u.executed = Larger(s.executed, n) /\ u.stable = n /\ u.slot = g
      /\ u.rqueue = s.rqueue /\ u.ro_rqueue = s.ro_rqueue
  BY <1>1, <1>2, <1>3, <1>4 DEF State
<1>. HIDE DEF u
<1>7. \A i \in Seqno : u.slot[i] # None => i > n
  BY <1>1, <1>5, <1>6, ConstantTypes
<1>8. Sound(u)
  BY <1>3, <1>6, <1>7 DEF Sound
<1>9. /\ Sound(Timed(r, u)) /\ OnTime(r, Timed(r, u)) /\ Timed(r, u).slot = g
      /\ Timed(r, u).stable = n
  BY <1>6, <1>8, TimedMoves
<1>10. Keeps(s, Timed(r, u))
  BY <1>1, <1>5, <1>9, StateTypes, ConstantTypes DEF Keeps
<1>. QED
  BY <1>9, <1>10 DEF Moves, u, g

LEMMA EndFillMoves ==
  ASSUME NEW r, NEW s, Sound(s)
  PROVE  LET u == [s EXCEPT !.fill = 0] IN
         Moves(r, s, u) /\ \A t \in SendViewChange(r, u) : Moves(r, s, t)
<1>. DEFINE u == [s EXCEPT !.fill = 0]
<1>1. s \in State /\ 0 \in 0 .. MaxSeqno
  BY ConstantTypes DEF Sound
<1>2. /\ u \in State /\ Alike(s, u) /\ Watched(s, u)
      /\ u.rqueue = s.rqueue /\ u.ro_rqueue = s.ro_rqueue
  BY <1>1 DEF State, Alike, Watched
<1>. HIDE DEF u
<1>3. Sound(u)
  BY <1>2 DEF Sound, Alike
<1>4. Keeps(s, u)
  BY <1>1, <1>2, StateTypes DEF Keeps, Alike
<1>5. Moves(r, s, u)
  BY <1>2, <1>3, <1>4, StillOnTime DEF Moves
<1>. QED
  BY <1>3, <1>5, AttemptMoves, MovesOn DEF u

LEMMA TimerMoves ==
  ASSUME NEW r, NEW s, Sound(s)
  PROVE  /\ Moves(r, s, [s EXCEPT !.vtimer = FALSE, !.fired = TRUE])
         /\ LET u == [s EXCEPT !.fired = FALSE] IN
            \A t \in SendViewChange(r, u) \union Keyless(r, u) : Moves(r, s, t)
<1>1. s \in State
  BY DEF Sound
<1>2. Moves(r, s, [s EXCEPT !.vtimer = FALSE, !.fired = TRUE])
  <2>. DEFINE t == [s EXCEPT !.vtimer = FALSE, !.fired = TRUE]
  <2>1. /\ t \in State /\ t.slot = s.slot /\ t.stable = s.stable /\ t.executed = s.executed
        /\ t.rqueue = s.rqueue /\ t.ro_rqueue = s.ro_rqueue /\ t.fired = TRUE
    BY <1>1 DEF State
  <2>. HIDE DEF t
  <2>2. Moves(r, s, t)
    BY <2>1, TimersMove
  <2>. QED
    BY <2>2 DEF t
<1>. DEFINE u == [s EXCEPT !.fired = FALSE]
<1>3. /\ u \in State /\ u.slot = s.slot /\ u.stable = s.stable /\ u.executed = s.executed
      /\ u.rqueue = s.rqueue /\ u.ro_rqueue = s.ro_rqueue
  BY <1>1 DEF State
<1>. HIDE DEF u
<1>4. Sound(u)
  BY <1>3 DEF Sound
<1>5. Keeps(s, u)
  BY <1>1, <1>3, StateTypes DEF Keeps
<1>6. ASSUME NEW t, Sound(t), Keeps(u, t), OnTime(r, t) PROVE Moves(r, s, t)
  BY <1>1, <1>3, <1>5, <1>6, KeepsOn DEF Moves, Sound
<1>7. ASSUME NEW t \in SendViewChange(r, u) PROVE Sound(t) /\ Keeps(u, t) /\ OnTime(r, t)
  BY <1>4, AttemptMoves DEF Moves
<1>8. ASSUME NEW t \in Keyless(r, u) PROVE Sound(t) /\ Keeps(u, t) /\ OnTime(r, t)
  <2>1. PICK w : w = Timed(r, u) /\ t = Troubled(w)
    BY DEF Keyless
  <2>2. Sound(w) /\ Keeps(u, w) /\ OnTime(r, w) /\ w \in State
    BY <1>4, <2>1, TimedMoves DEF Sound
  <2>3. /\ t \in State /\ Watched(w, t) /\ t.slot = w.slot /\ t.stable = w.stable
        /\ t.executed = w.executed /\ t.rqueue = w.rqueue /\ t.ro_rqueue = w.ro_rqueue
    BY <2>1, <2>2, TroubledIs DEF Watched
  <2>4. Sound(t)
    BY <2>2, <2>3 DEF Sound
  <2>5. Keeps(u, t)
    BY <2>2, <2>3 DEF Keeps
  <2>. QED
    BY <2>2, <2>3, <2>4, <2>5, StillOnTime
<1>9. \A t \in SendViewChange(r, u) \union Keyless(r, u) : Moves(r, s, t)
  BY <1>6, <1>7, <1>8
<1>. QED
  BY <1>2, <1>9 DEF u

LEMMA InstallMoves ==
  ASSUME NEW r, NEW s, Sound(s), NEW m \in 1 .. MaxSeqno + 1, NEW v \in View
  PROVE  Moves(r, s, EnterView(r, [s EXCEPT !.seqno = m], v))
<1>. DEFINE u == [s EXCEPT !.seqno = m]
<1>1. s \in State
  BY DEF Sound
<1>2. /\ u \in State /\ u.slot = s.slot /\ u.stable = s.stable /\ u.executed = s.executed
      /\ u.rqueue = s.rqueue /\ u.ro_rqueue = s.ro_rqueue
  BY <1>1 DEF State
<1>. HIDE DEF u
<1>3. Sound(u)
  BY <1>2 DEF Sound
<1>4. /\ Sound(EnterView(r, u, v)) /\ OnTime(r, EnterView(r, u, v))
      /\ EnterView(r, u, v).slot = s.slot /\ EnterView(r, u, v).stable = s.stable
  BY <1>2, <1>3, EnterViewMoves
<1>5. Keeps(s, EnterView(r, u, v))
  BY <1>1, <1>4, StateTypes DEF Keeps
<1>. QED
  BY <1>4, <1>5 DEF Moves, u

-----------------------------------------------------------------------------
(* Every step *)

Records ==
  /\ replica \in [Replica -> State]
  /\ \A r \in Replica : Sound(replica[r])
  /\ \A m \in asked : m.to \in Replica /\ m.req \in Request

AllMove ==
  /\ replica' \in [Replica -> State]
  /\ \A r \in Replica : Moves(r, replica[r], replica'[r])

LEMMA MovesSelf ==
  ASSUME NEW r, NEW s, Sound(s) PROVE Moves(r, s, s)
<1>1. s \in State
  BY DEF Sound
<1>2. Keeps(s, s)
  BY <1>1, StateTypes DEF Keeps
<1>. QED
  BY <1>2 DEF Moves

LEMMA PrimaryIn == ASSUME NEW v \in Nat PROVE Primary(v) \in Replica
BY SizeAssumption DEF Primary, Replica

LEMMA ChangeMoves ==
  ASSUME Records, NEW r \in Replica, NEW t, Change(r, t), Moves(r, replica[r], t) PROVE AllMove
<1>1. t \in State
  BY DEF Moves, Sound
<1>2. replica' = [replica EXCEPT ![r] = t]
  BY DEF Change
<1>3. \A q \in Replica : Moves(q, replica[q], replica[q])
  BY MovesSelf DEF Records
<1>. QED
  BY <1>1, <1>2, <1>3 DEF Records, AllMove

LEMMA UnchangedMoves == ASSUME Records, UNCHANGED replica PROVE AllMove
BY MovesSelf DEF Records, AllMove

LEMMA OrderRequestMoves ==
  ASSUME Records, NEW m \in asked, OrderRequest(m) PROVE AllMove
<1>. DEFINE r == m.to
            s == replica[r]
            n == s.seqno
            seen == [s EXCEPT !.received[m.req[1]] = Larger(@, m.req[2])]
            queued == Enqueue(seen, m.req)
            t == IF seen.changing \/ Queued(seen, m.req) \/ queued = seen
                 THEN seen ELSE SendPrePrepare(r, queued)
<1>1. r \in Replica /\ m.req \in Request /\ Sound(s) /\ Primary(s.view) = r
  BY DEF Records, OrderRequest
<1>2. Moves(r, s, t) /\ (t.seqno # n => n \in Seqno /\ t.slot[n] \in Slot)
  BY <1>1, OrderMoves
<1>3. PICK missed \in SUBSET (Replica \ {r}) :
        replica' = [q \in Replica |->
          IF q = r THEN t
          ELSE IF t.seqno = n \/ q \in missed THEN replica[q]
          ELSE HandlePrePrepare(q, replica[q], n, t.slot[n])]
  BY DEF OrderRequest
<1>. HIDE DEF t
<1>4. ASSUME NEW q \in Replica PROVE Moves(q, replica[q], replica'[q])
  <2>1. CASE q = r
    BY <1>2, <1>3, <2>1
  <2>2. CASE q # r /\ (t.seqno = n \/ q \in missed)
    BY <1>3, <2>2, MovesSelf DEF Records
  <2>3. CASE q # r /\ ~(t.seqno = n \/ q \in missed)
    <3>1. replica'[q] = HandlePrePrepare(q, replica[q], n, t.slot[n])
      BY <1>3, <2>3
    <3>2. n \in Seqno /\ t.slot[n] \in Slot /\ Sound(replica[q])
      BY <1>2, <2>3 DEF Records
    <3>. QED
      BY <3>1, <3>2, HandlePrePrepareMoves
  <2>. QED
    BY <2>1, <2>2, <2>3
<1>5. \A q \in Replica : replica'[q] \in State
  BY <1>4 DEF Moves, Sound
<1>6. replica' = [q \in Replica |-> replica'[q]]
  BY <1>3
<1>. QED
  BY <1>4, <1>5, <1>6 DEF AllMove

LEMMA ForwardRequestMoves ==
  ASSUME Records, NEW m \in asked, ForwardRequest(m) PROVE AllMove
<1>. DEFINE r == m.to
            c == m.req[1]
            u == [replica[r] EXCEPT !.received[c] = Larger(@, m.req[2]),
                                    !.forwarded[c] = Larger(@, m.req[2])]
            t == [u EXCEPT !.vtimer = @ \/ u.forwarded[c] > u.done[c],
                           !.stranded = @ /\ ~(u.forwarded[c] > u.done[c])]
<1>1. r \in Replica /\ m.req \in Request /\ Sound(replica[r])
  BY DEF Records
<1>2. Moves(r, replica[r], t)
  BY <1>1, ForwardMoves
<1>3. replica' = [replica EXCEPT ![r] = t]
  BY DEF ForwardRequest
<1>. HIDE DEF t
<1>4. t \in State /\ \A q \in Replica : Moves(q, replica[q], replica[q])
  BY <1>2, MovesSelf DEF Records, Moves, Sound
<1>. QED
  BY <1>1, <1>2, <1>3, <1>4 DEF Records, AllMove

\* The newest request executed of a client is one of its attempts.
LEMMA NewestIn ==
  ASSUME Records, NEW r \in Replica, NEW k \in replica[r].executed .. MaxSeqno,
         \A n \in replica[r].executed + 1 .. k : replica[r].slot[n] # None, NEW c \in Client
  PROVE  Newest(r, k, c) \in 0 .. MaxRid
<1>. DEFINE s == replica[r]
            A == s.executed + 1 .. k
            T == {s.slot[n].req[2] : n \in {i \in A : s.slot[i].req[1] = c}}
            S == {s.done[c]} \union T
<1>1. s \in State
  BY DEF Records
<1>2. s.executed \in Nat /\ s.done[c] \in 0 .. MaxRid
  BY <1>1, StateTypes
<1>3. \A n \in A : n \in Seqno
  BY <1>2, ConstantTypes DEF Seqno
<1>4. \A n \in A : s.slot[n].req \in Request
  BY <1>1, <1>3, StateTypes
<1>5. \A n \in A : s.slot[n].req[2] \in 0 .. MaxRid
  BY <1>4, ConstantTypes
<1>6. S \subseteq 0 .. MaxRid /\ S # {}
  BY <1>2, <1>5
<1>7. Newest(r, k, c) = Largest(S)
  BY DEF Newest
<1>. HIDE DEF S
<1>. QED
  BY <1>6, <1>7, LargestIs, ConstantTypes

LEMMA ExecuteMovesAll ==
  ASSUME Records, NEW r \in Replica, Execute(r) PROVE AllMove
<1>. DEFINE s == replica[r]
            d(k) == [c \in Client |-> Newest(r, k, c)]
            gap(k) == \E n \in k + 2 .. MaxSeqno : Runs(r, n)
            f(k) == IF gap(k) /\ ~s.changing THEN k + 1 ELSE s.fill
<1>1. PICK k \in s.executed .. MaxSeqno :
        /\ \A n \in s.executed + 1 .. k : Runs(r, n)
        /\ replica' = [replica EXCEPT ![r] =
             Timed(r, [s EXCEPT !.executed = k, !.done = [c \in Client |-> Newest(r, k, c)],
                                !.fill = IF gap(k) /\ ~s.changing THEN k + 1 ELSE @])]
  BY DEF Execute
<1>2. s \in State /\ Sound(s) /\ s.executed \in Nat /\ s.fill \in 0 .. MaxSeqno
  BY StateTypes DEF Records, State
<1>3. \A n \in s.executed + 1 .. k : s.slot[n] # None
  BY <1>1 DEF Runs
<1>4. \A c \in Client : Newest(r, k, c) \in 0 .. MaxRid
  BY <1>3, NewestIn
<1>5. d(k) \in [Client -> 0 .. MaxRid]
  BY <1>4
<1>6. f(k) \in 0 .. MaxSeqno
  BY <1>2, ConstantTypes
<1>7. replica' = [replica EXCEPT ![r] =
        Timed(r, [s EXCEPT !.executed = k, !.done = d(k), !.fill = f(k)])]
  BY <1>1, <1>2 DEF State
<1>. HIDE DEF d, f
<1>8. Moves(r, s, Timed(r, [s EXCEPT !.executed = k, !.done = d(k), !.fill = f(k)]))
  BY <1>2, <1>5, <1>6, ExecuteMoves
<1>. DEFINE t == Timed(r, [s EXCEPT !.executed = k, !.done = d(k), !.fill = f(k)])
<1>9. replica' = [replica EXCEPT ![r] = t] /\ Moves(r, s, t)
  BY <1>7, <1>8
<1>. HIDE DEF t
<1>10. t \in State /\ \A q \in Replica : Moves(q, replica[q], replica[q])
  BY <1>9, MovesSelf DEF Records, Moves, Sound
<1>. QED
  BY <1>9, <1>10 DEF Records, AllMove

LEMMA TickMoves ==
  ASSUME Records, NEW r \in Replica, Tick(r) PROVE AllMove
<1>. DEFINE s == replica[r]
<1>1. Sound(s) /\ s \in State /\ s.executed \in Nat /\ s.fill \in 0 .. MaxSeqno
  BY StateTypes DEF Records, State
<1>2. CASE Execute(r)
  BY <1>2, ExecuteMovesAll
<1>3. CASE Checkpoint(r)
  <2>1. PICK n \in Seqno :
          /\ n > s.stable
          /\ Change(r, Timed(r,
               [s EXCEPT !.stable = n, !.executed = Larger(@, n), !.seqno = Larger(@, n + 1),
                         !.slot = [i \in Seqno |-> IF i <= n THEN None ELSE @[i]]]))
    BY <1>3 DEF Checkpoint
  <2>. QED
    BY <2>1, <1>1, CheckpointMoves, ChangeMoves
<1>4. CASE RequestFill(r)
  <2>1. s.fill > s.executed
    BY <1>4 DEF RequestFill
  <2>2. PICK pp \in Refilled(r) : Change(r, HandlePrePrepare(r, s, s.fill, pp))
    BY <1>4 DEF RequestFill
  <2>3. s.fill \in Seqno
    BY <2>1, <1>1, ConstantTypes DEF Seqno
  <2>. DEFINE p == Primary(s.view)
  <2>4. p \in Replica /\ pp = replica[p].slot[s.fill] /\ pp # None
    BY <2>2 DEF Refilled, Live
  <2>5. pp \in Slot
    BY <2>3, <2>4, StateTypes DEF Records
  <2>. QED
    BY <2>2, <2>3, <2>5, <1>1, HandlePrePrepareMoves, ChangeMoves
<1>5. CASE EndFill(r)
  <2>. DEFINE u == [s EXCEPT !.fill = 0]
  <2>1. PICK t : Change(r, t) /\ (t = u \/ t \in SendViewChange(r, u))
    BY <1>5 DEF EndFill
  <2>2. Moves(r, s, t)
    BY <1>1, <2>1, EndFillMoves
  <2>. QED
    BY <2>1, <2>2, ChangeMoves
<1>. QED
  BY <1>2, <1>3, <1>4, <1>5 DEF Tick

LEMMA WatchMoves ==
  ASSUME Records, NEW r \in Replica, Watch(r) PROVE AllMove
<1>. DEFINE s == replica[r]
<1>1. Sound(s)
  BY DEF Records
<1>2. CASE Expire(r)
  BY <1>1, <1>2, TimerMoves, ChangeMoves DEF Expire
<1>3. CASE Timeout(r)
  <2>1. PICK t \in SendViewChange(r, Seen(r)) \union Keyless(r, Seen(r)) : Change(r, t)
    BY <1>3 DEF Timeout
  <2>2. Moves(r, s, t)
    BY <1>1, <2>1, TimerMoves DEF Seen
  <2>. QED
    BY <2>1, <2>2, ChangeMoves
<1>4. CASE DeadPrimary(r)
  <2>1. PICK t \in Attempt(r, s) : Change(r, t)
    BY <1>4 DEF DeadPrimary
  <2>2. Moves(r, s, t)
    BY <1>1, <2>1, AttemptMoves
  <2>. QED
    BY <2>1, <2>2, ChangeMoves
<1>. QED
  BY <1>2, <1>3, <1>4 DEF Watch

LEMMA ChangeViewMoves ==
  ASSUME Records, NEW r \in Replica, ChangeView(r) PROVE AllMove
<1>. DEFINE s == replica[r]
<1>1. Sound(s) /\ s \in State /\ s.stable \in 0 .. MaxSeqno /\ s.executed \in 0 .. MaxSeqno
  BY DEF Records, State
<1>2. ASSUME NEW v \in View, Install(r, v) PROVE AllMove
  <2>. DEFINE S == {s.stable, s.executed} \union {n \in Seqno : Runs(r, n)}
  <2>1. S \subseteq 0 .. MaxSeqno /\ S # {}
    BY <1>1, ConstantTypes
  <2>2. Change(r, EnterView(r, [s EXCEPT !.seqno = 1 + Largest(S)], v))
    BY <1>2 DEF Install
  <2>. HIDE DEF S
  <2>3. Largest(S) \in 0 .. MaxSeqno
    BY <2>1, LargestIs, ConstantTypes
  <2>4. 1 + Largest(S) \in 1 .. MaxSeqno + 1
    BY <2>3, ConstantTypes
  <2>. QED
    BY <1>1, <2>2, <2>4, InstallMoves, ChangeMoves
<1>3. ASSUME Follow(r) PROVE AllMove
  <2>1. PICK p \in Replica : \/ Change(r, EnterView(r, s, replica[p].view))
                            \/ Change(r, MoveTo(r, s, replica[p].view))
    BY <1>3 DEF Follow
  <2>2. replica[p].view \in View
    BY StateTypes DEF Records
  <2>3. /\ Moves(r, s, EnterView(r, s, replica[p].view))
        /\ Moves(r, s, MoveTo(r, s, replica[p].view))
    BY <1>1, <2>2, EnterViewMoves, MoveToMoves DEF Moves
  <2>. QED
    BY <2>1, <2>3, ChangeMoves
<1>. QED
  BY <1>2, <1>3 DEF ChangeView

LEMMA ClientMoves ==
  ASSUME Records,
         \/ \E m \in replies : RecvReply(m)
         \/ \E c \in Client : Send(c) \/ GiveUp(c)
         \/ \E c \in Client, r \in Faulty, n \in Seqno : RecvLie(c, r, n)
  PROVE  AllMove
BY UnchangedMoves DEF RecvReply, RecvLie, Take, Send, GiveUp

\* Every step moves every record as the handlers do.
LEMMA NextMoves == ASSUME Records, [Next]_vars PROVE AllMove
<1>1. CASE Next
  BY <1>1, OrderRequestMoves, ForwardRequestMoves, TickMoves, WatchMoves, ChangeViewMoves,
     ClientMoves DEF Next, Deliver
<1>2. CASE UNCHANGED vars
  BY <1>2, UnchangedMoves DEF vars
<1>. QED
  BY <1>1, <1>2

-----------------------------------------------------------------------------
(* Requests on their way, clients and answers *)

ClientState ==
  [rid : 0 .. MaxRid, waiting : BOOLEAN, got : UNION {[S -> Seqno] : S \in SUBSET Replica}]

ClientsOK == client \in [Client -> ClientState]

LEMMA ClientTypes ==
  ASSUME ClientsOK, NEW c \in Client
  PROVE  /\ client[c].rid \in 0 .. MaxRid /\ client[c].rid \in Nat
         /\ client[c].got \in UNION {[S -> Seqno] : S \in SUBSET Replica}
BY ConstantTypes DEF ClientsOK, ClientState

\* The records after a step are sound, and so is what is on its way.
LEMMA RecordsStep == ASSUME Records, ClientsOK, [Next]_vars PROVE Records'
<1>1. replica' \in [Replica -> State] /\ \A r \in Replica : Sound(replica'[r])
  BY NextMoves DEF AllMove, Moves
<1>2. ASSUME NEW m \in asked' PROVE m.to \in Replica /\ m.req \in Request
  <2>1. CASE m \in asked
    BY <2>1 DEF Records
  <2>2. CASE m \notin asked
    <3>1. CASE \E l \in asked : ForwardRequest(l)
      <4>1. PICK l \in asked : ForwardRequest(l)
        BY <3>1
      <4>. DEFINE v == replica[l.to].view
                  u == [replica[l.to] EXCEPT !.received[l.req[1]] = Larger(@, l.req[2]),
                                             !.forwarded[l.req[1]] = Larger(@, l.req[2])]
      <4>2. l.to \in Replica /\ l.req \in Request /\ replica[l.to] \in State
        BY DEF Records
      <4>3. u.view = v /\ v \in Nat
        BY <4>2, StateTypes DEF State
      <4>4. m = [to |-> Primary(u.view), req |-> l.req, from |-> l.to]
        BY <2>2, <4>1 DEF ForwardRequest
      <4>. QED
        BY <4>2, <4>3, <4>4, PrimaryIn
    <3>2. CASE \E c \in Client : Send(c)
      <4>1. PICK c \in Client : Send(c)
        BY <3>2
      <4>. DEFINE rid == client[c].rid + 1
      <4>2. rid \in 1 .. MaxRid
        BY <4>1, ClientTypes, ConstantTypes DEF Send
      <4>3. <<c, rid>> \in Request
        BY <4>2 DEF Request
      <4>4. PICK r \in Hears[<<c, rid>>] : m = [to |-> r, req |-> <<c, rid>>, from |-> c]
        BY <2>2, <4>1 DEF Send
      <4>5. r \in Replica
        BY <4>3, <4>4, PartsAssumption
      <4>. QED
        BY <4>3, <4>4, <4>5
    <3>3. asked' \subseteq asked
          \/ (\E l \in asked : ForwardRequest(l)) \/ \E c \in Client : Send(c)
      <4>1. CASE UNCHANGED vars
        BY <4>1 DEF vars
      <4>2. CASE Next
        <5>1. CASE Deliver
          BY <5>1 DEF Deliver, OrderRequest, RecvReply, Take
        <5>2. ASSUME NEW r \in Replica, Tick(r) \/ Watch(r) \/ ChangeView(r) PROVE asked' = asked
          BY <5>2 DEF Tick, Watch, ChangeView, Execute, Checkpoint, RequestFill, EndFill, Expire,
             Timeout, DeadPrimary, Install, Follow, Change
        <5>3. ASSUME NEW c \in Client, NEW r, NEW n, GiveUp(c) \/ RecvLie(c, r, n)
              PROVE  asked' = asked
          BY <5>3 DEF GiveUp, RecvLie, Take
        <5>. QED
          BY <4>2, <5>1, <5>2, <5>3 DEF Next
      <4>. QED
        BY <4>1, <4>2
    <3>. QED
      BY <2>2, <3>1, <3>2, <3>3
  <2>. QED
    BY <2>1, <2>2
<1>. QED
  BY <1>1, <1>2 DEF Records

RepliesOK == \A m \in replies : m.from \in Live /\ m.seqno \in Seqno /\ m.req \in Request
HistoryOK == history \in [Seqno -> Request \union {None}]

Types == Records /\ ClientsOK /\ RepliesOK /\ HistoryOK

\* What an execution does: A are the sequence numbers it comes by.
Executes(r, A) ==
  /\ r \in Live /\ A \subseteq Seqno
  /\ \A n \in A : Runs(r, n) /\ replica[r].slot[n].req \in Request
  /\ replies' = replies \union
       {[from |-> r, seqno |-> n, req |-> replica[r].slot[n].req] : n \in A}
  /\ history' = [n \in Seqno |-> IF n \in A THEN replica[r].slot[n].req ELSE history[n]]
  /\ client' = client

LEMMA ExecuteFacts ==
  ASSUME Records, NEW r \in Replica, Execute(r) PROVE \E A \in SUBSET Seqno : Executes(r, A)
<1>. DEFINE s == replica[r]
<1>1. PICK k \in s.executed .. MaxSeqno :
        /\ r \in Live
        /\ \A n \in s.executed + 1 .. k : Runs(r, n)
        /\ replies' = replies \union
             {[from |-> r, seqno |-> n, req |-> s.slot[n].req] : n \in s.executed + 1 .. k}
        /\ history' = [n \in Seqno |-> IF n \in s.executed + 1 .. k
                                       THEN s.slot[n].req ELSE history[n]]
        /\ client' = client
  BY DEF Execute
<1>2. s \in State /\ s.executed \in Nat
  BY StateTypes DEF Records
<1>. DEFINE A == s.executed + 1 .. k
<1>3. A \in SUBSET Seqno
  BY <1>2, ConstantTypes DEF Seqno
<1>4. \A n \in A : s.slot[n] # None
  BY <1>1 DEF Runs
<1>5. \A n \in A : s.slot[n].req \in Request
  BY <1>2, <1>3, <1>4, StateTypes
<1>6. Executes(r, A)
  BY <1>1, <1>3, <1>5 DEF Executes
<1>. QED
  BY <1>3, <1>6

\* No other step executes or replies.
LEMMA OnlyExecute ==
  ASSUME Records, [Next]_vars
  PROVE  \/ history' = history /\ replies' = replies
         \/ \E r \in Replica, A \in SUBSET Seqno : Executes(r, A)
<1>1. CASE UNCHANGED vars
  BY <1>1 DEF vars
<1>2. CASE Deliver
  <2>1. \A m \in asked : OrderRequest(m) => history' = history /\ replies' = replies
    BY DEF OrderRequest
  <2>2. \A m \in asked : ForwardRequest(m) => history' = history /\ replies' = replies
    BY DEF ForwardRequest
  <2>3. \A m \in replies : RecvReply(m) => history' = history /\ replies' = replies
    BY DEF RecvReply, Take
  <2>. QED
    BY <1>2, <2>1, <2>2, <2>3 DEF Deliver
<1>3. CASE \E r \in Replica : Tick(r) \/ Watch(r) \/ ChangeView(r)
  <2>1. PICK r \in Replica : Tick(r) \/ Watch(r) \/ ChangeView(r)
    BY <1>3
  <2>2. Execute(r) => \E A \in SUBSET Seqno : Executes(r, A)
    BY ExecuteFacts
  <2>3. ~Execute(r) => history' = history /\ replies' = replies
    BY <2>1 DEF Tick, Watch, ChangeView, Checkpoint, RequestFill, EndFill, Expire,
       Timeout, DeadPrimary, Install, Follow, Change
  <2>. QED
    BY <2>2, <2>3
<1>4. CASE \E c \in Client : Send(c) \/ GiveUp(c)
  BY <1>4 DEF Send, GiveUp
<1>5. CASE \E c \in Client, r \in Faulty, n \in Seqno : RecvLie(c, r, n)
  BY <1>5 DEF RecvLie, Take
<1>. QED
  BY <1>1, <1>2, <1>3, <1>4, <1>5 DEF Next

\* A client moves by itself, or takes a reply, or a lie.
LEMMA OnlyClients ==
  ASSUME Records, [Next]_vars
  PROVE  \/ client' = client
         \/ \E m \in replies : RecvReply(m)
         \/ \E c \in Client, r \in Faulty, n \in Seqno : RecvLie(c, r, n)
         \/ \E c \in Client : Send(c)
         \/ \E c \in Client : GiveUp(c)
<1>1. CASE UNCHANGED vars
  BY <1>1 DEF vars
<1>2. CASE Deliver
  BY <1>2 DEF Deliver, OrderRequest, ForwardRequest
<1>3. CASE \E r \in Replica : Tick(r) \/ Watch(r) \/ ChangeView(r)
  <2>. SUFFICES client' = client
    OBVIOUS
  <2>1. PICK r \in Replica : Tick(r) \/ Watch(r) \/ ChangeView(r)
    BY <1>3
  <2>2. CASE Tick(r)
    BY <2>2 DEF Tick, Execute, Checkpoint, RequestFill, EndFill, Change
  <2>3. CASE Watch(r)
    BY <2>3 DEF Watch, Expire, Timeout, DeadPrimary, Change
  <2>4. CASE ChangeView(r)
    BY <2>4 DEF ChangeView, Install, Follow, Change
  <2>. QED
    BY <2>1, <2>2, <2>3, <2>4
<1>. QED
  BY <1>1, <1>2, <1>3 DEF Next

LEMMA StoredTyped ==
  ASSUME NEW got \in UNION {[S -> Seqno] : S \in SUBSET Replica}, NEW r \in Replica, NEW n \in Seqno
  PROVE  /\ Stored(got, r, n) \in UNION {[S -> Seqno] : S \in SUBSET Replica}
         /\ \A q \in DOMAIN Stored(got, r, n) :
              \/ q = r /\ Stored(got, r, n)[q] = n
              \/ q \in DOMAIN got /\ Stored(got, r, n)[q] = got[q]
<1>1. PICK S \in SUBSET Replica : got \in [S -> Seqno]
  OBVIOUS
<1>. DEFINE t == Stored(got, r, n)
<1>2. CASE r \in DOMAIN got
  BY <1>2 DEF Stored
<1>3. CASE r \notin DOMAIN got
  <2>1. t = [q \in S \union {r} |-> IF q = r THEN n ELSE got[q]]
    BY <1>1, <1>3 DEF Stored
  <2>2. t \in [S \union {r} -> Seqno] /\ S \union {r} \in SUBSET Replica
    BY <1>1, <2>1
  <2>. QED
    BY <1>1, <2>1, <2>2
<1>. QED
  BY <1>2, <1>3

LEMMA TakeTyped ==
  ASSUME ClientsOK, NEW c \in Client, NEW got \in UNION {[S -> Seqno] : S \in SUBSET Replica},
         Take(c, got)
  PROVE  /\ ClientsOK'
         /\ \E k \in ClientState :
              /\ k.rid = client[c].rid /\ (k.waiting <=> ~Agreed(got)) /\ k.got = got
              /\ client' = [client EXCEPT ![c] = k]
<1>1. client[c] \in ClientState
  BY DEF ClientsOK, ClientState
<1>2. PICK b \in BOOLEAN : b = ~Agreed(got)
  BY DEF Agreed
<1>. DEFINE k == [client[c] EXCEPT !.got = got, !.waiting = b]
<1>3. client' = [client EXCEPT ![c] = k]
  BY <1>2 DEF Take
<1>4. k \in ClientState /\ k.rid = client[c].rid /\ k.waiting = b /\ k.got = got
  BY <1>1 DEF ClientState
<1>. HIDE DEF k
<1>5. ClientsOK'
  BY <1>3, <1>4 DEF ClientsOK, ClientState
<1>. QED
  BY <1>2, <1>3, <1>4, <1>5

LEMMA NothingGot == <<>> \in UNION {[S -> Seqno] : S \in SUBSET Replica} /\ DOMAIN <<>> = {}
<1>1. <<>> \in [{} -> Seqno]
  OBVIOUS
<1>. QED
  BY <1>1

LEMMA ClientsStep ==
  ASSUME Records, ClientsOK, RepliesOK, [Next]_vars PROVE ClientsOK'
<1>1. CASE client' = client
  BY <1>1 DEF ClientsOK, ClientState
<1>2. ASSUME NEW m \in replies, RecvReply(m) PROVE ClientsOK'
  <2>. DEFINE c == m.req[1]
  <2>1. c \in Client /\ m.from \in Replica /\ m.seqno \in Seqno
    BY ConstantTypes DEF RepliesOK, Live
  <2>2. Take(c, Stored(client[c].got, m.from, m.seqno))
    BY <1>2 DEF RecvReply
  <2>. QED
    BY <2>1, <2>2, ClientTypes, StoredTyped, TakeTyped
<1>3. ASSUME NEW c \in Client, NEW r \in Faulty, NEW n \in Seqno, RecvLie(c, r, n) PROVE ClientsOK'
  <2>1. Take(c, Stored(client[c].got, r, n)) /\ r \in Replica
    BY <1>3, PartsAssumption DEF RecvLie
  <2>. QED
    BY <2>1, ClientTypes, StoredTyped, TakeTyped
<1>4. ASSUME NEW c \in Client, Send(c) PROVE ClientsOK'
  <2>1. client[c].rid + 1 \in 0 .. MaxRid
    BY <1>4, ClientTypes, ConstantTypes DEF Send
  <2>2. client' = [client EXCEPT ![c] = [rid |-> client[c].rid + 1, waiting |-> TRUE, got |-> <<>>]]
    BY <1>4 DEF Send
  <2>. QED
    BY <2>1, <2>2, NothingGot DEF ClientsOK, ClientState
<1>5. ASSUME NEW c \in Client, GiveUp(c) PROVE ClientsOK'
  <2>. DEFINE k == [client[c] EXCEPT !.waiting = FALSE, !.got = <<>>]
  <2>1. client' = [client EXCEPT ![c] = k]
    BY <1>5 DEF GiveUp
  <2>2. client[c] \in [rid : 0 .. MaxRid, waiting : BOOLEAN,
                       got : UNION {[S -> Seqno] : S \in SUBSET Replica}]
    BY DEF ClientsOK, ClientState
  <2>3. k \in [rid : 0 .. MaxRid, waiting : BOOLEAN,
               got : UNION {[S -> Seqno] : S \in SUBSET Replica}]
    BY <2>2, NothingGot
  <2>. HIDE DEF k
  <2>. QED
    BY <2>1, <2>3 DEF ClientsOK, ClientState
<1>. QED
  BY <1>1, <1>2, <1>3, <1>4, <1>5, OnlyClients

LEMMA TypesStep == ASSUME Types, [Next]_vars PROVE Types'
<1>1. Records' /\ ClientsOK'
  BY RecordsStep, ClientsStep DEF Types
<1>2. CASE history' = history /\ replies' = replies
  BY <1>1, <1>2 DEF Types, RepliesOK, HistoryOK
<1>3. ASSUME NEW r \in Replica, NEW A \in SUBSET Seqno, Executes(r, A) PROVE RepliesOK' /\ HistoryOK'
  <2>1. RepliesOK'
    BY <1>3 DEF Types, RepliesOK, Executes
  <2>2. HistoryOK'
    BY <1>3 DEF Types, HistoryOK, Executes
  <2>. QED
    BY <2>1, <2>2
<1>. QED
  BY <1>1, <1>2, <1>3, OnlyExecute DEF Types

-----------------------------------------------------------------------------
(* What was executed stays *)

\* Two quorums of replicas have one in common.
Overlap == N <= 4 * F + 1

\* Who will not hold another request at n than req.
Behind(n, req) == {q \in Replica : replica[q].stable >= n \/ Holds(q, n, req)}

Held == \A n \in Seqno : history[n] # None => Quorum <= Cardinality(Behind(n, history[n]))

LEMMA BehindGrows ==
  ASSUME Records, AllMove, NEW n \in Seqno, NEW req, Quorum <= Cardinality(Behind(n, req))
  PROVE  Quorum <= Cardinality(Behind(n, req)')
<1>1. \A q \in Behind(n, req) : q \in Behind(n, req)'
  <2>. TAKE q \in Behind(n, req)
  <2>1. /\ q \in Replica /\ replica[q] \in State /\ replica'[q] \in State
        /\ Keeps(replica[q], replica'[q])
    BY DEF Behind, Records, AllMove, Moves
  <2>2. replica[q].stable \in Nat /\ replica'[q].stable \in Nat /\ n \in Nat
    BY <2>1, StateTypes, ConstantTypes
  <2>3. CASE replica[q].stable >= n
    <3>1. replica'[q].stable >= n
      BY <2>1, <2>2, <2>3 DEF Keeps
    <3>. QED
      BY <2>1, <3>1 DEF Behind
  <2>4. CASE Holds(q, n, req)
    <3>1. replica'[q].stable >= n \/ (replica'[q].slot[n] # None /\ replica'[q].slot[n].req = req)
      BY <2>1, <2>4 DEF Keeps, Holds
    <3>. QED
      BY <2>1, <3>1 DEF Behind, Holds
  <2>. QED
    BY <2>3, <2>4 DEF Behind
<1>2. Behind(n, req)' \in SUBSET Replica /\ Behind(n, req) \subseteq Behind(n, req)'
  BY <1>1 DEF Behind
<1>3. IsFiniteSet(Behind(n, req)') /\ IsFiniteSet(Behind(n, req))
  BY <1>2, FS_Subset, ConstantTypes DEF Behind
<1>4. Cardinality(Behind(n, req)) <= Cardinality(Behind(n, req)')
  BY <1>2, <1>3, FS_Subset
<1>5. Cardinality(Behind(n, req)) \in Nat /\ Cardinality(Behind(n, req)') \in Nat /\ Quorum \in Nat
  BY <1>3, FS_CardinalityType, ConstantTypes DEF Quorum
<1>. QED
  BY <1>4, <1>5

\* Who holds a request that runs is behind it.
LEMMA RunsBehind ==
  ASSUME Records, Held, NEW r \in Replica, NEW n \in Seqno, Runs(r, n)
  PROVE  Quorum <= Cardinality(Behind(n, replica[r].slot[n].req))
<1>. DEFINE req == replica[r].slot[n].req
            H == {q \in Replica : Holds(q, n, req)}
<1>1. CASE history[n] = req /\ history[n] # None
  BY <1>1 DEF Held
<1>2. CASE Quorum <= Cardinality(H)
  <2>1. H \subseteq Behind(n, req) /\ Behind(n, req) \in SUBSET Replica
    BY DEF Behind
  <2>. HIDE DEF H
  <2>2. IsFiniteSet(Behind(n, req)) /\ IsFiniteSet(H)
    BY <2>1, FS_Subset, ConstantTypes
  <2>3. Cardinality(H) <= Cardinality(Behind(n, req))
    BY <2>1, <2>2, FS_Subset
  <2>4. Cardinality(H) \in Nat /\ Cardinality(Behind(n, req)) \in Nat /\ Quorum \in Nat
    BY <2>2, FS_CardinalityType, ConstantTypes DEF Quorum
  <2>. QED
    BY <1>2, <2>3, <2>4
<1>3. req # None
  <2>1. replica[r].slot[n] # None
    BY DEF Runs
  <2>. QED
    BY <2>1, StateTypes, PartsAssumption DEF Records
<1>. QED
  BY <1>1, <1>2, <1>3 DEF Runs

LEMMA HeldStep == ASSUME Types, Held, [Next]_vars PROVE Held'
<1>1. Records /\ AllMove
  BY NextMoves DEF Types
<1>2. CASE history' = history
  <2>1. ASSUME NEW n \in Seqno, history[n] # None
        PROVE  Quorum <= Cardinality(Behind(n, history[n])')
    <3>1. Quorum <= Cardinality(Behind(n, history[n]))
      BY <2>1 DEF Held
    <3>2. PICK req : req = history[n]
      OBVIOUS
    <3>3. Quorum <= Cardinality(Behind(n, req)')
      BY <1>1, <3>1, <3>2, BehindGrows
    <3>. QED
      BY <1>2, <3>2, <3>3 DEF Behind, Holds
  <2>. QED
    BY <1>2, <2>1 DEF Held
<1>3. ASSUME NEW r \in Replica, NEW A \in SUBSET Seqno, Executes(r, A) PROVE Held'
  <2>1. ASSUME NEW n \in Seqno, history'[n] # None
        PROVE  Quorum <= Cardinality(Behind(n, history[n])')
    <3>1. PICK req : req = history'[n]
      OBVIOUS
    <3>2. Quorum <= Cardinality(Behind(n, req))
      <4>1. CASE n \in A
        <5>1. Runs(r, n) /\ req = replica[r].slot[n].req
          BY <1>3, <3>1, <4>1 DEF Executes
        <5>. QED
          BY <1>1, <5>1, RunsBehind
      <4>2. CASE n \notin A
        <5>1. req = history[n] /\ history[n] # None
          BY <1>3, <2>1, <3>1, <4>2 DEF Executes
        <5>. QED
          BY <5>1 DEF Held
      <4>. QED
        BY <4>1, <4>2
    <3>3. Quorum <= Cardinality(Behind(n, req)')
      BY <1>1, <3>2, BehindGrows
    <3>. QED
      BY <3>1, <3>3 DEF Behind, Holds
  <2>. QED
    BY <2>1 DEF Held
<1>. QED
  BY <1>1, <1>2, <1>3, OnlyExecute

LEMMA OneRequest ==
  ASSUME Overlap, Records, NEW n \in Seqno, NEW d, NEW e,
         Quorum <= Cardinality({q \in Replica : Holds(q, n, d)}),
         Quorum <= Cardinality(Behind(n, e))
  PROVE  d = e
<1>. DEFINE H == {q \in Replica : Holds(q, n, d)}
            B == Behind(n, e)
<1>1. H \subseteq Replica /\ B \subseteq Replica
  BY DEF Behind
<1>2. \A q \in H : Holds(q, n, d)
  OBVIOUS
<1>3. \A q \in B : replica[q].stable >= n \/ Holds(q, n, e)
  BY DEF Behind
<1>4. Quorum <= Cardinality(H) /\ Quorum <= Cardinality(B)
  OBVIOUS
<1>. HIDE DEF H, B
<1>5. IsFiniteSet(H) /\ IsFiniteSet(B)
  BY <1>1, FS_Subset, ConstantTypes
<1>6. Cardinality(H) \in Nat /\ Cardinality(B) \in Nat
  BY <1>5, FS_CardinalityType
<1>7. Cardinality(Replica) = N
  BY SizeAssumption, FS_Interval DEF Replica
<1>8. Cardinality(H) + Cardinality(B) > Cardinality(Replica)
  BY <1>4, <1>6, <1>7, SizeAssumption DEF Overlap, Quorum
<1>9. PICK q \in Replica : q \in H /\ q \in B
  BY <1>1, <1>8, FS_MajoritiesIntersect, ConstantTypes
<1>10. Holds(q, n, d) /\ replica[q] \in State /\ n > replica[q].stable
  BY <1>2, <1>9 DEF Records, Sound, Holds
<1>11. replica[q].stable \in Nat /\ n \in Nat
  BY <1>10, StateTypes, ConstantTypes
<1>12. Holds(q, n, e)
  BY <1>3, <1>9, <1>10, <1>11
<1>. QED
  BY <1>10, <1>12 DEF Holds

Stands == \A n \in Seqno : history[n] # None => history'[n] = history[n]

LEMMA HistoryStep == ASSUME Overlap, Types, Held, [Next]_vars PROVE Stands
<1>1. CASE history' = history
  BY <1>1 DEF Stands
<1>2. ASSUME NEW r \in Replica, NEW A \in SUBSET Seqno, Executes(r, A) PROVE Stands
  <2>1. ASSUME NEW n \in Seqno, history[n] # None PROVE history'[n] = history[n]
    <3>. DEFINE req == replica[r].slot[n].req
    <3>1. CASE n \in A /\ history[n] # req
      <4>1. Quorum <= Cardinality({q \in Replica : Holds(q, n, req)})
        BY <1>2, <3>1 DEF Executes, Runs
      <4>2. Quorum <= Cardinality(Behind(n, history[n]))
        BY <2>1 DEF Held
      <4>. QED
        BY <3>1, <4>1, <4>2, OneRequest DEF Types
    <3>. QED
      BY <1>2, <3>1 DEF Executes
  <2>. QED
    BY <2>1 DEF Stands
<1>. QED
  BY <1>1, <1>2, OnlyExecute DEF Types

-----------------------------------------------------------------------------
(* Answers *)

\* A reply names what was executed.
Answered == \A m \in replies : history[m.seqno] = m.req

\* What a client holds of a replica that is not faulty is the number of an
\* execution of its request, and it stops with enough of them or with none.
Truthful(c) ==
  \A q \in DOMAIN client[c].got :
    \/ q \in Faulty
    \/ /\ history[client[c].got[q]] # None
       /\ history[client[c].got[q]] = <<c, client[c].rid>>

Settled(c) == ~client[c].waiting /\ client[c].got # <<>> => Agreed(client[c].got)

Got == \A c \in Client : Truthful(c) /\ Settled(c)

LEMMA AnsweredStep == ASSUME Types, Answered, Stands, [Next]_vars PROVE Answered'
<1>1. \A m \in replies : history'[m.seqno] = m.req
  BY PartsAssumption DEF Types, RepliesOK, Answered, Stands
<1>2. CASE replies' = replies
  BY <1>1, <1>2 DEF Answered
<1>3. ASSUME NEW r \in Replica, NEW A \in SUBSET Seqno, Executes(r, A) PROVE Answered'
  <2>1. ASSUME NEW m \in replies', m \notin replies PROVE history'[m.seqno] = m.req
    BY <1>3, <2>1 DEF Executes
  <2>. QED
    BY <1>1, <2>1 DEF Answered
<1>. QED
  BY <1>2, <1>3, OnlyExecute DEF Types

\* A client that takes an answer of replica r: it is right, or r is faulty.
LEMMA TakeGot ==
  ASSUME Types, Got, NEW c \in Client, NEW r \in Replica, NEW n \in Seqno,
         Take(c, Stored(client[c].got, r, n)),
         r \in Faulty \/ (history[n] # None /\ history[n] = <<c, client[c].rid>>)
  PROVE  Got'
<1>. DEFINE got == Stored(client[c].got, r, n)
<1>1. /\ got \in UNION {[S -> Seqno] : S \in SUBSET Replica}
      /\ \A q \in DOMAIN got :
           \/ q = r /\ got[q] = n
           \/ q \in DOMAIN client[c].got /\ got[q] = client[c].got[q]
  BY ClientTypes, StoredTyped DEF Types
<1>. HIDE DEF got
<1>2. PICK k \in ClientState :
        /\ k.rid = client[c].rid /\ (k.waiting <=> ~Agreed(got)) /\ k.got = got
        /\ client' = [client EXCEPT ![c] = k]
  BY <1>1, TakeTyped DEF Types, got
<1>3. history' = history
  BY DEF Take
<1>4. client'[c] = k /\ \A d \in Client : d # c => client'[d] = client[d]
  BY <1>2 DEF Types, ClientsOK
<1>5. ASSUME NEW d \in Client PROVE (Truthful(d) /\ Settled(d))'
  <2>1. CASE d # c
    <3>1. client'[d] = client[d] /\ Truthful(d) /\ Settled(d)
      BY <1>4, <2>1 DEF Got
    <3>2. Truthful(d)'
      BY <1>3, <3>1 DEF Truthful
    <3>3. Settled(d)'
      BY <3>1 DEF Settled
    <3>. QED
      BY <3>2, <3>3
  <2>2. CASE d = c
    <3>1. \A q \in DOMAIN got :
            q \in Faulty \/ (history[got[q]] # None /\ history[got[q]] = <<c, client[c].rid>>)
      <4>. TAKE q \in DOMAIN got
      <4>1. Truthful(c)
        BY DEF Got
      <4>2. CASE q = r /\ got[q] = n
        BY <4>2
      <4>3. CASE q \in DOMAIN client[c].got /\ got[q] = client[c].got[q]
        BY <4>1, <4>3 DEF Truthful
      <4>. QED
        BY <1>1, <4>2, <4>3
    <3>2. Truthful(c)'
      BY <1>2, <1>3, <1>4, <3>1 DEF Truthful
    <3>3. Settled(c)'
      BY <1>2, <1>4 DEF Settled
    <3>. QED
      BY <2>2, <3>2, <3>3
  <2>. QED
    BY <2>1, <2>2
<1>. QED
  BY <1>5 DEF Got

\* A client that starts or gives up holds nothing.
LEMMA EmptyGot ==
  ASSUME Types, Got, history' = history, NEW c \in Client, NEW k, k.got = <<>>,
         client' = [client EXCEPT ![c] = k]
  PROVE  Got'
<1>1. client'[c] = k /\ \A d \in Client : d # c => client'[d] = client[d]
  BY DEF Types, ClientsOK
<1>2. Truthful(c)' /\ Settled(c)'
  BY <1>1, NothingGot DEF Truthful, Settled
<1>3. \A d \in Client : d # c => (Truthful(d) /\ Settled(d))'
  BY <1>1 DEF Got, Truthful, Settled
<1>. QED
  BY <1>2, <1>3 DEF Got

LEMMA GotStep == ASSUME Types, Answered, Got, Stands, [Next]_vars PROVE Got'
<1>1. CASE client' = client
  <2>1. ASSUME NEW c \in Client, NEW q \in DOMAIN client[c].got, q \notin Faulty
        PROVE  /\ history'[client[c].got[q]] # None
               /\ history'[client[c].got[q]] = <<c, client[c].rid>>
    <3>1. client[c].got[q] \in Seqno
      BY ClientTypes DEF Types
    <3>2. /\ history[client[c].got[q]] # None
          /\ history[client[c].got[q]] = <<c, client[c].rid>>
      BY <2>1 DEF Got, Truthful
    <3>. QED
      BY <3>1, <3>2 DEF Stands
  <2>. QED
    BY <1>1, <2>1 DEF Got, Truthful, Settled
<1>2. ASSUME NEW m \in replies, RecvReply(m) PROVE Got'
  <2>. DEFINE c == m.req[1]
  <2>1. /\ c \in Client /\ m.from \in Replica /\ m.seqno \in Seqno /\ m.req \in Request
        /\ history[m.seqno] = m.req
    BY ConstantTypes DEF Types, RepliesOK, Live, Answered
  <2>2. Take(c, Stored(client[c].got, m.from, m.seqno)) /\ m.req[2] = client[c].rid
    BY <1>2 DEF RecvReply
  <2>3. m.req = <<c, client[c].rid>> /\ m.req # None
    BY <2>1, <2>2, PartsAssumption DEF Request
  <2>. QED
    BY <2>1, <2>2, <2>3, TakeGot
<1>3. ASSUME NEW c \in Client, NEW r \in Faulty, NEW n \in Seqno, RecvLie(c, r, n) PROVE Got'
  BY <1>3, TakeGot, PartsAssumption DEF RecvLie
<1>4. ASSUME NEW c \in Client, Send(c) PROVE Got'
  <2>. DEFINE k == [rid |-> client[c].rid + 1, waiting |-> TRUE, got |-> <<>>]
  <2>1. k.got = <<>> /\ client' = [client EXCEPT ![c] = k] /\ history' = history
    BY <1>4 DEF Send
  <2>. HIDE DEF k
  <2>. QED
    BY <2>1, EmptyGot
<1>5. ASSUME NEW c \in Client, GiveUp(c) PROVE Got'
  <2>. DEFINE k == [client[c] EXCEPT !.waiting = FALSE, !.got = <<>>]
  <2>1. client' = [client EXCEPT ![c] = k] /\ history' = history
    BY <1>5 DEF GiveUp
  <2>2. k.got = <<>>
    BY DEF Types, ClientsOK, ClientState
  <2>. HIDE DEF k
  <2>. QED
    BY <2>1, <2>2, EmptyGot
<1>. QED
  BY <1>1, <1>2, <1>3, <1>4, <1>5, OnlyClients DEF Types

-----------------------------------------------------------------------------
(* The invariant and the theorems *)

AllOnTime == \A r \in Replica : OnTime(r, replica[r])

\* What holds whatever N and F are, and what needs quorums to meet.
IInv == Types /\ AllOnTime /\ Held
AInv == IInv /\ Answered /\ Got

LEMMA InitSound == Sound(InitState) /\ \A r : OnTime(r, InitState)
<1>1. InitState \in State
  <2>1. 0 \in View /\ 0 \in 0 .. MaxSeqno /\ 1 \in 1 .. MaxSeqno + 1 /\ 0 \in 0 .. MaxRid
    BY ConstantTypes DEF View
  <2>2. [c \in Client |-> 0] \in [Client -> 0 .. MaxRid]
    BY <2>1
  <2>3. [n \in Seqno |-> None] \in [Seqno -> Slot \union {None}]
    OBVIOUS
  <2>. QED
    BY <2>1, <2>2, <2>3 DEF InitState, State
<1>2. \A S : QueueOK(<<>>, S)
  BY ConstantTypes DEF QueueOK, NoTwice
<1>3. /\ InitState.stable = 0 /\ InitState.executed = 0 /\ InitState.rqueue = <<>>
      /\ InitState.ro_rqueue = <<>> /\ \A n \in Seqno : InitState.slot[n] = None
  BY DEF InitState
<1>4. Sound(InitState)
  BY <1>1, <1>2, <1>3 DEF Sound
<1>5. \A r : OnTime(r, InitState)
  BY DEF InitState, OnTime, Pending
<1>. QED
  BY <1>4, <1>5

LEMMA InitInv == Init => AInv
<1>. SUFFICES ASSUME Init PROVE AInv
  OBVIOUS
<1>1. Records /\ AllOnTime
  BY InitSound DEF Init, Records, AllOnTime, Sound
<1>2. ClientsOK
  <2>1. 0 \in 0 .. MaxRid
    BY ConstantTypes
  <2>2. [rid |-> 0, waiting |-> FALSE, got |-> <<>>] \in ClientState
    BY <2>1, NothingGot DEF ClientState
  <2>. QED
    BY <2>2 DEF Init, ClientsOK
<1>3. RepliesOK /\ HistoryOK /\ Held /\ Answered
  BY DEF Init, RepliesOK, HistoryOK, Held, Answered
<1>4. Got
  BY NothingGot DEF Init, Got, Truthful, Settled
<1>. QED
  BY <1>1, <1>2, <1>3, <1>4 DEF AInv, IInv, Types

LEMMA IInvStep == ASSUME IInv, [Next]_vars PROVE IInv'
<1>1. Types' /\ Held'
  BY TypesStep, HeldStep DEF IInv
<1>2. AllOnTime'
  BY NextMoves DEF IInv, Types, AllOnTime, AllMove, Moves
<1>. QED
  BY <1>1, <1>2 DEF IInv

LEMMA AInvStep == ASSUME Overlap, AInv, [Next]_vars PROVE AInv' /\ Stands
<1>1. IInv' /\ Stands
  BY IInvStep, HistoryStep DEF AInv, IInv
<1>. QED
  BY <1>1, AnsweredStep, GotStep DEF AInv, IInv

\* Every step of tbft_replica.c and of the clients keeps the records sound, the
\* timers of who waits running, unless a failed signature strands it, and the
\* quorums behind what was executed.
THEOREM RequestInvariant == Spec => []IInv
<1>1. Init => IInv
  BY InitInv DEF AInv
<1>2. IInv /\ [Next]_vars => IInv'
  BY IInvStep
<1>. QED
  BY <1>1, <1>2, PTL DEF Spec

LEMMA NoTwiceInBoth ==
  ASSUME NEW p, NEW q, QueueOK(p, Writing), QueueOK(q, Reading) PROVE NoTwice(p \o q)
<1>1. PICK m \in Nat : m = Len(p)
  BY LenProperties DEF QueueOK
<1>2. PICK n \in Nat : n = Len(q)
  BY LenProperties DEF QueueOK
<1>3. /\ Len(p \o q) = m + n
      /\ \A i \in 1 .. m + n : (p \o q)[i] = IF i <= m THEN p[i] ELSE q[i - m]
  BY <1>1, <1>2, ConcatProperties DEF QueueOK
<1>4. /\ \A i \in 1 .. m : p[i][1] \notin ReadOnly
      /\ \A i \in 1 .. n : q[i][1] \in ReadOnly
  BY <1>1, <1>2, ElementOfSeq DEF QueueOK, Writing, Reading
<1>5. ASSUME NEW i \in 1 .. m + n, NEW j \in 1 .. m + n, (p \o q)[i] = (p \o q)[j] PROVE i = j
  <2>1. CASE i <= m /\ j <= m
    BY <1>1, <1>3, <1>5, <2>1 DEF QueueOK, NoTwice
  <2>2. CASE i > m /\ j > m
    <3>1. i - m \in 1 .. n /\ j - m \in 1 .. n /\ q[i - m] = q[j - m]
      BY <1>3, <1>5, <2>2
    <3>2. i - m = j - m
      BY <1>2, <3>1 DEF QueueOK, NoTwice
    <3>. QED
      BY <3>2
  <2>3. CASE i <= m /\ j > m
    <3>1. j - m \in 1 .. n /\ p[i] = q[j - m]
      BY <1>3, <1>5, <2>3
    <3>. QED
      BY <1>4, <2>3, <3>1
  <2>4. CASE i > m /\ j <= m
    <3>1. i - m \in 1 .. n /\ q[i - m] = p[j]
      BY <1>3, <1>5, <2>4
    <3>. QED
      BY <1>4, <2>4, <3>1
  <2>. QED
    BY <2>1, <2>2, <2>3, <2>4
<1>. QED
  BY <1>3, <1>5 DEF NoTwice

LEMMA TypeHolds == ASSUME Types PROVE TypeOK
<1>1. ASSUME NEW r \in Replica
      PROVE  LET s == replica[r] IN
        /\ s.view \in View /\ s.changing \in BOOLEAN /\ s.vtimer \in BOOLEAN /\ s.fired \in BOOLEAN
        /\ s.asks \in BOOLEAN /\ s.stranded \in BOOLEAN /\ s.trouble \in Nat
        /\ s.start \in 0 .. MaxSeqno
        /\ Len(s.rqueue) <= QueueMax /\ Len(s.ro_rqueue) <= QueueMax
        /\ \A i, j \in 1 .. Len(Backlog(s)) : Backlog(s)[i] = Backlog(s)[j] => i = j
        /\ s.assigned \in Request \union {None}
        /\ s.received \in [Client -> 0 .. MaxRid] /\ s.forwarded \in [Client -> 0 .. MaxRid]
        /\ s.done \in [Client -> 0 .. MaxRid]
        /\ s.seqno \in 1 .. MaxSeqno + 1 /\ s.slot \in [Seqno -> Slot \union {None}]
        /\ s.executed \in 0 .. MaxSeqno /\ s.stable \in 0 .. s.executed /\ s.fill \in 0 .. MaxSeqno
  <2>. DEFINE s == replica[r]
  <2>1. Sound(s) /\ s \in State
    BY DEF Types, Records
  <2>2. \A i, j \in 1 .. Len(Backlog(s)) : Backlog(s)[i] = Backlog(s)[j] => i = j
    BY <2>1, NoTwiceInBoth DEF Sound, Backlog, NoTwice
  <2>3. s.stable \in 0 .. s.executed
    BY <2>1 DEF Sound, State
  <2>. QED
    BY <2>1, <2>2, <2>3 DEF Sound, State, QueueOK
<1>. QED
  BY <1>1 DEF TypeOK, Types, ClientsOK, ClientState, HistoryOK

\* Types and bounds of what tbft_replica.c keeps: neither request queue grows
\* beyond TBFT_RQUEUE_MAX or holds a request twice, and a stable checkpoint is
\* never ahead of the execution.
THEOREM RequestsTyped == Spec => []TypeOK
<1>1. IInv => TypeOK
  BY TypeHolds DEF IInv
<1>. QED
  BY <1>1, RequestInvariant, PTL

\* tbft_replica.c starts or leaves the view-change timer on every path on which
\* something is pending at a backup, put-offs of its View_change included, and
\* the expiry is kept until it is seen; a failed signature is the one exception.
THEOREM WaitsAreTimed == Spec => []PendingIsTimed
<1>1. IInv => PendingIsTimed
  BY DEF IInv, AllOnTime, OnTime, PendingIsTimed, Waits, Live
<1>. QED
  BY <1>1, RequestInvariant, PTL

\* With quorums that meet, a step of the replicas and clients leaves what was
\* executed and what the clients hold of it as it is.
THEOREM AnswerInvariant == ASSUME Overlap PROVE Spec => []AInv
<1>1. AInv /\ [Next]_vars => AInv'
  BY AInvStep
<1>. QED
  BY <1>1, InitInv, PTL DEF Spec

\* tbft_replica_execute_committed never executes another request where one was
\* executed, through view changes, checkpoints and state transfer.
THEOREM HistoryStands == ASSUME Overlap PROVE Spec => [][Stands]_history
<1>1. AInv /\ [Next]_vars => [Stands]_history
  BY AInvStep
<1>. QED
  BY <1>1, AnswerInvariant, PTL DEF Spec

LEMMA AnswerOfOne ==
  ASSUME AInv, NEW c \in Client, ~client[c].waiting, client[c].got # <<>>
  PROVE  \E n \in Seqno : /\ history[n] = <<c, client[c].rid>>
                          /\ F + 1 <= Cardinality({r \in DOMAIN client[c].got : client[c].got[r] = n})
<1>. DEFINE got == client[c].got
            R(n) == {r \in DOMAIN got : got[r] = n}
<1>1. Agreed(got)
  BY DEF AInv, Got, Settled
<1>2. PICK n \in Seqno : F + 1 <= Cardinality(R(n))
  BY <1>1 DEF Agreed
<1>3. R(n) \subseteq Replica
  BY ClientTypes DEF AInv, IInv, Types
<1>4. ~(R(n) \subseteq Faulty)
  <2>1. IsFiniteSet(R(n)) /\ IsFiniteSet(Faulty)
    BY <1>3, FS_Subset, ConstantTypes, PartsAssumption
  <2>. HIDE DEF R
  <2>2. R(n) \subseteq Faulty => Cardinality(R(n)) <= Cardinality(Faulty)
    BY <2>1, FS_Subset
  <2>. QED
    BY <1>2, <2>1, <2>2, FS_CardinalityType, ConstantTypes, PartsAssumption
<1>5. PICK q \in DOMAIN got : got[q] = n /\ q \notin Faulty
  BY <1>4
<1>6. history[n] = <<c, client[c].rid>>
  BY <1>5 DEF AInv, Got, Truthful
<1>. QED
  BY <1>2, <1>6

\* The answer Byz_recv_reply of tbft_libbyz.c takes from F+1 replicas is that of
\* an execution of the client's last request, and stays so.
THEOREM AnswersStand == ASSUME Overlap PROVE Spec => []AnswerStands
<1>1. AInv => AnswerStands
  BY AnswerOfOne DEF AnswerStands
<1>. QED
  BY <1>1, AnswerInvariant, PTL
=============================================================================
