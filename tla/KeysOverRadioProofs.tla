------------------------ MODULE KeysOverRadioProofs ------------------------
(***************************************************************************)
(* Proofs about KeysOverRadio and the EspNow transport below it, for every *)
(* set of replicas and every limit of queues, slots, credits and frames.   *)
(*                                                                         *)
(* Each callback and each turn of the send task is proved on the record of *)
(* one node: it keeps its limits, and what parts of messages it has after  *)
(* it had before, or has from the frame that arrives.  So the transport    *)
(* only loses, and it implements the network of KeyExchange, whose         *)
(* theorems then hold here.                                                *)
(***************************************************************************)
EXTENDS KeysOverRadio, SequenceTheorems, WellFoundedInduction, TLAPS

KeyTheorems == INSTANCE KeyExchangeProofs WITH net <- OnTheWay

-----------------------------------------------------------------------------
(* What the records are made of *)

Slot == [pair : Keys!Pair, key : Nat]

\* A New_key has one slot at most for a receiver, and its own sender's.
Proper(m) ==
  \A x \in m.slots : x.pair[1] = m.from /\ \A y \in m.slots : y.pair = x.pair => y = x

Message == {m \in [from : Replica, stamp : Nat, slots : SUBSET Slot] : Proper(m)}

Id == 0 .. MaxId - 1
Frag == 0 .. Parts - 1

Entry(n) == [msg : Message, dest : SUBSET (Replica \ {n})]
Task(n) == [msg : Message, dest : (SUBSET (Replica \ {n})) \ {{}}, id : Id, frag : Frag]
Frame(n) == [to : Replica \ {n}, id : Id, frag : Frag, msg : Message]
SomeParts == UNION {[D -> Message] : D \in SUBSET Frag}
Partial == [id : Id, from : Replica, parts : SomeParts]
Complete == [Frag -> Message]

RadioState(n) ==
  [sendq : Seq(Entry(n)), task : Seq(Task(n)), credit : Int, sending : Seq(Frame(n)),
   offline : SUBSET Node, next_id : Id, reasm : Seq(Partial), msgq : Seq(Complete)]

\* No two slots are for one message.
Distinct(q) ==
  \A i, j \in 1 .. Len(q) : q[i].id = q[j].id /\ q[i].from = q[j].from => i = j

\* A record within its limits: every credit is there or with a frame.
Good(n, s) ==
  /\ s \in RadioState(n)
  /\ Len(s.sendq) <= SendDepth /\ Len(s.task) <= 1
  /\ Len(s.msgq) <= RecvDepth /\ Len(s.reasm) <= Slots
  /\ s.credit >= 0 /\ s.credit + Len(s.sending) = Credits
  /\ Distinct(s.reasm)

-----------------------------------------------------------------------------
(* What is on its way *)

\* Slot x is in an entry of the send queue, or of the task; in a frame; in a
\* part that n has; in a message that waits at n.
Bound(x, q) == \E i \in 1 .. Len(q) : x \in q[i].msg.slots /\ x.pair[2] \in q[i].dest
Flying(x, q) == \E i \in 1 .. Len(q) : x \in q[i].msg.slots /\ x.pair[2] = q[i].to
Kept(x, n, q) ==
  x.pair[2] = n /\ \E i \in 1 .. Len(q) : \E k \in DOMAIN q[i].parts : x \in q[i].parts[k].slots
Waiting(x, n, q) ==
  x.pair[2] = n /\ \E i \in 1 .. Len(q) : \E k \in DOMAIN q[i] : x \in q[i][k].slots

Carried(x, n, s) ==
  \/ Bound(x, s.sendq) \/ Bound(x, s.task) \/ Flying(x, s.sending)
  \/ Kept(x, n, s.reasm) \/ Waiting(x, n, s.msgq)

LEMMA HasCarried == \A n, s, x : x \in Has(n, s) <=> Carried(x, n, s)
<1>. TAKE n, s, x
<1>. DEFINE A(q) == UNION {ForAny(q[i].msg, q[i].dest) : i \in 1 .. Len(q)}
            B(q) == UNION {For(q[i].to, q[i].msg) : i \in 1 .. Len(q)}
            C(q) == UNION {UNION {For(n, q[i].parts[k]) : k \in DOMAIN q[i].parts} : i \in 1 .. Len(q)}
            D(q) == UNION {UNION {For(n, q[i][k]) : k \in DOMAIN q[i]} : i \in 1 .. Len(q)}
<1>1. \A p, m : x \in For(p, m) <=> x \in m.slots /\ x.pair[2] = p
  BY DEF For
<1>2. \A m, dest : x \in ForAny(m, dest) <=> x \in m.slots /\ x.pair[2] \in dest
  BY <1>1 DEF ForAny
<1>3. \A q : x \in A(q) <=> Bound(x, q)
  BY <1>2 DEF Bound
<1>4. \A q : x \in B(q) <=> Flying(x, q)
  BY <1>1 DEF Flying
<1>5. \A q : x \in C(q) <=> Kept(x, n, q)
  BY <1>1 DEF Kept
<1>6. \A q : x \in D(q) <=> Waiting(x, n, q)
  BY <1>1 DEF Waiting
<1>7. Has(n, s) = A(s.sendq) \union A(s.task) \union B(s.sending) \union C(s.reasm) \union D(s.msgq)
  BY DEF Has
<1>. HIDE DEF A, B, C, D
<1>. QED
  BY <1>3, <1>4, <1>5, <1>6, <1>7 DEF Carried

LEMMA OnTheWayIs == \A x : x \in OnTheWay <=> \E n \in Node : Carried(x, n, enow[n])
BY HasCarried DEF OnTheWay

-----------------------------------------------------------------------------
(* Queues *)

LEMMA LeastOf ==
  ASSUME NEW S \in SUBSET Nat, S # {} PROVE \E m \in S : \A k \in S : m <= k
<1>. DEFINE R == {ss \in Nat \X Nat : ss[1] < ss[2]}
<1>1. IsWellFoundedOn(R, Nat)
  BY NatLessThanWellFounded DEF OpToRel
<1>2. PICK m \in S : \A k \in S : ~(<<k, m>> \in R)
  <2>. HIDE DEF R
  <2>. QED
    BY <1>1, WFMin
<1>3. \A k \in S : ~(k < m)
  <2>1. \A k \in S : <<k, m>> \in Nat \X Nat /\ <<k, m>>[1] = k /\ <<k, m>>[2] = m
    OBVIOUS
  <2>. QED
    BY <1>2, <2>1
<1>. HIDE DEF R
<1>. QED
  BY <1>3

LEMMA PeerIn ==
  ASSUME NEW t, t.dest \in SUBSET Replica, t.dest # {} PROVE Peer(t) \in t.dest
<1>1. t.dest \in SUBSET Nat
  BY RadioAssumption, SpeakerAssumption
<1>2. \E q \in t.dest : \A p \in t.dest : q <= p
  BY <1>1, LeastOf
<1>. QED
  BY <1>2 DEF Peer

LEMMA TailParts ==
  ASSUME NEW S, NEW q \in Seq(S), q # <<>>
  PROVE  /\ Head(q) \in S /\ Tail(q) \in Seq(S) /\ Len(Tail(q)) = Len(q) - 1
         /\ Len(q) \in Nat \ {0} /\ 1 \in 1 .. Len(q) /\ q[1] = Head(q)
         /\ \A i \in 1 .. Len(Tail(q)) : i + 1 \in 1 .. Len(q) /\ Tail(q)[i] = q[i + 1]
<1>1. Len(q) \in Nat /\ Len(q) # 0 /\ q[1] = Head(q)
  BY EmptySeq, LenProperties
<1>. QED
  BY <1>1, HeadTailProperties

LEMMA WithoutParts ==
  ASSUME NEW S, NEW q \in Seq(S), NEW i \in 1 .. Len(q)
  PROVE  /\ Without(q, i) \in Seq(S) /\ Len(Without(q, i)) = Len(q) - 1
         /\ \A j \in 1 .. Len(Without(q, i)) :
              LET k == IF j < i THEN j ELSE j + 1
              IN  k \in 1 .. Len(q) /\ k # i /\ Without(q, i)[j] = q[k]
<1>1. PICK n \in Nat : n = Len(q)
  BY LenProperties
<1>2. \A j \in 1 .. n : q[j] \in S
  BY <1>1, ElementOfSeq
<1>. DEFINE a == SubSeq(q, 1, i - 1)
            b == SubSeq(q, i + 1, n)
<1>3. a \in Seq(S) /\ Len(a) = i - 1 /\ \A j \in 1 .. i - 1 : a[j] = q[j]
  <2>1. \A j \in 1 .. i - 1 : q[j] \in S
    BY <1>1, <1>2
  <2>2. /\ a \in Seq(S) /\ Len(a) = IF 1 <= i - 1 THEN (i - 1) - 1 + 1 ELSE 0
        /\ \A j \in 1 .. (i - 1) - 1 + 1 : a[j] = q[1 + j - 1]
    BY <1>1, <2>1, SubSeqProperties
  <2>. QED
    BY <1>1, <2>2
<1>4. b \in Seq(S) /\ Len(b) = n - i /\ \A j \in 1 .. n - i : b[j] = q[i + j]
  <2>1. \A j \in i + 1 .. n : q[j] \in S
    BY <1>1, <1>2
  <2>2. /\ b \in Seq(S) /\ Len(b) = IF i + 1 <= n THEN n - (i + 1) + 1 ELSE 0
        /\ \A j \in 1 .. n - (i + 1) + 1 : b[j] = q[(i + 1) + j - 1]
    BY <1>1, <2>1, SubSeqProperties
  <2>. QED
    BY <1>1, <2>2
<1>5. Without(q, i) = a \o b
  BY <1>1 DEF Without
<1>. HIDE DEF a, b
<1>6. /\ a \o b \in Seq(S) /\ Len(a \o b) = n - 1
      /\ \A j \in 1 .. n - 1 : (a \o b)[j] = IF j <= i - 1 THEN a[j] ELSE b[j - (i - 1)]
  BY <1>1, <1>3, <1>4, ConcatProperties
<1>7. ASSUME NEW j \in 1 .. n - 1
      PROVE  LET k == IF j < i THEN j ELSE j + 1
             IN  k \in 1 .. n /\ k # i /\ (a \o b)[j] = q[k]
  <2>1. CASE j < i
    BY <1>1, <1>3, <1>6, <2>1
  <2>2. CASE ~(j < i)
    <3>1. j - (i - 1) \in 1 .. n - i /\ i + (j - (i - 1)) = j + 1
      BY <1>1, <2>2
    <3>. QED
      BY <1>1, <1>4, <1>6, <2>2, <3>1
  <2>. QED
    BY <2>1, <2>2
<1>. QED
  BY <1>1, <1>5, <1>6, <1>7

-----------------------------------------------------------------------------
(* One record *)

\* What a step may do to the record of node n: it loses.
Loses(n, s, t) == Good(n, t) /\ \A x : Carried(x, n, t) => Carried(x, n, s)

LEMMA Numbers ==
  /\ Parts \in Nat \ {0} /\ Credits \in Nat \ {0} /\ Slots \in Nat \ {0}
  /\ SendDepth \in Nat \ {0} /\ RecvDepth \in Nat \ {0} /\ MaxId \in Nat \ {0}
  /\ 0 \in Frag
BY RadioAssumption DEF Frag

LEMMA FieldTypes ==
  ASSUME NEW n, NEW s \in RadioState(n)
  PROVE  /\ s.sendq \in Seq(Entry(n)) /\ s.task \in Seq(Task(n)) /\ s.sending \in Seq(Frame(n))
         /\ s.reasm \in Seq(Partial) /\ s.msgq \in Seq(Complete)
         /\ s.credit \in Int /\ s.offline \in SUBSET Node /\ s.next_id \in Id
         /\ Len(s.sendq) \in Nat /\ Len(s.task) \in Nat /\ Len(s.sending) \in Nat
         /\ Len(s.reasm) \in Nat /\ Len(s.msgq) \in Nat
<1>1. /\ s.sendq \in Seq(Entry(n)) /\ s.task \in Seq(Task(n)) /\ s.sending \in Seq(Frame(n))
      /\ s.reasm \in Seq(Partial) /\ s.msgq \in Seq(Complete)
      /\ s.credit \in Int /\ s.offline \in SUBSET Node /\ s.next_id \in Id
  BY DEF RadioState
<1>. QED
  BY <1>1, LenProperties

\* A sequence of one element, or of none.
LEMMA OneOrNone ==
  ASSUME NEW S, NEW t \in S
  PROVE  /\ <<t>> \in Seq(S) /\ Len(<<t>>) = 1 /\ <<t>>[1] = t
         /\ <<>> \in Seq(S) /\ Len(<<>>) = 0
OBVIOUS

\* When the task is through with a frame or a peer, what is left was its own.
LEMMA NextIsOwn ==
  ASSUME NEW n, NEW t \in Task(n)
  PROVE  /\ NextPeer(t) \in Seq(Task(n)) /\ Len(NextPeer(t)) <= 1
         /\ NextFrame(t) \in Seq(Task(n)) /\ Len(NextFrame(t)) <= 1
         /\ \A x : Bound(x, NextPeer(t)) \/ Bound(x, NextFrame(t)) =>
              x \in t.msg.slots /\ x.pair[2] \in t.dest
         /\ Peer(t) \in t.dest /\ Peer(t) \in Replica \ {n}
<1>1. /\ t.dest \in SUBSET Replica /\ t.dest # {} /\ t.dest \subseteq Replica \ {n}
      /\ t.msg \in Message /\ t.id \in Id /\ t.frag \in Frag
  BY DEF Task
<1>2. Peer(t) \in t.dest
  BY <1>1, PeerIn
<1>. DEFINE u == [t EXCEPT !.dest = t.dest \ {Peer(t)}, !.frag = 0]
            v == [t EXCEPT !.frag = t.frag + 1]
<1>3. t.dest # {Peer(t)} => u \in Task(n) /\ u.msg = t.msg /\ u.dest \subseteq t.dest
  BY <1>1, <1>2, Numbers DEF Task
<1>4. t.frag + 1 < Parts => v \in Task(n) /\ v.msg = t.msg /\ v.dest = t.dest
  BY <1>1, Numbers DEF Task, Frag
<1>5. NextPeer(t) = IF t.dest = {Peer(t)} THEN <<>> ELSE <<u>>
  BY DEF NextPeer
<1>6. NextFrame(t) = IF t.frag + 1 < Parts THEN <<v>> ELSE NextPeer(t)
  BY DEF NextFrame
<1>. HIDE DEF u, v
<1>7. /\ NextPeer(t) \in Seq(Task(n)) /\ Len(NextPeer(t)) <= 1
      /\ \A x : Bound(x, NextPeer(t)) => x \in t.msg.slots /\ x.pair[2] \in t.dest
  <2>1. CASE t.dest = {Peer(t)}
    <3>1. NextPeer(t) = <<>>
      BY <1>5, <2>1
    <3>. QED
      BY <3>1 DEF Bound
  <2>2. CASE t.dest # {Peer(t)}
    <3>1. NextPeer(t) = <<u>>
      BY <1>5, <2>2
    <3>2. \A i \in 1 .. 1 : <<u>>[i] = u
      OBVIOUS
    <3>3. \A x : Bound(x, <<u>>) => x \in u.msg.slots /\ x.pair[2] \in u.dest
      BY <3>2 DEF Bound
    <3>. QED
      BY <1>3, <2>2, <3>1, <3>3
  <2>. QED
    BY <2>1, <2>2
<1>8. /\ NextFrame(t) \in Seq(Task(n)) /\ Len(NextFrame(t)) <= 1
      /\ \A x : Bound(x, NextFrame(t)) => x \in t.msg.slots /\ x.pair[2] \in t.dest
  <2>1. CASE ~(t.frag + 1 < Parts)
    BY <1>6, <1>7, <2>1
  <2>2. CASE t.frag + 1 < Parts
    <3>1. NextFrame(t) = <<v>>
      BY <1>6, <2>2
    <3>2. \A i \in 1 .. 1 : <<v>>[i] = v
      OBVIOUS
    <3>3. \A x : Bound(x, <<v>>) => x \in v.msg.slots /\ x.pair[2] \in v.dest
      BY <3>2 DEF Bound
    <3>. QED
      BY <1>4, <2>2, <3>1, <3>3
  <2>. QED
    BY <2>1, <2>2
<1>. QED
  BY <1>1, <1>2, <1>7, <1>8

LEMMA BoundParts ==
  ASSUME NEW n, NEW q \in Seq(Entry(n)), q # <<>>
  PROVE  /\ \A x : Bound(x, Tail(q)) => Bound(x, q)
         /\ \A x : x \in Head(q).msg.slots /\ x.pair[2] \in Head(q).dest => Bound(x, q)
BY TailParts DEF Bound

LEMMA BoundTask ==
  ASSUME NEW n, NEW q \in Seq(Task(n)), q # <<>>
  PROVE  \A x : x \in Head(q).msg.slots /\ x.pair[2] \in Head(q).dest => Bound(x, q)
BY TailParts DEF Bound

\* The send task takes an entry of the queue.
LEMMA TakeEntryLoses ==
  ASSUME NEW n, NEW s, Good(n, s), s.sendq # <<>>, s.task = <<>>
  PROVE  LET e == Head(s.sendq)
         IN  Loses(n, s,
               [s EXCEPT !.sendq = Tail(@), !.next_id = (@ + 1) % MaxId,
                     !.task = IF e.dest = {} THEN <<>>
                              ELSE <<[msg |-> e.msg, dest |-> e.dest, id |-> s.next_id, frag |-> 0]>>])
<1>. DEFINE e == Head(s.sendq)
            k == [msg |-> e.msg, dest |-> e.dest, id |-> s.next_id, frag |-> 0]
            task == IF e.dest = {} THEN <<>> ELSE <<k>>
            t == [s EXCEPT !.sendq = Tail(s.sendq), !.next_id = (s.next_id + 1) % MaxId, !.task = task]
<1>1. s \in RadioState(n)
  BY DEF Good
<1>2. /\ e \in Entry(n) /\ Tail(s.sendq) \in Seq(Entry(n))
      /\ Len(Tail(s.sendq)) = Len(s.sendq) - 1 /\ Len(s.sendq) \in Nat
  BY <1>1, FieldTypes, TailParts
<1>3. (s.next_id + 1) % MaxId \in Id
  BY <1>1, FieldTypes, Numbers DEF Id
<1>4. e.dest # {} => k \in Task(n)
  BY <1>1, <1>2, FieldTypes, Numbers DEF Entry, Task
<1>5. \A x : Bound(x, <<k>>) => x \in e.msg.slots /\ x.pair[2] \in e.dest
  <2>1. \A i \in 1 .. 1 : <<k>>[i] = k
    OBVIOUS
  <2>. QED
    BY <2>1 DEF Bound
<1>6. \A x : ~Bound(x, <<>>)
  BY DEF Bound
<1>. HIDE DEF k
<1>7. task \in Seq(Task(n)) /\ Len(task) <= 1
  BY <1>4
<1>8. \A x : Bound(x, task) => x \in e.msg.slots /\ x.pair[2] \in e.dest
  BY <1>5, <1>6
<1>. HIDE DEF task, e
<1>9. t \in RadioState(n)
  BY <1>1, <1>2, <1>3, <1>7 DEF RadioState
<1>10. /\ t.sendq = Tail(s.sendq) /\ t.task = task /\ t.credit = s.credit
       /\ t.sending = s.sending /\ t.reasm = s.reasm /\ t.msgq = s.msgq
  BY <1>1 DEF RadioState
<1>11. t = [s EXCEPT !.sendq = Tail(@), !.next_id = (@ + 1) % MaxId, !.task = task]
  BY <1>1 DEF RadioState
<1>. HIDE DEF t
<1>12. Good(n, t)
  BY <1>2, <1>7, <1>9, <1>10, Numbers DEF Good
<1>13. ASSUME NEW x, Carried(x, n, t) PROVE Carried(x, n, s)
  <2>1. Bound(x, t.sendq) \/ Bound(x, t.task) => Bound(x, s.sendq)
    BY <1>1, <1>8, <1>10, FieldTypes, BoundParts DEF e
  <2>. QED
    BY <1>10, <1>13, <2>1 DEF Carried
<1>. QED
  BY <1>11, <1>12, <1>13 DEF Loses, task, k, e

\* It is through with a peer.
LEMMA NextPeerLoses ==
  ASSUME NEW n, NEW s, Good(n, s), s.task # <<>>
  PROVE  Loses(n, s, [s EXCEPT !.task = NextPeer(Head(s.task))])
<1>. DEFINE k == Head(s.task)
            task == NextPeer(k)
            t == [s EXCEPT !.task = task]
<1>1. s \in RadioState(n)
  BY DEF Good
<1>2. k \in Task(n)
  BY <1>1, FieldTypes, TailParts
<1>3. /\ task \in Seq(Task(n)) /\ Len(task) <= 1
      /\ \A x : Bound(x, task) => x \in k.msg.slots /\ x.pair[2] \in k.dest
  BY <1>2, NextIsOwn
<1>4. \A x : Bound(x, task) => Bound(x, s.task)
  BY <1>1, <1>3, FieldTypes, BoundTask
<1>. HIDE DEF task, k
<1>5. t \in RadioState(n)
  BY <1>1, <1>3 DEF RadioState
<1>6. /\ t.sendq = s.sendq /\ t.task = task /\ t.credit = s.credit
      /\ t.sending = s.sending /\ t.reasm = s.reasm /\ t.msgq = s.msgq
  BY <1>1 DEF RadioState
<1>. HIDE DEF t
<1>7. Good(n, t)
  BY <1>3, <1>5, <1>6 DEF Good
<1>8. \A x : Carried(x, n, t) => Carried(x, n, s)
  BY <1>4, <1>6 DEF Carried
<1>. QED
  BY <1>7, <1>8 DEF Loses, t, task, k

\* The driver accepts a frame: it takes a credit.
LEMMA SendFrameLoses ==
  ASSUME NEW n, NEW s, Good(n, s), s.task # <<>>, s.credit > 0
  PROVE  LET k == Head(s.task)
         IN  Loses(n, s,
               [s EXCEPT !.credit = @ - 1, !.task = NextFrame(k),
                     !.sending = Append(@, [to |-> Peer(k), id |-> k.id,
                                            frag |-> k.frag, msg |-> k.msg])])
<1>. DEFINE k == Head(s.task)
            f == [to |-> Peer(k), id |-> k.id, frag |-> k.frag, msg |-> k.msg]
            task == NextFrame(k)
            sending == Append(s.sending, f)
            spare == s.credit - 1
            t == [s EXCEPT !.credit = spare, !.task = task, !.sending = sending]
<1>1. s \in RadioState(n)
  BY DEF Good
<1>2. k \in Task(n) /\ s.sending \in Seq(Frame(n)) /\ Len(s.sending) \in Nat /\ s.credit \in Int
  BY <1>1, FieldTypes, TailParts
<1>3. /\ task \in Seq(Task(n)) /\ Len(task) <= 1 /\ Peer(k) \in Replica \ {n} /\ Peer(k) \in k.dest
      /\ \A x : Bound(x, task) => x \in k.msg.slots /\ x.pair[2] \in k.dest
  BY <1>2, NextIsOwn
<1>4. \A x : x \in k.msg.slots /\ x.pair[2] \in k.dest => Bound(x, s.task)
  BY <1>1, FieldTypes, BoundTask
<1>5. k.msg \in Message /\ k.id \in Id /\ k.frag \in Frag
  BY <1>2 DEF Task
<1>6. f \in Frame(n) /\ f.msg = k.msg /\ f.to = Peer(k)
  BY <1>3, <1>5 DEF Frame
<1>. HIDE DEF task, f
<1>7. /\ sending \in Seq(Frame(n)) /\ Len(sending) = Len(s.sending) + 1
      /\ \A i \in 1 .. Len(s.sending) : sending[i] = s.sending[i]
      /\ sending[Len(s.sending) + 1] = f
  BY <1>2, <1>6, AppendProperties
<1>8. \A x : Flying(x, sending) => Flying(x, s.sending) \/ (x \in f.msg.slots /\ x.pair[2] = f.to)
  <2>. TAKE x
  <2>. HAVE Flying(x, sending)
  <2>. HIDE DEF sending
  <2>1. PICK i \in 1 .. Len(sending) : x \in sending[i].msg.slots /\ x.pair[2] = sending[i].to
    BY DEF Flying
  <2>2. CASE i \in 1 .. Len(s.sending)
    BY <1>7, <2>1, <2>2 DEF Flying
  <2>3. CASE i = Len(s.sending) + 1
    BY <1>7, <2>1, <2>3
  <2>. QED
    BY <1>2, <1>7, <2>1, <2>2, <2>3
<1>. HIDE DEF sending
<1>9. \A x : Flying(x, sending) => Flying(x, s.sending) \/ Bound(x, s.task)
  BY <1>3, <1>4, <1>6, <1>8
<1>16. spare \in Int /\ spare >= 0 /\ spare + Len(sending) = Credits /\ spare = s.credit - 1
  <2>1. s.credit + Len(s.sending) = Credits
    BY DEF Good
  <2>. QED
    BY <1>2, <1>7, <2>1
<1>. HIDE DEF k, spare
<1>10. t \in RadioState(n)
  BY <1>1, <1>3, <1>7, <1>16 DEF RadioState
<1>11. /\ t.sendq = s.sendq /\ t.task = task /\ t.credit = spare
       /\ t.sending = sending /\ t.reasm = s.reasm /\ t.msgq = s.msgq
  BY <1>1 DEF RadioState
<1>12. t = [s EXCEPT !.credit = @ - 1, !.task = task, !.sending = sending]
  BY <1>1, <1>16 DEF RadioState
<1>. HIDE DEF t
<1>13. Good(n, t)
  BY <1>3, <1>10, <1>11, <1>16 DEF Good
<1>14. \A x : Carried(x, n, t) => Carried(x, n, s)
  BY <1>3, <1>4, <1>9, <1>11 DEF Carried
<1>15. t = [s EXCEPT !.credit = @ - 1, !.task = NextFrame(Head(s.task)),
                     !.sending = Append(@, [to |-> Peer(Head(s.task)), id |-> Head(s.task).id,
                          frag |-> Head(s.task).frag, msg |-> Head(s.task).msg])]
  BY <1>12 DEF task, sending, f, k
<1>. QED
  BY <1>13, <1>14, <1>15 DEF Loses

LEMMA OnlineLoses ==
  ASSUME NEW n, NEW s, Good(n, s) PROVE Loses(n, s, [s EXCEPT !.offline = {}])
<1>. DEFINE t == [s EXCEPT !.offline = {}]
<1>1. s \in RadioState(n)
  BY DEF Good
<1>2. /\ t \in RadioState(n) /\ t.sendq = s.sendq /\ t.task = s.task /\ t.credit = s.credit
      /\ t.sending = s.sending /\ t.reasm = s.reasm /\ t.msgq = s.msgq
  BY <1>1 DEF RadioState
<1>. HIDE DEF t
<1>. QED
  BY <1>2 DEF Loses, Good, Carried, t

\* The driver calls back for a frame: its credit is back, whatever became of it.
LEMMA SendDoneLoses ==
  ASSUME NEW n, NEW s, Good(n, s), s.sending # <<>>, NEW ok \in BOOLEAN
  PROVE  Loses(n, s, SendDone(s, Head(s.sending), ok))
<1>. DEFINE f == Head(s.sending)
            off == IF ok THEN s.offline \ {f.to} ELSE s.offline \union {f.to}
            spare == s.credit + 1
            t == [s EXCEPT !.sending = Tail(s.sending), !.credit = spare, !.offline = off]
<1>1. s \in RadioState(n)
  BY DEF Good
<1>2. /\ f \in Frame(n) /\ Tail(s.sending) \in Seq(Frame(n))
      /\ Len(Tail(s.sending)) = Len(s.sending) - 1 /\ Len(s.sending) \in Nat /\ s.credit \in Int
      /\ s.offline \in SUBSET Node
  BY <1>1, FieldTypes, TailParts
<1>3. off \in SUBSET Node
  BY <1>2, SpeakerAssumption DEF Frame
<1>4. \A x : Flying(x, Tail(s.sending)) => Flying(x, s.sending)
  <2>1. s.sending \in Seq(Frame(n))
    BY <1>1, FieldTypes
  <2>. QED
    BY <2>1, TailParts DEF Flying
<1>5. SendDone(s, f, ok) = t
  BY <1>1 DEF SendDone, RadioState
<1>10. spare \in Int /\ spare >= 0 /\ spare + Len(Tail(s.sending)) = Credits
  <2>1. s.credit >= 0 /\ s.credit + Len(s.sending) = Credits
    BY DEF Good
  <2>. QED
    BY <1>2, <2>1
<1>. HIDE DEF off, f, spare
<1>6. t \in RadioState(n)
  BY <1>1, <1>2, <1>3, <1>10 DEF RadioState
<1>7. /\ t.sendq = s.sendq /\ t.task = s.task /\ t.credit = spare
      /\ t.sending = Tail(s.sending) /\ t.reasm = s.reasm /\ t.msgq = s.msgq
  BY <1>1 DEF RadioState
<1>. HIDE DEF t
<1>8. Good(n, t)
  BY <1>6, <1>7, <1>10 DEF Good
<1>9. \A x : Carried(x, n, t) => Carried(x, n, s)
  BY <1>4, <1>7 DEF Carried
<1>. QED
  BY <1>5, <1>8, <1>9 DEF Loses, f

\* The run loop takes the head of the message queue.
LEMMA PoppedLoses ==
  ASSUME NEW n, NEW s, Good(n, s), s.msgq # <<>>
  PROVE  /\ Loses(n, s, Popped(s))
         /\ Head(s.msgq) \in Complete
         /\ \A x : x.pair[2] = n /\ (\E k \in Frag : x \in Head(s.msgq)[k].slots) => Carried(x, n, s)
         /\ \A x : Carried(x, n, s) => Carried(x, n, Popped(s))
                   \/ (x.pair[2] = n /\ \E k \in Frag : x \in Head(s.msgq)[k].slots)
<1>. DEFINE t == Popped(s)
            h == Head(s.msgq)
<1>1. s \in RadioState(n) /\ t = [s EXCEPT !.msgq = Tail(s.msgq)]
  BY DEF Good, Popped
<1>2. s.msgq \in Seq(Complete)
  BY <1>1, FieldTypes
<1>3. /\ h \in Complete /\ Tail(s.msgq) \in Seq(Complete)
      /\ Len(Tail(s.msgq)) = Len(s.msgq) - 1 /\ Len(s.msgq) \in Nat \ {0}
      /\ 1 \in 1 .. Len(s.msgq) /\ s.msgq[1] = h
      /\ \A i \in 1 .. Len(Tail(s.msgq)) : i + 1 \in 1 .. Len(s.msgq) /\ Tail(s.msgq)[i] = s.msgq[i + 1]
  BY <1>2, TailParts
<1>4. DOMAIN h = Frag
  BY <1>3 DEF Complete
<1>. HIDE DEF h
<1>5. /\ t \in RadioState(n) /\ t.sendq = s.sendq /\ t.task = s.task /\ t.credit = s.credit
      /\ t.sending = s.sending /\ t.reasm = s.reasm /\ t.msgq = Tail(s.msgq)
  BY <1>1, <1>3 DEF RadioState
<1>. HIDE DEF t
<1>6. Good(n, t)
  BY <1>3, <1>5, Numbers DEF Good
<1>7. \A x : Waiting(x, n, t.msgq) => Waiting(x, n, s.msgq)
  BY <1>3, <1>5 DEF Waiting
<1>8. \A x : Waiting(x, n, s.msgq) =>
        Waiting(x, n, t.msgq) \/ (x.pair[2] = n /\ \E k \in Frag : x \in h[k].slots)
  <2>. TAKE x
  <2>. HAVE Waiting(x, n, s.msgq)
  <2>1. x.pair[2] = n
    BY DEF Waiting
  <2>2. PICK i \in 1 .. Len(s.msgq) : \E k \in DOMAIN s.msgq[i] : x \in s.msgq[i][k].slots
    BY DEF Waiting
  <2>3. CASE i = 1
    BY <1>3, <1>4, <2>1, <2>2, <2>3
  <2>4. CASE i # 1
    <3>1. i - 1 \in 1 .. Len(Tail(s.msgq)) /\ Tail(s.msgq)[i - 1] = s.msgq[i]
      BY <1>3, <2>4
    <3>. QED
      BY <1>5, <2>1, <2>2, <3>1 DEF Waiting
  <2>. QED
    BY <2>3, <2>4
<1>9. \A x : x.pair[2] = n /\ (\E k \in Frag : x \in h[k].slots) => Waiting(x, n, s.msgq)
  BY <1>3, <1>4 DEF Waiting
<1>. QED
  BY <1>3, <1>5, <1>6, <1>7, <1>8, <1>9 DEF Loses, Carried, t, h

\* A New_key is queued for all the others, or dropped.
LEMMA EnqueueGood ==
  ASSUME NEW n, NEW s, Good(n, s), NEW m \in Message
  PROVE  LET t == Enqueue(s, m, Replica \ {n}) IN
         /\ Good(n, t)
         /\ \/ \A x : Carried(x, n, t) <=> Carried(x, n, s)
            \/ \A x : Carried(x, n, t) <=>
                 Carried(x, n, s) \/ (x \in m.slots /\ x.pair[2] \in Replica \ {n})
<1>. DEFINE e == [msg |-> m, dest |-> Replica \ {n}]
            q == Append(s.sendq, e)
            t == [s EXCEPT !.sendq = q]
<1>1. CASE ~(Len(s.sendq) < SendDepth)
  BY <1>1 DEF Enqueue
<1>2. CASE Len(s.sendq) < SendDepth
  <2>1. s \in RadioState(n) /\ s.sendq \in Seq(Entry(n)) /\ Len(s.sendq) \in Nat
    BY FieldTypes DEF Good
  <2>2. e \in Entry(n) /\ e.msg = m /\ e.dest = Replica \ {n}
    BY DEF Entry
  <2>. HIDE DEF e
  <2>3. /\ q \in Seq(Entry(n)) /\ Len(q) = Len(s.sendq) + 1
        /\ \A i \in 1 .. Len(s.sendq) : q[i] = s.sendq[i]
        /\ q[Len(s.sendq) + 1] = e
    BY <2>1, <2>2, AppendProperties
  <2>4. Enqueue(s, m, Replica \ {n}) = t
    BY <1>2, <2>1 DEF Enqueue, RadioState, e
  <2>. HIDE DEF q
  <2>5. /\ t \in RadioState(n) /\ t.sendq = q /\ t.task = s.task /\ t.credit = s.credit
        /\ t.sending = s.sending /\ t.reasm = s.reasm /\ t.msgq = s.msgq
    BY <2>1, <2>3 DEF RadioState
  <2>. HIDE DEF t
  <2>6. Good(n, t)
    BY <1>2, <2>1, <2>3, <2>5, Numbers DEF Good
  <2>7. \A x : Bound(x, q) <=> Bound(x, s.sendq) \/ (x \in m.slots /\ x.pair[2] \in Replica \ {n})
    <3>. TAKE x
    <3>1. Len(s.sendq) + 1 \in 1 .. Len(q) /\ \A i \in 1 .. Len(s.sendq) : i \in 1 .. Len(q)
      BY <2>1, <2>3
    <3>2. \A i \in 1 .. Len(q) : i \in 1 .. Len(s.sendq) \/ i = Len(s.sendq) + 1
      BY <2>1, <2>3
    <3>3. Bound(x, s.sendq) => Bound(x, q)
      BY <2>3, <3>1 DEF Bound
    <3>4. x \in m.slots /\ x.pair[2] \in Replica \ {n} => Bound(x, q)
      BY <2>2, <2>3, <3>1 DEF Bound
    <3>5. Bound(x, q) => Bound(x, s.sendq) \/ (x \in m.slots /\ x.pair[2] \in Replica \ {n})
      BY <2>2, <2>3, <3>2 DEF Bound
    <3>. QED
      BY <3>3, <3>4, <3>5
  <2>. QED
    BY <2>4, <2>5, <2>6, <2>7 DEF Carried
<1>. QED
  BY <1>1, <1>2

LEMMA InitGood == \A n : Good(n, EnowInit) /\ \A x : ~Carried(x, n, EnowInit)
<1>. TAKE n
<1>1. 1 % MaxId \in Id
  BY Numbers DEF Id
<1>2. EnowInit \in RadioState(n)
  BY <1>1, Numbers DEF EnowInit, RadioState
<1>3. /\ EnowInit.sendq = <<>> /\ EnowInit.task = <<>> /\ EnowInit.sending = <<>>
      /\ EnowInit.reasm = <<>> /\ EnowInit.msgq = <<>> /\ EnowInit.credit = Credits
  BY DEF EnowInit
<1>4. Good(n, EnowInit)
  BY <1>2, <1>3, Numbers DEF Good, Distinct
<1>5. \A x : ~Carried(x, n, EnowInit)
  BY <1>3 DEF Carried, Bound, Flying, Kept, Waiting
<1>. QED
  BY <1>4, <1>5

-----------------------------------------------------------------------------
(* Frames that arrive *)

\* The slots of q that have no part of the message of frame f from n.
Fits(q, n, f, others) ==
  /\ others \in Seq(Partial) /\ Len(others) < Slots /\ Distinct(others)
  /\ \A j \in 1 .. Len(others) : ~Matches(others[j], n, f)
  /\ \A x : Kept(x, q, others) => Kept(x, q, enow[q].reasm)

LEMMA FeedGood ==
  ASSUME NEW n \in Replica, NEW q, Good(q, enow[q]), NEW f \in Frame(n), NEW others,
         Fits(q, n, f, others), NEW parts \in SomeParts,
         \A x : x.pair[2] = q /\ (\E k \in DOMAIN parts : x \in parts[k].slots) =>
                  Kept(x, q, enow[q].reasm)
  PROVE  LET t == Feed(q, n, f, others, parts) IN
         /\ Good(q, t)
         /\ \A x : Carried(x, q, t) =>
              Carried(x, q, enow[q]) \/ (x \in f.msg.slots /\ x.pair[2] = q)
<1>. DEFINE s == enow[q]
            got == [k \in DOMAIN parts \union {f.frag} |-> IF k = f.frag THEN f.msg ELSE parts[k]]
            e == [id |-> f.id, from |-> n, parts |-> got]
            longer == Append(others, e)
            queue == IF Len(s.msgq) < RecvDepth THEN Append(s.msgq, got) ELSE s.msgq
            t1 == [s EXCEPT !.reasm = longer]
            t2 == [s EXCEPT !.reasm = others, !.msgq = queue]
<1>1. s \in RadioState(q) /\ s.msgq \in Seq(Complete) /\ Len(s.msgq) \in Nat
  BY FieldTypes DEF Good
<1>2. /\ others \in Seq(Partial) /\ Len(others) < Slots /\ Distinct(others) /\ Len(others) \in Nat
      /\ \A j \in 1 .. Len(others) : ~(others[j].id = f.id /\ others[j].from = n)
      /\ \A x : Kept(x, q, others) => Kept(x, q, s.reasm)
  BY LenProperties DEF Fits, Matches
<1>3. PICK D \in SUBSET Frag : parts \in [D -> Message]
  BY DEF SomeParts
<1>4. f.id \in Id /\ f.frag \in Frag /\ f.msg \in Message
  BY DEF Frame
<1>5. /\ got \in [D \union {f.frag} -> Message] /\ D \union {f.frag} \in SUBSET Frag
      /\ DOMAIN got = D \union {f.frag}
      /\ \A k \in DOMAIN got : got[k] = f.msg \/ (k \in DOMAIN parts /\ got[k] = parts[k])
  BY <1>3, <1>4
<1>6. Feed(q, n, f, others, parts) =
        IF f.frag \in DOMAIN parts THEN s ELSE IF DOMAIN got # Frag THEN t1 ELSE t2
  BY <1>1 DEF Feed, Frag, RadioState
<1>. HIDE DEF got
<1>7. \A x : x.pair[2] = q /\ (\E k \in DOMAIN got : x \in got[k].slots) =>
        Kept(x, q, s.reasm) \/ (x \in f.msg.slots /\ x.pair[2] = q)
  BY <1>5
<1>8. CASE f.frag \in DOMAIN parts
  BY <1>6, <1>8
<1>9. CASE f.frag \notin DOMAIN parts /\ DOMAIN got # Frag
  <2>1. Feed(q, n, f, others, parts) = t1
    BY <1>6, <1>9
  <2>2. got \in SomeParts
    BY <1>5 DEF SomeParts
  <2>3. e \in Partial /\ e.id = f.id /\ e.from = n /\ e.parts = got
    BY <1>4, <2>2 DEF Partial
  <2>. HIDE DEF e
  <2>4. /\ longer \in Seq(Partial) /\ Len(longer) = Len(others) + 1
        /\ \A i \in 1 .. Len(others) : longer[i] = others[i]
        /\ longer[Len(others) + 1] = e
    BY <1>2, <2>3, AppendProperties
  <2>. HIDE DEF longer
  <2>5. \A i \in 1 .. Len(longer) : i \in 1 .. Len(others) \/ i = Len(others) + 1
    BY <1>2, <2>4
  <2>6. Distinct(longer)
    BY <1>2, <2>3, <2>4, <2>5 DEF Distinct
  <2>7. \A x : Kept(x, q, longer) => Kept(x, q, s.reasm) \/ (x \in f.msg.slots /\ x.pair[2] = q)
    <3>. TAKE x
    <3>. HAVE Kept(x, q, longer)
    <3>1. x.pair[2] = q
      BY DEF Kept
    <3>2. PICK i \in 1 .. Len(longer) : \E k \in DOMAIN longer[i].parts : x \in longer[i].parts[k].slots
      BY DEF Kept
    <3>3. CASE i \in 1 .. Len(others)
      <4>1. Kept(x, q, others)
        BY <2>4, <3>1, <3>2, <3>3 DEF Kept
      <4>. QED
        BY <1>2, <4>1
    <3>4. CASE i = Len(others) + 1
      BY <1>7, <2>3, <2>4, <3>1, <3>2, <3>4
    <3>. QED
      BY <2>5, <3>3, <3>4
  <2>8. /\ t1 \in RadioState(q) /\ t1.sendq = s.sendq /\ t1.task = s.task /\ t1.credit = s.credit
        /\ t1.sending = s.sending /\ t1.reasm = longer /\ t1.msgq = s.msgq
    BY <1>1, <2>4 DEF RadioState
  <2>. HIDE DEF t1
  <2>9. Len(longer) <= Slots
    BY <1>2, <2>4, Numbers
  <2>10. Good(q, t1)
    BY <2>6, <2>8, <2>9 DEF Good
  <2>. QED
    BY <2>1, <2>7, <2>8, <2>10 DEF Carried
<1>10. CASE f.frag \notin DOMAIN parts /\ DOMAIN got = Frag
  <2>1. Feed(q, n, f, others, parts) = t2
    BY <1>6, <1>10
  <2>2. got \in Complete
    BY <1>5, <1>10 DEF Complete
  <2>3. /\ queue \in Seq(Complete) /\ Len(queue) <= RecvDepth
        /\ \A i \in 1 .. Len(queue) : queue[i] = got \/ (i \in 1 .. Len(s.msgq) /\ queue[i] = s.msgq[i])
    <3>1. CASE Len(s.msgq) < RecvDepth
      <4>1. /\ queue \in Seq(Complete) /\ Len(queue) = Len(s.msgq) + 1
            /\ \A i \in 1 .. Len(s.msgq) : queue[i] = s.msgq[i]
            /\ queue[Len(s.msgq) + 1] = got
        BY <1>1, <2>2, <3>1, AppendProperties
      <4>. HIDE DEF queue
      <4>2. \A i \in 1 .. Len(queue) : i \in 1 .. Len(s.msgq) \/ i = Len(s.msgq) + 1
        BY <1>1, <4>1
      <4>. QED
        BY <1>1, <3>1, <4>1, <4>2, Numbers
    <3>2. CASE ~(Len(s.msgq) < RecvDepth)
      <4>1. queue = s.msgq
        BY <3>2
      <4>. QED
        BY <1>1, <4>1 DEF Good
    <3>. QED
      BY <3>1, <3>2
  <2>. HIDE DEF queue
  <2>4. \A x : Waiting(x, q, queue) =>
          Waiting(x, q, s.msgq) \/ Kept(x, q, s.reasm) \/ (x \in f.msg.slots /\ x.pair[2] = q)
    BY <1>7, <2>3 DEF Waiting
  <2>5. /\ t2 \in RadioState(q) /\ t2.sendq = s.sendq /\ t2.task = s.task /\ t2.credit = s.credit
        /\ t2.sending = s.sending /\ t2.reasm = others /\ t2.msgq = queue
    BY <1>1, <1>2, <2>3 DEF RadioState
  <2>. HIDE DEF t2
  <2>6. Len(others) <= Slots
    BY <1>2, Numbers
  <2>7. Good(q, t2)
    BY <1>2, <2>3, <2>5, <2>6 DEF Good
  <2>. QED
    BY <1>2, <2>1, <2>4, <2>5, <2>7 DEF Carried
<1>. QED
  BY <1>8, <1>9, <1>10

LEMMA WithoutFrom ==
  ASSUME NEW r \in Seq(Partial), NEW i \in 1 .. Len(r), NEW j \in 1 .. Len(Without(r, i))
  PROVE  \E k \in 1 .. Len(r) : k # i /\ Without(r, i)[j] = r[k]
<1>. DEFINE k == IF j < i THEN j ELSE j + 1
<1>1. k \in 1 .. Len(r) /\ k # i /\ Without(r, i)[j] = r[k]
  BY WithoutParts
<1>. QED
  BY <1>1

LEMMA KeptWithout ==
  ASSUME NEW q, NEW r \in Seq(Partial), NEW i \in 1 .. Len(r)
  PROVE  \A x : Kept(x, q, Without(r, i)) => Kept(x, q, r)
<1>1. \A j \in 1 .. Len(Without(r, i)) : \E k \in 1 .. Len(r) : Without(r, i)[j] = r[k]
  BY WithoutFrom
<1>. QED
  BY <1>1 DEF Kept

LEMMA DistinctWithout ==
  ASSUME NEW r \in Seq(Partial), Distinct(r), NEW i \in 1 .. Len(r)
  PROVE  /\ Distinct(Without(r, i))
         /\ \A j \in 1 .. Len(Without(r, i)) :
              ~(Without(r, i)[j].id = r[i].id /\ Without(r, i)[j].from = r[i].from)
<1>1. ASSUME NEW j \in 1 .. Len(Without(r, i)), NEW l \in 1 .. Len(Without(r, i)),
             Without(r, i)[j].id = Without(r, i)[l].id,
             Without(r, i)[j].from = Without(r, i)[l].from
      PROVE  j = l
  <2>. DEFINE k == IF j < i THEN j ELSE j + 1
              h == IF l < i THEN l ELSE l + 1
  <2>1. k \in 1 .. Len(r) /\ Without(r, i)[j] = r[k]
    BY WithoutParts
  <2>2. h \in 1 .. Len(r) /\ Without(r, i)[l] = r[h]
    BY WithoutParts
  <2>3. k = h => j = l
    BY LenProperties
  <2>. HIDE DEF k, h
  <2>4. r[k].id = r[h].id /\ r[k].from = r[h].from
    BY <1>1, <2>1, <2>2
  <2>5. k = h
    BY <2>1, <2>2, <2>4 DEF Distinct
  <2>. QED
    BY <2>3, <2>5
<1>2. ASSUME NEW j \in 1 .. Len(Without(r, i)),
             Without(r, i)[j].id = r[i].id, Without(r, i)[j].from = r[i].from
      PROVE  FALSE
  <2>1. PICK k \in 1 .. Len(r) : k # i /\ Without(r, i)[j] = r[k]
    BY WithoutFrom
  <2>2. r[k].id = r[i].id /\ r[k].from = r[i].from
    BY <1>2, <2>1
  <2>. QED
    BY <2>1, <2>2 DEF Distinct
<1>. QED
  BY <1>1, <1>2 DEF Distinct

LEMMA TailFits ==
  ASSUME NEW q, NEW r \in Seq(Partial), Distinct(r), r # <<>>
  PROVE  Distinct(Tail(r)) /\ \A x : Kept(x, q, Tail(r)) => Kept(x, q, r)
<1>1. /\ \A i \in 1 .. Len(Tail(r)) : i + 1 \in 1 .. Len(r) /\ Tail(r)[i] = r[i + 1]
      /\ Len(Tail(r)) \in Nat
  BY TailParts, LenProperties
<1>2. Distinct(Tail(r))
  BY <1>1 DEF Distinct
<1>. QED
  BY <1>1, <1>2 DEF Kept

\* Whatever slot a frame goes to, the node has what it had, or has it from f.
LEMMA ReceiveGood ==
  ASSUME NEW n \in Replica, NEW q, Good(q, enow[q]), NEW f \in Frame(n), NEW t \in Receive(q, n, f)
  PROVE  /\ Good(q, t)
         /\ \A x : Carried(x, q, t) =>
              Carried(x, q, enow[q]) \/ (x \in f.msg.slots /\ x.pair[2] = q)
<1>. DEFINE r == enow[q].reasm
            known == {i \in 1 .. Len(r) : Matches(r[i], n, f)}
<1>1. r \in Seq(Partial) /\ Distinct(r) /\ Len(r) \in Nat /\ Len(r) <= Slots
  BY FieldTypes DEF Good
<1>2. CASE known # {}
  <2>1. PICK i \in known : t = Feed(q, n, f, Without(r, i), r[i].parts)
    BY <1>2 DEF Receive
  <2>2. i \in 1 .. Len(r) /\ r[i].id = f.id /\ r[i].from = n /\ r[i] \in Partial
    BY <1>1, <2>1, ElementOfSeq DEF Matches
  <2>3. Fits(q, n, f, Without(r, i))
    <3>1. Without(r, i) \in Seq(Partial) /\ Len(Without(r, i)) < Slots
      BY <1>1, <2>2, WithoutParts, Numbers
    <3>2. /\ Distinct(Without(r, i))
          /\ \A j \in 1 .. Len(Without(r, i)) : ~Matches(Without(r, i)[j], n, f)
      BY <1>1, <2>2, DistinctWithout DEF Matches
    <3>3. \A x : Kept(x, q, Without(r, i)) => Kept(x, q, r)
      BY <1>1, <2>2, KeptWithout
    <3>. QED
      BY <3>1, <3>2, <3>3 DEF Fits
  <2>4. r[i].parts \in SomeParts
    BY <2>2 DEF Partial
  <2>5. \A x : x.pair[2] = q /\ (\E k \in DOMAIN r[i].parts : x \in r[i].parts[k].slots) => Kept(x, q, r)
    BY <2>2 DEF Kept
  <2>. QED
    BY <2>1, <2>3, <2>4, <2>5, FeedGood
<1>3. CASE known = {}
  <2>1. PICK others \in Allocations(q) : t = Feed(q, n, f, others, << >>)
    BY <1>3 DEF Receive
  <2>2. \A i \in 1 .. Len(r) : ~Matches(r[i], n, f)
    BY <1>3
  <2>3. Fits(q, n, f, others)
    <3>1. CASE \E i \in TimedOut(q) : others = Without(r, i)
      <4>1. PICK i \in 1 .. Len(r) : others = Without(r, i)
        BY <3>1 DEF TimedOut
      <4>2. /\ others \in Seq(Partial) /\ Len(others) < Slots
            /\ \A j \in 1 .. Len(others) : \E k \in 1 .. Len(r) : others[j] = r[k]
        <5>1. others \in Seq(Partial) /\ Len(others) < Slots
          BY <1>1, <4>1, WithoutParts, Numbers
        <5>2. ASSUME NEW j \in 1 .. Len(Without(r, i))
              PROVE  \E k \in 1 .. Len(r) : Without(r, i)[j] = r[k]
          BY <1>1, WithoutFrom
        <5>. QED
          BY <4>1, <5>1, <5>2
      <4>3. Distinct(others) /\ \A x : Kept(x, q, others) => Kept(x, q, r)
        BY <1>1, <4>1, DistinctWithout, KeptWithout
      <4>. QED
        BY <2>2, <4>2, <4>3 DEF Fits
    <3>2. CASE Len(r) < Slots /\ others = r
      BY <1>1, <2>2, <3>2 DEF Fits
    <3>3. CASE ~(Len(r) < Slots) /\ others = Tail(r)
      <4>1. r # <<>>
        BY <1>1, <3>3, Numbers
      <4>2. /\ others \in Seq(Partial) /\ Len(others) < Slots
            /\ \A j \in 1 .. Len(others) : j + 1 \in 1 .. Len(r) /\ others[j] = r[j + 1]
        BY <1>1, <3>3, <4>1, TailParts, Numbers
      <4>3. Distinct(others) /\ \A x : Kept(x, q, others) => Kept(x, q, r)
        BY <1>1, <3>3, <4>1, TailFits
      <4>. QED
        BY <2>2, <4>2, <4>3 DEF Fits
    <3>. QED
      BY <2>1, <3>1, <3>2, <3>3 DEF Allocations
  <2>4. <<>> \in SomeParts /\ DOMAIN <<>> = {}
    <3>1. <<>> \in [{} -> Message]
      OBVIOUS
    <3>. QED
      BY <3>1 DEF SomeParts
  <2>. QED
    BY <2>1, <2>3, <2>4, FeedGood
<1>. QED
  BY <1>2, <1>3

-----------------------------------------------------------------------------
(* Every step *)

AllGood == enow = [n \in Node |-> enow[n]] /\ \A n \in Node : Good(n, enow[n])

RInv ==
  /\ AllGood
  /\ out \in [Keys!Pair -> Nat] /\ made \in [Keys!Pair -> Nat]
  /\ stamp \in 0 .. MaxStamp - 1 /\ restarts \in 0 .. MaxRestarts

LEMMA OnTheWayNext == \A x : x \in OnTheWay' <=> \E n \in Node : Carried(x, n, enow'[n])
BY HasCarried DEF OnTheWay

LEMMA OneLoses ==
  ASSUME AllGood, NEW n \in Node, NEW t, Loses(n, enow[n], t), enow' = [enow EXCEPT ![n] = t]
  PROVE  AllGood' /\ OnTheWay' \subseteq OnTheWay
<1>1. enow'[n] = t /\ \A q \in Node : q # n => enow'[q] = enow[q]
  BY DEF AllGood
<1>2. enow' = [q \in Node |-> enow'[q]]
  BY DEF AllGood
<1>3. AllGood'
  BY <1>1, <1>2 DEF AllGood, Loses
<1>4. ASSUME NEW x \in OnTheWay' PROVE x \in OnTheWay
  <2>1. PICK q \in Node : Carried(x, q, enow'[q])
    BY OnTheWayNext
  <2>2. Carried(x, q, enow[q])
    BY <1>1, <2>1 DEF Loses
  <2>. QED
    BY <2>2, OnTheWayIs
<1>. QED
  BY <1>3, <1>4

LEMMA TransmitLoses ==
  ASSUME AllGood, NEW n \in Node, Transmit(n) PROVE AllGood' /\ OnTheWay' \subseteq OnTheWay
<1>. DEFINE s == enow[n]
            f == Head(s.sending)
<1>1. Good(n, s) /\ s.sending # <<>>
  BY DEF AllGood, Transmit
<1>2. f \in Frame(n) /\ \A x : x \in f.msg.slots /\ x.pair[2] = f.to => Carried(x, n, s)
  <2>1. s.sending \in Seq(Frame(n))
    BY <1>1, FieldTypes DEF Good
  <2>2. f \in Frame(n) /\ 1 \in 1 .. Len(s.sending) /\ s.sending[1] = f
    BY <1>1, <2>1, TailParts
  <2>3. \A x : x \in f.msg.slots /\ x.pair[2] = f.to => Flying(x, s.sending)
    BY <2>2 DEF Flying
  <2>. QED
    BY <2>2, <2>3 DEF Carried
<1>3. f.to \in Node /\ f.to # n /\ n \in Replica
  BY <1>2, SpeakerAssumption DEF Frame
<1>4. PICK arrives \in BOOLEAN, ok \in BOOLEAN :
        \E t \in IF arrives THEN Receive(f.to, n, f) ELSE {enow[f.to]} :
          enow' = [enow EXCEPT ![n] = SendDone(@, f, ok), ![f.to] = t]
  BY DEF Transmit
<1>5. PICK t \in IF arrives THEN Receive(f.to, n, f) ELSE {enow[f.to]} :
        enow' = [enow EXCEPT ![n] = SendDone(@, f, ok), ![f.to] = t]
  BY <1>4
<1>6. Loses(n, s, SendDone(s, f, ok))
  BY <1>1, SendDoneLoses
<1>. HIDE DEF f
<1>7. /\ Good(f.to, t)
      /\ \A x : Carried(x, f.to, t) =>
           Carried(x, f.to, enow[f.to]) \/ (x \in f.msg.slots /\ x.pair[2] = f.to)
  <2>1. Good(f.to, enow[f.to])
    BY <1>3 DEF AllGood
  <2>2. CASE t \in Receive(f.to, n, f)
    BY <1>2, <1>3, <2>1, <2>2, ReceiveGood
  <2>3. CASE t = enow[f.to]
    BY <2>1, <2>3
  <2>. QED
    BY <1>5, <2>2, <2>3
<1>8. /\ enow'[n] = SendDone(s, f, ok) /\ enow'[f.to] = t
      /\ \A q \in Node : q # n /\ q # f.to => enow'[q] = enow[q]
      /\ enow' = [q \in Node |-> enow'[q]]
  <2>1. enow = [q \in Node |-> enow[q]]
    BY DEF AllGood
  <2>. QED
    BY <1>3, <1>5, <2>1
<1>9. AllGood'
  BY <1>6, <1>7, <1>8 DEF AllGood, Loses
<1>10. ASSUME NEW x \in OnTheWay' PROVE x \in OnTheWay
  <2>1. PICK q \in Node : Carried(x, q, enow'[q])
    BY OnTheWayNext
  <2>2. CASE q = n
    BY <1>6, <1>8, <2>1, <2>2, OnTheWayIs DEF Loses
  <2>3. CASE q = f.to
    BY <1>2, <1>3, <1>7, <1>8, <2>1, <2>3, OnTheWayIs
  <2>4. CASE q # n /\ q # f.to
    BY <1>8, <2>1, <2>4, OnTheWayIs
  <2>. QED
    BY <2>2, <2>3, <2>4
<1>. QED
  BY <1>9, <1>10

\* Sending, receiving, giving up: the transport only loses.
LEMMA RadioLoses ==
  ASSUME AllGood, NEW n \in Node, RadioStep(n) PROVE AllGood' /\ OnTheWay' \subseteq OnTheWay
<1>. DEFINE s == enow[n]
<1>1. Good(n, s)
  BY DEF AllGood
<1>2. CASE TakeEntry(n)
  <2>. DEFINE e == Head(s.sendq)
              t == [s EXCEPT !.sendq = Tail(@), !.next_id = (@ + 1) % MaxId,
                     !.task = IF e.dest = {} THEN <<>>
                              ELSE <<[msg |-> e.msg, dest |-> e.dest, id |-> s.next_id, frag |-> 0]>>]
  <2>1. s.task = <<>> /\ s.sendq # <<>> /\ enow' = [enow EXCEPT ![n] = t]
    BY <1>2 DEF TakeEntry
  <2>2. Loses(n, s, t)
    BY <1>1, <2>1, TakeEntryLoses
  <2>. QED
    BY <2>1, <2>2, OneLoses
<1>3. CASE SkipOffline(n) \/ Abandon(n)
  <2>. DEFINE t == [s EXCEPT !.task = NextPeer(Head(s.task))]
  <2>1. s.task # <<>>
    BY <1>3 DEF SkipOffline, Abandon
  <2>2. enow' = [enow EXCEPT ![n] = t]
    BY <1>3 DEF SkipOffline, Abandon
  <2>3. Loses(n, s, t)
    BY <1>1, <2>1, NextPeerLoses
  <2>. QED
    BY <2>2, <2>3, OneLoses
<1>4. CASE SendFrame(n)
  <2>. DEFINE k == Head(s.task)
              t == [s EXCEPT !.credit = @ - 1, !.task = NextFrame(k),
                     !.sending = Append(@, [to |-> Peer(k), id |-> k.id,
                                            frag |-> k.frag, msg |-> k.msg])]
  <2>1. s.task # <<>> /\ s.credit > 0 /\ enow' = [enow EXCEPT ![n] = t]
    BY <1>4 DEF SendFrame
  <2>2. Loses(n, s, t)
    BY <1>1, <2>1, SendFrameLoses
  <2>. QED
    BY <2>1, <2>2, OneLoses
<1>5. CASE BackOnline(n)
  <2>1. enow' = [enow EXCEPT ![n] = [s EXCEPT !.offline = {}]]
    BY <1>5 DEF BackOnline
  <2>. QED
    BY <1>1, <2>1, OnlineLoses, OneLoses
<1>6. CASE Transmit(n)
  BY <1>6, TransmitLoses
<1>. QED
  BY <1>2, <1>3, <1>4, <1>5, <1>6 DEF RadioStep, SendTask

\* A crash loses what the replica had.
LEMMA CrashLoses ==
  ASSUME AllGood, NEW p \in Node, enow' = [enow EXCEPT ![p] = EnowInit]
  PROVE  AllGood' /\ OnTheWay' \subseteq OnTheWay
<1>1. Loses(p, enow[p], EnowInit)
  BY InitGood DEF Loses
<1>. QED
  BY <1>1, OneLoses

\* A New_key that is queued is on its way to all, one that is not is lost.
LEMMA BroadcastSends ==
  ASSUME RInv, NEW p \in Replica, Broadcast(p)
  PROVE  /\ RInv'
         /\ \E failed \in SUBSET Keys!From(p) : Keys!SendNewKey(p, failed)
<1>1. PICK failed \in SUBSET Keys!ToDraw(p) : \E signed \in BOOLEAN :
        /\ Keys!Draw(p, failed)
        /\ enow' = IF signed /\ Keys!SlotsOf(p, out') # {}
                   THEN [enow EXCEPT ![p] = Enqueue(@, NewKey(p, out'), Replica \ {p})] ELSE enow
        /\ stamp' = (stamp + 1) % MaxStamp
        /\ restarts' = restarts
  BY DEF Broadcast
<1>2. PICK signed \in BOOLEAN :
        /\ Keys!Draw(p, failed)
        /\ enow' = IF signed /\ Keys!SlotsOf(p, out') # {}
                   THEN [enow EXCEPT ![p] = Enqueue(@, NewKey(p, out'), Replica \ {p})] ELSE enow
        /\ stamp' = (stamp + 1) % MaxStamp
        /\ restarts' = restarts
  BY <1>1
<1>3. failed \in SUBSET Keys!From(p) /\ p \in Node
  BY SpeakerAssumption DEF Keys!ToDraw
<1>4. out' \in [Keys!Pair -> Nat] /\ made' \in [Keys!Pair -> Nat]
  <2>. DEFINE drawn == Keys!ToDraw(p) \ failed
  <2>1. /\ out' = [x \in Keys!Pair |-> IF x \in drawn THEN made[x] + 1 ELSE out[x]]
        /\ made' = [x \in Keys!Pair |-> IF x \in drawn THEN made[x] + 1 ELSE made[x]]
    BY <1>2 DEF Keys!Draw
  <2>. HIDE DEF drawn
  <2>. QED
    BY <2>1 DEF RInv
<1>5. stamp' \in 0 .. MaxStamp - 1 /\ restarts' \in 0 .. MaxRestarts
  BY <1>2, SpeakerAssumption DEF RInv
<1>. DEFINE m == NewKey(p, out')
            slots == Keys!SlotsOf(p, out')
<1>6. m \in Message /\ m.slots = slots /\ \A x \in slots : x.pair[2] \in Replica \ {p}
  <2>1. \A x \in slots : /\ x \in Slot /\ x.pair[1] = p /\ x.pair[2] \in Replica \ {p}
                         /\ x = [pair |-> x.pair, key |-> out'[x.pair]]
    BY <1>4 DEF Keys!SlotsOf, Keys!From, Keys!Pair, Slot
  <2>2. m = [from |-> p, stamp |-> stamp, slots |-> slots]
    BY DEF NewKey
  <2>3. stamp \in Nat
    BY SpeakerAssumption DEF RInv
  <2>. HIDE DEF slots, m
  <2>4. m \in [from : Replica, stamp : Nat, slots : SUBSET Slot] /\ m.slots = slots /\ m.from = p
    BY <2>1, <2>2, <2>3
  <2>5. \A x, y \in slots : y.pair = x.pair => y = x
    BY <2>1
  <2>6. Proper(m)
    BY <2>1, <2>4, <2>5 DEF Proper
  <2>. QED
    BY <2>1, <2>4, <2>6 DEF Message
<1>. HIDE DEF m
<1>7. CASE enow' = enow
  <2>1. OnTheWay' = OnTheWay
    BY <1>7, OnTheWayNext, OnTheWayIs
  <2>2. AllGood'
    BY <1>7 DEF RInv, AllGood
  <2>3. Keys!SendNewKey(p, failed)
    <3>. HIDE DEF slots
    <3>1. {} \in SUBSET slots /\ OnTheWay' = OnTheWay \union {}
      BY <2>1
    <3>2. \E sent \in SUBSET slots : OnTheWay' = OnTheWay \union sent
      BY <3>1
    <3>. QED
      BY <1>2, <3>2 DEF Keys!SendNewKey, slots
  <2>. QED
    BY <1>3, <1>4, <1>5, <2>2, <2>3 DEF RInv
<1>8. CASE enow' = [enow EXCEPT ![p] = Enqueue(enow[p], m, Replica \ {p})]
  <2>. DEFINE t == Enqueue(enow[p], m, Replica \ {p})
  <2>1. Good(p, enow[p])
    BY <1>3 DEF RInv, AllGood
  <2>2. /\ Good(p, t)
        /\ \/ \A x : Carried(x, p, t) <=> Carried(x, p, enow[p])
           \/ \A x : Carried(x, p, t) <=>
                Carried(x, p, enow[p]) \/ (x \in m.slots /\ x.pair[2] \in Replica \ {p})
    BY <1>6, <2>1, EnqueueGood
  <2>. HIDE DEF t
  <2>3. /\ enow'[p] = t /\ (\A q \in Node : q # p => enow'[q] = enow[q])
        /\ enow' = [q \in Node |-> enow'[q]]
    <3>1. enow = [q \in Node |-> enow[q]]
      BY DEF RInv, AllGood
    <3>. QED
      BY <1>3, <1>8, <3>1 DEF t
  <2>4. AllGood'
    BY <2>2, <2>3 DEF RInv, AllGood
  <2>5. OnTheWay' = OnTheWay \/ OnTheWay' = OnTheWay \union slots
    <3>1. CASE \A x : Carried(x, p, t) <=> Carried(x, p, enow[p])
      <4>1. \A x : x \in OnTheWay' <=> x \in OnTheWay
        BY <2>3, <3>1, OnTheWayIs, OnTheWayNext
      <4>. QED
        BY <4>1
    <3>2. CASE \A x : Carried(x, p, t) <=>
                 Carried(x, p, enow[p]) \/ (x \in m.slots /\ x.pair[2] \in Replica \ {p})
      <4>1. \A x : Carried(x, p, t) <=> Carried(x, p, enow[p]) \/ x \in slots
        BY <1>6, <3>2
      <4>. HIDE DEF slots
      <4>2. \A x : x \in OnTheWay' <=> x \in OnTheWay \/ x \in slots
        BY <1>3, <2>3, <4>1, OnTheWayIs, OnTheWayNext
      <4>. QED
        BY <4>2
    <3>. QED
      BY <2>2, <3>1, <3>2
  <2>6. \E sent \in SUBSET slots : OnTheWay' = OnTheWay \union sent
    <3>. HIDE DEF slots
    <3>1. {} \in SUBSET slots /\ slots \in SUBSET slots /\ OnTheWay = OnTheWay \union {}
      OBVIOUS
    <3>. QED
      BY <2>5, <3>1
  <2>7. Keys!SendNewKey(p, failed)
    BY <1>2, <2>6 DEF Keys!SendNewKey
  <2>. QED
    BY <1>3, <1>4, <1>5, <2>4, <2>7 DEF RInv
<1>. QED
  BY <1>2, <1>7, <1>8 DEF m

\* The message at the head of the queue is taken; of what it carried nothing
\* else was in a slot for the same pair.
LEMMA HandleTakes ==
  ASSUME RInv, NEW q \in Replica, Handle(q)
  PROVE  /\ RInv'
         /\ \/ Keys!Lose
            \/ \E m \in OnTheWay : \E e \in Keys!Outcomes(in[m.pair], m.key) : Keys!HandleNewKey(m, e)
<1>. DEFINE s == enow[q]
            parts == Head(s.msgq)
            mine == IF Whole(parts) THEN For(q, parts[0]) ELSE {}
<1>1. q \in Node /\ Good(q, s) /\ s.msgq # <<>>
  BY SpeakerAssumption DEF RInv, AllGood, Handle
<1>2. enow' = [enow EXCEPT ![q] = Popped(s)] /\ stamp' = stamp /\ restarts' = restarts
  BY DEF Handle
<1>3. Loses(q, s, Popped(s))
  BY <1>1, PoppedLoses
<1>4. AllGood' /\ OnTheWay' \subseteq OnTheWay
  BY <1>1, <1>2, <1>3, OneLoses DEF RInv
<1>5. \/ UNCHANGED keyVars
      \/ \E m \in mine : \E e \in Keys!Outcomes(in[m.pair], m.key) : Keys!Install(m, e)
  BY DEF Handle, keyVars
<1>6. CASE UNCHANGED keyVars
  <2>1. RInv'
    BY <1>2, <1>4, <1>6 DEF RInv, keyVars
  <2>2. Keys!Lose
    BY <1>4, <1>6 DEF Keys!Lose, keyVars
  <2>. QED
    BY <2>1, <2>2
<1>7. ASSUME NEW m \in mine, NEW e \in Keys!Outcomes(in[m.pair], m.key), Keys!Install(m, e)
      PROVE  RInv' /\ m \in OnTheWay /\ Keys!HandleNewKey(m, e)
  <2>1. RInv'
    BY <1>2, <1>4, <1>7 DEF RInv, Keys!Install
  <2>2. /\ parts \in Complete
        /\ \A x : x.pair[2] = q /\ (\E k \in Frag : x \in parts[k].slots) => Carried(x, q, s)
        /\ \A x : Carried(x, q, s) => Carried(x, q, Popped(s))
                      \/ (x.pair[2] = q /\ \E k \in Frag : x \in parts[k].slots)
    BY <1>1, PoppedLoses
  <2>3. Whole(parts) /\ m \in For(q, parts[0])
    OBVIOUS
  <2>. HIDE DEF parts
  <2>4. /\ parts[0] \in Message /\ \A k \in Frag : parts[k] = parts[0]
        /\ m \in parts[0].slots /\ m.pair[2] = q
    BY <2>2, <2>3, Numbers DEF Complete, Whole, For
  <2>5. m \in OnTheWay
    BY <1>1, <2>2, <2>4, Numbers, OnTheWayIs
  <2>6. ASSUME NEW x \in OnTheWay, x \notin OnTheWay' PROVE x = m
    <3>1. enow'[q] = Popped(s) /\ \A r \in Node : r # q => enow'[r] = enow[r]
      BY <1>1, <1>2 DEF RInv, AllGood
    <3>2. ~Carried(x, q, Popped(s)) /\ \A r \in Node : r # q => ~Carried(x, r, enow[r])
      BY <1>1, <2>6, <3>1, OnTheWayNext
    <3>3. Carried(x, q, s)
      BY <2>6, <3>2, OnTheWayIs
    <3>4. x.pair[2] = q /\ x \in parts[0].slots
      BY <2>2, <2>4, <3>2, <3>3
    <3>5. /\ x \in Slot /\ m \in Slot /\ x.pair[1] = m.pair[1]
          /\ \A y \in parts[0].slots : y.pair = m.pair => y = m
      BY <2>4, <3>4 DEF Message, Proper
    <3>6. x.pair = m.pair
      BY <2>4, <3>4, <3>5 DEF Slot, Keys!Pair
    <3>. QED
      BY <3>4, <3>5, <3>6
  <2>7. OnTheWay' = OnTheWay \/ OnTheWay' = OnTheWay \ {m}
    BY <1>4, <2>6
  <2>8. Keys!HandleNewKey(m, e)
    BY <1>7, <2>5, <2>7 DEF Keys!HandleNewKey
  <2>. QED
    BY <2>1, <2>5, <2>8
<1>. HIDE DEF mine
<1>. QED
  BY <1>5, <1>6, <1>7

-----------------------------------------------------------------------------
(* The network of KeyExchange *)

LEMMA Starts == ROInit => RInv /\ Keys!Init
<1>. SUFFICES ASSUME ROInit PROVE RInv /\ Keys!Init
  OBVIOUS
<1>1. enow = [n \in Node |-> EnowInit]
  BY DEF ROInit, RadioInit
<1>2. AllGood
  BY <1>1, InitGood DEF AllGood
<1>3. OnTheWay = {}
  BY <1>1, InitGood, OnTheWayIs
<1>4. /\ out = [x \in Keys!Pair |-> Keys!NoKey] /\ in = [x \in Keys!Pair |-> Keys!NoIn]
      /\ made = [x \in Keys!Pair |-> 0] /\ past = [x \in Keys!Pair |-> 0]
      /\ stamp = 0 /\ restarts = 0
  BY DEF ROInit
<1>5. RInv
  BY <1>2, <1>4, SpeakerAssumption DEF RInv, Keys!NoKey
<1>. QED
  BY <1>3, <1>4, <1>5 DEF Keys!Init

LEMMA Steps == RInv /\ [RONext]_vars => RInv' /\ [Keys!Next]_Keys!keyVars
<1>. SUFFICES ASSUME RInv, [RONext]_vars PROVE RInv' /\ [Keys!Next]_Keys!keyVars
  OBVIOUS
<1>1. ASSUME NEW p \in Replica, Broadcast(p) PROVE RInv' /\ Keys!Next
  BY <1>1, BroadcastSends DEF Keys!Next
<1>2. ASSUME NEW q \in Replica, Handle(q) PROVE RInv' /\ Keys!Next
  BY <1>2, HandleTakes DEF Keys!Next
<1>3. ASSUME NEW n \in Replica, Radio(n) PROVE RInv' /\ Keys!Next
  <2>1. RadioStep(n) /\ UNCHANGED <<out, in, made, past, stamp, restarts>> /\ n \in Node
    BY <1>3, SpeakerAssumption DEF Radio, keyVars
  <2>2. AllGood' /\ OnTheWay' \subseteq OnTheWay
    BY <2>1, RadioLoses DEF RInv
  <2>. QED
    BY <2>1, <2>2 DEF RInv, Keys!Next, Keys!Lose
<1>4. ASSUME NEW p \in Replica, Crash(p) PROVE RInv' /\ Keys!Next
  <2>1. /\ restarts < MaxRestarts /\ restarts' = restarts + 1 /\ stamp' = stamp
        /\ Keys!Forget(p) /\ enow' = [enow EXCEPT ![p] = EnowInit] /\ p \in Node
    BY <1>4, SpeakerAssumption DEF Crash
  <2>2. AllGood' /\ OnTheWay' \subseteq OnTheWay
    BY <2>1, CrashLoses DEF RInv
  <2>3. /\ out' = [x \in Keys!Pair |-> IF x \in Keys!From(p) THEN Keys!NoKey ELSE out[x]]
        /\ made' = made
    BY <2>1 DEF Keys!Forget
  <2>4. out' \in [Keys!Pair -> Nat]
    BY <2>3 DEF RInv, Keys!NoKey
  <2>5. restarts' \in 0 .. MaxRestarts
    BY <2>1, SpeakerAssumption DEF RInv
  <2>. QED
    BY <2>1, <2>2, <2>3, <2>4, <2>5 DEF RInv, Keys!Next, Keys!Restart
<1>5. CASE UNCHANGED vars
  <2>1. /\ UNCHANGED <<out, in, made, past, stamp, restarts>> /\ enow' = enow
    BY <1>5 DEF vars, keyVars, radioVars
  <2>2. OnTheWay' = OnTheWay
    BY <2>1, OnTheWayNext, OnTheWayIs
  <2>. QED
    BY <2>1, <2>2 DEF RInv, AllGood, Keys!keyVars
<1>. QED
  BY <1>1, <1>2, <1>3, <1>4, <1>5 DEF RONext

\* Every node's queues, slots and credits keep their limits, and what is on
\* its way is typed, whatever is sent, lost, repeated or forgotten.
THEOREM RadioInvariant == ROSpec => []RInv
<1>1. ROInit => RInv
  BY Starts
<1>2. RInv /\ [RONext]_vars => RInv'
  BY Steps
<1>. QED
  BY <1>1, <1>2, PTL DEF ROSpec

\* The transport with its frames, credits, slots, callbacks and crashes is a
\* network as KeyExchange allows it: it loses, delays and repeats the slots of
\* New_keys, and makes none up, whatever parts meet in a slot.
THEOREM Refinement == ROSpec => ImplementsKeyExchange
<1>1. ROInit => Keys!Init
  BY Starts
<1>2. RInv /\ [RONext]_vars => [Keys!Next]_Keys!keyVars
  BY Steps
<1>. QED
  BY <1>1, <1>2, RadioInvariant, PTL DEF ROSpec, ImplementsKeyExchange, Keys!Spec

\* A frame holds its credit from esp_now_send to its callback, and no credit
\* is lost or given twice: the counting semaphore never runs dry for good.
THEOREM NoCreditLost == ROSpec => []CreditsReturned
<1>1. RInv => CreditsReturned
  BY DEF RInv, AllGood, Good, CreditsReturned
<1>. QED
  BY <1>1, RadioInvariant, PTL

-----------------------------------------------------------------------------
(* What KeyExchange promises *)

LEMMA SameNext == Keys!Next => KeyTheorems!Next
BY DEF Keys!Next, Keys!Pair, Keys!From, Keys!To, Keys!NoKey, Keys!NoIn, Keys!Installed,
  Keys!NotImported, Keys!NotTested, Keys!Known, Keys!Outcomes, Keys!ToDraw, Keys!SlotsOf,
  Keys!Draw, Keys!Install, Keys!Forget, Keys!SendNewKey, Keys!HandleNewKey, Keys!Lose, Keys!Restart,
  KeyTheorems!Next, KeyTheorems!Pair, KeyTheorems!From, KeyTheorems!To, KeyTheorems!NoKey,
  KeyTheorems!NoIn, KeyTheorems!Installed, KeyTheorems!NotImported, KeyTheorems!NotTested,
  KeyTheorems!Known, KeyTheorems!Outcomes, KeyTheorems!ToDraw, KeyTheorems!SlotsOf,
  KeyTheorems!Draw, KeyTheorems!Install, KeyTheorems!Forget, KeyTheorems!SendNewKey,
  KeyTheorems!HandleNewKey, KeyTheorems!Lose, KeyTheorems!Restart

LEMMA SameInit == Keys!Init => KeyTheorems!Init
BY DEF KeyTheorems!Init, Keys!Init, KeyTheorems!NoKey, Keys!NoKey, KeyTheorems!NoIn, Keys!NoIn,
  KeyTheorems!Pair, Keys!Pair

LEMMA SameSpec == ROSpec => KeyTheorems!Spec
<1>1. [Keys!Next]_Keys!keyVars => [KeyTheorems!Next]_KeyTheorems!keyVars
  BY SameNext DEF KeyTheorems!keyVars, Keys!keyVars
<1>. QED
  BY <1>1, SameInit, Refinement, PTL DEF KeyTheorems!Spec, Keys!Spec, ImplementsKeyExchange

\* A key that a receiver holds is the one its sender uses, or from before the
\* sender's last restart, over this transport.
THEOREM KeysMatchHere == ROSpec => []KeysShared
<1>1. KeyTheorems!KeysShared <=> KeysShared
  BY DEF KeyTheorems!KeysShared, Keys!KeysShared, KeyTheorems!Pair, Keys!Pair, KeysShared
<1>. QED
  BY <1>1, KeyTheorems!KeysMatch, SameSpec, PTL

\* Type correctness: the keys, the slots on their way, and the limits of the
\* queues, the slots and the credits.
THEOREM RadioTyped == ROSpec => []ROTypeOK
<1>1. KeyTheorems!KeysTypeOK <=> Keys!KeysTypeOK
  BY DEF KeyTheorems!KeysTypeOK, Keys!KeysTypeOK, KeyTheorems!InState, Keys!InState,
    KeyTheorems!Pair, Keys!Pair, KeyTheorems!NoKey, Keys!NoKey
<1>2. RInv => RadioTypeOK
  <2>. SUFFICES ASSUME RInv, NEW n \in Node
       PROVE  LET s == enow[n] IN
              /\ Len(s.sendq) <= SendDepth /\ Len(s.msgq) <= RecvDepth /\ Len(s.task) <= 1
              /\ Len(s.reasm) <= Slots /\ s.credit \in 0 .. Credits /\ s.next_id \in 0 .. MaxId - 1
              /\ s.offline \subseteq Node /\ Distinct(s.reasm)
    BY DEF RadioTypeOK, Distinct
  <2>. DEFINE s == enow[n]
  <2>1. Good(n, s)
    BY DEF RInv, AllGood
  <2>2. /\ s.credit \in Int /\ Len(s.sending) \in Nat /\ s.offline \in SUBSET Node /\ s.next_id \in Id
    BY <2>1, FieldTypes DEF Good
  <2>3. s.credit \in 0 .. Credits
    BY <2>1, <2>2, Numbers DEF Good
  <2>. QED
    BY <2>1, <2>2, <2>3 DEF Good, Id
<1>3. RInv => stamp \in 0 .. MaxStamp - 1 /\ restarts \in 0 .. MaxRestarts
  BY DEF RInv
<1>. QED
  BY <1>1, <1>2, <1>3, KeyTheorems!KeysTyped, RadioInvariant, SameSpec, PTL DEF ROTypeOK
=============================================================================
