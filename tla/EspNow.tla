------------------------------- MODULE EspNow -------------------------------
(***************************************************************************)
(* The ESP-NOW transport (tbft_transport_espnow.c): messages are cut into  *)
(* frames, frames are sent under a limited number of credits that the      *)
(* driver's callback gives back, and put together in a few slots.          *)
(*                                                                         *)
(* The send task, the two callbacks in the WiFi task and the replica's     *)
(* task interleave.  A slot is free as soon as its message is complete: it *)
(* is marked stale under the lock, and every path clears the stale slots   *)
(* before it looks for one.  Shutting down is left out; a crash is not.    *)
(***************************************************************************)
EXTENDS Integers, Sequences

CONSTANTS
  Node,
  Parts,       \* frames of a message
  Credits,     \* ESPNOW_TX_CREDITS
  Slots,       \* REASM_MAX_SLOTS
  SendDepth,   \* SEND_QUEUE_DEPTH
  RecvDepth,   \* MSG_QUEUE_DEPTH
  MaxId,       \* message ids wrap here, 2^16 in the code (bound)
  MaxTrouble   \* what may go wrong on the way (bound)

ASSUME RadioAssumption ==
  /\ Node \subseteq Nat
  /\ {Parts, Credits, Slots, SendDepth, RecvDepth, MaxId} \subseteq Nat \ {0}
  /\ MaxTrouble \in Nat

VARIABLES
  enow,    \* [Node -> tbft_espnow_t]; see EnowInit
  trouble  \* what went wrong
radioVars == <<enow, trouble>>

\* tbft_transport_create.  sending is what the driver has accepted and not yet
\* called back for, which it does in order; reasm lists the valid slots, the
\* least recently used first.
EnowInit ==
  [sendq |-> <<>>, task |-> <<>>, credit |-> Credits, sending |-> <<>>, offline |-> {},
   next_id |-> 1 % MaxId, reasm |-> <<>>, msgq |-> <<>>]

RadioInit == enow = [n \in Node |-> EnowInit] /\ trouble = 0

Trouble(n) == trouble' = trouble + n /\ trouble' <= MaxTrouble

-----------------------------------------------------------------------------
(* Sending *)

\* tbft_transport_send; a full queue drops the message.
Enqueue(s, m, dest) ==
  IF Len(s.sendq) < SendDepth THEN [s EXCEPT !.sendq = Append(@, [msg |-> m, dest |-> dest])] ELSE s

\* espnow_send_task serves the peers of a broadcast in order, with one id.
Peer(t) == CHOOSE q \in t.dest : \A p \in t.dest : q <= p

\* The task when it is through with a peer.
NextPeer(t) ==
  IF t.dest = {Peer(t)} THEN <<>> ELSE <<[t EXCEPT !.dest = @ \ {Peer(t)}, !.frag = 0]>>

NextFrame(t) == IF t.frag + 1 < Parts THEN <<[t EXCEPT !.frag = @ + 1]>> ELSE NextPeer(t)

TakeEntry(n) ==
  LET s == enow[n]
      e == Head(s.sendq)
  IN  /\ s.task = <<>> /\ s.sendq # <<>>
      /\ enow' = [enow EXCEPT ![n] =
           [s EXCEPT !.sendq = Tail(@), !.next_id = (@ + 1) % MaxId,
                     !.task = IF e.dest = {} THEN <<>>
                              ELSE <<[msg |-> e.msg, dest |-> e.dest, id |-> s.next_id, frag |-> 0]>>]]
      /\ UNCHANGED trouble

\* espnow_do_send to a peer that failed less than a second ago.
SkipOffline(n) ==
  LET s == enow[n]
      t == Head(s.task)
  IN  /\ s.task # <<>> /\ t.frag = 0 /\ Peer(t) \in s.offline
      /\ enow' = [enow EXCEPT ![n].task = NextPeer(t)]
      /\ UNCHANGED trouble

\* A frame that the driver accepts, perhaps at the second try.
SendFrame(n) ==
  LET s == enow[n]
      t == Head(s.task)
  IN  /\ s.task # <<>> /\ s.credit > 0
      /\ ~(t.frag = 0 /\ Peer(t) \in s.offline)
      /\ enow' = [enow EXCEPT ![n] =
           [s EXCEPT !.credit = @ - 1, !.task = NextFrame(t),
                     !.sending = Append(@, [to |-> Peer(t), id |-> t.id,
                                            frag |-> t.frag, msg |-> t.msg])]]
      /\ UNCHANGED trouble

\* No credit within 300 ms, or the driver refuses a frame twice: the rest of
\* the message is not sent to this peer.
Abandon(n) ==
  LET t == Head(enow[n].task)
  IN  /\ enow[n].task # <<>>
      /\ enow' = [enow EXCEPT ![n].task = NextPeer(t)]
      /\ Trouble(1)

\* A second has passed.
BackOnline(n) ==
  /\ enow[n].offline # {}
  /\ enow' = [enow EXCEPT ![n].offline = {}]
  /\ UNCHANGED trouble

-----------------------------------------------------------------------------
(* Receiving *)

Without(q, i) == SubSeq(q, 1, i - 1) \o SubSeq(q, i + 1, Len(q))

\* Frames of what is in a slot are still to come from n.
Unfinished(n, q, slot) ==
  \/ \E i \in 1 .. Len(enow[n].sending) :
       enow[n].sending[i].to = q /\ enow[n].sending[i].id = slot.id
  \/ \E i \in 1 .. Len(enow[n].task) : q \in enow[n].task[i].dest /\ enow[n].task[i].id = slot.id

\* The slots of q that may be older than 5 s.
TimedOut(q) ==
  {i \in 1 .. Len(enow[q].reasm) : ~Unfinished(enow[q].reasm[i].from, q, enow[q].reasm[i])}

\* reasm_find_or_alloc for a message it does not know: a free slot, one that
\* timed out, or the oldest.
Allocations(q) ==
  LET old == enow[q].reasm
  IN  {Without(old, i) : i \in TimedOut(q)} \union (IF Len(old) < Slots THEN {old} ELSE {Tail(old)})

Matches(slot, n, f) == slot.id = f.id /\ slot.from = n

\* reasm_feed: the slots and the message queue of q with part f.frag, given the
\* other slots and the parts that are there.  A full queue drops the message.
Feed(q, n, f, others, parts) ==
  LET got == [k \in DOMAIN parts \union {f.frag} |-> IF k = f.frag THEN f.msg ELSE parts[k]]
      s   == enow[q]
  IN  IF f.frag \in DOMAIN parts THEN s
      ELSE IF DOMAIN got # 0 .. Parts - 1
      THEN [s EXCEPT !.reasm = Append(others, [id |-> f.id, from |-> n, parts |-> got])]
      ELSE [s EXCEPT !.reasm = others,
                     !.msgq = IF Len(@) < RecvDepth THEN Append(@, got) ELSE @]

\* espnow_recv_cb of frame f from n.
Receive(q, n, f) ==
  LET known == {i \in 1 .. Len(enow[q].reasm) : Matches(enow[q].reasm[i], n, f)}
  IN  IF known # {}
      THEN {Feed(q, n, f, Without(enow[q].reasm, i), enow[q].reasm[i].parts) : i \in known}
      ELSE {Feed(q, n, f, others, << >>) : others \in Allocations(q)}

\* Mutant of SendDone: the credit of a frame that failed is not given back.
SendDoneIfOk(s, f, ok) ==
  [s EXCEPT !.sending = Tail(@), !.credit = IF ok THEN @ + 1 ELSE @,
            !.offline = IF ok THEN @ \ {f.to} ELSE @ \union {f.to}]

\* espnow_send_cb.
SendDone(s, f, ok) ==
  [s EXCEPT !.sending = Tail(@), !.credit = @ + 1,
            !.offline = IF ok THEN @ \ {f.to} ELSE @ \union {f.to}]

\* The driver sends a frame and calls back on both sides.  Frame and
\* acknowledgement may be lost, and the receiver's callback may be too late to
\* get the lock.
Transmit(n) ==
  \E arrives \in BOOLEAN, ok \in BOOLEAN :
    LET f == Head(enow[n].sending) IN
    /\ enow[n].sending # <<>>
    /\ \E t \in IF arrives THEN Receive(f.to, n, f) ELSE {enow[f.to]} :
         enow' = [enow EXCEPT ![n] = SendDone(@, f, ok), ![f.to] = t]
    /\ Trouble(IF arrives /\ ok THEN 0 ELSE 1)

\* tbft_transport_recv takes the head of the message queue.
Popped(s) == [s EXCEPT !.msgq = Tail(@)]

SendTask(n) == TakeEntry(n) \/ SkipOffline(n) \/ SendFrame(n)

RadioStep(n) == SendTask(n) \/ Abandon(n) \/ BackOnline(n) \/ Transmit(n)

-----------------------------------------------------------------------------
(* Properties *)

\* The queues, the slots and the credits keep their limits, and no two slots
\* are for one message.
RadioTypeOK ==
  \A n \in Node :
    LET s == enow[n] IN
    /\ Len(s.sendq) <= SendDepth /\ Len(s.msgq) <= RecvDepth /\ Len(s.task) <= 1
    /\ Len(s.reasm) <= Slots /\ s.credit \in 0 .. Credits /\ s.next_id \in 0 .. MaxId - 1
    /\ s.offline \subseteq Node
    /\ \A i, j \in 1 .. Len(s.reasm) :
         s.reasm[i].id = s.reasm[j].id /\ s.reasm[i].from = s.reasm[j].from => i = j

\* Comment at ESPNOW_CREDITS_PER_CLUSTER: a frame holds one credit from
\* esp_now_send to its callback, however the task and the callback interleave;
\* none is lost and the driver never has more frames than credits.
CreditsReturned ==
  \A n \in Node : enow[n].credit + Len(enow[n].sending) = Credits
=============================================================================
