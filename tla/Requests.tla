------------------------------ MODULE Requests ------------------------------
(***************************************************************************)
(* The way of a request: from a client (tbft_libbyz.c) through forwarding, *)
(* the primary's queues, a Pre_prepare and execution to a reply, with the  *)
(* view-change timer that watches over it and the gap fill of the run loop *)
(* (tbft_replica.c).                                                       *)
(*                                                                         *)
(* Agreement on a slot is module Agreement's: here a slot runs once 2F+1   *)
(* replicas hold its Pre_prepare.  View changes are module ViewChange's:   *)
(* here a primary installs its view when 2F+1 replicas have asked for one. *)
(***************************************************************************)
EXTENDS Integers, Sequences, FiniteSets

CONSTANTS
  N, F,
  Client,
  ReadOnly,           \* the clients that mark their requests read-only
  None,
  QueueMax,           \* TBFT_RQUEUE_MAX
  WindowSize,
  CheckpointInterval,
  Hears,              \* replicas that the broadcast of each request reaches (bound)
  Faulty,             \* replicas that vote, and answer anything; no other step is theirs
  MaxRid,             \* attempts of a client (bound)
  MaxView,            \* highest view (bound)
  MaxSeqno,           \* highest sequence number (bound)
  MaxLost,            \* Pre_prepares the network loses (bound)
  MaxTrouble,         \* how often each replica's keys thwart a View_change (bound)
  Idle,               \* replicas that do nothing but vote (bound)
  Patient             \* replicas whose timers do not expire (bound)

Replica == 0 .. N - 1
Seqno   == 1 .. MaxSeqno
View    == 0 .. MaxView
Request == Client \X (1 .. MaxRid)
Slot    == [req : Request, view : View]

ASSUME SizeAssumption ==
  /\ N \in Nat /\ F \in Nat \ {0} /\ N >= 3 * F + 1
  /\ QueueMax \in Nat \ {0} /\ WindowSize \in Nat \ {0} /\ CheckpointInterval \in Nat \ {0}
  /\ MaxRid \in Nat \ {0} /\ MaxView \in Nat /\ MaxSeqno \in Nat \ {0}
  /\ MaxLost \in Nat 
ASSUME PartsAssumption ==
  /\ ReadOnly \subseteq Client /\ Hears \in [Request -> SUBSET Replica]
  /\ MaxTrouble \in [Replica -> Nat]
  /\ Patient \subseteq Replica /\ Idle \subseteq Replica
  /\ Faulty \subseteq Replica /\ Cardinality(Faulty) <= F
  /\ None \notin Request \union Slot

VARIABLES
  replica,   \* what a replica keeps; see InitState
  client,    \* [rid, waiting, got]: s_replies as the sequence number in each
  asked,     \* Requests on their way
  replies,   \* Replies sent; they arrive late, twice or never
  history,   \* the request executed at each sequence number
  lost       \* how many Pre_prepares the network has lost
vars == <<replica, client, asked, replies, history, lost>>

Quorum == 2 * F + 1
Larger(a, b) == IF a > b THEN a ELSE b
Largest(S) == CHOOSE x \in S : \A y \in S : x >= y
Primary(v) == v % N

\* The correct replicas followed here.
Live == Replica \ (Faulty \union Idle)

-----------------------------------------------------------------------------
(* The state of a replica *)

InitState ==
  [view |-> 0, changing |-> FALSE, asks |-> FALSE, stranded |-> FALSE, trouble |-> 0,
   vtimer |-> FALSE, fired |-> FALSE, start |-> 0,
   rqueue |-> <<>>, ro_rqueue |-> <<>>, assigned |-> None,
   received |-> [c \in Client |-> 0], forwarded |-> [c \in Client |-> 0],
   done |-> [c \in Client |-> 0],
   seqno |-> 1, slot |-> [n \in Seqno |-> None], executed |-> 0, stable |-> 0, fill |-> 0]

Init ==
  /\ replica = [r \in Replica |-> InitState]
  /\ client = [c \in Client |-> [rid |-> 0, waiting |-> FALSE, got |-> <<>>]]
  /\ asked = {} /\ replies = {} /\ lost = 0
  /\ history = [n \in Seqno |-> None]

\* tbft_replica_has_pending_requests.
Pending(r, s) ==
  \/ s.changing
  \/ \E c \in Client :
       (IF Primary(s.view) = r THEN s.received[c] ELSE s.forwarded[c]) > s.done[c]

\* Start the timer if there is something to wait for, stop it if not.
Timed(r, s) == [s EXCEPT !.vtimer = Pending(r, s), !.stranded = FALSE]

InWindow(s, n) == s.stable < n /\ n <= s.stable + WindowSize

\* tbft_prepared_cert_add_pp: the slot keeps its first request.
Accepts(s, n, pp) ==
  s.slot[n] = None \/ (s.slot[n].req = pp.req /\ s.slot[n].view < pp.view)

\* What every way into a later view does to the bookkeeping of requests.
MoveTo(r, s, v) ==
  Timed(r, [s EXCEPT !.view = v, !.start = s.executed, !.forwarded = s.done])

\* All but the View_change that is too late to be collected end in_progress.
EnterView(r, s, v) == MoveTo(r, [s EXCEPT !.changing = FALSE, !.asks = FALSE], v)

\* tbft_replica_send_view_change to its end: broadcast, and timed.
Sent(s) == [s EXCEPT !.changing = TRUE, !.asks = TRUE, !.vtimer = TRUE, !.stranded = FALSE]

\* It cannot sign: in_progress is set by then, and the timer is left as it is.
\* "stranded" remembers a replica that this leaves without one.
Unsigned(s) == [s EXCEPT !.changing = TRUE, !.stranded = ~(s.vtimer \/ s.fired)]

\* Mutant of PutOff: the one-shot timer is not started again.
PutOffUntimed(s) == s

\* It suppresses itself, and is tried again when the timer expires.
PutOff(s) == [s EXCEPT !.vtimer = TRUE, !.stranded = FALSE]

\* On a fresh boot it does so, for 90 s at most.
Fresh(s) == s.stable = 0 /\ s.executed = 0 /\ s.view < 3

\* Counts what MaxTrouble bounds.
Troubled(s) == [s EXCEPT !.trouble = @ + 1]

\* What comes of a call after that: a message, or trouble with keys, stale (20
\* MACs failed in a row) or not fit to sign with.
Attempt(r, s) ==
  {Sent(s)} \union {t \in {Troubled(Unsigned(s)), Troubled(PutOff(s))} : s.trouble < MaxTrouble[r]}

SendViewChange(r, s) == Attempt(r, s) \union {t \in {PutOff(s)} : Fresh(s)}

-----------------------------------------------------------------------------
(* The primary *)

\* rqueue is served before ro_rqueue.
Backlog(s) == s.rqueue \o s.ro_rqueue

Pop(s) ==
  IF s.rqueue # <<>> THEN [s EXCEPT !.rqueue = Tail(@)] ELSE [s EXCEPT !.ro_rqueue = Tail(@)]

\* The copy of the request assigned last goes; a queue holds no second one.
DropAssigned(s) == IF Head(Backlog(s)) = s.assigned THEN Pop(s) ELSE s

\* tbft_replica_send_pre_prepare with a queue that is not empty.
SendPrePrepare(r, s) ==
  LET t  == DropAssigned([s EXCEPT !.vtimer = TRUE])
      pp == [req |-> Head(Backlog(t)), view |-> t.view]
  IN IF Backlog(t) = <<>> \/ t.seqno > MaxSeqno \/ ~InWindow(t, t.seqno) THEN t
     ELSE IF Accepts(t, t.seqno, pp)
     THEN Timed(r, [Pop(t) EXCEPT !.slot[t.seqno] = pp, !.assigned = pp.req, !.seqno = @ + 1])
     ELSE [Pop(t) EXCEPT !.assigned = None]

\* tbft_rqueue_push; the queue that is full drops the request.
Enqueue(s, req) ==
  CASE req[1] \in ReadOnly /\ Len(s.ro_rqueue) < QueueMax
         -> [s EXCEPT !.ro_rqueue = Append(@, req)]
    [] req[1] \notin ReadOnly /\ Len(s.rqueue) < QueueMax
         -> [s EXCEPT !.rqueue = Append(@, req)]
    [] OTHER -> s

Queued(s, req) == \E i \in 1 .. Len(Backlog(s)) : Backlog(s)[i] = req

\* tbft_replica_handle_pre_prepare, less the votes.
HandlePrePrepare(r, s, n, pp) ==
  LET t == IF pp.view > s.view THEN EnterView(r, s, pp.view) ELSE s
      u == IF Accepts(t, n, pp)
           THEN [t EXCEPT !.slot[n] = pp, !.seqno = Larger(@, n + 1)] ELSE t
  IN IF pp.view < s.view \/ (pp.view = s.view /\ Primary(pp.view) = r) \/ ~InWindow(s, n)
     THEN s ELSE [u EXCEPT !.received[pp.req[1]] = Larger(@, pp.req[2])]

\* tbft_replica_handle_request at the primary.  Its Pre_prepare reaches some.
OrderRequest(m) ==
  LET r == m.to
      s == replica[r]
      n == s.seqno
      seen == [s EXCEPT !.received[m.req[1]] = Larger(@, m.req[2])]
      queued == Enqueue(seen, m.req)
      t == IF seen.changing \/ Queued(seen, m.req) \/ queued = seen
           THEN seen ELSE SendPrePrepare(r, queued)
  IN /\ r \in Live /\ Primary(s.view) = r
     /\ \E missed \in SUBSET (Replica \ {r}) :
          /\ t.seqno = n => missed = {}
          /\ lost + Cardinality(missed) <= MaxLost
          /\ lost' = lost + Cardinality(missed)
          /\ replica' = [q \in Replica |->
               IF q = r THEN t
               ELSE IF t.seqno = n \/ q \in missed THEN replica[q]
               ELSE HandlePrePrepare(q, replica[q], n, t.slot[n])]
     /\ asked' = asked \ {m}
     /\ UNCHANGED <<client, replies, history>>

\* Mutant of ForwardRequest below: the timer is left alone.
ForwardRequestUntimed(m) ==
  /\ m.to \in Live /\ Primary(replica[m.to].view) # m.to
  /\ replica' = [replica EXCEPT ![m.to].received[m.req[1]] = Larger(@, m.req[2]),
                               ![m.to].forwarded[m.req[1]] = Larger(@, m.req[2])]
  /\ asked' = asked \ {m}
  /\ UNCHANGED <<client, replies, history, lost>>

\* The same handler at a backup: it forwards, and starts the timer once.
ForwardRequest(m) ==
  LET r == m.to
      c == m.req[1]
      s == [replica[r] EXCEPT !.received[c] = Larger(@, m.req[2]),
                              !.forwarded[c] = Larger(@, m.req[2])]
  IN /\ r \in Live /\ Primary(s.view) # r
     /\ replica' = [replica EXCEPT ![r] =
          [s EXCEPT !.vtimer = @ \/ s.forwarded[c] > s.done[c],
                    !.stranded = @ /\ ~(s.forwarded[c] > s.done[c])]]
     /\ asked' = (asked \ {m}) \union {[to |-> Primary(s.view), req |-> m.req, from |-> r]}
     /\ UNCHANGED <<client, replies, history, lost>>

-----------------------------------------------------------------------------
(* Slots *)

Change(r, t) ==
  /\ r \in Live
  /\ replica' = [replica EXCEPT ![r] = t]
  /\ UNCHANGED <<client, asked, replies, history, lost>>

Holds(q, n, req) == replica[q].slot[n] # None /\ replica[q].slot[n].req = req

\* Agreement: with 2F+1 replicas behind it a slot prepares and commits.  Once it
\* has, their votes are there for who holds the same request.
Runs(r, n) ==
  LET pp == replica[r].slot[n]
  IN /\ pp # None
     /\ history[n] = pp.req \/ Quorum <= Cardinality({q \in Replica : Holds(q, n, pp.req)})

\* The newest request of c among those r runs up to k.
Newest(r, k, c) ==
  LET s == replica[r]
  IN Largest({s.done[c]} \union
       {s.slot[n].req[2] : n \in {i \in s.executed + 1 .. k : s.slot[i].req[1] = c}})

\* tbft_replica_execute_committed, from last_executed to the first slot that
\* does not run; with a later one prepared it is the gap to fill.
Execute(r) ==
  LET s == replica[r]
  IN \E k \in s.executed .. MaxSeqno :
       LET gap == \E n \in k + 2 .. MaxSeqno : Runs(r, n)
           t == [s EXCEPT !.executed = k, !.done = [c \in Client |-> Newest(r, k, c)],
                          !.fill = IF gap /\ ~s.changing THEN k + 1 ELSE @]
       IN /\ r \in Live
          /\ \A n \in s.executed + 1 .. k : Runs(r, n)
          /\ k < MaxSeqno => ~Runs(r, k + 1)
          /\ k > s.executed \/ t.fill # s.fill
          /\ replica' = [replica EXCEPT ![r] = Timed(r, t)]
          /\ replies' = replies \union
               {[from |-> r, seqno |-> n, req |-> s.slot[n].req] : n \in s.executed + 1 .. k}
          /\ history' = [n \in Seqno |-> IF n \in s.executed + 1 .. k
                                         THEN s.slot[n].req ELSE history[n]]
          /\ UNCHANGED <<client, asked, lost>>

\* 2F+1 replicas have announced checkpoint n: tbft_replica_mark_stable, or the
\* fetch that brings the state, and not last_executed_rid, of a peer.
Checkpoint(r) ==
  LET s == replica[r]
  IN \E n \in Seqno :
       /\ n % CheckpointInterval = 0 /\ n > s.stable
       /\ Quorum <= Cardinality({q \in Replica : replica[q].executed >= n} \union Faulty)
       /\ Change(r, Timed(r,
            [s EXCEPT !.stable = n, !.executed = Larger(@, n), !.seqno = Larger(@, n + 1),
                      !.slot = [i \in Seqno |-> IF i <= n THEN None ELSE @[i]]]))

\* tbft_replica_handle_fill_request: the primary sends the Pre_prepare again
\* that it holds, if it is in the same view.
Refilled(r) ==
  LET s == replica[r]
      p == Primary(s.view)
  IN IF p \in Live \ {r} /\ replica[p].view = s.view
     THEN {replica[p].slot[s.fill]} \ {None} ELSE {}

\* Layer 1 of the fill: the replica asks for a Pre_prepare it does not have.
RequestFill(r) ==
  LET s == replica[r]
  IN /\ s.fill > s.executed /\ s.slot[s.fill] = None /\ InWindow(s, s.fill)
     /\ \E pp \in Refilled(r) : Change(r, HandlePrePrepare(r, s, s.fill, pp))

\* Layer 2, after 10 s, or the gap has closed: pending_fill_seqno is cleared,
\* a gap that is prepared asks for a view change, unless MACs keep failing.
EndFill(r) ==
  LET s == [replica[r] EXCEPT !.fill = 0]
      n == replica[r].fill
      gap == n > s.executed /\ Runs(r, n) /\ ~s.changing
  IN /\ n > 0
     /\ \E t \in {s} \union {u \in SendViewChange(r, s) : gap} :
          /\ t = s => ~gap \/ s.trouble < MaxTrouble[r]
          /\ Change(r, t)

-----------------------------------------------------------------------------
(* Timers and views *)

\* vtimer_cb sets an event bit, and no start or stop of the timer clears it.
Expire(r) ==
  /\ r \notin Patient /\ replica[r].vtimer
  /\ Change(r, [replica[r] EXCEPT !.vtimer = FALSE, !.fired = TRUE])

\* The run loop finds the bit.
Seen(r) == [replica[r] EXCEPT !.fired = FALSE]

\* With keys of fewer than 2F peers it only starts the timer again.
Keyless(r, s) == {t \in {Troubled(Timed(r, s))} : s.trouble < MaxTrouble[r]}

Timeout(r) ==
  /\ replica[r].fired
  /\ \E t \in SendViewChange(r, Seen(r)) \union Keyless(r, Seen(r)) : Change(r, t)

AskForView(r) == replica[r].fired /\ Change(r, Sent(Seen(r)))

\* 90 s in a view in which nothing was executed.
DeadPrimary(r) ==
  LET s == replica[r]
  IN /\ r \notin Patient /\ Primary(s.view) # r /\ ~s.changing /\ s.executed <= s.start
     /\ \E t \in Attempt(r, s) : Change(r, t)

\* Mutant of Install: it starts at the last sequence number, not after it.
InstallAtLast(p, v) ==
  LET s == replica[p]
      prepared == {n \in Seqno : Runs(p, n)}
  IN /\ Primary(v) = p /\ v > s.view
     /\ Quorum <= Cardinality(Faulty \union {q \in Replica : replica[q].view < v /\ replica[q].asks})
     /\ Change(p, EnterView(p, [s EXCEPT !.seqno = Largest({s.stable, s.executed} \union prepared)], v))

\* A primary leads its view: its next sequence number follows what it executed
\* and what the View_changes of some quorum prove prepared.
Install(p, v) ==
  LET s == replica[p]
      prepared == {n \in Seqno : Runs(p, n)}
  IN /\ Primary(v) = p /\ v > s.view
     /\ Quorum <= Cardinality(Faulty \union {q \in Replica : replica[q].view < v /\ replica[q].asks})
     /\ Change(p, EnterView(p, [s EXCEPT !.seqno = 1 + Largest({s.stable, s.executed} \union prepared)], v))

\* The others follow; one that asked for a later view still does.
Follow(r) ==
  \E p \in Replica :
    /\ replica[p].view > replica[r].view
    /\ \/ Change(r, EnterView(r, replica[r], replica[p].view))
       \/ replica[r].changing /\ Change(r, MoveTo(r, replica[r], replica[p].view))

-----------------------------------------------------------------------------
(* Clients *)

\* Byz_send_request: every attempt has a new rid.
Send(c) ==
  LET rid == client[c].rid + 1
  IN /\ ~client[c].waiting /\ rid <= MaxRid
     /\ client' = [client EXCEPT ![c] = [rid |-> rid, waiting |-> TRUE, got |-> <<>>]]
     /\ asked' = asked \union {[to |-> r, req |-> <<c, rid>>, from |-> c] : r \in Hears[<<c, rid>>]}
     /\ UNCHANGED <<replica, replies, history, lost>>

\* Byz_recv_reply stored reply n of replica r; one of each counts.
Stored(got, r, n) ==
  IF r \in DOMAIN got THEN got
  ELSE [q \in DOMAIN got \union {r} |-> IF q = r THEN n ELSE got[q]]

\* Mutant of Agreed: F of them are enough.
AgreedEarly(got) == \E n \in Seqno : F <= Cardinality({r \in DOMAIN got : got[r] = n})

\* F+1 replicas gave the answer of the same execution.
Agreed(got) == \E n \in Seqno : F + 1 <= Cardinality({r \in DOMAIN got : got[r] = n})

Take(c, got) ==
  /\ client' = [client EXCEPT ![c] = [@ EXCEPT !.got = got, !.waiting = ~Agreed(got)]]
  /\ UNCHANGED <<replica, asked, replies, history, lost>>

\* A reply to an earlier attempt is ignored.
RecvReply(m) ==
  LET c == m.req[1]
  IN /\ client[c].waiting /\ m.req[2] = client[c].rid
     /\ Take(c, Stored(client[c].got, m.from, m.seqno))

\* The reply of a faulty replica; only one that decides makes a difference.
RecvLie(c, r, n) ==
  /\ client[c].waiting
  /\ Agreed(Stored(client[c].got, r, n))
  /\ Take(c, Stored(client[c].got, r, n))

\* TBFT_CLIENT_REPLY_TIMEOUT_MS.
GiveUp(c) ==
  /\ client[c].waiting
  /\ client' = [client EXCEPT ![c] = [@ EXCEPT !.waiting = FALSE, !.got = <<>>]]
  /\ UNCHANGED <<replica, asked, replies, history, lost>>

-----------------------------------------------------------------------------
Deliver ==
  \/ \E m \in asked : OrderRequest(m) \/ ForwardRequest(m)
  \/ \E m \in replies : RecvReply(m)

Tick(r) == Execute(r) \/ Checkpoint(r) \/ RequestFill(r) \/ EndFill(r)

Watch(r) == Expire(r) \/ Timeout(r) \/ DeadPrimary(r)

ChangeView(r) == (\E v \in View : Install(r, v)) \/ Follow(r)

Next ==
  \/ Deliver
  \/ \E r \in Replica : Tick(r) \/ Watch(r) \/ ChangeView(r)
  \/ \E c \in Client : Send(c) \/ GiveUp(c)
  \/ \E c \in Client, r \in Faulty, n \in Seqno : RecvLie(c, r, n)

\* A timer that runs expires, because the executions that start it afresh come
\* to an end with the requests; and the run loop comes to look at its bit.  What
\* it finds is not put off for ever: a fresh boot lasts 90 s, and trouble with
\* keys is bounded by MaxTrouble.  Of the network nothing is assumed.
Fairness == \A r \in Live \ Patient : WF_vars(Expire(r)) /\ SF_vars(AskForView(r))

Spec == Init /\ [][Next]_vars /\ Fairness

-----------------------------------------------------------------------------
(* Properties *)

\* The type invariant; the queues are bounded and hold no request twice.
TypeOK ==
  /\ \A r \in Replica :
       LET s == replica[r] IN
       /\ s.view \in View /\ s.changing \in BOOLEAN /\ s.vtimer \in BOOLEAN /\ s.fired \in BOOLEAN
       /\ s.asks \in BOOLEAN /\ s.stranded \in BOOLEAN /\ s.trouble \in Nat
       /\ s.start \in 0 .. MaxSeqno
       /\ Len(s.rqueue) <= QueueMax /\ Len(s.ro_rqueue) <= QueueMax
       /\ \A i, j \in 1 .. Len(Backlog(s)) : Backlog(s)[i] = Backlog(s)[j] => i = j
       /\ s.assigned \in Request \union {None}
       /\ s.received \in [Client -> 0 .. MaxRid] /\ s.forwarded \in [Client -> 0 .. MaxRid]
       /\ s.done \in [Client -> 0 .. MaxRid]
       /\ s.seqno \in 1 .. MaxSeqno + 1 /\ s.slot \in [Seqno -> Slot \union {None}]
       /\ s.executed \in 0 .. MaxSeqno /\ s.stable \in 0 .. s.executed /\ s.fill \in 0 .. MaxSeqno
  /\ client \in [Client -> [rid : 0 .. MaxRid, waiting : BOOLEAN,
                            got : UNION {[S -> Seqno] : S \in SUBSET Replica}]]
  /\ history \in [Seqno -> Request \union {None}]

\* A client that took an answer has it from an execution of that request and
\* of no earlier attempt, whatever a faulty replica and late replies say.
AnswerStands ==
  \A c \in Client :
    LET k == client[c]
    IN ~k.waiting /\ k.got # <<>> =>
         \E n \in Seqno : /\ history[n] = <<c, k.rid>>
                          /\ F + 1 <= Cardinality({r \in DOMAIN k.got : k.got[r] = n})

\* Comments at tbft_replica.c:2430 and 2589: no request gets two sequence
\* numbers.
AssignedOnce ==
  \A i, j \in Seqno : history[i] = history[j] /\ history[i] # None => i = j

\* A backup that waits for what it forwarded, and every replica that waits for
\* a view, has the timer running, or expired and not yet seen by the run loop.
\* Only a View_change that cannot be signed strands it, until a timer is started
\* for another reason.  (A primary need not have one: see README.)
Waits(r) ==
  LET s == replica[r] IN s.changing \/ (Primary(s.view) # r /\ Pending(r, s))

PendingIsTimed ==
  \A r \in Live : Waits(r) => replica[r].vtimer \/ replica[r].fired \/ replica[r].stranded

\* So no backup waits for ever in a view for what it forwarded: it comes to be
\* executed, the view ends, or the backup broadcasts a View_change, unless it
\* is stranded.
Served == \A r \in Live \ Patient : []<>(Waits(r) => replica[r].asks \/ replica[r].stranded)
=============================================================================
