--------------------------- MODULE KeysOverRadio ---------------------------
(***************************************************************************)
(* The exchange of session keys over the ESP-NOW transport: with many      *)
(* replicas a New_key is longer than a frame.  After a restart message ids *)
(* start again, so that parts of messages of both lives of a replica may   *)
(* meet in one slot; what then arrives fails its signature.                *)
(***************************************************************************)
EXTENDS EspNow, FiniteSets

CONSTANTS
  Replica,
  Speaker,      \* replicas that send New_keys (bound)
  MaxStamp,     \* messages have their times modulo this (bound)
  MaxRestarts   \* restarts (bound)

ASSUME SpeakerAssumption ==
  Node = Replica /\ Speaker \subseteq Replica /\ MaxStamp \in Nat \ {0} /\ MaxRestarts \in Nat

VARIABLES out, in, made, past, stamp, restarts
keyVars == <<out, in, made, past>>
vars == <<keyVars, radioVars, stamp, restarts>>

\* The slots of a message for q.
For(q, m) == {x \in m.slots : x.pair[2] = q}
ForAny(m, dest) == UNION {For(q, m) : q \in dest}

\* The slots of which node n has some part, to send or received.
Has(n, s) ==
  LET queued  == UNION {ForAny(s.sendq[i].msg, s.sendq[i].dest) : i \in 1 .. Len(s.sendq)}
      tasked  == UNION {ForAny(s.task[i].msg, s.task[i].dest) : i \in 1 .. Len(s.task)}
      sent    == UNION {For(s.sending[i].to, s.sending[i].msg) : i \in 1 .. Len(s.sending)}
      kept    == UNION {UNION {For(n, s.reasm[i].parts[k]) : k \in DOMAIN s.reasm[i].parts} :
                        i \in 1 .. Len(s.reasm)}
      waiting == UNION {UNION {For(n, s.msgq[i][k]) : k \in DOMAIN s.msgq[i]} :
                        i \in 1 .. Len(s.msgq)}
  IN  queued \union tasked \union sent \union kept \union waiting

OnTheWay == UNION {Has(n, enow[n]) : n \in Node}

Keys == INSTANCE KeyExchange WITH net <- OnTheWay

ROInit ==
  /\ out = [x \in Keys!Pair |-> Keys!NoKey] /\ in = [x \in Keys!Pair |-> Keys!NoIn]
  /\ made = [x \in Keys!Pair |-> 0] /\ past = [x \in Keys!Pair |-> 0]
  /\ RadioInit /\ stamp = 0 /\ restarts = 0

\* Mutant of NewKey: a slot that could not be encrypted is sent as it is.
NewKeyWhole(p, keys) ==
  [from |-> p, stamp |-> stamp, slots |-> Keys!SlotsOfAll(p, keys)]

\* The message that is signed.
NewKey(p, keys) == [from |-> p, stamp |-> stamp, slots |-> Keys!SlotsOf(p, keys)]

\* What p sent has been sent and handled, or is lost.
Quiet(p) ==
  /\ enow[p].sendq = <<>> /\ enow[p].task = <<>> /\ enow[p].sending = <<>>
  /\ \A q \in Replica \ {p} : enow[q].msgq = <<>>

\* The run loop sends its New_key: at once when it starts, and then every few
\* seconds at most, which is time enough to send and handle the one before.
Broadcast(p) ==
  \E failed \in SUBSET Keys!ToDraw(p), signed \in BOOLEAN :
    /\ p \in Speaker /\ (Keys!ToDraw(p) = Keys!From(p) \/ Quiet(p))
    /\ Keys!Draw(p, failed)
    /\ enow' = IF signed /\ Keys!SlotsOf(p, out') # {}
               THEN [enow EXCEPT ![p] = Enqueue(@, NewKey(p, out'), Replica \ {p})] ELSE enow
    /\ Trouble(Cardinality(failed) + IF signed THEN 0 ELSE 1)
    /\ stamp' = (stamp + 1) % MaxStamp
    /\ UNCHANGED restarts

\* A message of one piece carries the slots that were signed.
Whole(parts) == \A k \in DOMAIN parts : parts[k] = parts[0]

\* The run loop takes a message and handles it.
Handle(q) ==
  LET parts == Head(enow[q].msgq)
      mine  == IF Whole(parts) THEN For(q, parts[0]) ELSE {}
  IN  /\ enow[q].msgq # <<>>
      /\ enow' = [enow EXCEPT ![q] = Popped(@)]
      /\ \/ mine = {} /\ UNCHANGED <<keyVars, trouble>>
         \/ \E m \in mine : \E e \in Keys!Outcomes(in[m.pair], m.key) :
              /\ Keys!Install(m, e)
              /\ Trouble(IF e = Keys!Installed(m.key) \/ Keys!Known(in[m.pair], m.key) THEN 0 ELSE 1)
      /\ UNCHANGED <<stamp, restarts>>

Radio(n) ==
  /\ RadioStep(n)
  /\ UNCHANGED <<keyVars, stamp, restarts>>

\* All a replica had is lost, what is in the slots of others is not.
Crash(p) ==
  /\ restarts < MaxRestarts /\ restarts' = restarts + 1
  /\ Keys!Forget(p)
  /\ enow' = [enow EXCEPT ![p] = EnowInit]
  /\ UNCHANGED <<trouble, stamp>>

RONext ==
  \E n \in Replica : Broadcast(n) \/ Handle(n) \/ Radio(n) \/ Crash(n)

\* The run loop and the send task run, the driver calls back, a peer does not
\* stay offline; that a broadcast succeeds is not assumed.
Fairness ==
  \A n \in Replica :
    /\ n \in Speaker => WF_vars(Broadcast(n))
    /\ WF_vars(Handle(n))
    /\ WF_vars(SendTask(n) /\ Radio(n))
    /\ WF_vars(BackOnline(n) /\ Radio(n))
    /\ WF_vars(Transmit(n) /\ Radio(n))

ROSpec == ROInit /\ [][RONext]_vars /\ Fairness

-----------------------------------------------------------------------------
(* Properties *)

\* The type invariant.
ROTypeOK ==
  /\ Keys!KeysTypeOK /\ RadioTypeOK
  /\ stamp \in 0 .. MaxStamp - 1 /\ restarts \in 0 .. MaxRestarts

\* KeysShared of module KeyExchange, over this transport.
KeysShared == Keys!KeysShared

\* The transport, with its frames, slots, callbacks and crashes, is a network
\* as module KeyExchange allows it: whatever parts meet in a slot, a replica
\* installs only a key that was sent to it and is still on its way.
ImplementsKeyExchange == Keys!Spec

\* The promise of the rebroadcast in the run loop: when restarts and what else
\* goes wrong have come to an end, every replica comes to verify what every
\* speaker sends it, and goes on doing so, whatever credits were taken, peers
\* taken for offline, and parts left in the slots.
KeysSettle ==
  <>[](\A x \in Keys!Pair :
         x[1] \in Speaker => out[x] # Keys!NoKey /\ Keys!Accepts(in[x], out[x]))
=============================================================================
