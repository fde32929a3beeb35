---------------------------- MODULE KeyExchange ----------------------------
(***************************************************************************)
(* Session keys (tbft_principal.c) and the New_key messages that carry     *)
(* them (tbft_replica.c).  Each replica draws a key for every other and    *)
(* broadcasts them, again and again, in one signed message; who receives   *)
(* it verifies by that key what else comes from the sender.                *)
(*                                                                         *)
(* Keys are in memory only: a replica that restarts draws new ones and has *)
(* none of its peers'.  Keys are random and never come twice, so the key   *)
(* of a pair is how many were drawn for it, and a ciphertext is its key.   *)
(*                                                                         *)
(* The network may do anything here; module KeysOverRadio puts the ESP-NOW *)
(* transport in its place.  The barrier at the start of the run loop is    *)
(* left out: before it, as after, New_keys are sent and handled.           *)
(***************************************************************************)
EXTENDS Integers

CONSTANT Replica

\* Everything is kept per sender and receiver.
Pair == {x \in Replica \X Replica : x[1] # x[2]}
From(p) == {x \in Pair : x[1] = p}
To(q)   == {x \in Pair : x[2] = q}

NoKey == 0

VARIABLES
  out,   \* hmac_out_key at the sender, with its ciphertext
  in,    \* at the receiver: hmac_in_key, keys_fresh, last_new_key_ciphertext
  made,  \* how many keys the sender drew
  past,  \* how many of them before its last restart
  net    \* slots of New_keys on their way
keyVars == <<out, in, made, past, net>>

NoIn == [key |-> NoKey, fresh |-> FALSE, last |-> NoKey]

\* tbft_principal_init.
Init ==
  /\ out = [x \in Pair |-> NoKey]
  /\ in = [x \in Pair |-> NoIn]
  /\ made = [x \in Pair |-> 0]
  /\ past = [x \in Pair |-> 0]
  /\ net = {}

-----------------------------------------------------------------------------
(* tbft_principal.c *)

\* tbft_principal_set_in_key of k.  If the import fails the old key stays; if
\* the self-test fails the new one is there, but not fresh.
Installed(k) == [key |-> k, fresh |-> TRUE, last |-> k]
NotImported(e, k) == [key |-> e.key, fresh |-> FALSE, last |-> k]
NotTested(k) == [key |-> k, fresh |-> FALSE, last |-> k]

\* Mutant of Known: that the ciphertext was processed is enough.
KnownCiphertext(e, k) == e.last = k

\* The duplicate that handle_new_key skips.
Known(e, k) == e.fresh /\ e.last = k

\* What handle_new_key may leave; a decryption that fails changes nothing.
Outcomes(e, k) ==
  IF Known(e, k) THEN {e} ELSE {e, Installed(k), NotImported(e, k), NotTested(k)}

\* The filter of the run loop and tbft_principal_verify_mac_in.
Accepts(e, k) == e.fresh /\ e.key = k

-----------------------------------------------------------------------------
(* Actions *)

\* Mutant of ToDraw: every New_key has new keys.
ToDrawAgain(p) == From(p)

\* Keys are drawn once; a New_key that is sent again carries the same.
ToDraw(p) == {x \in From(p) : out[x] = NoKey}

\* Mutant of SlotsOf: a slot that could not be encrypted is sent nevertheless.
SlotsOfAll(p, keys) == {[pair |-> x, key |-> keys[x]] : x \in From(p)}

SlotsOf(p, keys) == {[pair |-> x, key |-> keys[x]] : x \in {y \in From(p) : keys[y] # NoKey}}

\* tbft_replica_send_new_key.  A peer whose key cannot be encrypted is left
\* out.  If the message is not signed or not sent the keys are in use.
Draw(p, failed) ==
  LET drawn == ToDraw(p) \ failed
  IN  /\ out' = [x \in Pair |-> IF x \in drawn THEN made[x] + 1 ELSE out[x]]
      /\ made' = [x \in Pair |-> IF x \in drawn THEN made[x] + 1 ELSE made[x]]
      /\ UNCHANGED <<in, past>>

\* tbft_replica_handle_new_key with its slot m leaves e.
Install(m, e) ==
  /\ in' = [in EXCEPT ![m.pair] = e]
  /\ UNCHANGED <<out, made, past>>

\* A replica crashes and starts again.
Forget(p) ==
  /\ out' = [x \in Pair |-> IF x \in From(p) THEN NoKey ELSE out[x]]
  /\ in' = [x \in Pair |-> IF x \in To(p) THEN NoIn ELSE in[x]]
  /\ past' = [x \in Pair |-> IF x \in From(p) THEN made[x] ELSE past[x]]
  /\ UNCHANGED made

\* What the network may do with what is sent: lose it, or keep it.
SendNewKey(p, failed) ==
  /\ Draw(p, failed)
  /\ \E sent \in SUBSET SlotsOf(p, out') : net' = net \union sent

HandleNewKey(m, e) ==
  /\ m \in net
  /\ Install(m, e)
  /\ net' \in {net, net \ {m}}

Lose ==
  /\ net' \in SUBSET net
  /\ UNCHANGED <<out, in, made, past>>

Restart(p) ==
  /\ Forget(p)
  /\ net' \in SUBSET net

Next ==
  \/ \E p \in Replica : \E failed \in SUBSET From(p) : SendNewKey(p, failed)
  \/ \E m \in net : \E e \in Outcomes(in[m.pair], m.key) : HandleNewKey(m, e)
  \/ Lose
  \/ \E p \in Replica : Restart(p)

Spec == Init /\ [][Next]_keyVars

-----------------------------------------------------------------------------
(* Properties *)

InState == [key : Nat, fresh : BOOLEAN, last : Nat]

\* The type invariant; no New_key carries a slot without a key.
KeysTypeOK ==
  /\ out \in [Pair -> Nat] /\ made \in [Pair -> Nat] /\ past \in [Pair -> Nat]
  /\ in \in [Pair -> InState]
  /\ net \subseteq [pair : Pair, key : Nat \ {NoKey}]

\* The comment in send_new_key on keys that no longer matched: whatever is
\* lost, late or fails, a key that a receiver holds is the one the sender uses,
\* or the sender has restarted since it drew it.
KeysShared == \A x \in Pair : in[x].key > past[x] => in[x].key = out[x]
=============================================================================
