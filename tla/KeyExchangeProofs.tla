------------------------- MODULE KeyExchangeProofs -------------------------
(***************************************************************************)
(* Proofs about KeyExchange, for every set of replicas, any number of      *)
(* restarts and a network that loses, delays and repeats.                  *)
(***************************************************************************)
EXTENDS KeyExchange, TLAPS

\* What the sender of a pair has drawn: nothing since its last restart, or
\* one key.
OneKeyALife ==
  \A x \in Pair :
    \/ out[x] = NoKey /\ past[x] = made[x]
    \/ out[x] = made[x] /\ made[x] = past[x] + 1

\* Nothing is older than its making.
HeldWasMade == \A x \in Pair : in[x].key <= made[x]
SentWasMade == \A m \in net : m.key <= made[m.pair]

IInv == KeysTypeOK /\ OneKeyALife /\ HeldWasMade /\ SentWasMade

-----------------------------------------------------------------------------
(* Steps *)

LEMMA InitInv == Init => IInv
  BY SMT DEF Init, IInv, KeysTypeOK, OneKeyALife, HeldWasMade, SentWasMade, InState, NoIn, NoKey

\* Sending a New_key: who had no key may have one then, and what is sent is the
\* key in use.
LEMMA SendInv ==
  ASSUME IInv, NEW p \in Replica, NEW failed \in SUBSET From(p), SendNewKey(p, failed)
  PROVE  IInv'
<1> DEFINE drawn == ToDraw(p) \ failed
<1>1. PICK sent \in SUBSET SlotsOf(p, out') : net' = net \union sent
  BY DEF SendNewKey
<1>2. /\ out' = [x \in Pair |-> IF x \in drawn THEN made[x] + 1 ELSE out[x]]
      /\ made' = [x \in Pair |-> IF x \in drawn THEN made[x] + 1 ELSE made[x]]
      /\ in' = in /\ past' = past
  BY DEF SendNewKey, Draw
<1>3. \A x \in drawn : out[x] = NoKey
  BY DEF ToDraw
<1> HIDE DEF drawn
<1>4. \A x \in Pair : /\ out[x] \in Nat /\ made[x] \in Nat /\ past[x] \in Nat
                      /\ made[x] <= made'[x] /\ made'[x] \in Nat /\ out'[x] \in Nat
  BY <1>2, SMT DEF IInv, KeysTypeOK
<1>5. OneKeyALife'
  BY <1>2, <1>3, <1>4, SMT DEF IInv, OneKeyALife, NoKey
<1>6. HeldWasMade'
  BY <1>2, <1>4, SMT DEF IInv, KeysTypeOK, HeldWasMade, InState
<1>7. \A m \in sent : m.pair \in Pair /\ m.key = out'[m.pair] /\ m.key # NoKey
                      /\ m = [pair |-> m.pair, key |-> m.key]
  BY <1>1 DEF SlotsOf, From
<1>8. net' \subseteq [pair : Pair, key : Nat \ {NoKey}]
  BY <1>1, <1>4, <1>7 DEF IInv, KeysTypeOK
<1>9. KeysTypeOK'
  BY <1>2, <1>4, <1>8, SMT DEF IInv, KeysTypeOK
<1>10. \A x \in Pair : out'[x] <= made'[x]
  BY <1>5, <1>4, SMT DEF OneKeyALife, NoKey
<1>11. SentWasMade'
  <2> SUFFICES ASSUME NEW m \in net' PROVE m.key <= made'[m.pair]
    BY DEF SentWasMade
  <2>1. CASE m \in net
    <3>1. m.pair \in Pair /\ m.key \in Nat /\ m.key <= made[m.pair]
      BY <2>1 DEF IInv, KeysTypeOK, SentWasMade
    <3> QED BY <3>1, <1>4, SMT
  <2>2. CASE m \in sent
    BY <2>2, <1>7, <1>10
  <2> QED BY <2>1, <2>2, <1>1
<1> QED BY <1>5, <1>6, <1>9, <1>11 DEF IInv

\* What handle_new_key leaves is the old key or the one that was sent.
LEMMA OutcomeKeys ==
  ASSUME NEW e \in InState, NEW k \in Nat, NEW t \in Outcomes(e, k)
  PROVE  t \in InState /\ t.key \in {e.key, k}
<1>1. t \in {e, Installed(k), NotImported(e, k), NotTested(k)}
  BY DEF Outcomes
<1>2. CASE t = e
  BY <1>2
<1>3. CASE t = Installed(k)
  BY <1>3 DEF Installed, InState
<1>4. CASE t = NotImported(e, k)
  BY <1>4 DEF NotImported, InState
<1>5. CASE t = NotTested(k)
  BY <1>5 DEF NotTested, InState
<1> QED BY <1>1, <1>2, <1>3, <1>4, <1>5

LEMMA HandleInv ==
  ASSUME IInv, NEW m \in net, NEW e \in Outcomes(in[m.pair], m.key), HandleNewKey(m, e)
  PROVE  IInv'
<1>1. m.pair \in Pair /\ m.key \in Nat /\ m.key <= made[m.pair] /\ in[m.pair] \in InState
  BY DEF IInv, KeysTypeOK, SentWasMade
<1>2. e \in InState /\ e.key \in {in[m.pair].key, m.key}
  BY <1>1, OutcomeKeys
<1>3. /\ in' = [in EXCEPT ![m.pair] = e]
      /\ out' = out /\ made' = made /\ past' = past /\ net' \subseteq net
  BY DEF HandleNewKey, Install
<1>4. KeysTypeOK'
  BY <1>1, <1>2, <1>3 DEF IInv, KeysTypeOK
<1>5. HeldWasMade'
  <2> SUFFICES ASSUME NEW x \in Pair PROVE in'[x].key <= made[x]
    BY <1>3 DEF HeldWasMade
  <2>1. in \in [Pair -> InState] /\ in[x].key <= made[x] /\ in[m.pair].key <= made[m.pair]
    BY <1>1 DEF IInv, KeysTypeOK, HeldWasMade
  <2>2. in'[x] = IF x = m.pair THEN e ELSE in[x]
    BY <2>1, <1>3
  <2> QED BY <1>1, <1>2, <2>1, <2>2
<1>6. OneKeyALife' /\ SentWasMade'
  BY <1>3 DEF IInv, OneKeyALife, SentWasMade
<1> QED BY <1>4, <1>5, <1>6 DEF IInv

LEMMA RestartInv ==
  ASSUME IInv, NEW p \in Replica, Restart(p)
  PROVE  IInv'
<1>1. /\ out' = [x \in Pair |-> IF x \in From(p) THEN NoKey ELSE out[x]]
      /\ in' = [x \in Pair |-> IF x \in To(p) THEN NoIn ELSE in[x]]
      /\ past' = [x \in Pair |-> IF x \in From(p) THEN made[x] ELSE past[x]]
      /\ made' = made /\ net' \subseteq net
  BY DEF Restart, Forget
<1>2. NoIn \in InState /\ NoIn.key = 0 /\ NoKey \in Nat
  BY DEF NoIn, InState, NoKey
<1>3. KeysTypeOK'
  BY <1>1, <1>2 DEF IInv, KeysTypeOK
<1>4. OneKeyALife'
  BY <1>1 DEF IInv, OneKeyALife
<1>5. HeldWasMade'
  BY <1>1, <1>2, SMT DEF IInv, KeysTypeOK, HeldWasMade
<1>6. SentWasMade'
  BY <1>1 DEF IInv, SentWasMade
<1> QED BY <1>3, <1>4, <1>5, <1>6 DEF IInv

LEMMA StepInv == IInv /\ [Next]_keyVars => IInv'
<1> SUFFICES ASSUME IInv, [Next]_keyVars PROVE IInv'
  OBVIOUS
<1>1. ASSUME NEW p \in Replica, NEW failed \in SUBSET From(p), SendNewKey(p, failed)
      PROVE  IInv'
  BY <1>1, SendInv
<1>2. ASSUME NEW m \in net, NEW e \in Outcomes(in[m.pair], m.key), HandleNewKey(m, e)
      PROVE  IInv'
  BY <1>2, HandleInv
<1>3. CASE Lose
  BY <1>3 DEF Lose, IInv, KeysTypeOK, OneKeyALife, HeldWasMade, SentWasMade
<1>4. ASSUME NEW p \in Replica, Restart(p)
      PROVE  IInv'
  BY <1>4, RestartInv
<1>5. CASE UNCHANGED keyVars
  BY <1>5 DEF keyVars, IInv, KeysTypeOK, OneKeyALife, HeldWasMade, SentWasMade
<1> QED BY <1>1, <1>2, <1>3, <1>4, <1>5 DEF Next

\* The inductive invariant: a replica draws one key a life for each peer, and
\* nobody holds or carries a key that was not drawn.
THEOREM KeyInvariant == Spec => []IInv
<1>1. Init => IInv
  BY InitInv
<1>2. IInv /\ [Next]_keyVars => IInv'
  BY StepInv
<1> QED BY <1>1, <1>2, PTL DEF Spec

-----------------------------------------------------------------------------
(* Theorems *)

\* Type correctness, for every set of replicas.
THEOREM KeysTyped == Spec => []KeysTypeOK
<1>1. IInv => KeysTypeOK
  BY DEF IInv
<1> QED BY <1>1, KeyInvariant, PTL

\* A key that a receiver holds is the one its sender uses, or from before the
\* sender's last restart, whatever New_keys are lost, late, repeated or handled
\* with an error: the caching in send_new_key keeps both ends in step.
THEOREM KeysMatch == Spec => []KeysShared
<1>1. IInv => KeysShared
  <2> SUFFICES ASSUME IInv, NEW x \in Pair, in[x].key > past[x]
               PROVE  in[x].key = out[x]
    BY DEF KeysShared
  <2>1. in[x].key \in Nat /\ made[x] \in Nat /\ past[x] \in Nat /\ in[x].key <= made[x]
    BY DEF IInv, KeysTypeOK, HeldWasMade, InState
  <2>2. ~(past[x] = made[x])
    BY <2>1, SMT
  <2>3. out[x] = made[x] /\ made[x] = past[x] + 1
    BY <2>2 DEF IInv, OneKeyALife
  <2> QED BY <2>1, <2>3, SMT
<1> QED BY <1>1, KeyInvariant, PTL
=============================================================================
