------------------------------ MODULE MCLedger ------------------------------
(* TLC instance of AgreementLedger: an equivocating primary and a replica   *)
(* that may hear of a checkpoint before it has executed up to it.           *)
EXTENDS AgreementLedger, TLC

\* The primary also proposes a request that does not check.
SomeClaims == {c \in Claim : c.type = "Pre_prepare" \/ c.digest # NoDigest}

\* The primary splits the others two to one; which request and which two is a
\* matter of names.
OneRequest == CHOOSE d \in Request : TRUE
SplitVote ==
  /\ \A r \in {1, 2} : replica[r].pp[1].digest \in {NoDigest, OneRequest}
  /\ replica[3].pp[1].digest # OneRequest

\* Only the third hears of others' checkpoints and stable points, and only when
\* the first two have executed.
Present(r) == UNION {replica[r].ckpt[i].present : i \in 0 .. NumCkptSlots - 1}
LastHearsLate ==
  /\ \A r \in {1, 2} : Present(r) \subseteq {r}
  /\ \A r \in {1, 2} : replica[r].fetch = 0
  /\ Present(3) # {} \/ replica[3].fetch # 0 => \A r \in {1, 2} : replica[r].executed = 1
=============================================================================
