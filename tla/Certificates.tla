---------------------------- MODULE Certificates ----------------------------
(***************************************************************************)
(* The vote certificates of tbft_certificate.c and the checkpoint slots of *)
(* tbft_checkpoint_region.c as operators on values.                        *)
(*                                                                         *)
(* A certificate is a function from replica to the digest its vote was     *)
(* counted for, NoDigest where no vote was counted.  The C structure keeps *)
(* the same data as a bitmap of senders and f+1 (digest, count) pairs;     *)
(* module VoteTable models that layout and shows that it implements this   *)
(* one.                                                                    *)
(***************************************************************************)
EXTENDS Integers, FiniteSets

CONSTANTS
  N,                   \* num_replicas: replicas are numbered 0 .. N-1
  F,                   \* max_faulty of the configuration file
  CertMaxVals,         \* TBFT_CERT_MAX_VALS: distinct digests one certificate holds
  WindowSize,          \* TBFT_WINDOW_SIZE
  CheckpointInterval,  \* TBFT_CHECKPOINT_INTERVAL
  NoDigest             \* no vote, no message, no request

\* Config: what parse_config and the static assertions of tbft_config.h
\* establish.  Nothing relates N to F: parse_config only warns when N < 3F+1.
ASSUME ConfigAssumption ==
  /\ N \in Nat \ {0}
  /\ F \in Nat \ {0}
  /\ CertMaxVals \in Nat
  /\ CertMaxVals >= F + 1
  /\ CheckpointInterval \in Nat \ {0}
  /\ WindowSize \in Nat
  /\ WindowSize > CheckpointInterval

Replica == 0 .. N - 1

PrepareThreshold == 2 * F
Threshold == 2 * F + 1          \* commit and checkpoint certificates

-----------------------------------------------------------------------------
(* Prepare and commit certificates *)

EmptyCert == [q \in Replica |-> NoDigest]

Voters(cert, d) == {q \in Replica : cert[q] = d}

\* The digests a certificate holds: val_digests[0 .. num_vals-1].
Digests(cert) == {cert[q] : q \in Replica} \ {NoDigest}

\* A vote is counted once per sender, and only for a digest already held or
\* while a value slot is free.
HasRoom(cert, q, d) ==
  /\ cert[q] = NoDigest
  /\ d \in Digests(cert) \/ Cardinality(Digests(cert)) < CertMaxVals

AddVote(cert, q, d) == IF HasRoom(cert, q, d) THEN [cert EXCEPT ![q] = d] ELSE cert

\* d has the required number of votes.  cvalue returns the first such value:
\* there is no second while N < 4F+2 for Threshold, and every Prepare counted
\* names the digest of the stored Pre_prepare.
Wins(cert, d, threshold) ==
  d # NoDigest /\ Cardinality(Voters(cert, d)) >= threshold

-----------------------------------------------------------------------------
(* Checkpoint slots *)

NumCkptSlots == WindowSize \div CheckpointInterval + 2
SlotIndex(n) == (n \div CheckpointInterval) % NumCkptSlots

EmptySlot(n) == [seqno |-> n, present |-> {}, votes |-> EmptyCert, winning |-> NoDigest]

Count(slot, d) == IF d = NoDigest THEN 0 ELSE Cardinality(Voters(slot.votes, d))

\* tbft_cr_store: a slot that holds another seqno, older or newer, is wiped
\* first; a second message of the same replica is dropped; a digest beyond
\* CertMaxVals candidates leaves the sender marked present but uncounted; the
\* winning digest changes only when another one has strictly more votes.
SlotFor(region, n) ==
  IF region[SlotIndex(n)].seqno = n THEN region[SlotIndex(n)] ELSE EmptySlot(n)

Counted(region, n, q, d) ==
  LET slot == SlotFor(region, n)
  IN  q \notin slot.present /\ HasRoom(slot.votes, q, d)

StoreCkpt(region, n, q, d) ==
  LET slot  == SlotFor(region, n)
      votes == AddVote(slot.votes, q, d)
      new   == [slot EXCEPT !.votes = votes, !.present = @ \union {q}]
      best  == IF Count(new, d) > Count(new, slot.winning) THEN d ELSE slot.winning
  IN  [region EXCEPT ![SlotIndex(n)] =
         IF Counted(region, n, q, d) THEN [new EXCEPT !.winning = best]
         ELSE [slot EXCEPT !.present = @ \union {q}]]

\* Mutant of Completes: one vote short of a quorum.
CompletesEarly(region, n, q, d) ==
  /\ Counted(region, n, q, d)
  /\ LET slot == StoreCkpt(region, n, q, d)[SlotIndex(n)]
     IN  Count(slot, slot.winning) >= PrepareThreshold

\* The value tbft_cr_store returns: this call counted a vote and the slot has
\* (or already had) a quorum for its winning digest.
Completes(region, n, q, d) ==
  /\ Counted(region, n, q, d)
  /\ LET slot == StoreCkpt(region, n, q, d)[SlotIndex(n)]
     IN  Count(slot, slot.winning) >= Threshold

\* tbft_cr_winning_digest looks at whatever slot n maps to.
WinningDigest(region, n) ==
  LET slot == region[SlotIndex(n)]
  IN  IF Count(slot, slot.winning) >= Threshold THEN slot.winning ELSE NoDigest

TruncateCkpt(region, n) ==
  [i \in 0 .. NumCkptSlots - 1 |->
     IF region[i].seqno <= n THEN EmptySlot(0) ELSE region[i]]

EmptyRegion == [i \in 0 .. NumCkptSlots - 1 |-> EmptySlot(0)]
=============================================================================
