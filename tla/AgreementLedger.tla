-------------------------- MODULE AgreementLedger --------------------------
(***************************************************************************)
(* The agreement protocol implements the ledger: a replica executed its    *)
(* log up to last_executed, and the order is the log of a replica that is  *)
(* furthest ahead.                                                         *)
(***************************************************************************)
EXTENDS Agreement, Sequences

\* The log of r up to last_executed, as a sequence.
ExecutedLog(r) ==
  [n \in 1 .. replica[r].executed |-> IF n \in Seqno THEN replica[r].log[n] ELSE NoDigest]

Furthest == CHOOSE r \in Correct : \A q \in Correct : replica[q].executed <= replica[r].executed

Service == INSTANCE Ledger WITH
       Server <- Correct,
       Op <- Request,
       MaxLength <- MaxSeqno,
       order <- ExecutedLog(Furthest),
       executed <- [r \in Correct |-> ExecutedLog(r)]

\* All correct replicas execute prefixes of one order of requests that never
\* changes: execute_committed and mark_stable keep last_executed and the calls
\* of exec_cb in step, in each replica and between them.
ImplementsLedger == Service!Spec
=============================================================================
