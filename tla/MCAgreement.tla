---------------------------- MODULE MCAgreement ----------------------------
(* TLC instance of Agreement: a window that moves over three sequence       *)
(* numbers.                                                                 *)
EXTENDS Agreement

\* Nothing past the first window, so that the window has to move; a rejected
\* request only where an accepted one can commit after it.
FirstWindow ==
  {c \in Claim : /\ c.type = "Commit" /\ c.digest # NoDigest
                 /\ c.seqno <= WindowSize
                 /\ c.seqno > 1 => c.digest \notin Rejected}

\* A rejected request is only proposed first, and the request past the first
\* window when the active replicas have executed those in it.
TwoInFlight ==
  /\ \A m \in replica[0].ppSent : m.digest \in Rejected => m.seqno = 1
  /\ replica[0].seqno > WindowSize + 1 =>
       \A r \in Correct \ Idle : replica[r].executed >= WindowSize
=============================================================================
