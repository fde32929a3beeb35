-------------------------- MODULE MCStateTransfer --------------------------
(* TLC instances of StateTransfer. *)
EXTENDS StateTransfer

\* One block changes before a checkpoint, the other after it; each once more
\* before the next.
Writes ==
  <<[block |-> 0, value |-> 1], [block |-> 0, value |-> 2],
    [block |-> 1, value |-> 1], [block |-> 1, value |-> 2]>>

\* Blocks of different inner nodes change.
WritesApart ==
  <<[block |-> 0, value |-> 1], [block |-> 2, value |-> 1],
    [block |-> 0, value |-> 2], [block |-> 2, value |-> 2]>>

ASSUME CopiesSuffice

\* The primary is a request, and with it a checkpoint, behind the other peers.
Positions == [p \in Peer |-> IF p = Primary THEN MaxSeqno - 1 ELSE MaxSeqno]
=============================================================================
