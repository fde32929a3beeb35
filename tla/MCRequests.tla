----------------------------- MODULE MCRequests -----------------------------
(* TLC instances of Requests. *)
EXTENDS Requests

CONSTANTS a, b

\* The primary of the second view hears everything, the others nothing.
NextPrimaryHears == [req \in Request |-> {1}]

\* The keys of the replica that forwards the requests fail it once.
OnceForOne == [r \in Replica |-> IF r = 1 THEN 1 ELSE 0]
NoTrouble == [r \in Replica |-> 0]

\* Two clients: the first primary hears both, a backup hears a as well.
OneHeardTwice == [req \in Request |-> IF req[1] = a THEN {0, 1} ELSE {0}]
=============================================================================
