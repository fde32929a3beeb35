------------------------------- MODULE Ledger -------------------------------
(***************************************************************************)
(* What the replicated service promises: there is one order of requests,   *)
(* it only grows, and each correct replica has executed a prefix of it     *)
(* that only grows.  Module AgreementLedger shows that the replicas of     *)
(* module Agreement implement this.                                        *)
(***************************************************************************)
EXTENDS Integers, Sequences

CONSTANTS
  Server,    \* the correct replicas
  Op,        \* what can be executed
  MaxLength  \* bound on the order

VARIABLES
  order,    \* the order of execution decided so far
  executed  \* executed[r]: the requests that replica r has executed
vars == <<order, executed>>

Init ==
  /\ order = <<>>
  /\ executed = [r \in Server |-> <<>>]

\* Replica r executes up to position k.  What nobody executed before is
\* decided by that; a handler can execute several requests in one step.
Execute(r) ==
  \E k \in Len(executed[r]) + 1 .. MaxLength :
    \E new \in [1 .. (IF k > Len(order) THEN k - Len(order) ELSE 0) -> Op] :
      /\ order' = order \o new
      /\ executed' = [executed EXCEPT ![r] = SubSeq(order \o new, 1, k)]

Next == \E r \in Server : Execute(r)

Spec == Init /\ [][Next]_vars
=============================================================================
