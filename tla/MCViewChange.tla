---------------------------- MODULE MCViewChange ----------------------------
(* TLC instances of ViewChange. *)
EXTENDS ViewChange, TLC

\* The faulty primary of view 0 proposes either request and commits to one.
OneRequest == CHOOSE d \in Request : TRUE
Proposals ==
  {c \in Claim : \/ c.type = "Pre_prepare" /\ c.digest # NoDigest
                 \/ c.type = "Commit" /\ c.digest = OneRequest}

\* It claims to be ahead of everyone, to have prepared what replica 3 did, or to
\* have prepared the other request, which it lists three times.
ClaimedVCs ==
  {[ls |-> 1, reqs |-> {}, copies |-> 1]} \union
  {[ls |-> 0, reqs |-> {[seqno |-> 1, digest |-> d]},
    copies |-> IF d = OneRequest THEN 1 ELSE 3] : d \in Request}

\* A replica sends one View_change, replica 1 listens to them when replica 2 has
\* sent its own, and that of the faulty one, which may tell each something
\* else, comes after that of replica 3.
OneEach ==
  /\ \A r \in Correct : Cardinality(vcSent[r]) <= 1
  /\ vi[1].vcs # {} => vcSent[2] # {}
  /\ \A r \in {1, 2} : \A m \in vi[r].vcs :
       m.id = 0 => m.v = 1 /\ \E k \in vi[r].vcs : k.id = 3

\* Replica 3 is the first to act: it prepares OneRequest with the vote of
\* replica 2, commits, gives up on the primary and hears nothing more.
Witness ==
  LET s == replica[3]
  IN  /\ s.view = 0 /\ s.pp[1].digest \in {NoDigest, OneRequest}
      /\ s.prepares[1][1] = NoDigest
      /\ \A q \in Replica \ {3} : s.commits[1][q] = NoDigest
      /\ \A m \in vi[3].vcs : m.id = 3
      /\ vcSent[3] # {} => Prepared(s, 1)
      /\ vcSent[3] = {} => \A r \in {1, 2} :
           /\ replica[r].view = 0 /\ replica[r].commits[1] = EmptyCert
           /\ \A q \in Replica \ {r} : replica[r].prepares[1][q] = NoDigest
           /\ vi[r].vcs = {} /\ vcSent[r] = {}

\* Its Prepare reaches nobody else, and its Commit replica 2 only.
Faint ==
  /\ \A r \in {1, 2} : replica[r].prepares[1][3] = NoDigest
  /\ replica[1].commits[1][3] = NoDigest

\* Replica 1 hears nothing of the request, and nobody gives up before another
\* replica's checkpoint is stable.
Laggard ==
  /\ replica[1].prepares[1] = EmptyCert /\ replica[1].commits[1] = EmptyCert
  /\ replica[1].ckpt = EmptyRegion
  /\ \A r \in Correct : vcSent[r] # {} => \E q \in Correct \ {1} : replica[q].stable = 1
=============================================================================
