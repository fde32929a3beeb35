----------------------------- MODULE ViewChange -----------------------------
(***************************************************************************)
(* View changes, on top of the agreement of module Agreement: View_change  *)
(* messages are collected (tbft_view_info.c), the primary of the target    *)
(* view computes a New_view from 2f+1 of them and installs it, backups     *)
(* verify it against what they collected themselves and install it.        *)
(*                                                                         *)
(* The state of a replica's tbft_view_info is the target view and the      *)
(* View_changes stored for it, one per sender.  A New_view is never sent   *)
(* again: a backup that has not collected 2f+1 by the time it arrives      *)
(* drops it, which is the same as losing it.                               *)
(*                                                                         *)
(* Timers are not variables: a replica in Impatient may give up on its     *)
(* primary at any time, as often as it likes.  The certificate of the last *)
(* checkpoint a View_change carries is left out: no receiver reads it.     *)
(***************************************************************************)
EXTENDS Agreement

CONSTANTS
  FaultyVCs,  \* what faulty replicas put in a View_change, in any view (bound)
  FaultyNVs,  \* what a faulty primary puts in a New_view (bound)
  Unsigning   \* correct replicas whose signatures may fail (bound)

ReqInfo == [seqno : Seqno, digest : Request]

ASSUME FaultyChangeAssumption ==
  /\ FaultyVCs \subseteq [ls : Nat, reqs : SUBSET ReqInfo, copies : Nat \ {0}]
  /\ FaultyNVs \subseteq [min : Nat, max : Nat, proofs : SUBSET ReqInfo]
  /\ Unsigning \subseteq Replica

VARIABLES
  vi,      \* [Correct -> the target view and the View_changes stored for it]
  vcSent,  \* [Correct -> every View_change the replica sent]
  nvSent,  \* [Correct -> every New_view the replica sent as a primary]
  proven   \* [Correct -> the proofs of the New_views the replica verified]
vcVars == <<replica, vi, vcSent, nvSent, proven>>

\* tbft_vi_reset.
ViReset(v) == [target |-> v, vcs |-> {}]

VCInit ==
  /\ Init
  /\ vi = [r \in Correct |-> ViReset(0)]
  /\ vcSent = [r \in Correct |-> {}]
  /\ nvSent = [r \in Correct |-> {}]
  /\ proven = [r \in Correct |-> {}]

-----------------------------------------------------------------------------
(* tbft_view_info.c *)

\* tbft_vi_collect_vc: a View_change for an earlier view, or a second one of
\* the same sender, is refused; one for a later view drops those collected.
Collects(i, m) == m.v > i.target \/ (m.v = i.target /\ \A k \in i.vcs : k.id # m.id)

Collect(i, m) ==
  IF m.v > i.target THEN [target |-> m.v, vcs |-> {m}] ELSE [i EXCEPT !.vcs = @ \union {m}]

HasQuorum(i) == Cardinality(i.vcs) >= Threshold

Highest(S) == {n \in S : \A k \in S : k <= n}
Lowest(S)  == {n \in S : \A k \in S : n <= k}

Attesting(i, p) == {m \in i.vcs : p \in m.reqs}

\* Mutant of Verifies: the proofs are not looked up.
VerifiesBounds(i, nv) ==
  /\ nv.v = i.target /\ nv.min <= nv.max /\ HasQuorum(i)
  /\ \A m \in i.vcs : m.ls <= nv.min /\ nv.max <= m.ls + WindowSize

\* tbft_vi_verify_nv: the bounds and the proofs of a New_view against the
\* View_changes this replica collected, each counted once.
Verifies(i, nv) ==
  /\ nv.v = i.target /\ nv.min <= nv.max /\ HasQuorum(i)
  /\ \A m \in i.vcs : m.ls <= nv.min /\ nv.max <= m.ls + WindowSize
  /\ \A p \in nv.proofs : Cardinality(Attesting(i, p)) >= Threshold

\* How often the collected View_changes list p.  A sender's repetitions count:
\* correct replicas list a request once, faulty ones m.copies times.  The code
\* counts at most WINDOW_SIZE different requests; the instances list fewer.
Listed(i, p) ==
  LET times == {<<m, k>> : m \in Attesting(i, p), k \in 1 .. N}
  IN  Cardinality({t \in times : t[2] <= t[1].copies})

\* The New_view a primary computes (one element).  Its quorum for proofs is
\* derived from the number of replicas, not from the configured F.
NewViews(i) ==
  {[v |-> i.target, min |-> min, max |-> max,
    proofs |-> {p \in UNION {m.reqs : m \in i.vcs} :
                  /\ min <= p.seqno /\ p.seqno <= max
                  /\ Listed(i, p) >= 2 * ((N - 1) \div 3) + 1}] :
     min \in Highest({m.ls : m \in i.vcs}),
     max \in Lowest({m.ls + WindowSize : m \in i.vcs})}

-----------------------------------------------------------------------------
(* Installing a view *)

\* Mutant of Install: last_executed is set to min, not raised to it.
InstallAtMin(s, nv) ==
  {[s EXCEPT !.view = nv.v, !.inProgress = FALSE, !.seqno = last + 1,
             !.stable = Larger(@, nv.min), !.executed = nv.min,
             !.prepared = Larger(@, nv.min), !.ckpt = TruncateCkpt(@, nv.min),
             !.pp = [k \in Seqno |-> IF k <= nv.min THEN NoPP ELSE @[k]],
             !.prepares = [k \in Seqno |-> IF k <= nv.min THEN EmptyCert ELSE @[k]],
             !.commits = [k \in Seqno |-> IF k <= nv.min THEN EmptyCert ELSE @[k]]] :
     last \in Highest({nv.min, s.prepared, s.executed} \union {p.seqno : p \in nv.proofs})}

\* Mutant of Install: the agreement region is initialised, not truncated.
InstallAfresh(s, nv) ==
  {[s EXCEPT !.view = nv.v, !.inProgress = FALSE, !.seqno = last + 1,
             !.stable = Larger(@, nv.min), !.executed = Larger(@, nv.min),
             !.prepared = Larger(@, nv.min), !.ckpt = TruncateCkpt(@, nv.min),
             !.pp = [k \in Seqno |-> NoPP],
             !.prepares = [k \in Seqno |-> EmptyCert],
             !.commits = [k \in Seqno |-> EmptyCert]] :
     last \in Highest({nv.min, s.prepared, s.executed} \union {p.seqno : p \in nv.proofs})}

\* What the primary and the backups do with a New_view.  The next seqno is
\* computed afresh and may be lower than before; the watermarks are raised to
\* min whether or not this replica executed that far.  One element.
Install(s, nv) ==
  {[s EXCEPT !.view = nv.v, !.inProgress = FALSE, !.seqno = last + 1,
             !.stable = Larger(@, nv.min), !.executed = Larger(@, nv.min),
             !.prepared = Larger(@, nv.min), !.ckpt = TruncateCkpt(@, nv.min),
             !.pp = [k \in Seqno |-> IF k <= nv.min THEN NoPP ELSE @[k]],
             !.prepares = [k \in Seqno |-> IF k <= nv.min THEN EmptyCert ELSE @[k]],
             !.commits = [k \in Seqno |-> IF k <= nv.min THEN EmptyCert ELSE @[k]]] :
     last \in Highest({nv.min, s.prepared, s.executed} \union {p.seqno : p \in nv.proofs})}

\* Bound: a New_view is installed only while the ring of slices stays in line,
\* that is when its min is not behind the stable point and the next seqno not
\* past the window.  Module AgreementRegion shows what happens otherwise.
Orderly(s, t, nv) == s.stable <= nv.min /\ t.seqno <= nv.min + WindowSize

\* A View_change that was not collected, but is for a later view than the
\* replica's own, makes it enter that view; in_progress and the collected
\* View_changes stay as they are.
SyncView(s, v) ==
  [s EXCEPT !.view = v,
            !.seqno = Larger(@, Larger(s.stable, Larger(s.prepared, s.executed)) + 1),
            !.prepared = Larger(@, s.stable), !.executed = Larger(@, s.stable),
            !.ckpt = TruncateCkpt(@, s.stable)]

-----------------------------------------------------------------------------
(* Messages *)

\* Mutant of PreparedReqs: every slot of the window is reported.
ReqsOfWindow(s) ==
  {[seqno |-> n, digest |-> s.pp[n].digest] : n \in {k \in Seqno : InWindow(s, k)}}

\* send_view_change reports what is prepared above the stable point.
PreparedReqs(s) ==
  {[seqno |-> n, digest |-> s.pp[n].digest] :
     n \in {k \in Seqno : s.stable < k /\ k <= s.prepared /\ InWindow(s, k) /\ Prepared(s, k)}}

VCsOf(q) ==
  IF q \in Faulty
  THEN {[id |-> q, v |-> v, ls |-> c.ls, reqs |-> c.reqs, copies |-> c.copies] :
          v \in View, c \in FaultyVCs}
  ELSE vcSent[q]

NVsOf(q) ==
  IF q \in Faulty
  THEN {[v |-> v, min |-> c.min, max |-> c.max, proofs |-> c.proofs] :
          v \in {w \in View : PrimaryOf(w) = q}, c \in FaultyNVs}
  ELSE nvSent[q]

-----------------------------------------------------------------------------
(* Actions of replica r *)

\* Handlers of module Agreement that leave tbft_view_info alone.
AgreementStep(r) ==
  /\ Propose(r) \/ RecvPrepare(r) \/ RecvCommit(r) \/ RecvCheckpoint(r)
  /\ UNCHANGED <<vi, vcSent, nvSent, proven>>

\* A Pre_prepare of a later view ends any view change.
PrePrepareStep(r) ==
  /\ RecvPrePrepare(r)
  /\ vi' = [vi EXCEPT ![r] = IF replica'[r].view > replica[r].view
                             THEN ViReset(replica'[r].view + 1) ELSE @]
  /\ UNCHANGED <<vcSent, nvSent, proven>>

\* A Status of a later view ends one only if this replica takes part in it.
StatusStep(r) ==
  /\ RecvStatus(r)
  /\ vi' = [vi EXCEPT ![r] = IF /\ replica'[r].view > replica[r].view
                                /\ replica[r].inProgress
                             THEN ViReset(replica'[r].view + 1) ELSE @]
  /\ UNCHANGED <<vcSent, nvSent, proven>>

\* send_view_change.  The first View_change of this replica for the target is
\* the one it counts itself; a later one may list more.  A stable point more
\* than a window behind what was executed is reported as if it were in reach.
\* A signature that fails comes too late to undo the change of target.
SendViewChange(r) ==
  LET s      == replica[r]
      target == Larger(s.view + 1, vi[r].target)
      asked  == IF vi[r].target # target THEN ViReset(target) ELSE vi[r]
      vc     == [id |-> r, v |-> target, ls |-> Larger(s.stable, s.executed - WindowSize),
                 reqs |-> PreparedReqs(s), copies |-> 1]
  IN  /\ r \in Impatient
      /\ target \in View
      /\ replica' = [replica EXCEPT ![r].inProgress = TRUE]
      /\ \/ /\ vi' = [vi EXCEPT ![r] = IF Collects(asked, vc) THEN Collect(asked, vc) ELSE asked]
            /\ vcSent' = [vcSent EXCEPT ![r] = @ \union {vc}]
         \/ /\ r \in Unsigning
            /\ vi' = [vi EXCEPT ![r] = asked]
            /\ UNCHANGED vcSent
      /\ UNCHANGED <<nvSent, proven>>

\* handle_view_change when the message is collected and this replica is not the
\* primary of the target view, has no quorum yet, or cannot sign the New_view:
\* the next View_change of the target view then makes it try again.
CollectViewChange(r) ==
  \E q \in Replica \ {r} : \E m \in VCsOf(q) :
    /\ Collects(vi[r], m)
    /\ PrimaryOf(m.v) = r /\ HasQuorum(Collect(vi[r], m)) => r \in Unsigning
    /\ vi' = [vi EXCEPT ![r] = Collect(@, m)]
    /\ UNCHANGED <<replica, vcSent, nvSent, proven>>

\* Mutant of LeadNewView: the target view is not raised afterwards.
LeadNewViewAgain(r) ==
  \E q \in Replica \ {r} : \E m \in VCsOf(q) : \E nv \in NewViews(Collect(vi[r], m)) :
    /\ Collects(vi[r], m)
    /\ PrimaryOf(m.v) = r /\ HasQuorum(Collect(vi[r], m))
    /\ \E t \in Install(replica[r], nv) :
         /\ Orderly(replica[r], t, nv)
         /\ replica' = [replica EXCEPT ![r] = t]
    /\ vi' = [vi EXCEPT ![r] = ViReset(m.v)]
    /\ nvSent' = [nvSent EXCEPT ![r] = @ \union {nv}]
    /\ UNCHANGED <<vcSent, proven>>

\* The View_change that completes a quorum at the primary of the target view:
\* it sends the New_view and installs it, even if it has since entered a later
\* view and even if min is above max.
LeadNewView(r) ==
  \E q \in Replica \ {r} : \E m \in VCsOf(q) : \E nv \in NewViews(Collect(vi[r], m)) :
    /\ Collects(vi[r], m)
    /\ PrimaryOf(m.v) = r /\ HasQuorum(Collect(vi[r], m))
    /\ \E t \in Install(replica[r], nv) :
         /\ Orderly(replica[r], t, nv)
         /\ replica' = [replica EXCEPT ![r] = t]
    /\ vi' = [vi EXCEPT ![r] = ViReset(m.v + 1)]
    /\ nvSent' = [nvSent EXCEPT ![r] = @ \union {nv}]
    /\ UNCHANGED <<vcSent, proven>>

\* handle_view_change when the message is not collected.
SyncToViewChange(r) ==
  \E q \in Replica \ {r} : \E m \in VCsOf(q) :
    /\ ~Collects(vi[r], m)
    /\ m.v > replica[r].view
    /\ replica' = [replica EXCEPT ![r] = SyncView(@, m.v)]
    /\ UNCHANGED <<vi, vcSent, nvSent, proven>>

\* handle_new_view of a backup.
RecvNewView(r) ==
  \E q \in Replica \ {r} : \E nv \in NVsOf(q) :
    /\ nv.v >= replica[r].view
    /\ Verifies(vi[r], nv)
    /\ \E t \in Install(replica[r], nv) :
         /\ Orderly(replica[r], t, nv)
         /\ replica' = [replica EXCEPT ![r] = t]
    /\ vi' = [vi EXCEPT ![r] = ViReset(nv.v + 1)]
    /\ proven' = [proven EXCEPT ![r] = @ \union nv.proofs]
    /\ UNCHANGED <<vcSent, nvSent>>

\* An idle replica may still give up on its primary.
VCNext ==
  \/ \E r \in Correct : SendViewChange(r)
  \/ \E r \in Correct \ Idle :
       \/ AgreementStep(r)
       \/ PrePrepareStep(r)
       \/ StatusStep(r)
       \/ CollectViewChange(r)
       \/ LeadNewView(r)
       \/ SyncToViewChange(r)
       \/ RecvNewView(r)

VCSpec == VCInit /\ [][VCNext]_vcVars

-----------------------------------------------------------------------------
(* Properties; Agreement, OneCommitPerSeqno and the other safety properties *)
(* of module Agreement hold across New_views as well.                       *)

ViewChangeMsg ==
  [id : Replica, v : View, ls : Nat, reqs : SUBSET ReqInfo, copies : Nat \ {0}]
NewViewMsg == [v : View, min : Nat, max : Nat, proofs : SUBSET ReqInfo]

\* The type invariant.
VCTypeOK ==
  /\ TypeOK
  /\ vi \in [Correct -> [target : 0 .. MaxView + 1, vcs : SUBSET ViewChangeMsg]]
  /\ vcSent \in [Correct -> SUBSET ViewChangeMsg]
  /\ nvSent \in [Correct -> SUBSET NewViewMsg]
  /\ proven \in [Correct -> SUBSET ReqInfo]

\* handle_view_change: a correct primary sends one New_view for a view, however
\* many View_changes come late, twice or with other contents, and whatever
\* views it enters by other means in between.
OneNewView ==
  \A r \in Correct : \A nv1, nv2 \in nvSent[r] : nv1.v = nv2.v => nv1 = nv2

\* tbft_vi_verify_nv: what an installed New_view proves about a sequence number
\* is never contradicted by what a correct replica executed there, before or
\* after, whoever computed the New_view.
ProofsStand ==
  \A r, q \in Correct : \A p \in proven[r] :
    replica[q].log[p.seqno] \in {NoDigest, p.digest}

\* send_pre_prepare: a correct primary gives a sequence number to one request
\* only, in a view and over all its views, although installing a view may set
\* its next sequence number back to one it already used.
NoEquivocation ==
  \A r \in Correct : \A m1, m2 \in replica[r].ppSent :
    m1.seqno = m2.seqno => m1.digest = m2.digest

\* docs/06, "four monotonic counters": installing a view never takes back what
\* is stable, prepared or executed (the fourth, seqno, may go back).
CountersGrow ==
  [][\A r \in Correct :
       /\ replica'[r].stable >= replica[r].stable
       /\ replica'[r].prepared >= replica[r].prepared
       /\ replica'[r].executed >= replica[r].executed]_vcVars

\* docs/06-replica-state-machine.md:521 on last_executed: "Highest seqno whose
\* request was executed and replied to".  Stated of replicas that started no
\* state fetch.
ExecutedWasExecuted ==
  \A r \in Correct : \A n \in Seqno :
    replica[r].fetch = 0 /\ n <= replica[r].executed => replica[r].log[n] # NoDigest
=============================================================================
