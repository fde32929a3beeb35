----------------------------- MODULE Agreement -----------------------------
(***************************************************************************)
(* The three-phase agreement protocol of tbft_replica.c: pre-prepare,      *)
(* prepare, commit, in-order execution, checkpoints and the advance of the *)
(* watermarks, view adoption by a higher-view Pre_prepare or Status, and   *)
(* the catch-up a Status triggers.                                         *)
(*                                                                         *)
(* A replica is one single-threaded task, so a handler is one action.  The *)
(* state of a correct replica is a record; a handler is an operator from   *)
(* that record to the set of records it may leave (the set has more than   *)
(* one member only where the code reads a clock).  The fields xxxSent hold *)
(* every message of a kind the replica ever sent: UDP and ESP-NOW lose,    *)
(* repeat and reorder packets, so any of them may arrive at any time, any  *)
(* number of times, or never.  A faulty replica sends what it likes under  *)
(* its own name only, since HMACs authenticate the sender.                 *)
(*                                                                         *)
(* In this part of the protocol ar.head is always last_stable + 1, so the  *)
(* ring of agreement slices is a function from seqno to slice.             *)
(* What the code does with view-change certificates (View_change and       *)
(* New_view messages), fetched data, fill requests, session keys and the   *)
(* request queues is not in this module.  The view-change timer is not a   *)
(* variable: StartViewChange may happen at any time.                       *)
(***************************************************************************)
EXTENDS Certificates

CONSTANTS
  Faulty,      \* the Byzantine replicas
  Request,     \* digests of requests that clients have signed
  Rejected,    \* those the application's exec_cb refuses (returns non-zero)
  MaxView,     \* bound on views
  MaxSeqno,    \* bound on sequence numbers
  PeerSeqno,   \* the seqnos a Status may report (bound on its contents)
  FaultyCkpt,  \* the seqnos faulty replicas announce checkpoints for (bound)
  FaultySends, \* the claims faulty replicas make, in any view (bound)
  Impatient,   \* replicas whose view-change timer may fire (bound)
  Idle         \* correct replicas that never take a step (bound)

View    == 0 .. MaxView
Seqno   == 1 .. MaxSeqno

\* What a protocol message says besides its view.  NoDigest stands for a
\* Pre_prepare whose request does not check.
Claim == [type : {"Pre_prepare", "Prepare", "Commit"}, seqno : Seqno,
          digest : Request \union {NoDigest}]

ASSUME FaultyAssumption == Faulty \subseteq Replica
ASSUME RequestAssumption == NoDigest \notin Request /\ Rejected \subseteq Request
ASSUME BoundAssumption ==
  /\ MaxView \in Nat /\ MaxSeqno \in Nat
  /\ PeerSeqno \subseteq Nat /\ FaultyCkpt \subseteq Nat \ {0}
  /\ Impatient \subseteq Replica /\ Idle \subseteq Replica
  /\ FaultySends \subseteq Claim

Correct == Replica \ Faulty

VARIABLE replica        \* [Correct -> the record described by InitState]
vars == <<replica>>

NoPP == [view |-> -1, digest |-> NoDigest]

\* What the application did: log[n] is the request exec_cb was called with for
\* seqno n.  The service state, and so its root digest, is a function of it.
EmptyLog == [n \in Seqno |-> NoDigest]

InitState ==
  [view       |-> 0,        \* node.view
   inProgress |-> FALSE,    \* vi.in_progress
   seqno      |-> 1,        \* next seqno a primary assigns
   stable     |-> 0,        \* last_stable
   prepared   |-> 0,        \* last_prepared
   executed   |-> 0,        \* last_executed
   fill       |-> 0,        \* pending_fill_seqno
   fetch      |-> 0,        \* state.fetch_seqno, 0 when not in_fetch
   pp         |-> [n \in Seqno |-> NoPP],
   prepares   |-> [n \in Seqno |-> EmptyCert],
   commits    |-> [n \in Seqno |-> EmptyCert],
   ckpt       |-> EmptyRegion,
   log        |-> EmptyLog,
   root       |-> EmptyLog, \* ptree root: the log at the last local checkpoint
   ppSent     |-> {},
   prepSent   |-> {},
   commitSent |-> {},
   ckptSent   |-> {}]

Init == replica = [r \in Correct |-> InitState]

-----------------------------------------------------------------------------
(* Predicates on one replica's state *)

PrimaryOf(v) == v % N
IsPrimary(s, r) == PrimaryOf(s.view) = r

InWindow(s, n) == s.stable < n /\ n <= s.stable + WindowSize

HasPP(s, n) == s.pp[n] # NoPP

Prepared(s, n) == HasPP(s, n) /\ Wins(s.prepares[n], s.pp[n].digest, PrepareThreshold)

Committed(s, n) ==
  InWindow(s, n) /\ \E d \in Digests(s.commits[n]) : Wins(s.commits[n], d, Threshold)

\* add_pp: an occupied slot accepts only the same request in a later view.
SlotAccepts(s, n, v, d) ==
  HasPP(s, n) => s.pp[n].digest = d /\ v > s.pp[n].view

Larger(a, b) == IF a > b THEN a ELSE b

-----------------------------------------------------------------------------
(* Steps that several handlers share *)

StorePP(s, n, v, d) == [s EXCEPT !.pp[n] = [view |-> v, digest |-> d]]

\* The own vote enters the certificate only once; the caller decides whether a
\* vote that was refused is sent all the same.
SendPrepare(s, r, n, d) ==
  [s EXCEPT !.prepares[n] = AddVote(@, r, d),
            !.prepSent = @ \union {[view |-> s.view, seqno |-> n, digest |-> d]}]

SendCommit(s, r, n) ==
  IF ~(InWindow(s, n) /\ HasPP(s, n)) THEN s
  ELSE LET d == s.pp[n].digest
       IN  [s EXCEPT !.commits[n] = AddVote(@, r, d),
                     !.commitSent = @ \union {[view |-> s.view, seqno |-> n, digest |-> d]}]

\* A later view is adopted without any view-change certificate.  The regions
\* are truncated at last_stable, so slots and votes above it survive.
EnterView(s, v) ==
  [s EXCEPT !.view = v, !.inProgress = FALSE, !.ckpt = TruncateCkpt(@, s.stable)]

\* The part of mark_stable after its digest check.
Truncate(s, n) ==
  [s EXCEPT !.stable = n,
            !.prepared = Larger(@, n),
            !.executed = Larger(@, n),
            !.fill = IF @ <= n THEN 0 ELSE @,
            !.pp = [k \in Seqno |-> IF k <= n THEN NoPP ELSE @[k]],
            !.prepares = [k \in Seqno |-> IF k <= n THEN EmptyCert ELSE @[k]],
            !.commits = [k \in Seqno |-> IF k <= n THEN EmptyCert ELSE @[k]],
            !.ckpt = TruncateCkpt(@, n)]

\* Mutant of MayFetch: the stable point is moved when the fetch starts.
MayFetchTrusting(s, n) ==
  {s} \union (IF s.fetch < n THEN {[Truncate(s, n) EXCEPT !.fetch = n]} ELSE {})

\* start_fetch, unless one at least as far is running or the last one started
\* less than 500 ms ago.
MayFetch(s, n) == {s} \union (IF s.fetch < n THEN {[s EXCEPT !.fetch = n]} ELSE {})

\* Mutant of MarkStable: the quorum's digest is not compared with the own root.
MarkStableUnverified(s, n) == IF n <= s.stable THEN {s} ELSE {Truncate(s, n)}

\* The quorum's digest is compared with the current root, whatever checkpoint
\* that root belongs to.
MarkStable(s, n) ==
  IF n <= s.stable THEN {s}
  ELSE LET winning == WinningDigest(s.ckpt, n)
       IN  IF winning # NoDigest /\ winning # s.root THEN MayFetch(s, n)
           ELSE {Truncate(s, n)}

-----------------------------------------------------------------------------
(* execute_committed: the loop from last_executed + 1 to last_prepared.    *)

\* Mutant of Certified: a quorum for any digest will do.
CertifiedForSomeDigest(s, n) ==
  /\ HasPP(s, n)
  /\ InWindow(s, n)
  /\ \E d \in Digests(s.commits[n]) : Wins(s.commits[n], d, Threshold)

\* The loop does not stop at n for lack of a certificate ...
Certified(s, n) ==
  /\ HasPP(s, n)
  /\ InWindow(s, n)
  /\ Wins(s.commits[n], s.pp[n].digest, Threshold)

\* ... nor because the application refuses the request.
Executable(s, n) == Certified(s, n) /\ s.pp[n].digest \notin Rejected

\* Mutant of Run: the loop skips what it cannot execute instead of stopping.
RunWithHoles(s) ==
  {n \in s.executed + 1 .. s.prepared : n \in Seqno /\ Executable(s, n)}

\* The seqnos this call executes, and the log when it has executed n.
Run(s) ==
  {n \in s.executed + 1 .. s.prepared :
     \A k \in s.executed + 1 .. n : k \in Seqno /\ Executable(s, k)}

\* Mutant of LogAt: every digest is taken when the loop has ended.
LogAtEnd(s, n) == [k \in Seqno |-> IF k \in Run(s) THEN s.pp[k].digest ELSE s.log[k]]

LogAt(s, n) ==
  [k \in Seqno |-> IF k \in Run(s) /\ k <= n THEN s.pp[k].digest ELSE s.log[k]]

Due(s) == {n \in Run(s) : n % CheckpointInterval = 0}

\* Own checkpoints are stored before they are broadcast.  Two that are due in
\* one call are less than a window apart and never share a slot.
OwnCkpts(s, r) ==
  [i \in 0 .. NumCkptSlots - 1 |->
     IF \E n \in Due(s) : SlotIndex(n) = i
     THEN LET n == CHOOSE n \in Due(s) : SlotIndex(n) = i
          IN  StoreCkpt(s.ckpt, n, r, LogAt(s, n))[i]
     ELSE s.ckpt[i]]

\* The checkpoints whose quorum the own vote completes, by whether the
\* quorum's digest is the root just computed.
SelfStable(s, r) == {n \in Due(s) : n > s.stable /\ Completes(s.ckpt, n, r, LogAt(s, n))}
Confirmed(s, r) ==
  {n \in SelfStable(s, r) : WinningDigest(OwnCkpts(s, r), n) = LogAt(s, n)}
Refuted(s, r) == SelfStable(s, r) \ Confirmed(s, r)

\* The state when the loop ends at `last', before mark_stable's effects.
Executed(s, r, last) ==
  [s EXCEPT !.executed = last,
            !.log = LogAt(s, last),
            !.root = IF Due(s) = {} THEN @
                     ELSE LogAt(s, CHOOSE n \in Due(s) : \A k \in Due(s) : k <= n),
            !.ckpt = OwnCkpts(s, r),
            !.ckptSent = @ \union {[seqno |-> n, digest |-> LogAt(s, n)] : n \in Due(s)},
            !.fill = IF /\ last < s.prepared
                        /\ ~(last + 1 \in Seqno /\ Certified(s, last + 1))
                        /\ ~s.inProgress
                     THEN last + 1 ELSE @]

ExecuteCommitted(s, r) ==
  LET ends   == {m \in {s.executed} \union Run(s) : \A k \in Run(s) : k <= m}
      stable == {m \in {s.stable} \union Confirmed(s, r) : \A k \in Confirmed(s, r) : k <= m}
  IN  {IF m > s.stable THEN Truncate(t, m) ELSE t :
         m \in stable,
         t \in UNION {LET e == Executed(s, r, last)
                      IN  {e} \union {[e EXCEPT !.fetch = n] :
                                        n \in {k \in Refuted(s, r) : k > s.fetch}} :
                      last \in ends}}

-----------------------------------------------------------------------------
(* Message handlers of replica r in state s *)

\* handle_request and send_pre_prepare of a primary, seen from the agreement
\* slots: the request at the front of the queue gets the next seqno.  When the
\* slot is taken the request is dropped and nothing here changes.
CanPropose(s, r, d) ==
  /\ IsPrimary(s, r)
  /\ ~s.inProgress
  /\ s.seqno \in Seqno
  /\ InWindow(s, s.seqno)
  /\ SlotAccepts(s, s.seqno, s.view, d)

ProposeRequest(s, r, d) ==
  LET stored == StorePP(s, s.seqno, s.view, d)
      sent   == SendPrepare(stored, r, s.seqno, d)
  IN  [sent EXCEPT !.ppSent = @ \union {[view |-> s.view, seqno |-> s.seqno, digest |-> d]},
                   !.seqno = @ + 1]

\* Mutant of HandlePrePrepare: a request that does not check is accepted.
HandlePrePrepareUnchecked(s, r, v, n, d) ==
  LET here   == IF v > s.view
                THEN [EnterView(s, v) EXCEPT !.prepared = Larger(@, s.stable),
                                             !.executed = Larger(@, s.stable)]
                ELSE s
      stored == [StorePP(here, n, v, d) EXCEPT !.seqno = Larger(@, n + 1)]
  IN  IF SlotAccepts(here, n, v, d) THEN SendPrepare(stored, r, n, d) ELSE here

\* d = NoDigest is a Pre_prepare of the primary whose MAC is right but whose
\* request is missing, does not match the digest or is not signed: it still
\* makes the replica adopt the view.  A Prepare is not repeated when the own
\* vote is already in the certificate.
AcceptsPrePrepare(s, r, v, n) ==
  v >= s.view /\ PrimaryOf(v) # r /\ InWindow(s, n)

HandlePrePrepare(s, r, v, n, d) ==
  LET here   == IF v > s.view
                THEN [EnterView(s, v) EXCEPT !.prepared = Larger(@, s.stable),
                                             !.executed = Larger(@, s.stable)]
                ELSE s
      stored == [StorePP(here, n, v, d) EXCEPT !.seqno = Larger(@, n + 1)]
  IN  IF d = NoDigest \/ ~SlotAccepts(here, n, v, d) THEN here
      ELSE IF HasRoom(stored.prepares[n], r, d) THEN SendPrepare(stored, r, n, d)
      ELSE stored

AcceptsPrepare(s, r, q, v, n, d) ==
  /\ v = s.view /\ InWindow(s, n) /\ q # r
  /\ HasPP(s, n) /\ s.pp[n].digest = d
  /\ HasRoom(s.prepares[n], q, d)

HandlePrepare(s, r, q, n, d) ==
  LET added == [s EXCEPT !.prepares[n] = AddVote(@, q, d)]
      prep  == [added EXCEPT !.prepared = Larger(@, n)]
      sent  == IF prep.commits[n][r] = NoDigest THEN SendCommit(prep, r, n) ELSE prep
  IN  IF ~Prepared(added, n) THEN {added}
      ELSE IF Committed(sent, n) THEN ExecuteCommitted(sent, r) ELSE {sent}

\* Without the Pre_prepare the digest cannot be checked and the vote is stored
\* as it is.  A prepared replica repeats its own Commit, at most every 500 ms.
AcceptsCommit(s, r, q, v, n, d) ==
  /\ v = s.view /\ InWindow(s, n) /\ q # r
  /\ HasPP(s, n) => s.pp[n].digest = d
  /\ HasRoom(s.commits[n], q, d)

HandleCommit(s, r, q, n, d) ==
  LET added  == [s EXCEPT !.commits[n] = AddVote(@, q, d)]
      resent == IF Prepared(added, n) /\ ~Committed(added, n)
                THEN {added, SendCommit(added, r, n)} ELSE {added}
  IN  UNION {IF Committed(t, n) THEN ExecuteCommitted(t, r) ELSE {t} : t \in resent}

\* No check that n is in the window or above last_stable before it is stored.
AcceptsCheckpoint(s, r, q, n) ==
  n % CheckpointInterval = 0 /\ q # r /\ q \notin SlotFor(s.ckpt, n).present

HandleCheckpoint(s, q, n, d) ==
  LET stored == [s EXCEPT !.ckpt = StoreCkpt(@, n, q, d)]
  IN  IF Completes(s.ckpt, n, q, d) THEN MarkStable(stored, n) ELSE {stored}

\* Status messages carry no authenticator: their contents can be anything.
StatusTarget(ls, le) ==
  IF ls > 0 \/ le = 0 THEN ls
  ELSE Larger(CheckpointInterval, (le \div CheckpointInterval) * CheckpointInterval)

\* More than 10 views ahead is refused unless the sender is a window ahead.
AcceptsStatus(s, v, ls) ==
  v >= s.view /\ (v <= s.view + 10 \/ ls >= s.stable + WindowSize)

AdoptStatusView(s, v, ls, le) ==
  LET entered == [EnterView(s, v) EXCEPT
                    !.seqno = Larger(@, Larger(s.stable, Larger(s.prepared, s.executed)) + 1)]
      target  == StatusTarget(ls, le)
  IN  IF target > s.stable /\ s.fetch = 0
      THEN {entered, [entered EXCEPT !.fetch = target]}
      ELSE {entered}

\* Re-sending stored Pre_prepares and checkpoints adds nothing to what was
\* sent; re-sending commits does, because they carry the current view.
ResendCommits(s, r, le) ==
  LET range == {n \in Seqno : le < n /\ n <= s.executed /\ InWindow(s, n) /\ HasPP(s, n)}
  IN  [s EXCEPT !.commits = [n \in Seqno |->
                               IF n \in range THEN AddVote(@[n], r, s.pp[n].digest) ELSE @[n]],
                !.commitSent = @ \union
                  {[view |-> s.view, seqno |-> n, digest |-> s.pp[n].digest] : n \in range}]

HandleStatus(s, r, v, ls, le) ==
  LET synced == IF v > s.view THEN AdoptStatusView(s, v, ls, le) ELSE {s}
      far    == le - s.executed > CheckpointInterval
      asked  == UNION {IF far /\ StatusTarget(ls, le) > t.stable
                       THEN MayFetch(t, StatusTarget(ls, le)) ELSE {t} : t \in synced}
  IN  asked \union {ResendCommits(t, r, le) :
                      t \in {u \in asked : le < u.executed
                                           /\ le + 4 * WindowSize >= u.executed}}

-----------------------------------------------------------------------------
(* The system *)

\* A handler that leaves everything as it was is a stuttering step.
Become(r, t) == t # replica[r] /\ replica' = [replica EXCEPT ![r] = t]

\* What a sender may have put on the wire: a correct replica only what it sent.
Vote == [view : View, seqno : Seqno, digest : Request]

FaultyMessages(type, views) ==
  {[view |-> v, seqno |-> c.seqno, digest |-> c.digest] :
     v \in views, c \in {x \in FaultySends : x.type = type}}

PPsOf(v) ==
  LET p == PrimaryOf(v)
  IN  IF p \in Faulty THEN FaultyMessages("Pre_prepare", {v})
      ELSE UNION {{m \in replica[q].ppSent : m.view = v} : q \in {p} \cap Correct}

PreparesOf(q) == IF q \in Faulty THEN FaultyMessages("Prepare", View) \cap Vote
                 ELSE replica[q].prepSent
CommitsOf(q)  == IF q \in Faulty THEN FaultyMessages("Commit", View) \cap Vote
                 ELSE replica[q].commitSent

\* Root digests are hashes: a faulty replica reports one it has seen or a
\* wrong one.
KnownRoots == UNION {{m.digest : m \in replica[p].ckptSent} : p \in Correct}
CkptsOf(q) ==
  IF q \in Faulty
  THEN [seqno : FaultyCkpt, digest : KnownRoots \union {EmptyLog}]
  ELSE replica[q].ckptSent

Propose(r) ==
  \E d \in Request :
    /\ CanPropose(replica[r], r, d)
    /\ Become(r, ProposeRequest(replica[r], r, d))

RecvPrePrepare(r) ==
  \E v \in View : \E m \in PPsOf(v) :
    /\ AcceptsPrePrepare(replica[r], r, v, m.seqno)
    /\ Become(r, HandlePrePrepare(replica[r], r, v, m.seqno, m.digest))

RecvPrepare(r) ==
  \E q \in Replica : \E m \in PreparesOf(q) :
    /\ AcceptsPrepare(replica[r], r, q, m.view, m.seqno, m.digest)
    /\ \E t \in HandlePrepare(replica[r], r, q, m.seqno, m.digest) : Become(r, t)

RecvCommit(r) ==
  \E q \in Replica : \E m \in CommitsOf(q) :
    /\ AcceptsCommit(replica[r], r, q, m.view, m.seqno, m.digest)
    /\ \E t \in HandleCommit(replica[r], r, q, m.seqno, m.digest) : Become(r, t)

RecvCheckpoint(r) ==
  \E q \in Replica : \E m \in CkptsOf(q) :
    /\ AcceptsCheckpoint(replica[r], r, q, m.seqno)
    /\ \E t \in HandleCheckpoint(replica[r], q, m.seqno, m.digest) : Become(r, t)

RecvStatus(r) ==
  \E v \in View, ls \in PeerSeqno, le \in PeerSeqno :
    /\ AcceptsStatus(replica[r], v, ls)
    /\ \E t \in HandleStatus(replica[r], r, v, ls, le) : Become(r, t)

\* send_view_change, as far as this module's state goes: the replica stops
\* proposing and stops asking for fills until a view is installed.
StartViewChange(r) ==
  /\ r \in Impatient
  /\ ~replica[r].inProgress
  /\ Become(r, [replica[r] EXCEPT !.inProgress = TRUE])

Next ==
  \E r \in Correct \ Idle :
    \/ Propose(r)
    \/ RecvPrePrepare(r)
    \/ RecvPrepare(r)
    \/ RecvCommit(r)
    \/ RecvCheckpoint(r)
    \/ RecvStatus(r)
    \/ StartViewChange(r)

Spec == Init /\ [][Next]_vars

-----------------------------------------------------------------------------
(* Properties *)

HasCommitted(q, n, d) ==
  \E m \in replica[q].commitSent : m.seqno = n /\ m.digest = d

\* The type of one replica's record.
Cert == [Replica -> Request \union {NoDigest}]
Log  == [Seqno -> Request \union {NoDigest}]
Slot == [seqno : Nat, present : SUBSET Replica,
         votes : [Replica -> Log \union {NoDigest}], winning : Log \union {NoDigest}]
State ==
  [view : View, inProgress : BOOLEAN,
   seqno : Nat, stable : Nat, prepared : Nat, executed : Nat, fill : Nat, fetch : Nat,
   pp : [Seqno -> [view : View, digest : Request] \union {NoPP}],
   prepares : [Seqno -> Cert], commits : [Seqno -> Cert],
   ckpt : [0 .. NumCkptSlots - 1 -> Slot],
   log : Log, root : Log,
   ppSent : SUBSET Vote, prepSent : SUBSET Vote, commitSent : SUBSET Vote,
   ckptSent : SUBSET [seqno : Nat, digest : Log]]

\* The type invariant.
TypeOK == replica \in [Correct -> State]

\* Safety of the replicated service: two correct replicas never call exec_cb
\* with different requests for the same sequence number (execute_committed),
\* whatever primaries, views and checkpoints each of them went through.
Agreement ==
  \A r, q \in Correct : \A n \in Seqno :
    \/ replica[r].log[n] = NoDigest
    \/ replica[q].log[n] = NoDigest
    \/ replica[r].log[n] = replica[q].log[n]

\* send_commit: over its whole life, across all views, a correct replica
\* commits to at most one request per sequence number.  Nothing in the code
\* records this; it follows from add_pp never replacing the request of an
\* occupied slot and from the window check refusing a slot once it is freed.
OneCommitPerSeqno ==
  \A r \in Correct : \A m1, m2 \in replica[r].commitSent :
    m1.seqno = m2.seqno => m1.digest = m2.digest

\* Every executed request is backed by a quorum of 2F+1 replicas that sent a
\* Commit for it (a faulty one may count for anything).
ExecutedByQuorum ==
  \A r \in Correct : \A n \in Seqno :
    replica[r].log[n] # NoDigest =>
      Cardinality(Faulty \union
                    {q \in Correct : HasCommitted(q, n, replica[r].log[n])}) >= Threshold

\* What makes that safe across views: F+1 correct replicas can no longer vote
\* for anything else.  Each of them still holds the executed request's
\* Pre_prepare in the slot, which add_pp never gives to another request, or has
\* a stable checkpoint past it and refuses the seqno in in_window.
ExecutedStaysLocked ==
  \A r \in Correct : \A n \in Seqno :
    replica[r].log[n] # NoDigest =>
      Cardinality({q \in Correct : \/ n <= replica[q].stable
                                   \/ replica[q].pp[n].digest = replica[r].log[n]}) >= F + 1

\* At most one request per sequence number can ever be given a commit
\* certificate, whichever replica collects it and whatever faulty ones add.
UniqueCommitQuorum ==
  \A n \in Seqno : \A d, e \in Request :
    /\ Cardinality(Faulty \union {q \in Correct : HasCommitted(q, n, d)}) >= Threshold
    /\ Cardinality(Faulty \union {q \in Correct : HasCommitted(q, n, e)}) >= Threshold
    => d = e

\* execute_committed leaves no hole: whatever is at or below last_executed was
\* executed, nothing above it was, and the stable point is never ahead of it.
NoGaps ==
  \A r \in Correct :
    /\ replica[r].stable <= replica[r].executed
    /\ \A n \in Seqno : replica[r].log[n] # NoDigest <=> n <= replica[r].executed

\* Correct replicas announce the same root digest for the same checkpoint.
CheckpointAgreement ==
  \A r, q \in Correct : \A m1 \in replica[r].ckptSent, m2 \in replica[q].ckptSent :
    m1.seqno = m2.seqno => m1.digest = m2.digest

\* mark_stable in this module rests on a checkpoint quorum: at least F+1
\* correct replicas executed up to the stable point and announced it.
StableIsProven ==
  \A r \in Correct :
    replica[r].stable > 0 =>
      Cardinality({q \in Correct : \E m \in replica[q].ckptSent :
                                     m.seqno = replica[r].stable}) >= F + 1

\* No replica executes a sequence number twice or out of order.
ExecutesInOrder ==
  [][\A r \in Correct : \A n \in Seqno :
       replica'[r].log[n] # replica[r].log[n] =>
         /\ n > replica[r].executed
         /\ \A k \in 1 .. n : replica'[r].log[k] # NoDigest]_vars
=============================================================================
