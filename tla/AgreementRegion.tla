-------------------------- MODULE AgreementRegion --------------------------
(***************************************************************************)
(* The ring of agreement slices (tbft_agreement_region.c) of one replica   *)
(* and all that tbft_replica.c does to it: the vote handlers store under a *)
(* sequence number, execution reads, checkpoints truncate, and the five    *)
(* places that enter a view truncate and then assign `head' directly,      *)
(* without moving head_idx.                                                *)
(*                                                                         *)
(* The contents of a slice are the sequence numbers its Pre_prepare and    *)
(* its two quorums were sent for; a request is known by the sequence       *)
(* number it was proposed at, and 0 is nothing.  A quorum arrives in one   *)
(* step; how votes add up is the matter of modules Certificates and        *)
(* Agreement, which take the ring for a function from seqno to slice.      *)
(***************************************************************************)
EXTENDS Integers

CONSTANTS
  WindowSize,          \* TBFT_WINDOW_SIZE, so that & mask is % WindowSize
  CheckpointInterval,  \* TBFT_CHECKPOINT_INTERVAL
  MaxSeqno,            \* bound on sequence numbers
  Orderly              \* every New_view finds the replica no further than its
                       \* min and with room in the window

ASSUME RingAssumption ==
  /\ WindowSize \in Nat \ {0} /\ CheckpointInterval \in Nat \ {0}
  /\ MaxSeqno \in Nat /\ Orderly \in BOOLEAN

Seqno == 1 .. MaxSeqno
Index == 0 .. WindowSize - 1
Checkpoint == {n \in Seqno : n % CheckpointInterval = 0}

VARIABLES
  ar,        \* [head, idx, slice]: the region
  stable,    \* last_stable
  prepared,  \* last_prepared
  executed,  \* last_executed
  log        \* history: the seqnos executed and what was executed as them
vars == <<ar, stable, prepared, executed, log>>

EmptySlice == [pp |-> 0, prepare |-> 0, commit |-> 0]

Init ==
  /\ ar = [head |-> 1, idx |-> 0, slice |-> [i \in Index |-> EmptySlice]]
  /\ stable = 0
  /\ prepared = 0
  /\ executed = 0
  /\ log = {}

-----------------------------------------------------------------------------
(* The region *)

Larger(a, b) == IF a > b THEN a ELSE b

InWindow(n) == stable < n /\ n <= stable + WindowSize

InRange(a, n) == a.head <= n /\ n < a.head + WindowSize

IndexOf(a, n) == (a.idx + (n - a.head)) % WindowSize

SliceOf(a, n) == a.slice[IndexOf(a, n)]

Put(a, n, slice) == [a EXCEPT !.slice[IndexOf(a, n)] = slice]

\* The slices the clear loop of tbft_ar_truncate reaches.
Freed(a, delta) ==
  {i \in Index : \E k \in Index : k < delta /\ i = (a.idx + k) % WindowSize}

Shifted(a, head, idx, freed) ==
  [head  |-> head,
   idx   |-> idx,
   slice |-> [i \in Index |-> IF i \in freed THEN EmptySlice ELSE a.slice[i]]]

\* Mutants of Truncate: the clear loop ends one slice early; the head moves by
\* the number of slices cleared; the index is not masked.
TruncateOneLess(a, head) ==
  IF head <= a.head THEN a
  ELSE Shifted(a, head, (a.idx + (head - a.head)) % WindowSize,
               Freed(a, head - a.head - 1))
TruncateCapped(a, head) ==
  LET delta == IF head - a.head > WindowSize THEN WindowSize ELSE head - a.head
  IN  IF head <= a.head THEN a
      ELSE Shifted(a, a.head + delta, (a.idx + delta) % WindowSize, Freed(a, delta))
TruncateUnmasked(a, head) ==
  IF head <= a.head THEN a
  ELSE Shifted(a, head, a.idx + (head - a.head), Freed(a, head - a.head))

Truncate(a, head) ==
  IF head <= a.head THEN a
  ELSE Shifted(a, head, (a.idx + (head - a.head)) % WindowSize,
               Freed(a, head - a.head))

\* Mutant of MoveHead: the region is initialised instead.
MoveHeadAfresh(a, head) ==
  [head |-> head, idx |-> 0, slice |-> [i \in Index |-> EmptySlice]]

\* What every place that enters a view does: ar.head = ..., after a truncation.
MoveHead(a, head) == [Truncate(a, head) EXCEPT !.head = head]

PreparedAt(a, n) ==
  InRange(a, n) /\ SliceOf(a, n).pp # 0 /\ SliceOf(a, n).prepare = SliceOf(a, n).pp

\* The slot does not stop execute_committed.
ExecutableAt(a, n) ==
  InRange(a, n) /\ SliceOf(a, n).pp # 0 /\ SliceOf(a, n).commit = SliceOf(a, n).pp

-----------------------------------------------------------------------------
(* The handlers *)

\* execute_committed, with a's votes and last_prepared = p: the loop, and the
\* stable checkpoint that the own votes may complete on the way.  Slots at or
\* below it are not read again, so the region is truncated at the end.
ExecuteCommitted(a, p) ==
  LET run == {n \in executed + 1 .. p : \A k \in executed + 1 .. n : ExecutableAt(a, k)}
  IN  /\ log' = log \union {[seqno |-> n, request |-> SliceOf(a, n).pp] : n \in run}
      /\ executed' \in {m \in {executed} \union run : \A k \in run : k <= m}
      /\ stable' \in {stable} \union {n \in run \intersect Checkpoint : n > stable}
      /\ prepared' = p
      /\ ar' = Truncate(a, stable' + 1)

\* send_pre_prepare or handle_pre_prepare.  add_pp overwrites a Pre_prepare
\* for another seqno and leaves the votes alone.
StorePP(n) ==
  /\ InWindow(n)
  /\ InRange(ar, n)
  /\ SliceOf(ar, n).pp # n
  /\ ar' = Put(ar, n, [SliceOf(ar, n) EXCEPT !.pp = n])
  /\ UNCHANGED <<stable, prepared, executed, log>>

\* The 2f-th Prepare: without its Pre_prepare none is stored.
PrepareQuorum(n) ==
  /\ InWindow(n)
  /\ InRange(ar, n)
  /\ SliceOf(ar, n).pp = n
  /\ SliceOf(ar, n).prepare = 0
  /\ LET a == Put(ar, n, [SliceOf(ar, n) EXCEPT !.prepare = n])
     IN  IF SliceOf(a, n).commit = 0
         THEN /\ ar' = a
              /\ prepared' = Larger(prepared, n)
              /\ UNCHANGED <<stable, executed, log>>
         ELSE ExecuteCommitted(a, Larger(prepared, n))

\* The 2f+1-th Commit, with the Pre_prepare or before it.
CommitQuorum(n) ==
  /\ InWindow(n)
  /\ InRange(ar, n)
  /\ SliceOf(ar, n).pp \in {0, n}
  /\ SliceOf(ar, n).commit = 0
  /\ ExecuteCommitted(Put(ar, n, [SliceOf(ar, n) EXCEPT !.commit = n]), prepared)

\* mark_stable after a quorum of Checkpoints or a completed fetch.
MarkStable(n) ==
  /\ n > stable
  /\ stable' = n
  /\ prepared' = Larger(prepared, n)
  /\ executed' = Larger(executed, n)
  /\ ar' = Truncate(ar, n + 1)
  /\ UNCHANGED log

\* A later view adopted from a Pre_prepare, a View_change or a Status.
AdoptView ==
  /\ ar' = MoveHead(ar, stable + 1)
  /\ UNCHANGED <<stable, prepared, executed, log>>

\* The next seqno after a New_view with prepared proofs up to top.
NextSeqno(min, top) == Larger(Larger(min, top), Larger(prepared, executed)) + 1

\* handle_new_view, and the new primary's own installation in
\* handle_view_change.  The min is the highest stable point among 2f+1
\* View_changes, sent before this replica's may have moved on.
InstallNewView(min, top) ==
  LET next  == NextSeqno(min, top)
      moved == MoveHead(ar, min + 1)
  IN  /\ top <= min + WindowSize
      /\ Orderly => min >= stable /\ next <= min + WindowSize
      /\ stable' = Larger(stable, min)
      /\ executed' = Larger(executed, min)
      /\ prepared' = Larger(prepared, min)
      /\ ar' = IF next > min + WindowSize THEN Truncate(moved, next) ELSE moved
      /\ UNCHANGED log

Next ==
  \/ \E n \in Seqno : StorePP(n) \/ PrepareQuorum(n) \/ CommitQuorum(n)
  \/ \E n \in Checkpoint : MarkStable(n)
  \/ AdoptView
  \/ \E min \in {0} \union Checkpoint, top \in {0} \union Seqno : InstallNewView(min, top)

Spec == Init /\ [][Next]_vars

-----------------------------------------------------------------------------
(* Properties *)

SliceType  == [pp : Nat, prepare : Nat, commit : Nat]
RegionType == [head : Nat \ {0}, idx : Index, slice : [Index -> SliceType]]

\* TypeOK: the region has its C types, and the head is a seqno.
TypeOK ==
  /\ ar \in RegionType
  /\ stable \in Nat /\ prepared \in Nat /\ executed \in Nat
  /\ log \subseteq [seqno : Nat, request : Nat]

\* HeadFollows: the window of tbft_ar_in_range is the one of in_window, so that
\* every seqno the handlers admit has a slice.
HeadFollows == ar.head = stable + 1

\* SlotsOwn: the slice tbft_ar_slice finds for a seqno holds a Pre_prepare and
\* votes for that seqno or none, never those of the seqno a window away.
SlotsOwn ==
  \A n \in Seqno : InRange(ar, n) =>
    SliceOf(ar, n) \in [pp : {0, n}, prepare : {0, n}, commit : {0, n}]

\* ExecutesOwn: execute_committed never runs the request of one seqno as that
\* of another.
ExecutesOwn == \A e \in log : e.request = e.seqno

\* InFlightKept: no handler drops a prepared certificate that fits in the
\* window the handler leaves.
InFlightKept ==
  [][\A n \in Seqno :
       PreparedAt(ar, n) /\ SliceOf(ar, n).pp = n /\ InWindow(n) /\ InWindow(n)'
         => PreparedAt(ar', n) /\ SliceOf(ar', n).pp = n]_vars
=============================================================================
