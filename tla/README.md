# A verification of esp-tinybft

esp-tinybft is PBFT state-machine replication in C for ESP32 microcontrollers:
statically allocated, no persistent storage, over UDP or ESP-NOW.  The TLA+
modules here model its protocol code, TLC checks them on small instances and
TLAPS proves their safety properties for every instance.  Paths below are
relative to the repository; `replica.c` means `src/tbft_replica.c`, and so on.

| Module | What it is |
|---|---|
| `Certificates` | vote certificates (`certificate.c`) and checkpoint slots (`checkpoint_region.c`) as operators on values |
| `VoteTable`, `VoteTableProofs` | the memory layout of one certificate, shown and proved to answer as the values of `Certificates` |
| `Agreement` | the three-phase protocol, execution, checkpoints, view adoption and catch-up of `replica.c` |
| `Ledger`, `AgreementLedger` | what the service promises, and the refinement mapping from `Agreement` |
| `AgreementProofs` | two inductive invariants of `Agreement`, the theorems that follow, and that it implements `Ledger` |
| `AgreementRegion`, `AgreementRegionProofs` | the ring of agreement slices under every handler that touches it, and what holds of it for every window size |
| `ViewChange`, `ViewChangeProofs` | extends `Agreement` by View_change and New_view messages and `view_info.c`; the inductive invariant extended to them |
| `StateTransfer`, `StateTransferProofs` | the replicated state, its partition tree and the fetch protocol; that tree and bitmap account for every block, and what is asked for fits the queue |
| `Requests`, `RequestsProofs` | a request's way from client to reply: queues, forwarding, gap fill, timers; that no wait is untimed and no answer wrong |
| `KeyExchange`, `KeyExchangeProofs` | session keys over any network, and what is proved of them |
| `EspNow` | the ESP-NOW transport |
| `KeysOverRadio`, `KeysOverRadioProofs` | the key exchange composed with the transport, and the proof that this implements `KeyExchange` |
| `MCAgreement`, `MCLedger`, `MCViewChange`, `MCVoteTable`, `MCStateTransfer`, `MCRequests` | instances for TLC; one `.cfg` per run |

## 1. The system

### Components, their state and their operations

**Replica** (`replica.c`).  One FreeRTOS task runs `tbft_replica_run`: receive a
packet, dispatch it to a handler, look at the timers' event bits, drive the
gap-fill logic.  State: view, next seqno, `last_stable`, `last_prepared`,
`last_executed`, `pending_fill_seqno`, two request queues, the last request id
per client, throttling timestamps.  Operations: ten message handlers, the send
functions, `execute_committed`, `mark_stable`, the run loop.  It is correct when
all correct replicas execute the same requests in the same order, once, and
when requests of clients are eventually executed.

**Agreement region** (`agreement_region.c`, `prepared_cert.c`).  A ring of
`WINDOW_SIZE` slices from `head = last_stable + 1`; each holds a Pre_prepare, a
prepare certificate and a commit certificate.  Correct when a slice found for a
sequence number always holds that sequence number's data.

**Certificates** (`certificate.c`).  A bitmap of senders and at most f+1
(digest, count) pairs.  Correct when a sender counts once and the counters say
how many senders voted for what.

**Checkpoint region** (`checkpoint_region.c`).
`WINDOW_SIZE/CHECKPOINT_INTERVAL + 2` slots, one per checkpoint modulo their number, with the same f+1 candidates.
Correct when a quorum is only seen where 2f+1 replicas announced one root digest.

**View change** (`view_info.c`, `special_region.c` and handlers in `replica.c`).
Collected View_change messages, the New_view under construction, the installed
view's proofs.  Correct when whatever may have executed in an earlier view is
proposed again in the new one, at the same sequence number.

**Replicated state** (`state.c`, `partition.c`).  The service's memory as blocks,
a tree of digests, copies of blocks written since the last checkpoints
(copy on write), and a fetch in progress with its queues.  Correct when a
completed fetch leaves the state the quorum's digest names.

**Principals and node** (`principal.c`, `node.c`).  Session keys in both
directions per peer, RSA keys, authenticators with one HMAC per replica.

**Timers** (`itimer.c`), **transports** (`transport_udp.c`,
`transport_espnow.c`: fragments, reassembly buffers, a send queue with credits),
**library interface** (`libbyz.c`: configuration file, client calls, f+1
matching replies with retransmission).

### How they interact

Handlers call into the regions directly and send by `tbft_node_send`; nothing is
shared between tasks except the event bits the timer callbacks set and, in the
ESP-NOW transport, the queues and credits between its callbacks and its send
task.  Replicas interact only through datagrams, which are lost, repeated and
reordered.  `exec_cb` calls the application; the application calls back into
`state.c` before it writes a block.

### What is hard

* **Slots across views.**  A replica adopts a later view on one Pre_prepare or
  one unauthenticated Status, with no New_view.  Certificates are not cleared and
  mix votes of several views.  What makes this safe is not written anywhere: an
  occupied slot never changes its request, until the window has moved past it.
* **Reordering.**  Commits are stored before their Pre_prepare; Prepares are not.
* **Limits.**  Bounded certificates, windows, slots shared modulo their number,
  queues that drop, throttles.
* **Thresholds.**  2f and 2f+1 whatever the number of replicas.
* **Jumps.**  The stable point moves by checkpoints, fetches and New_views.
* **Recovery and retries.**  Gap fill, state transfer, key exchange after a restart,
  all driven by timeouts that race with late answers.
* **Event bits.**  A timer that has fired stays fired when it is stopped or started
  again, until the run loop looks.

The list with the lines where each bites, and the properties that would catch it,
is `hazards` in `PROJECT.json`.

## 2. `Agreement`

One record per correct replica; `InitState` names the C field of each.  A handler
is an operator from a record to the set of records it may leave, so one action is
one whole handler with everything it calls.  The set has several members only
where the code reads a clock (the 500 ms limits on fetches, repeated commits and
catch-up, and the 10 s after a catch-up).

| TLA+ | code |
|---|---|
| `Propose` | `send_pre_prepare` with the request at the front of the queue, and the primary's own Prepare |
| `RecvPrePrepare` / `HandlePrePrepare` | `handle_pre_prepare`: window, view adoption, request check, `store_pp`, `send_prepare` |
| `RecvPrepare`, `RecvCommit` | `handle_prepare`, `handle_commit` with `send_commit` and `execute_committed` |
| `RecvCheckpoint` | `handle_checkpoint`, `tbft_cr_store`, `mark_stable` |
| `RecvStatus` | `handle_status`: view adoption, fetch start, commits sent again |
| `StartViewChange` | `send_view_change`, as far as `vi.in_progress` goes |
| `ExecuteCommitted` | `execute_committed`: the loop, its checkpoints, its fill request |
| `MarkStable`, `Truncate` | `mark_stable`: comparison with the root, fetch or truncation |

The loop of `execute_committed` is given by what it does: `Run` is the set of
sequence numbers it gets through, `LogAt(s, n)` the log when it has executed `n`,
`Due` the checkpoints on the way.

**Messages.**  `ppSent`, `prepSent`, `commitSent` and `ckptSent` hold all that a
replica ever sent.  A handler may receive any of it at any time and any number of
times, so loss, repetition and reordering need no further actions.  HMACs
authenticate the sender of all but Status messages: a faulty replica sends what
it likes in its own name (`FaultySends`, in any view, and `FaultyCkpt`), and a
Status may say anything (`PeerSeqno`).

**Digests.**  The service state is a deterministic function of the executed
requests, so a root digest is the log itself.  Hashes do not collide and a
faulty replica cannot announce a digest nobody computed, other than a wrong one.  This
takes every write to be marked in the bitmap, so that a checkpoint hashes it; where the
copies of `cow_single` run out that is not so (sections 5 and 9).

**Left out.**  View_change and New_view messages (`ViewChange`), the fetch itself
(`StateTransfer`), fill requests and request queues (`Requests`), session keys
(`KeyExchange`).  In the part modelled, `ar.head` is `last_stable + 1`, so the ring is
a function from sequence number to slice (section 3 has the ring itself).  The
view-change timer may fire at any time.

**Bounds.**  `MaxView`, `MaxSeqno`, `PeerSeqno`, `FaultyCkpt`, `FaultySends`,
`Impatient` (whose timers fire) and `Idle` (correct replicas that never take a
step; they stay in the quorum arithmetic as silent ones).  The proofs do not
depend on any of them: `FaultySends` may be every claim, `PeerSeqno` every number.

## 3. `AgreementRegion`

One replica's ring as the C code keeps it: `ar.head` and `ar.idx` are
`tbft_agreement_region.head` and `head_idx`, `ar.slice` its array.  `IndexOf` is
the masked index of `tbft_ar_slice`, `Truncate` is `tbft_ar_truncate` with its
early return and its capped clear loop, and `MoveHead` is the truncation followed
by the assignment `ar.head = ...` that five places of `replica.c` make without
touching `head_idx`.  A slice's contents are the sequence numbers its Pre_prepare
and its quorums were sent for, so a mixture is visible; a quorum arrives in one
step, since how votes add up is the business of `Agreement`.

| TLA+ | code |
|---|---|
| `StorePP` | `store_pp`, `tbft_pc_add_pp` |
| `PrepareQuorum`, `CommitQuorum` | the Prepare or Commit that completes a certificate, with `execute_committed` |
| `MarkStable` | `mark_stable` after a checkpoint quorum or a fetch, from any distance |
| `AdoptView` | a later view taken from a Pre_prepare, View_change or Status |
| `InstallNewView` | `handle_new_view` and the new primary's installation in `handle_view_change` |

`Orderly` says that a New_view's `min` is not below the replica's stable point and
that its next sequence number lies in the window it leaves.  Nothing in the code
ensures either: `min` is the highest stable point among View_changes sent earlier,
and the next sequence number also counts what the proofs of the others reach.
With `Orderly` everything one expects of the ring holds; without it the run
`foreign_slice` shows what goes wrong.  `Agreement` has no New_views, so there the
ring is the function that `WindowFollows` and `Slots` prove it to be.

## 4. `ViewChange`

Extends `Agreement`: its actions stay, with what they do to a view change in
progress added, and the View_change and New_view handlers come in.

| TLA+ | code |
|---|---|
| `vi[r]` | `tbft_view_info`: the target view and the View_changes collected for it |
| `AgreementStep`, `PrePrepareStep`, `StatusStep` | the handlers of `Agreement`, with the `tbft_vi_reset` of a view they adopt |
| `SendViewChange` | `send_view_change`: the next target, the prepared requests above the stable point, the own message collected |
| `CollectViewChange` | `handle_view_change` where no New_view follows, for lack of a quorum or of a signature |
| `LeadNewView` | the same at the new primary with a quorum: New_view, broadcast, installation |
| `SyncToViewChange` | the same for a message that is not collected but of a later view |
| `RecvNewView` | `handle_new_view`: `tbft_vi_verify_nv`, installation |
| `Collects`, `Collect`, `HasQuorum`, `Attesting`, `Listed`, `NewViews`, `Verifies` | `view_info.c` |
| `Install` | the counters, slots and checkpoint slots both installations leave |

`Unsigning` names the replicas whose RSA signatures may fail.  A View_change that fails to
be signed has already changed the target and set `in_progress`; a New_view that does
leaves its quorum collected, and the next View_change for the target tries again. `Listed`
counts a View_change as often as it repeats an entry, as `counts[k].count++` does.  Faulty
replicas send View_changes out of `FaultyVCs`: lower or higher stable points, requests
nobody prepared, repeated entries, and not the same to everyone.  Timers expire at any
time in the replicas of `Impatient`.  A New_view is sent once and never again, but stays
in `nvSent` and may be received late.  `Orderly` is a bound: a New_view that would put the
ring out of line is followed in `AgreementRegion` only.

## 5. `StateTransfer`

One replica, `Self`, with its blocks, its tree and its fetch; peers that execute on
and answer; a network that loses, reorders and (where a bound allows it) repeats.
Request `n` writes one block, so a peer is known by how far it executed.  A digest
is what it hashes.

| TLA+ | code |
|---|---|
| `me.mem`, `me.leaf`, `me.dirty` | the state's blocks, the leaf digests, the bitmap of blocks written since the checkpoint |
| `me.saved` | `num_old_blocks`: copies kept since the stable point moved |
| `Execute`, `Cow`, `Checkpoint` | `exec_cb` with `tbft_state_cow`; `cow_single`; `tbft_state_checkpoint` |
| `CertifyCheckpoint`, `MarkStable` | `handle_checkpoint` of the last vote; `mark_stable`, which compares the root and fetches |
| `RecvStatus`, `StartFetch` | the fetch `handle_status` starts; `tbft_state_start_fetch` |
| `HandleFetch` | `handle_fetch` at a peer, from the state it has then |
| `HandleMetaData`, `HandleData` | the functions of these names, with `next_fetch_req`, `fetch_complete` and `mark_stable` after the last block |
| `Timeout` | the run loop's 2.5 s: the same fetch with the next replica |

The request queue is emptied in the handler that fills it (every caller loops over
`next_fetch_req`), so what remains of it is how much of its room was used since the
fetch began.

*Copies.*  `cow_single` marks a block in the bitmap when it has copied it, and only then;
it copies nothing more when it has as many copies as the state has blocks.  The bitmap
starts afresh at each checkpoint, the copies when the stable point moves, so a block
written in two intervals is copied twice.  `CopiesSuffice` says that the requests of a
window need no more copies than there is room for; where it fails, `CleanBlocksHashed`
does (section 9). The peers' trees are taken to be those of replicas with room enough.

*Late answers.*  The timeout runs from the start of the fetch, so it may come while answers
are on their way; `Patience` counts such a timeout, like a message lost or an outdated
Status, as one of `MaxMishaps`.  What is of another checkpoint is dropped by
`tbft_state_handle_meta_data` and `tbft_state_handle_data`; what is of the same checkpoint
counts in the new attempt.  `tbft_replica_handle_meta_data` goes on, whichever checkpoint
the message names, to ask whether the fetch is over: `over` in `HandleMetaData`.

## 6. `Requests`

The life of a request, with agreement and view changes abstracted to their
outcomes: a slot runs once 2F+1 replicas hold its Pre_prepare, and a primary installs
its view once 2F+1 have asked for one.  Where a request has run, whoever holds the same
one at that sequence number runs it too: the votes that let it run are still there
for a replica that comes late, when those who cast them have freed their slots.

| TLA+ | code |
|---|---|
| `Send`, `RecvReply`, `RecvLie`, `GiveUp` | `Byz_send_request`, `Byz_recv_reply` and the retries of `Byz_invoke_with_retry` |
| `OrderRequest` | `handle_request` at the primary, with `tbft_rqueue_push` and `send_pre_prepare`; the Pre_prepare reaches all but at most `MaxLost` in all |
| `ForwardRequest` | `handle_request` at a backup |
| `HandlePrePrepare` | what `handle_pre_prepare` does to the bookkeeping of requests |
| `Execute`, `Checkpoint` | `execute_committed` and `mark_stable`, likewise |
| `RequestFill`, `EndFill` | layers 1 and 2 of the gap fill in the run loop, with `handle_fill_request` |
| `Expire` | `vtimer_cb`: the event bit, which outlives stop and start of the timer |
| `Timeout`, `DeadPrimary` | what the run loop does with the bit; the dead-primary rule |
| `Keyless` | the run loop without session keys of 2F peers: the timer starts again if there is something to wait for |
| `SendViewChange` | `send_view_change`, as the set of what it may come to: `Sent`, `PutOff` (20 MAC failures in a row, or the 90 s of a fresh boot), `Unsigned` (the signature fails, after `in_progress` has been set and before the timer is started) |
| `Install`, `Follow` | the abstract change of view: the primary's installation, and the ways others have into a later view, one of which (a View_change too late to be collected) leaves `in_progress` as it is |

`asks` says that a replica has broadcast a View_change, which `in_progress` (`changing`) does
not.  `stranded` is a ghost: a failed signature left the replica waiting with neither
timer nor event bit, and nothing has started a timer since.  `MaxTrouble` bounds how often
a replica's keys are missing, stale or unfit to sign with; the fresh boot is not counted.

## 7. `KeyExchange`, `EspNow`, `KeysOverRadio`

`KeyExchange` is the protocol of session keys over a network that may do anything
but forge: `Draw` is `send_new_key` (keys are drawn once a life and cached),
`Install` is `handle_new_key` with `tbft_principal_set_in_key` and all it may leave
when decryption, import or self-test fail, `Forget` is a restart: nothing is persistent.
The key of a pair is a counter, since random keys never come twice.

| TLA+ (`EspNow`) | code |
|---|---|
| `Enqueue` | `tbft_transport_send`, which drops when the send queue is full |
| `TakeEntry`, `SkipOffline`, `SendFrame`, `Abandon` | `espnow_send_task` and `espnow_do_send`: id, peers in turn, credit, a driver that refuses |
| `Transmit` | the driver: `espnow_recv_cb` at the receiver, `espnow_send_cb` at the sender, or only one of them |
| `Allocations`, `Feed` | `reasm_find_or_alloc` and `reasm_feed`: free, timed-out or oldest slot; completion into the message queue |
| `Popped` | `tbft_transport_recv` |

`KeysOverRadio` composes the two.  `Broadcast` is the run loop's `send_new_key`; it is
repeated every 3 to 60 seconds, hence its guard `Quiet`: what was sent before has been
sent and handled, or is lost.  `Crash` loses all a replica had, and leaves what is in
the reassembly slots of others; as message ids start at 1 again, parts of messages of
two lives can meet in one slot, which the signature then refuses (`Whole`).  `OnTheWay`
is the network of `KeyExchange` in terms of queues, frames and slots: what each node
still has to send or has received in part (`Has`).

## 8. The runs

| Run | Instance | What it asks |
|---|---|---|
| `equivocation` | N=4, faulty primary with two requests for one seqno, three correct replicas, Status messages that claim progress | the same log everywhere, each entry with a quorum behind it: `Agreement`, `ExecutedByQuorum`, `UniqueCommitQuorum`, `StableIsProven`, and the refinement `ImplementsLedger` |
| `checkpoints` | three seqnos, window 2, a checkpoint at each, faulty checkpoints, a request the application refuses | `CheckpointAgreement`, `StableIsProven`, `NoGaps`, `ExecutesInOrder` |
| `vote_table` | N=7, F=2, four digests for three value slots | `TypeOK`, `LayoutFaithful`, `AnswersFaithful`, `RefusedCannotWin` |
| `region` | window 4, checkpoint interval 2, seqnos up to 8, orderly New_views | `TypeOK`, `HeadFollows`, `SlotsOwn`, `ExecutesOwn`, `InFlightKept` |
| `view_change` | two views, faulty first primary that proposed both requests, three kinds of faulty View_changes, signatures that fail | `VCTypeOK`, `ExecutedStaysLocked`, `OneCommitPerSeqno`, `NoEquivocation`, `OneNewView`, `ProofsStand`, `CountersGrow` |
| `state_transfer` | N=4, two blocks, one message lost or late, four seqnos, two checkpoints that differ, a primary a checkpoint behind | `TypeOK`, `CleanBlocksHashed`, `CatchesUp` |
| `requests` | a client with two attempts, queues of one, faulty first primary, one lost Pre_prepare, keys that once thwart a View_change | `TypeOK`, `AnswerStands`, `PendingIsTimed`, `Served` |
| `keys_over_radio` | three replicas, one speaker, two frames a message, one crash, one thing that goes wrong | `ROTypeOK`, `KeysShared`, `CreditsReturned`, `ImplementsKeyExchange`, `KeysSettle` |
| `foreign_slice`, `skipped_state`, `premature_fetch`, `assigned_twice` | see section 9 | end in a violation |

**Why the bounds are enough.**  Two requests are the fewest that can conflict and a vote
never looks at a third; one sequence number is enough for agreement because slots do not
influence each other except through the execution loop and the window, which `checkpoints`
exercises with three.  `equivocation` also bounds who hears what: the primary splits the
others two to one, and only the third of them hears of checkpoints and stable points of
others, after the other two executed; this is the case in which agreement and catching up
depend on each other.  `checkpoints` has two active correct replicas (the third is silent
and in the quorum arithmetic only), a window that must move before the third proposal and
at most two proposals in flight. `region` has two full turns of the ring, so that every
slice is reused and jumps of a whole window and more occur.  In `view_change` replica 3
acts first: it prepares one request with replica 2, commits, gives up on the primary and
hears nothing more, so that a View_change with something in it is there; its Commit may
still reach replica 2.  The request may have run, prepared or never come at replica 1, the
next primary, who may hold the other one instead.  The faulty replica tells 1 and 2, each,
one of three things, so a New_view may prove the request, or prove nothing, or list what
nobody prepared, and the backup may have been told otherwise; New_views with proofs are
installed, before and after the request has run elsewhere. `state_transfer` has a tree of
root and leaves, a fetch that a later checkpoint overtakes and a replier that is itself
behind; its two checkpoints differ, so that answers of the one are not those of the other.
Its queue has room for four requests and is filled; a root Meta_data of the first
checkpoint comes during the fetch of the second; the block that is written in the first
interval is not that of the second, which is what `CopiesSuffice` asks of two blocks and a
window of two intervals.  Status messages arrive from one peer.  `premature_fetch` has the
third level in which a fetch ends early without any message of another fetch.  Neither
repeats messages (`MaxRepeated` is 0), for what a repeated Meta_data does, see section 9.
In `requests` the second attempt is what makes queue and bookkeeping disagree, and the
change of view is forced since only the next primary hears the client.  One replica is in
trouble with its keys, once: without keys, with 20 MAC failures or without a signature.
`keys_over_radio` has as many ids as slots and one more (2^16 ids against 8 slots in the
code; with no more ids than slots a slow receiver's slots stay out of step for ever, which
the code's numbers exclude).  What small instances cannot show, other numbers of replicas
above all, the theorems do.

**Larger instances** were explored while the models were built, without finding more:
three views in `Agreement` (`TypeOK`, `OneCommitPerSeqno`, `ExecutedStaysLocked`,
`UniqueCommitQuorum`), four attempts of a client, two crashes with two and three
replicas and two things that go wrong.

**Fairness.**  `Agreement`, `ViewChange`, `AgreementRegion`, `VoteTable` and
`KeyExchange` assume none; what is asked of them is safety.  The other three:

* `StateTransfer`: peers execute to the last checkpoint, which becomes stable among them;
  their Status messages, which the run loop sends periodically, then say so for ever.
  What is not lost is delivered, and the run loop comes to its fetch timeout.  At most
  `MaxMishaps` messages are lost or later than the timeout: a network slower than 2.5 s for ever
  would have each attempt end in the next.  Status messages that kept naming an earlier stable point
  would have the replica fetch that one again and again.
* `Requests`: a timer that runs expires, weakly, and of the times the run loop sees an
  event bit, not all are put off (`AskForView`, strongly).  On a fresh boot the code puts
  the bit off for 90 s only; for missing keys, and after 20 MAC failures, it does so as
  long as they last.  That they do not last for ever is an assumption, stated by
  `MaxTrouble`: keys come with the peers' periodic broadcasts (`KeysSettle`, with its own
  assumptions).  A replica whose keys never come asks for no view, whatever it waits for.
  Nothing is assumed of the network, of clients or of other replicas, for which reason
  `Served` promises a backup no more than that it executes, leaves the view or asks for
  another, and nothing to one that a failed signature has stranded.  An execution starts
  the timer afresh; requests are bounded, so that comes to an end.  A primary that keeps
  executing other clients' requests can hold a backup for as long as it does so.
* `KeysOverRadio`: run loop, send task and driver run, a peer marked offline is tried
  again after a second.  That a broadcast succeeds is not assumed: failures and crashes
  are counted and bounded instead, and `KeysSettle` speaks of what comes after the last.

Deadlock checking is on for `vote_table` and `region` only: where every replica has
received all and all bounds are used up there is nothing left to do.

**Refinement.**  `ImplementsLedger`: the logs of correct replicas, as whole sequences,
are prefixes of one ledger that only grows (`AgreementLedger` has the mapping).
`ImplementsKeyExchange`: every step of queues, frames, slots, callbacks and crashes is a
step of `KeyExchange` or leaves its variables alone, so that what is proved there holds
over the transport.

## 9. Where the code and what is said about it differ

Four runs end in a violation of something a comment or document says; `findings` in
`PROJECT.json` has the quotations.

* `foreign_slice`: `docs/09` and `docs/07` say that a slice keeps its offset and
  that the overwrite rule of `tbft_pc_add_pp` makes the ring safe.  A New_view with
  a `min` below the replica's stable point sets `head` back and leaves `head_idx`;
  the request proposed at one sequence number is executed as another's.
* `skipped_state`: `docs/06` calls `last_executed` the highest sequence number executed.
  Installing a New_view raises it to `min` whether or not the replica has that
  state, and no fetch is started.  In the trace it is the new primary that does so (1693);
  a backup does the same (1834).
* `premature_fetch`: `state.h` says a fetch completes when all missing blocks have been
  received.  Leaves alone are counted; a subtree whose Meta_data is still on its way is
  not waited for.  Answers name the checkpoint but not the fetch, so in a tree of two
  levels, too, a block that comes late from an abandoned fetch of the same checkpoint
  can count for one still missing.
* `assigned_twice`: `docs/06` and `replica.c:2589` say that no request gets two sequence
  numbers.  Only the request assigned last is remembered.

The rest of this section are observations made while reading and modelling, without a
run of their own.

*Agreement.*  `replica.c:596` calls a prepared slot certified by "2f+1 matching prepares";
the threshold is 2f and counts the primary's Prepare and the own one, so with F = 1 a
faulty primary can have two correct replicas prepare different requests in one view.
Agreement then rests on the commit quorum alone.  `replica.c:2725` calls a commit quorum
for another digest than the stored Pre_prepare's impossible; an equivocating primary
and a late Pre_prepare bring it about, so the check that comment belongs to is essential:
without it (the mutant `CertifiedForSomeDigest`) agreement is lost.  The same comment goes
on (2730-2731) that poisoned seqnos are skipped and "subsequent in-window seqnos can still
execute"; the code breaks out of the loop there, as `Run` has it, and does well to: `NoGaps`
and `ExecutesInOrder` would not hold of a loop that goes on (the mutant `RunWithHoles`).  The run
`checkpoints` reaches no poisoned slot, as its primary is correct and only one request can
gather a quorum; the theorems `NothingSkipped` and `InOrder` cover it.  With N = 5 and F = 1,
which `parse_config` accepts and `docs/09` covers by "`n ≥ 3f+1`", two commit quorums of
three can meet in the faulty replica only; the theorems assume N ≤ 3F+1 for this reason.
The comment at `checkpoint_region.c:34` says a wiped slot held stale votes; a Checkpoint
of one replica for another sequence number of the same slot, ahead or behind, wipes votes
for a checkpoint that is not stable.

*View change.*  `LeadNewView` may install a target below `node.view`, which
`tbft_types.h:15` calls monotone; a primary whose own View_change comes last sends no
New_view; it installs even when `min` exceeds `max`; a faulty View_change that repeats an
entry counts as often in `counts`; executed requests need not be proposed again
(`docs/10` says they are), which is harmless because slots keep them.  The comment at
`replica.c:1698` says the truncation "preserves any in-flight certs that fit in the new
window"; when the next sequence number is a window or more above `head`, all are cleared.

*State transfer.*  The comment in `cow_single` (`state.c:153`) calls it impossible that the
copies run out since "the CoW bitmap prevents duplicates", and that at their allocation
says that every block changes at most once per checkpoint interval.  But the copies are
kept from one stable point to the next, which may be several checkpoints, and the bitmap
prevents duplicates within an interval only.  A block that finds no room is written, not
marked and not rehashed by the next checkpoint, whose root then differs from that of replicas
whose stable point moved earlier.  With the default window of two intervals, blocks
written in both are counted twice; the examples have a state of four blocks.
To see it: one block, `CheckpointInterval` 2, `WindowSize` 4, every request writing the block,
and no `ASSUME CopiesSuffice` in `MCStateTransfer`; the third request violates
`CleanBlocksHashed`, in four states.  A root Meta_data of an earlier fetch that comes when the one
running has no leaf pending yet ends it with nothing fetched (`replica.c:2290`), and
without a certificate for its checkpoint the watermarks are raised all the same; TLC
reaches this in `state_transfer`, and no property of that run forbids it: `CatchesUp` speaks of
the watermarks.  The replier serves its current state whatever checkpoint it is asked
for; Data is checked against the digest it carries itself; a block the replier has
written since its checkpoint is not sent, so the fetch goes on to the next replica
after a timeout; a repeated Meta_data is counted twice and hangs the fetch until then;
the replier chosen may be the replica itself.  `tbft_state_rollback` has no caller.
When a fetch is done, `mark_stable` raises the watermarks to the checkpoint asked for; the
comment at `replica.c:2362` has the fetched state "already verified via the Merkle partition
tree digests", but those are the replier's own and, without a certificate in the
checkpoint region, there is no root to compare with.  A replier that lags or has gone on
so leaves the replica with another checkpoint's state, which the next certificate shows.

*Requests.*  A primary's wait need not be timed, hence `PendingIsTimed` speaks of backups:
with the window blocked and the queue full of an older attempt, a later attempt's
execution stops the timer, and every further request is dropped at the full queue without
`send_pre_prepare`.  That function is called from `handle_request` only, one request a
call, so a queue that is one behind stays so; what a deposed primary has left in its queue
is proposed when it leads again.  A lost reply is not sent again, a retry with a new id
is.  A backup whose timer has expired and whose View_change cannot be signed
(`replica.c:3126`) has set `in_progress` and started no timer, which is the wait without a
timer that every other path avoids; the next handler that looks at the timer, the arrival
of a new request for one, ends it.  A gap between prepared sequence numbers is not
proposed again in a new view.  `README.md:271` and `replica.c:481`, `584` say that an
abandoned gap advances `last_executed`; the code clears `pending_fill_seqno` (640) and no
more.  The dead-primary rule also fires when there is nothing to do (`docs/06:99` says 30
s, the code 90).  After a state transfer `last_executed_rid` is the old one.

*Keys and radio.*  `docs/13` says that keys rotate with every New_key; `send_new_key`
caches them.  A New_key from before a restart that comes late displaces the newer key
until the next broadcast.  After 20 MAC failures the replica sends its own New_key (622,
3000), which carries its out keys and not the in keys it suffers from.  The comment on
`in_flight_sends_sem` says that one side gives and the other takes; both give and nobody
takes, so `tbft_transport_free` waits its full 200 ms once anything was sent.
`docs/03:236` has 4 slots (8 in the code), `docs/04` a credit timeout of 100 ms (300),
`replica.c:361` periods of 2 and 10 s (5 and 60).

## 10. The proofs

`AgreementProofs` proves for every N, F, window, set of requests, bound and
behaviour of the faulty replicas:

| Theorem | States |
|---|---|
| `Invariant` | `Spec => []IInv` |
| `TypeCorrect` | `Spec => []TypeOK` |
| `CommitsOnce` | `Spec => []OneCommitPerSeqno` |
| `ExecutionNeedsQuorum` | `Spec => []ExecutedByQuorum` |
| `OneCertificate` | `FaultBound` implies `Spec => []UniqueCommitQuorum` |
| `Safety` | `FaultBound` implies `Spec => []Agreement` |
| `StaysLocked` | `FaultBound` implies `Spec => []ExecutedStaysLocked` |

`FaultBound` is N ≤ 3F+1 and at most F faulty replicas.  The other assumptions
are those of the modules: the configuration and the types of the constants.

The argument.  No property above is inductive: that two replicas execute the same
says nothing of what they voted for.  `IInv` adds, for each correct replica,
that its record is well typed, that every Commit it ever sent is for the request
its slot holds now or for a sequence number at or below its stable point
(`Locked`), so that it never commits to two (`OneVote`), that each vote counted in
a commit certificate was sent by its sender (`VotesBacked`), and that each entry
of the log had a quorum of senders (`LogBacked`).  `Locked` is where the code's
undocumented reason for safety sits: it is kept by `SlotAccepts` (an occupied slot
keeps its request), by `EnterView` (slots survive a change of view) and by
`Truncate` (a freed slot is at or below the stable point, where `InWindow` refuses
it).  A handler changes one replica's record and reads the others only through
what they sent, and what they sent only grows, so every handler is proved on a
single record (`...Good` lemmas) and `BecomeInv` lifts the result to the system.
Then two quorums of 2F+1 among at most 3F+1 replicas share a correct one, and
`OneVote` of that replica gives `OneCertificate` and `Safety`.

`ViewChangeProofs` proves for every constant and behaviour of the faulty replicas, of which
there may be any number except where `FaultBound` is named:

| Theorem | States |
|---|---|
| `VCInvariant` | `VCSpec => []VCInv` |
| `ViewsTyped` | `VCSpec => []VCTypeOK` |
| `ViewsCommitOnce` | `VCSpec => []OneCommitPerSeqno` |
| `ViewsAgree` | `FaultBound` implies `VCSpec => []Agreement` |
| `ViewsStayLocked` | `FaultBound` implies `VCSpec => []ExecutedStaysLocked` |
| `PrimaryFaithful` | `VCSpec => []NoEquivocation` |
| `LeadsOnce` | `VCSpec => []OneNewView` |
| `ProvenStands` | `FaultBound` implies `VCSpec => []ProofsStand` |
| `Monotone` | `VCSpec => CountersGrow` |

The argument.  A View_change is a promise that nothing in the code enforces when it is
due: the replica reports what it has prepared and goes on.  What makes it hold is that
every handler and every installation leaves the record in relation `Grows` to what it
was: stable, prepared and executed only rise, an occupied slot above the stable point
keeps its request, and a new Commit is for the request its slot holds.  Hence a request
that a replica once held prepared binds it for good (`Bound`): it never commits to another
there.  `VCInv` is `IInv` and that every report of a correct replica is such a request
(`Reported`), that a verified New_view's proofs were reported by a quorum (`Attested`, from
`OnePerSender` and `Genuine`, which say of the collected View_changes that each sender has
one and that a correct sender's is its own), that a primary's Pre_prepares bind it
(`Faithful`) and that it is past every view it led (`Led`).  `ProvenStands` then takes the
replica that a proof's quorum shares with that of an execution, and `Bound` tells that it
committed to the request proven.  The handlers of `Agreement` are proved to be growth one by
one (`...Steady`, and `ProposeMoves` for the one that sends Pre_prepares), the actions
of `ViewChange` by the `...VCInv` lemmas.

The second part of `AgreementProofs` proves, for at most F faulty replicas (`FewFaulty`):

| Theorem | States |
|---|---|
| `CheckpointInvariant` | `Spec => []CInv` |
| `NothingSkipped` | `Spec => []NoGaps` |
| `StableProven` | `Spec => []StableIsProven` |
| `InOrder` | `Spec => ExecutesInOrder` |
| `OneRoot` | `FaultBound` implies `Spec => []CheckpointAgreement` |

The argument.  `mark_stable` raises `last_executed` to the checkpoint that a quorum
announced and frees every slot up to it, and what it checks first is only that the
quorum's digest is the current root: it never asks which checkpoint that root belongs
to, nor whether the replica has executed as far.  If it had not, requests would be
skipped without a trace.  `CInv` says why that cannot happen: of each correct replica,
the log is filled exactly up to `last_executed`, and the root and every announced digest
are the log cut off at some point before it (`InStep`), so a digest tells how far it
goes (`OneLength`) and equal digests mean equal checkpoints; a vote in a checkpoint slot
was announced by its sender (`RegionBacked`), so a quorum's digest is one that a correct
replica announced (`QuorumAnnounced`); the stable point was announced by F+1 of them
(`StableBacked`).  The proof goes handler by handler, on one record, given what others
announced (`...Follows` lemmas), as that of `IInv`, from which it takes the types.
`OneRoot` then follows from `Safety`.  N ≤ 3F+1 is needed for it alone: with more replicas
two quorums need not meet, but a quorum still holds F+1 correct ones.

Its third part proves `Refinement`: under `FaultBound`, and if some replica is correct,
`Spec => ImplementsLedger`.  A step changes the log of one replica, which it extends
(`Kept`), so what was executed stays (`EntriesStay`); logs agree where
both are filled, so it does not matter which of several replicas that are furthest
ahead the mapping chooses (`SamePoint`).  A step that executes nothing is a stutter of the
ledger (`Still`); one that executes up to k appends to the order what nobody had
executed (`Moved`).

`VoteTableProofs` proves that the types of the layout are kept (`TableTyped`), that the
bitmap and counters of a certificate represent the vote function (`Layout`), and, for
N ≤ 3F+1, that they answer as it does (`Answers`) and that a digest refused for lack of
a slot could not have won (`Refused`, the pigeonhole argument of the comment at
`replica.c:1300`).

`AgreementRegionProofs` proves `RingTyped`, `WindowFollows`, `Slots`, `ExecutionOwn` and
`KeepsInFlight`: each of `region`'s properties holds for every window size,
checkpoint interval and bound, on the assumption `Orderly`.  What is inductive is
where slices lie: `head_idx` is `head - 1` modulo the window size (`Aligned`), hence
the index of a sequence number does not depend on where the window is
(`FixedIndex`), and a truncation frees exactly the slices of the sequence numbers
that enter the window (`FreedSlices`), leaving the others at their place.  The
prover has no modular arithmetic to speak of, so the module starts with the few
facts on remainders it needs.

`KeyExchangeProofs` proves `KeyInvariant`, `KeysTyped` and `KeysMatch` for any replicas,
any number of restarts and any network that does not forge.  `KeysShared` is not inductive:
it says nothing of keys still on their way.  The invariant adds that a replica draws at
most one key a life and peer (`OneKeyALife`) and that whatever a receiver holds or a
New_key carries was drawn (`HeldWasMade`, `SentWasMade`).

`KeysOverRadioProofs` proves for any number of replicas, speakers, frames a message, credits,
slots, failures and restarts:

| Theorem | States |
|---|---|
| `RadioInvariant` | `ROSpec => []RInv` |
| `Refinement` | `ROSpec => ImplementsKeyExchange` |
| `NoCreditLost` | `ROSpec => []CreditsReturned` |
| `KeysMatchHere` | `ROSpec => []KeysShared` |
| `RadioTyped` | `ROSpec => []ROTypeOK` |

The argument.  A network that `KeyExchange` allows may lose and repeat but makes nothing
up, so the question is whether any of the transport's steps can put a key on its way that
was not sent.  `Carried(x, n, s)` says in which places of node n's record a New_key's slot may be;
every step of the transport and every handler is shown, on the one record or the two it
touches, to keep the limits (`Good`) and to add no slot to them (`Loses`).  Only `Broadcast`
adds any: those of a New_key (`BroadcastSends`).  The step that needs thought is reassembly, where
parts of messages of two lives of a sender can meet: every part names its own slots, and
a completed mixture is refused by `Whole`.  That a handler then draws from what is on its
way (`HandleTakes`) needs that no New_key has two slots for one receiver (`Proper`).
`Good` also counts credits: those free and those with a frame make `Credits`, which is
`NoCreditLost`.  With `Refinement`, the theorems of `KeyExchangeProofs` carry over to the
variables here (`KeyTheorems`), and `KeysMatchHere` and `RadioTyped` are two of them.

`RequestsProofs` proves for any clients, attempts, queue and window sizes, and any N ≥ 3F+1:

| Theorem | States |
|---|---|
| `RequestInvariant` | `Spec => []IInv` |
| `RequestsTyped` | `Spec => []TypeOK` |
| `WaitsAreTimed` | `Spec => []PendingIsTimed` |
| `AnswerInvariant` | `Overlap` implies `Spec => []AInv` |
| `HistoryStands` | `Overlap` implies that nothing else is ever executed where something was |
| `AnswersStand` | `Overlap` implies `Spec => []AnswerStands` |

`Overlap` is N ≤ 4F+1: two quorums of 2F+1 replicas have one in common.  That it need not
be a correct one is because Pre_prepares that conflict at one sequence number are the
business of `Agreement`; here a replica that is `Faulty` answers clients as it likes.

The argument.  That a wait is timed (`OnTime`), or stranded by a failed signature, is a
relation between the timer, the event bit, the view, the queue and what was forwarded, and
each handler that stops the timer or leaves a view has to restore it; so has each thing a
View_change may come to (`AttemptMoves`), where the failed signature uses the exception;
it is inductive with the types, which say that a queue has no request twice and that a
slot up to the stable point is free (`Sound`). A client's answer is right because of what
lies behind an execution (`Held`): 2F+1 replicas that hold the request at its sequence
number or are stable past it, hence will hold no other there.  Slots are filled once and
freed by stability alone (`Keeps`), so these replicas do not get fewer; a second quorum
for another request would share one with them.  From `HistoryStands` it follows that
replies stay true (`Answered`), that what a client has of a replica that is not faulty is
true of its last request (`Got`), and that among F+1 there is such a replica.

`StateTransferProofs` proves two theorems, for any number of blocks and peers, any tree
and any network.  `TreeAccounts` is `CopiesSuffice => (Spec => []CleanBlocksHashed)`.
`cow` sets a block's bit before it is written, if there is room for its copy;
`handle_data` writes block and leaf together, and a checkpoint clears the bitmap once it
has hashed what is in it.  The invariant is the property and what the copies are of: each
belongs to a checkpoint interval since the stable point and a block first written in it,
so their number is at most that of `Marks`, and by `CopiesSuffice`, as `Execute` stays in
the window, there is room for one more.  `TransferTyped` is `Spec => []TypeOK`.  What is
asked for must lie in the tree and fit the queue, and the count of leaves still pending
must not exceed what was queued (`Fetching`), whatever Meta_data, late or of another
fetch, is handled, whenever a timeout starts the fetch again and whichever root Meta_data
ends it; for this a message has to be known to speak of nodes of the tree (`Carries`).
`PowerAssumption` states what the proof uses of `Children ^ k`, which the prover does not
know: it is arithmetic, and TLC evaluates it.

**What proving changed.**  Four things that TLC had accepted did not survive the attempt
to prove them.  `Requests` let a slot run on the votes of whoever had executed as far,
whatever they held there; it now asks for holders of the same request.  `FetchEndsWhole`
held in the two-level tree of `state_transfer` only because both its checkpoints had the
same content; now that they differ, it fails there as well, for the reason given in
section 9, and stays the property of `premature_fetch` alone.  `CleanBlocksHashed` was
proved first of a `cow` that always finds room for its copy; with the limit of the code
the proof needs `CopiesSuffice`, and TLC shows that it does.  And the fairness of Status
messages allowed peers that speak of an old stable point for ever, with which `CatchesUp`
fails.

**Only model-checked.**  The liveness properties `CatchesUp`, `Served` and `KeysSettle`: liveness
under fairness and ENABLED are outside what the prover can do.  So are induction over data and
RECURSIVE operators; no module uses the latter.  Every invariant, action property and
refinement that a passing run checks has its theorem.

## 11. Not modelled

* UDP transport: a socket with a bounded retry; the loss it adds is in every message model.
* Layout and digests of packed messages, HMAC, RSA and AES: they succeed, or fail where
  the code handles it; hashes do not collide.
* `tbft_state_rollback` has no caller; what it would restore, the contents of the copies, is
  left out, their number is not.
* `View_change_ack`, and the special region's stores for it, for Status and New_view: no
  handler writes them.
* The ESP-NOW transport's shutdown and MAC table, and messages of different lengths.
* The New_key that 20 MAC failures in a row trigger, and the barrier at start-up: both only
  send what is sent periodically in any case.  That the same counter puts off a View_change
  is in `Requests`.
* The reset of `state.c`'s copies by a New_view: `StateTransfer` has one view.
* Key files, start-up of a replica in `libbyz.c`, logging, examples.

## 12. Plan

Done: the modules above in the order of the table, and the theorems of section 10.  Next,
in this order:

1. `StateTransfer` with faulty repliers and the certificate's digest in the state, to say
   when a fetched state is that of the checkpoint it is marked with.
2. The watermarks of a replica that fetches, across `Agreement` and `StateTransfer`: a lemma on
   when `CInv` survives a fetch whose content a certificate confirmed.
3. `AgreementRegion` without `Orderly`: which of its properties remain, as theorems.
