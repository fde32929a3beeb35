--------------------------- MODULE StateTransfer ---------------------------
(***************************************************************************)
(* The replicated state of one replica (tbft_state.c), its partition tree  *)
(* (tbft_partition.c) and the fetch protocol by which a replica that lags  *)
(* behind gets the blocks it lacks from a peer.                            *)
(*                                                                         *)
(* The service is deterministic: request n writes one block.  A peer is    *)
(* therefore known by how far it executed.  Its blocks are those after     *)
(* its last request, its tree is that of its last checkpoint.  A digest is *)
(* what it hashes: a leaf's is the block's content, an inner node's the    *)
(* digests of the leaves below it.                                         *)
(*                                                                         *)
(* Fetch, Meta_data and Data messages carry no authenticator; the peers    *)
(* here are correct, the network loses, repeats and reorders.              *)
(*                                                                         *)
(* Of the copies cow_single keeps, which only tbft_state_rollback would    *)
(* read and nothing calls, their number matters: a block that finds no     *)
(* room for its copy is written and not marked, and the next checkpoint    *)
(* does not hash it.  The peers are taken to be replicas with room enough  *)
(* (CopiesSuffice below), whose trees follow from how far they executed.   *)
(***************************************************************************)
EXTENDS Integers, FiniteSets

CONSTANTS
  N,                  \* replicas; Self is the one that fetches
  Self,
  Primary,            \* whom mark_stable fetches from: the view's primary
  Quorum,             \* votes that complete a checkpoint certificate
  NumBlocks,          \* blocks of the state
  Children,           \* children of an inner node of the tree
  QueueMax,           \* room in the queue of fetch requests
  CheckpointInterval,
  WindowSize,
  MaxSeqno,           \* how far the service runs (bound)
  Effect,             \* what each request writes
  Value,              \* contents of a block
  Blank,              \* its content at the start
  Unhashed,           \* digest of a leaf no checkpoint has hashed yet
  Start,              \* how far each peer is when Self begins (bound)
  Announcers,         \* peers whose Status messages arrive (bound)
  MaxMishaps,         \* messages lost, late or outdated (bound)
  MaxRepeated         \* messages it delivers once more (bound)

Replica == 0 .. N - 1
Peer    == Replica \ {Self}
Block   == 0 .. NumBlocks - 1
Seqno   == 1 .. MaxSeqno

ASSUME SizeAssumption ==
  /\ N \in Nat \ {0} /\ Self \in Replica /\ Primary \in Replica /\ Quorum \in Nat
  /\ NumBlocks \in Nat \ {0} /\ Children \in Nat \ {0, 1} /\ QueueMax \in Nat
  /\ CheckpointInterval \in Nat \ {0} /\ MaxSeqno \in Nat
  /\ WindowSize \in Nat /\ WindowSize > CheckpointInterval
  /\ Start \in [Peer -> 0 .. MaxSeqno] /\ Announcers \subseteq Peer /\ MaxMishaps \in Nat /\ MaxRepeated \in Nat
\* Nothing but arithmetic, which the provers do not know.
ASSUME PowerAssumption ==
  /\ Children ^ 0 = 1
  /\ \A k \in 0 .. NumBlocks :
       Children ^ k \in Nat /\ Children ^ (k + 1) = Children * Children ^ k
ASSUME ServiceAssumption ==
  /\ Effect \in [Seqno -> [block : Block, value : Value]]
  /\ Blank \in Value /\ Unhashed \notin Value

VARIABLES
  peer,    \* [Peer -> last_executed]
  me,      \* tbft_state_t of Self, with last_executed and its certificates
  fetch,   \* its fetch fields; see NoFetch
  net,     \* messages on their way
  mishaps, \* how many were lost, late or outdated
  repeated \* how many it has delivered once more
vars == <<peer, me, fetch, net, mishaps, repeated>>

-----------------------------------------------------------------------------
(* The partition tree *)

\* tbft_ptree_compute_levels, the root included.
Levels ==
  CHOOSE l \in 1 .. NumBlocks + 1 :
    Children ^ (l - 1) >= NumBlocks /\ \A k \in 1 .. l - 1 : Children ^ (k - 1) < NumBlocks
LeafLevel == Levels - 1

Root        == [level |-> 0, index |-> 0]
LeafNode(b) == [level |-> LeafLevel, index |-> b]

ChildrenOf(node) ==
  {[level |-> node.level + 1, index |-> node.index * Children + i] : i \in 0 .. Children - 1}

Under(node) == {b \in Block : b \div (Children ^ (LeafLevel - node.level)) = node.index}

\* tbft_ptree_update_leaf keeps every inner digest a function of the leaves.
Digest(leaf, node) == [b \in Under(node) |-> leaf[b]]

-----------------------------------------------------------------------------
(* The service *)

\* What block b holds after n requests.
Content(n, b) ==
  IF \E k \in 1 .. n : Effect[k].block = b
  THEN Effect[CHOOSE k \in 1 .. n :
                /\ Effect[k].block = b
                /\ \A j \in k + 1 .. n : Effect[j].block # b].value
  ELSE Blank

Checkpointed(n) == (n \div CheckpointInterval) * CheckpointInterval

\* The leaves of a replica that executed n requests.
LeafAt(n) ==
  [b \in Block |->
     IF \E k \in 1 .. Checkpointed(n) : Effect[k].block = b
     THEN Content(Checkpointed(n), b) ELSE Unhashed]

-----------------------------------------------------------------------------
(* Fetch requests *)

\* The queue is emptied in the handler that fills it, so what remains of it is
\* its length and, for the properties, which nodes have been asked for and not
\* been answered yet (open).
NoFetch ==
  [active |-> FALSE, seqno |-> 0, replier |-> Self, queued |-> 0, pending |-> 0,
   received |-> {}, open |-> {}]

\* Mutant of Fitting: the limit is found out too late.
FittingOneMore(f, nodes) ==
  {n \in nodes : Cardinality({k \in nodes : k.index < n.index}) <= QueueMax - f.queued}

\* The nodes that still fit the queue, in the order of their index.
Fitting(f, nodes) ==
  {n \in nodes : Cardinality({k \in nodes : k.index < n.index}) < QueueMax - f.queued}

\* next_fetch_req counts a leaf, unless its block has come already.
Ask(f, nodes) ==
  LET kept == Fitting(f, nodes)
  IN  [f EXCEPT !.queued = @ + Cardinality(kept),
                !.pending = @ + Cardinality({n \in kept : /\ n.level = LeafLevel
                                                          /\ n.index \notin f.received}),
                !.open = @ \union kept]

Requests(f, nodes) ==
  {[type |-> "Fetch", to |-> f.replier, c |-> f.seqno, node |-> n] : n \in Fitting(f, nodes)}

\* tbft_state_start_fetch.
Started(c, p) == [NoFetch EXCEPT !.active = TRUE, !.seqno = c, !.replier = p]

\* tbft_replica_start_fetch.  A tree of one level has no inner node to ask for.
FirstNodes == IF Levels = 1 THEN {LeafNode(b) : b \in Block} ELSE {Root}

\* rest is what else is on its way.
StartFetch(c, p, rest) ==
  /\ fetch' = Ask(Started(c, p), FirstNodes)
  /\ net' = rest \union Requests(Started(c, p), FirstNodes)

\* tbft_state_fetch_complete.
Ended(f) == [f EXCEPT !.active = FALSE, !.queued = 0, !.pending = 0, !.received = {}]

\* The quorum's digest for c, if there is a quorum, is the root of the own tree.
Verified(s, c) == c \in s.certified => s.leaf = LeafAt(c)

\* The copies kept from now on go into the record of c, which is emptied.
Truncated(s, c) ==
  [s EXCEPT !.stable = c, !.saved = 0,
            !.executed = IF @ < c THEN c ELSE @,
            !.certified = {k \in @ : k > c}]

\* tbft_replica_mark_stable in state s and fetch f.  Refuted, it fetches unless
\* a fetch that goes as far is running or one began within 500 ms.
MarkStable(s, f, c, rest) ==
  \/ /\ c <= s.stable \/ ~Verified(s, c)
     /\ me' = s /\ fetch' = f /\ net' = rest
  \/ /\ c > s.stable /\ ~Verified(s, c)
     /\ ~f.active \/ c > f.seqno
     /\ me' = s /\ StartFetch(c, Primary, rest)
  \/ /\ c > s.stable /\ Verified(s, c)
     /\ me' = Truncated(s, c) /\ fetch' = f /\ net' = rest

-----------------------------------------------------------------------------
(* Initial states *)

Init ==
  /\ peer = Start
  /\ me = [mem |-> [b \in Block |-> Blank], leaf |-> [b \in Block |-> Unhashed],
           dirty |-> {}, saved |-> 0, executed |-> 0, stable |-> 0, certified |-> {}]
  /\ fetch = NoFetch
  /\ net = {}
  /\ mishaps = 0 /\ repeated = 0

-----------------------------------------------------------------------------
(* The peers and the network *)

\* Some peer executes the next request; nobody waits for Self.
PeerExecute(p) ==
  /\ peer[p] < MaxSeqno
  /\ peer' = [peer EXCEPT ![p] = @ + 1]
  /\ UNCHANGED <<me, fetch, net, mishaps, repeated>>

\* What is still on its way when m has been delivered.
Leaves(m) == {net \ {m}} \union (IF repeated < MaxRepeated THEN {net} ELSE {})
Charge(rest) ==
  /\ repeated' = IF rest = net THEN repeated + 1 ELSE repeated
  /\ UNCHANGED mishaps

Lose ==
  \E m \in net :
    /\ mishaps < MaxMishaps
    /\ net' = net \ {m} /\ mishaps' = mishaps + 1
    /\ UNCHANGED <<peer, me, fetch, repeated>>

\* handle_fetch: whatever checkpoint is asked for, a peer answers with its tree
\* and its blocks as they are.
Answer(p, m) ==
  IF m.node.level = LeafLevel
  THEN [type |-> "Data", c |-> m.c, block |-> m.node.index,
        content |-> Content(peer[p], m.node.index), digest |-> LeafAt(peer[p])[m.node.index]]
  ELSE [type |-> "Meta_data", c |-> m.c, node |-> m.node,
        parts |-> [k \in ChildrenOf(m.node) |-> Digest(LeafAt(peer[p]), k)]]

\* A replica that asks itself gets no answer.
HandleFetch ==
  \E m \in net : \E rest \in Leaves(m) :
    /\ m.type = "Fetch"
    /\ net' = rest \union {Answer(p, m) : p \in {m.to} \cap Peer}
    /\ Charge(rest)
    /\ UNCHANGED <<peer, me, fetch>>

-----------------------------------------------------------------------------
(* The replica *)

\* tbft_state_cow_single, which tbft_state_cow calls for the block Byz_modify
\* announces: it marks the block it finds room to copy.
Cow(s, b) ==
  IF b \in s.dirty \/ s.saved >= NumBlocks THEN s
  ELSE [s EXCEPT !.dirty = @ \union {b}, !.saved = @ + 1]

\* The write of request n, announced.
Written(n) ==
  [Cow(me, Effect[n].block) EXCEPT !.executed = n, !.mem[Effect[n].block] = Effect[n].value]

\* tbft_state_checkpoint hashes the blocks written since the last one.
Checkpoint(s) ==
  [s EXCEPT !.dirty = {},
            !.leaf = [b \in Block |-> IF b \in s.dirty THEN s.mem[b] ELSE @[b]]]

\* execute_committed of one request, whose slot is in the window.
Execute ==
  LET n == me.executed + 1
  IN  /\ \E p \in Peer : peer[p] >= n
      /\ n <= me.stable + WindowSize
      /\ me' = IF n % CheckpointInterval = 0 THEN Checkpoint(Written(n)) ELSE Written(n)
      /\ UNCHANGED <<peer, fetch, net, mishaps, repeated>>

\* handle_checkpoint of the message that completes a certificate.
CertifyCheckpoint(c) ==
  /\ c % CheckpointInterval = 0 /\ c > me.stable /\ c \notin me.certified
  /\ Cardinality({p \in Peer : peer[p] >= c}) >= Quorum
  /\ MarkStable([me EXCEPT !.certified = @ \union {c}], fetch, c, net)
  /\ UNCHANGED <<peer, mishaps, repeated>>

\* handle_status of a peer more than a checkpoint ahead.  Its stable point is
\* some checkpoint it has executed; outdated, if the peers have a later one.
RecvStatus(p, c) ==
  /\ peer[p] - me.executed > CheckpointInterval
  /\ c % CheckpointInterval = 0 /\ me.stable < c /\ c <= peer[p]
  /\ ~fetch.active \/ c > fetch.seqno
  /\ StartFetch(c, p, net)
  /\ \/ c = Checkpointed(MaxSeqno) /\ UNCHANGED mishaps
     \/ c < Checkpointed(MaxSeqno) /\ mishaps < MaxMishaps /\ mishaps' = mishaps + 1
  /\ UNCHANGED <<peer, me, repeated>>

\* Whether m is of the fetch that is running, or of one for another checkpoint.
Current(m) == fetch.active /\ m.c = fetch.seqno

\* tbft_state_handle_meta_data: the children whose digests are not the own
\* ones, if m is current.
Differing(m) ==
  {k \in DOMAIN m.parts : Current(m) /\ m.parts[k] # Digest(me.leaf, k)}

Answered(f, m) == IF Current(m) THEN [f EXCEPT !.open = @ \ {m.node}] ELSE f

\* tbft_replica_handle_meta_data: what differs is asked for in turn.  The fetch
\* is over when the root has nothing to ask for and no leaf is pending; that
\* the root is another fetch's is not looked at.
HandleMetaData ==
  \E m \in net : \E rest \in Leaves(m) :
    LET asked == Ask(Answered(fetch, m), Differing(m))
        over  == m.node = Root /\ fetch.pending = 0 /\ Fitting(fetch, Differing(m)) = {}
    IN  /\ m.type = "Meta_data"
        /\ \/ ~fetch.active /\ net' = rest /\ UNCHANGED <<me, fetch>>
           \/ fetch.active /\ over /\ MarkStable(me, Ended(asked), fetch.seqno, rest)
           \/ /\ fetch.active /\ ~over
              /\ fetch' = asked
              /\ net' = rest \union Requests(fetch, Differing(m))
              /\ UNCHANGED me
        /\ Charge(rest)
        /\ UNCHANGED peer

\* Mutant of TakeBlock: the tree is left to the next checkpoint.
TakeBlockUnhashed(m) == [me EXCEPT !.mem[m.block] = m.content]

\* tbft_state_handle_data: a block that is what its own message says it is
\* enters state and tree, whatever Meta_data said of it.
TakeBlock(m) == [me EXCEPT !.mem[m.block] = m.content, !.leaf[m.block] = m.content]

Received(b) ==
  [fetch EXCEPT !.received = @ \union {b},
                !.open = @ \ {LeafNode(b)},
                !.pending = IF @ > 0 THEN @ - 1 ELSE 0]

Wanted(m) == Current(m) /\ m.block \notin fetch.received /\ m.content = m.digest

\* Every request in the queue has been sent, so the fetch is over when no leaf
\* is pending.
HandleData ==
  \E m \in net : \E rest \in Leaves(m) :
    /\ m.type = "Data"
    /\ \/ ~Wanted(m) /\ net' = rest /\ UNCHANGED <<me, fetch>>
       \/ /\ Wanted(m) /\ Received(m.block).pending > 0
          /\ me' = TakeBlock(m) /\ fetch' = Received(m.block) /\ net' = rest
       \/ /\ Wanted(m) /\ Received(m.block).pending = 0
          /\ MarkStable(TakeBlock(m), Ended(Received(m.block)), fetch.seqno, rest)
    /\ Charge(rest)
    /\ UNCHANGED peer

NextReplier(p) ==
  LET next == (p + 1) % N IN IF next = Self THEN (next + 1) % N ELSE next

\* 2.5 s after the start of the fetch whatever belongs to it has come, or it is
\* late, as often as the network may be.
Patience ==
  \/ (\A m \in net : m.c # fetch.seqno) /\ UNCHANGED mishaps
  \/ (\E m \in net : m.c = fetch.seqno) /\ mishaps < MaxMishaps /\ mishaps' = mishaps + 1

\* Mutant of Timeout: only a fetch that waits for blocks starts again.
TimeoutPending ==
  /\ fetch.active /\ fetch.pending > 0
  /\ Patience
  /\ StartFetch(fetch.seqno, NextReplier(fetch.replier), net)
  /\ UNCHANGED <<peer, me, repeated>>

\* The run loop: the fetch starts again with the next replica.
Timeout ==
  /\ fetch.active
  /\ Patience
  /\ StartFetch(fetch.seqno, NextReplier(fetch.replier), net)
  /\ UNCHANGED <<peer, me, repeated>>

Receive == HandleFetch \/ HandleMetaData \/ HandleData

Next ==
  \/ \E p \in Peer : PeerExecute(p)
  \/ Lose
  \/ Execute
  \/ \E c \in Seqno : CertifyCheckpoint(c)
  \/ \E p \in Announcers, c \in Seqno : RecvStatus(p, c)
  \/ Receive
  \/ Timeout

\* The peers go on to the last checkpoint, which becomes stable among them and
\* is what their Status messages then say, for ever; the network delivers what
\* it does not lose, and the run loop runs.
Fairness ==
  /\ \A p \in Peer : WF_vars(PeerExecute(p))
  /\ WF_vars(\E p \in Announcers : RecvStatus(p, Checkpointed(MaxSeqno)))
  /\ WF_vars(Receive)
  /\ WF_vars(Timeout)

Spec == Init /\ [][Next]_vars /\ Fairness

-----------------------------------------------------------------------------
(* Properties *)

Node == [level : 0 .. LeafLevel, index : 0 .. Children ^ LeafLevel - 1]

\* The type invariant; the queue never overflows.
TypeOK ==
  /\ peer \in [Peer -> 0 .. MaxSeqno]
  /\ me \in [mem : [Block -> Value], leaf : [Block -> Value \union {Unhashed}],
             dirty : SUBSET Block, saved : 0 .. NumBlocks, executed : 0 .. MaxSeqno,
             stable : 0 .. MaxSeqno, certified : SUBSET Seqno]
  /\ fetch \in [active : BOOLEAN, seqno : 0 .. MaxSeqno, replier : Replica,
                queued : 0 .. QueueMax, pending : 0 .. QueueMax, received : SUBSET Block,
                open : SUBSET Node]
  /\ mishaps \in 0 .. MaxMishaps /\ repeated \in 0 .. MaxRepeated

\* A block that is written first after checkpoint i is marked in the interval
\* that begins there; a copy stays until the stable point moves.
Marks(s, e) == {<<Checkpointed(n - 1), Effect[n].block>> : n \in s + 1 .. e}

\* The requests of a window need no more copies than there is room for.
CopiesSuffice ==
  \A s, e \in 0 .. MaxSeqno :
    e <= s + WindowSize => Cardinality(Marks(s, e)) <= NumBlocks

\* tbft_state_checkpoint rehashes only the blocks in the bitmap: however
\* executions, checkpoints and fetched blocks interleave, every other block is
\* the one its leaf stands for, or no checkpoint has hashed it yet.  Holds where
\* CopiesSuffice does.
CleanBlocksHashed ==
  \A b \in Block : b \notin me.dirty =>
    \/ me.leaf[b] = me.mem[b]
    \/ me.leaf[b] = Unhashed /\ me.mem[b] = Blank

\* tbft_state.h:196 on fetch_complete, "Called when all missing blocks have been
\* received": no node that was asked for is unanswered when a fetch ends.
FetchEndsWhole ==
  [][fetch.active /\ ~fetch'.active => fetch'.open = {}]_vars

\* A replica more than a checkpoint behind some peer, whatever it asked whom
\* for and whatever was lost or late, has caught up when the service comes to
\* rest: in what it counts as executed.  Whether it has the state that goes with
\* it is FetchEndsWhole's question.
CatchesUp == <>[](\A p \in Peer : peer[p] - me.executed <= CheckpointInterval)
=============================================================================
