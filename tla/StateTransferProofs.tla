------------------------ MODULE StateTransferProofs ------------------------
(***************************************************************************)
(* Proofs about module StateTransfer, for every number of replicas, blocks *)
(* and requests, every shape of the partition tree, whatever the requests  *)
(* write and whatever the network does: what is asked for lies in the tree *)
(* and fits the queue; and, as long as the copies of a window's blocks     *)
(* have room, the tree and the bitmap together account for every block.    *)
(***************************************************************************)
EXTENDS StateTransfer, FiniteSetTheorems, WellFoundedInduction, TLAPS

-----------------------------------------------------------------------------
(* The partition tree *)

LEMMA LeastOf ==
  ASSUME NEW S \in SUBSET Nat, S # {} PROVE \E m \in S : \A k \in S : m <= k
<1>. DEFINE R == {ss \in Nat \X Nat : ss[1] < ss[2]}
<1>1. IsWellFoundedOn(R, Nat)
  BY NatLessThanWellFounded DEF OpToRel
<1>2. PICK m \in S : \A k \in S : ~(<<k, m>> \in R)
  <2>. HIDE DEF R
  <2>. QED
    BY <1>1, WFMin
<1>3. \A k \in S : ~(k < m)
  <2>1. \A k \in S : <<k, m>> \in Nat \X Nat /\ <<k, m>>[1] = k /\ <<k, m>>[2] = m
    OBVIOUS
  <2>. QED
    BY <1>2, <2>1
<1>. HIDE DEF R
<1>. QED
  BY <1>3

\* A tree of NumBlocks + 1 levels would hold them all.
LEMMA Grows == \A k \in 0 .. NumBlocks : Children ^ k >= k + 1
<1>1. SUFFICES ASSUME NEW j \in 0 .. NumBlocks, ~(Children ^ j >= j + 1) PROVE FALSE
  OBVIOUS
<1>. DEFINE S == {k \in 0 .. NumBlocks : ~(Children ^ k >= k + 1)}
<1>2. PICK k \in S : \A i \in S : k <= i
  <2>1. j \in S /\ S \in SUBSET Nat
    BY <1>1, SizeAssumption
  <2>. HIDE DEF S
  <2>. QED
    BY <2>1, LeastOf
<1>3. k # 0
  BY PowerAssumption
<1>4. k - 1 \in 0 .. NumBlocks /\ Children ^ (k - 1) >= k
  BY <1>2, <1>3, SizeAssumption
<1>. DEFINE p == Children ^ (k - 1)
<1>5. p \in Nat /\ p >= k /\ Children ^ k = Children * p
  <2>1. (k - 1) + 1 = k
    BY SizeAssumption
  <2>. QED
    BY <1>4, <2>1, PowerAssumption
<1>. HIDE DEF p
<1>6. Children * p >= 2 * p
  BY <1>5, SizeAssumption
<1>7. k \in Nat /\ k >= 1
  BY <1>3, SizeAssumption
<1>8. Children * p >= k + 1
  <2>. DEFINE w == Children * p
  <2>1. w \in Int
    BY <1>5, SizeAssumption
  <2>2. w >= 2 * p
    BY <1>6
  <2>. HIDE DEF w
  <2>3. w >= k + 1
    BY <1>5, <1>7, <2>1, <2>2
  <2>. QED
    BY <2>3 DEF w
<1>. QED
  BY <1>2, <1>5, <1>8

LEMMA LevelsType ==
  /\ Levels \in 1 .. NumBlocks + 1 /\ Children ^ (Levels - 1) >= NumBlocks
  /\ LeafLevel \in 0 .. NumBlocks
<1>. DEFINE S == {l \in 1 .. NumBlocks + 1 : Children ^ (l - 1) >= NumBlocks}
<1>1. S \in SUBSET Nat /\ NumBlocks + 1 \in S
  <2>1. (NumBlocks + 1) - 1 = NumBlocks /\ NumBlocks \in 0 .. NumBlocks /\ NumBlocks + 1 \in 1 .. NumBlocks + 1
    BY SizeAssumption
  <2>2. Children ^ NumBlocks \in Nat /\ Children ^ NumBlocks >= NumBlocks + 1
    BY <2>1, Grows, PowerAssumption
  <2>3. Children ^ ((NumBlocks + 1) - 1) >= NumBlocks
    BY <2>1, <2>2, SizeAssumption
  <2>. QED
    BY <2>1, <2>3, SizeAssumption
<1>2. PICK l \in S : \A k \in S : l <= k
  <2>. HIDE DEF S
  <2>. QED
    BY <1>1, LeastOf
<1>3. ASSUME NEW k \in 1 .. l - 1 PROVE Children ^ (k - 1) < NumBlocks
  <2>1. k \in 1 .. NumBlocks + 1 /\ ~(l <= k) /\ k - 1 \in 0 .. NumBlocks
    BY SizeAssumption
  <2>2. ~(Children ^ (k - 1) >= NumBlocks)
    BY <1>2, <2>1
  <2>. QED
    BY <2>1, <2>2, PowerAssumption, SizeAssumption
<1>4. \E h \in 1 .. NumBlocks + 1 :
         Children ^ (h - 1) >= NumBlocks /\ \A k \in 1 .. h - 1 : Children ^ (k - 1) < NumBlocks
  BY <1>3
<1>5. Levels \in 1 .. NumBlocks + 1 /\ Children ^ (Levels - 1) >= NumBlocks
  BY <1>4 DEF Levels
<1>. QED
  BY <1>5, SizeAssumption DEF LeafLevel

LEMMA Quotient ==
  ASSUME NEW b \in Nat, NEW p \in Nat, p >= 1 PROVE b \div p \in 0 .. b
<1>. DEFINE q == b \div p
<1>1. q \in Int /\ p * q <= b /\ b < p * (q + 1)
  OBVIOUS
<1>. HIDE DEF q
<1>2. q >= 0
  <2>1. SUFFICES ASSUME q + 1 <= 0 PROVE FALSE
    BY <1>1
  <2>2. p * (q + 1) <= 0
    BY <1>1, <2>1
  <2>. QED
    BY <1>1, <2>2
<1>3. q <= p * q
  BY <1>1, <1>2
<1>. QED
  BY <1>1, <1>2, <1>3 DEF q

-----------------------------------------------------------------------------
(* Nodes that exist *)

Tree == {n \in [level : 0 .. LeafLevel, index : Nat] : Under(n) # {}}

LEMMA TreeNodes ==
  /\ Tree \subseteq Node /\ \A n \in Tree : n.index \in Block
  /\ Root \in Tree /\ \A b \in Block : LeafNode(b) \in Tree
<1>. DEFINE P(l) == Children ^ (LeafLevel - l)
<1>1. LeafLevel \in Nat /\ LeafLevel <= NumBlocks /\ Children ^ LeafLevel >= NumBlocks
      /\ Children ^ LeafLevel \in Nat /\ P(LeafLevel) = 1
  BY LevelsType, PowerAssumption, SizeAssumption DEF LeafLevel
<1>2. \A l \in 0 .. LeafLevel : P(l) \in Nat /\ P(l) >= 1
  <2>. TAKE l \in 0 .. LeafLevel
  <2>1. LeafLevel - l \in 0 .. NumBlocks
    BY <1>1, SizeAssumption
  <2>. QED
    BY <2>1, Grows, PowerAssumption
<1>3. \A n : Under(n) = {b \in Block : b \div P(n.level) = n.index}
  BY DEF Under
<1>. HIDE DEF P
<1>4. ASSUME NEW n \in Tree PROVE n \in Node /\ n.index \in Block
  <2>1. PICK b \in Block : b \div P(n.level) = n.index
    BY <1>3 DEF Tree
  <2>2. n \in [level : 0 .. LeafLevel, index : Nat]
    BY DEF Tree
  <2>3. b \in Nat /\ b < NumBlocks /\ P(n.level) \in Nat /\ P(n.level) >= 1
    BY <1>2, <2>2, SizeAssumption DEF Block
  <2>4. n.index \in 0 .. b
    BY <2>1, <2>3, Quotient
  <2>. QED
    BY <1>1, <2>2, <2>3, <2>4, SizeAssumption DEF Node, Block
<1>5. Root \in Tree
  <2>1. 0 \in Block /\ P(0) \in Nat /\ P(0) >= 1
    BY <1>1, <1>2, SizeAssumption DEF Block
  <2>2. 0 \div P(0) = 0
    BY <2>1, Quotient
  <2>3. 0 \in Under(Root)
    BY <1>3, <2>1, <2>2 DEF Root
  <2>. QED
    BY <1>1, <2>3 DEF Tree, Root
<1>6. ASSUME NEW b \in Block PROVE LeafNode(b) \in Tree
  <2>1. b \in Nat /\ b \div 1 = b
    BY SizeAssumption DEF Block
  <2>2. b \in Under(LeafNode(b))
    BY <1>1, <1>3, <2>1 DEF LeafNode
  <2>. QED
    BY <1>1, <2>1, <2>2 DEF Tree, LeafNode
<1>. QED
  BY <1>4, <1>5, <1>6

\* What differs is in the tree: no block is below any other node, and its
\* digest is that of nothing.
LEMMA ChildrenInTree ==
  ASSUME NEW n \in Tree, n.level # LeafLevel, NEW k \in ChildrenOf(n), Under(k) # {}
  PROVE  k \in Tree /\ k.level = n.level + 1
<1>1. PICK i \in 0 .. Children - 1 : k = [level |-> n.level + 1, index |-> n.index * Children + i]
  BY DEF ChildrenOf
<1>2. n.level \in 0 .. LeafLevel /\ n.index \in Nat
  BY DEF Tree
<1>3. n.index * Children + i \in Nat
  BY <1>2, SizeAssumption
<1>4. n.level + 1 \in 0 .. LeafLevel
  BY <1>2, LevelsType
<1>. QED
  BY <1>1, <1>3, <1>4 DEF Tree

Nothing == [b \in {} |-> b]

LEMMA DigestOfNothing == ASSUME NEW k, Under(k) = {}, NEW l PROVE Digest(l, k) = Nothing
BY DEF Digest, Nothing

-----------------------------------------------------------------------------
(* The queue of fetch requests *)

FetchState ==
  [active : BOOLEAN, seqno : 0 .. MaxSeqno, replier : Replica,
   queued : 0 .. QueueMax, pending : 0 .. QueueMax, received : SUBSET Block,
   open : SUBSET Node]

\* Who is pending is queued.
Fetching(f) == f \in FetchState /\ f.pending <= f.queued

LevelOf(nodes) == nodes \subseteq Tree /\ \A k, n \in nodes : k.level = n.level

LEMMA LevelFinite ==
  ASSUME NEW nodes, LevelOf(nodes)
  PROVE  /\ IsFiniteSet(nodes)
         /\ \A k, n \in nodes : k.index \in Nat /\ (k.index = n.index => k = n)
<1>1. \A n \in nodes : n \in [level : 0 .. LeafLevel, index : Nat] /\ n.index \in Block
  BY TreeNodes DEF LevelOf, Tree
<1>2. \A k, n \in nodes : k.index = n.index => k = n
  BY <1>1 DEF LevelOf
<1>. DEFINE g == [n \in nodes |-> n.index]
<1>3. g \in Injection(nodes, Block)
  BY <1>1, <1>2 DEF Injection, IsInjective
<1>4. IsFiniteSet(Block)
  BY FS_Interval, SizeAssumption DEF Block
<1>. HIDE DEF g
<1>5. IsFiniteSet(nodes)
  BY <1>3, <1>4, FS_Injection
<1>. QED
  BY <1>1, <1>2, <1>5

LEMMA FittingFits ==
  ASSUME NEW f \in FetchState, NEW nodes, LevelOf(nodes)
  PROVE  /\ IsFiniteSet(Fitting(f, nodes)) /\ Cardinality(Fitting(f, nodes)) \in Nat
         /\ f.queued + Cardinality(Fitting(f, nodes)) <= QueueMax
<1>. DEFINE room == QueueMax - f.queued
            Before(n) == {k \in nodes : k.index < n.index}
            kept == Fitting(f, nodes)
            g == [n \in kept |-> Cardinality(Before(n))]
<1>1. room \in Nat /\ f.queued \in Nat /\ QueueMax \in Nat
  BY SizeAssumption DEF FetchState
<1>2. \A n \in nodes : IsFiniteSet(Before(n)) /\ Cardinality(Before(n)) \in Nat
  BY LevelFinite, FS_Subset, FS_CardinalityType
<1>3. kept = {n \in nodes : Cardinality(Before(n)) < room}
  BY DEF Fitting
<1>4. ASSUME NEW k \in nodes, NEW n \in nodes, k.index < n.index
      PROVE  Cardinality(Before(k)) # Cardinality(Before(n))
  <2>1. Before(k) \in SUBSET Before(n) /\ k \in Before(n) /\ k \notin Before(k)
    BY <1>4, LevelFinite
  <2>. QED
    BY <1>2, <2>1, FS_Subset
<1>5. \A k, n \in kept : Cardinality(Before(k)) = Cardinality(Before(n)) => k = n
  <2>. TAKE k, n \in kept
  <2>1. k \in nodes /\ n \in nodes
    BY <1>3
  <2>2. k.index \in Nat /\ n.index \in Nat /\ (k.index = n.index => k = n)
    BY <2>1, LevelFinite
  <2>3. k.index < n.index \/ n.index < k.index \/ k.index = n.index
    BY <2>2
  <2>. QED
    BY <1>4, <2>1, <2>2, <2>3
<1>6. \A n \in kept : Cardinality(Before(n)) \in 0 .. room - 1
  <2>. TAKE n \in kept
  <2>1. Cardinality(Before(n)) < room /\ Cardinality(Before(n)) \in Nat
    BY <1>2, <1>3
  <2>. HIDE DEF Before, room, kept
  <2>. QED
    BY <1>1, <2>1
<1>7. g \in Injection(kept, 0 .. room - 1)
  <2>. HIDE DEF Before, kept, room
  <2>. QED
    BY <1>5, <1>6 DEF Injection, IsInjective
<1>. HIDE DEF g, room, kept, Before
<1>8. IsFiniteSet(0 .. room - 1) /\ Cardinality(0 .. room - 1) = room
  <2>. DEFINE last == room - 1
  <2>1. last \in Int /\ 0 \in Int
    BY <1>1
  <2>. HIDE DEF last
  <2>2. IsFiniteSet(0 .. last) /\ Cardinality(0 .. last) = IF 0 > last THEN 0 ELSE last - 0 + 1
    BY <2>1, FS_Interval
  <2>. QED
    BY <1>1, <2>2 DEF last
<1>9. IsFiniteSet(kept) /\ Cardinality(kept) <= room /\ Cardinality(kept) \in Nat
  BY <1>7, <1>8, FS_Injection, FS_CardinalityType
<1>. QED
  BY <1>1, <1>9 DEF room, kept

\* The queue never overflows.
LEMMA AskFetching ==
  ASSUME NEW f, Fetching(f), NEW nodes, LevelOf(nodes)
  PROVE  Fetching(Ask(f, nodes))
<1>. DEFINE kept == Fitting(f, nodes)
            leaves == {n \in kept : n.level = LeafLevel /\ n.index \notin f.received}
            a == Cardinality(kept)
            b == Cardinality(leaves)
            g == Ask(f, nodes)
<1>1. f \in FetchState /\ f.pending <= f.queued
  BY DEF Fetching
<1>2. IsFiniteSet(kept) /\ a \in Nat /\ f.queued + a <= QueueMax
  BY <1>1, FittingFits
<1>3. b \in Nat /\ b <= a
  BY <1>2, FS_Subset, FS_CardinalityType
<1>4. kept \subseteq Node
  BY TreeNodes DEF Fitting, LevelOf
<1>5. g = [f EXCEPT !.queued = f.queued + a, !.pending = f.pending + b, !.open = f.open \union kept]
  BY DEF Ask
<1>. HIDE DEF kept, leaves, a, b, g
<1>6. /\ f.queued \in Nat /\ f.pending \in Nat /\ QueueMax \in Nat
      /\ f.queued + a \in 0 .. QueueMax /\ f.pending + b \in 0 .. QueueMax
      /\ f.pending + b <= f.queued + a
  BY <1>1, <1>2, <1>3, SizeAssumption DEF FetchState
<1>7. f.open \union kept \in SUBSET Node
  BY <1>1, <1>4 DEF FetchState
<1>8. g \in FetchState /\ g.pending = f.pending + b /\ g.queued = f.queued + a
  BY <1>1, <1>5, <1>6, <1>7 DEF FetchState
<1>. QED
  BY <1>6, <1>8 DEF Fetching, g

-----------------------------------------------------------------------------
(* The service *)

LEMMA ContentIs ==
  ASSUME NEW n \in 0 .. MaxSeqno, NEW b PROVE Content(n, b) \in Value
<1>1. CASE ~(\E k \in 1 .. n : Effect[k].block = b)
  BY <1>1, ServiceAssumption DEF Content
<1>2. CASE \E k \in 1 .. n : Effect[k].block = b
  <2>. DEFINE S == {i \in 0 .. n - 1 : Effect[n - i].block = b}
              Last(k) == Effect[k].block = b /\ \A j \in k + 1 .. n : Effect[j].block # b
  <2>0. n \in Nat /\ n <= MaxSeqno
    BY SizeAssumption
  <2>1. S \in SUBSET Nat /\ S # {}
    <3>1. PICK k \in 1 .. n : Effect[k].block = b
      BY <1>2
    <3>2. n - k \in 0 .. n - 1 /\ n - (n - k) = k
      BY <2>0
    <3>3. n - k \in S
      BY <3>1, <3>2
    <3>4. S \in SUBSET Nat
      BY <2>0
    <3>. HIDE DEF S
    <3>. QED
      BY <3>3, <3>4
  <2>2. PICK i \in S : \A j \in S : i <= j
    <3>. HIDE DEF S
    <3>. QED
      BY <2>1, LeastOf
  <2>3. n - i \in 1 .. n /\ Last(n - i)
    <3>1. i \in 0 .. n - 1 /\ n - i \in 1 .. n /\ Effect[n - i].block = b
      BY <2>0, <2>2
    <3>2. ASSUME NEW j \in (n - i) + 1 .. n, Effect[j].block = b PROVE FALSE
      <4>1. n - j \in 0 .. n - 1 /\ n - (n - j) = j /\ ~(i <= n - j)
        BY <2>0, <3>1
      <4>2. n - j \in S
        BY <3>2, <4>1
      <4>. QED
        BY <2>2, <4>1, <4>2
    <3>. QED
      BY <3>1, <3>2
  <2>. DEFINE c == CHOOSE k \in 1 .. n : Last(k)
  <2>4. c \in 1 .. n
    <3>. HIDE DEF Last
    <3>. QED
      BY <2>3
  <2>5. Content(n, b) = Effect[c].value
    BY <1>2 DEF Content
  <2>. HIDE DEF c
  <2>6. c \in Seqno
    BY <2>0, <2>4, SizeAssumption DEF Seqno
  <2>. QED
    BY <2>5, <2>6, ServiceAssumption
<1>. QED
  BY <1>1, <1>2

-----------------------------------------------------------------------------
(* The record of the replica *)

MyState ==
  [mem : [Block -> Value], leaf : [Block -> Value \union {Unhashed}],
   dirty : SUBSET Block, saved : 0 .. NumBlocks, executed : 0 .. MaxSeqno,
   stable : 0 .. MaxSeqno, certified : SUBSET Seqno]

LEMMA CowIs ==
  ASSUME NEW s \in MyState, NEW b \in Block
  PROVE  LET t == Cow(s, b)
             room == b \notin s.dirty /\ s.saved < NumBlocks
         IN  /\ t \in MyState /\ t.mem = s.mem /\ t.leaf = s.leaf
             /\ t.executed = s.executed /\ t.stable = s.stable
             /\ t.dirty = IF room THEN s.dirty \union {b} ELSE s.dirty
             /\ t.saved = IF room THEN s.saved + 1 ELSE s.saved
<1>. DEFINE t == Cow(s, b)
<1>1. s.saved \in 0 .. NumBlocks /\ NumBlocks \in Nat
  BY SizeAssumption DEF MyState
<1>2. CASE b \in s.dirty \/ s.saved >= NumBlocks
  <2>1. t = s
    BY <1>2 DEF Cow
  <2>2. ~(b \notin s.dirty /\ s.saved < NumBlocks)
    BY <1>1, <1>2
  <2>. QED
    BY <2>1, <2>2
<1>3. CASE ~(b \in s.dirty \/ s.saved >= NumBlocks)
  <2>. DEFINE d == s.dirty \union {b}
              n == s.saved + 1
  <2>1. t = [s EXCEPT !.dirty = d, !.saved = n]
    BY <1>3 DEF Cow
  <2>2. d \in SUBSET Block /\ n \in 0 .. NumBlocks /\ b \notin s.dirty /\ s.saved < NumBlocks
    BY <1>1, <1>3 DEF MyState
  <2>. HIDE DEF d, n, t
  <2>3. /\ t \in MyState /\ t.mem = s.mem /\ t.leaf = s.leaf
        /\ t.executed = s.executed /\ t.stable = s.stable /\ t.dirty = d /\ t.saved = n
    BY <2>1, <2>2 DEF MyState
  <2>. QED
    BY <2>2, <2>3 DEF d, n, t
<1>. QED
  BY <1>2, <1>3

LEMMA WrittenIs ==
  ASSUME NEW n \in Seqno, me \in MyState
  PROVE  LET t == Written(n)
             c == Cow(me, Effect[n].block)
         IN  /\ t \in MyState /\ t.executed = n /\ t.stable = me.stable /\ t.leaf = me.leaf
             /\ t.mem = [me.mem EXCEPT ![Effect[n].block] = Effect[n].value]
             /\ t.dirty = c.dirty /\ t.saved = c.saved
<1>1. Effect[n].block \in Block /\ Effect[n].value \in Value /\ n \in 0 .. MaxSeqno
  BY ServiceAssumption, SizeAssumption DEF Seqno
<1>. DEFINE c == Cow(me, Effect[n].block)
            mem == [me.mem EXCEPT ![Effect[n].block] = Effect[n].value]
            t == Written(n)
<1>2. c \in MyState /\ c.mem = me.mem /\ c.leaf = me.leaf /\ c.stable = me.stable
  BY <1>1, CowIs
<1>3. mem \in [Block -> Value]
  BY <1>1 DEF MyState
<1>4. t = [c EXCEPT !.executed = n, !.mem = [c.mem EXCEPT ![Effect[n].block] = Effect[n].value]]
  BY DEF Written
<1>5. t = [c EXCEPT !.executed = n, !.mem = mem]
  BY <1>2, <1>4
<1>. HIDE DEF mem, c, t
<1>6. /\ t \in MyState /\ t.executed = n /\ t.mem = mem
      /\ t.leaf = c.leaf /\ t.stable = c.stable /\ t.dirty = c.dirty /\ t.saved = c.saved
  BY <1>1, <1>2, <1>3, <1>5 DEF MyState
<1>. QED
  BY <1>2, <1>6 DEF mem, c, t

LEMMA CheckpointIs ==
  ASSUME NEW s \in MyState
  PROVE  LET t == Checkpoint(s)
         IN  /\ t \in MyState /\ t.mem = s.mem /\ t.dirty = {} /\ t.saved = s.saved
             /\ t.executed = s.executed /\ t.stable = s.stable
             /\ \A b \in Block : t.leaf[b] = IF b \in s.dirty THEN s.mem[b] ELSE s.leaf[b]
<1>. DEFINE leaf == [b \in Block |-> IF b \in s.dirty THEN s.mem[b] ELSE s.leaf[b]]
            t == Checkpoint(s)
<1>1. leaf \in [Block -> Value \union {Unhashed}]
  BY DEF MyState
<1>2. t = [s EXCEPT !.dirty = {}, !.leaf = leaf]
  BY DEF Checkpoint
<1>3. \A b \in Block : leaf[b] = IF b \in s.dirty THEN s.mem[b] ELSE s.leaf[b]
  OBVIOUS
<1>. HIDE DEF leaf, t
<1>4. /\ t \in MyState /\ t.mem = s.mem /\ t.dirty = {} /\ t.saved = s.saved
      /\ t.executed = s.executed /\ t.stable = s.stable /\ t.leaf = leaf
  BY <1>1, <1>2 DEF MyState
<1>. QED
  BY <1>3, <1>4 DEF t

LEMMA TakeBlockIs ==
  ASSUME me \in MyState, NEW m, m.block \in Block, m.content \in Value
  PROVE  LET t == TakeBlock(m)
         IN  /\ t \in MyState /\ t.dirty = me.dirty /\ t.saved = me.saved
             /\ t.executed = me.executed /\ t.stable = me.stable
             /\ t.mem = [me.mem EXCEPT ![m.block] = m.content]
             /\ t.leaf = [me.leaf EXCEPT ![m.block] = m.content]
<1>. DEFINE mem == [me.mem EXCEPT ![m.block] = m.content]
            leaf == [me.leaf EXCEPT ![m.block] = m.content]
            t == TakeBlock(m)
<1>1. mem \in [Block -> Value] /\ leaf \in [Block -> Value \union {Unhashed}]
  BY DEF MyState
<1>2. t = [me EXCEPT !.mem = mem, !.leaf = leaf]
  BY DEF TakeBlock
<1>. HIDE DEF mem, leaf, t
<1>3. /\ t \in MyState /\ t.dirty = me.dirty /\ t.saved = me.saved
      /\ t.executed = me.executed /\ t.stable = me.stable /\ t.mem = mem /\ t.leaf = leaf
  BY <1>1, <1>2 DEF MyState
<1>. QED
  BY <1>3 DEF mem, leaf, t

LEMMA TruncatedIs ==
  ASSUME NEW s \in MyState, NEW c \in 0 .. MaxSeqno
  PROVE  LET t == Truncated(s, c)
         IN  /\ t \in MyState /\ t.mem = s.mem /\ t.leaf = s.leaf /\ t.dirty = s.dirty
             /\ t.stable = c /\ t.saved = 0
             /\ t.executed = IF s.executed < c THEN c ELSE s.executed
<1>. DEFINE e == IF s.executed < c THEN c ELSE s.executed
            k == {i \in s.certified : i > c}
            t == Truncated(s, c)
<1>1. e \in 0 .. MaxSeqno /\ k \in SUBSET Seqno /\ 0 \in 0 .. NumBlocks
  BY SizeAssumption DEF MyState
<1>2. t = [s EXCEPT !.stable = c, !.saved = 0, !.executed = e, !.certified = k]
  BY DEF Truncated
<1>. HIDE DEF e, k, t
<1>3. /\ t \in MyState /\ t.mem = s.mem /\ t.leaf = s.leaf /\ t.dirty = s.dirty
      /\ t.stable = c /\ t.saved = 0 /\ t.executed = e
  BY <1>1, <1>2 DEF MyState
<1>. QED
  BY <1>3 DEF e, t

-----------------------------------------------------------------------------
(* Messages *)

\* A request is for a node of the tree, an answer says nothing of others.
Carries(m) ==
  /\ m.type = "Fetch" => m.node \in Tree
  /\ m.type = "Meta_data" =>
       /\ m.node \in Tree /\ m.node.level # LeafLevel /\ DOMAIN m.parts = ChildrenOf(m.node)
       /\ \A k \in DOMAIN m.parts : Under(k) = {} => m.parts[k] = Nothing
  /\ m.type = "Data" => m.block \in Block /\ m.content \in Value

LEMMA RequestsCarry ==
  ASSUME NEW f, NEW nodes, LevelOf(nodes), NEW m \in Requests(f, nodes) PROVE Carries(m)
<1>1. PICK n \in Fitting(f, nodes) :
        m = [type |-> "Fetch", to |-> f.replier, c |-> f.seqno, node |-> n]
  BY DEF Requests
<1>2. n \in Tree
  BY DEF Fitting, LevelOf
<1>. QED
  BY <1>1, <1>2 DEF Carries

LEMMA AnswerCarries ==
  ASSUME NEW p \in Peer, peer \in [Peer -> 0 .. MaxSeqno], NEW m, m.node \in Tree
  PROVE  Carries(Answer(p, m))
<1>. DEFINE a == Answer(p, m)
<1>1. CASE m.node.level = LeafLevel
  <2>. DEFINE x == Content(peer[p], m.node.index)
              d == LeafAt(peer[p])[m.node.index]
  <2>1. x \in Value /\ m.node.index \in Block
    BY ContentIs, TreeNodes
  <2>2. a = [type |-> "Data", c |-> m.c, block |-> m.node.index, content |-> x, digest |-> d]
    BY <1>1 DEF Answer
  <2>. HIDE DEF x, d, a
  <2>3. Carries(a)
    BY <2>1, <2>2 DEF Carries
  <2>. QED
    BY <2>3 DEF a
<1>2. CASE m.node.level # LeafLevel
  <2>. DEFINE parts == [k \in ChildrenOf(m.node) |-> Digest(LeafAt(peer[p]), k)]
  <2>1. /\ DOMAIN parts = ChildrenOf(m.node)
        /\ \A k \in DOMAIN parts : Under(k) = {} => parts[k] = Nothing
    BY DigestOfNothing
  <2>2. a = [type |-> "Meta_data", c |-> m.c, node |-> m.node, parts |-> parts]
    BY <1>2 DEF Answer
  <2>. HIDE DEF parts, a
  <2>3. Carries(a)
    BY <1>2, <2>1, <2>2 DEF Carries
  <2>. QED
    BY <2>3 DEF a
<1>. QED
  BY <1>1, <1>2

LEMMA DifferingLevel ==
  ASSUME NEW m, m.type = "Meta_data", Carries(m) PROVE LevelOf(Differing(m))
<1>1. /\ m.node \in Tree /\ m.node.level # LeafLevel /\ DOMAIN m.parts = ChildrenOf(m.node)
      /\ \A k \in DOMAIN m.parts : Under(k) = {} => m.parts[k] = Nothing
  BY DEF Carries
<1>2. ASSUME NEW k \in Differing(m) PROVE k \in Tree /\ k.level = m.node.level + 1
  <2>1. k \in ChildrenOf(m.node) /\ Under(k) # {}
    BY <1>1, DigestOfNothing DEF Differing
  <2>. QED
    BY <1>1, <2>1, ChildrenInTree
<1>. QED
  BY <1>2 DEF LevelOf

-----------------------------------------------------------------------------
(* A fetch starts, goes on and ends *)

LEMMA StartFetchTyped ==
  ASSUME NEW c \in 0 .. MaxSeqno, NEW p \in Replica, NEW rest, \A m \in rest : Carries(m),
         StartFetch(c, p, rest)
  PROVE  Fetching(fetch') /\ \A m \in net' : Carries(m)
<1>1. Fetching(Started(c, p))
  <2>. DEFINE g == Started(c, p)
  <2>1. NoFetch \in FetchState /\ NoFetch.pending = 0 /\ NoFetch.queued = 0
    BY SizeAssumption DEF NoFetch, FetchState
  <2>2. g = [NoFetch EXCEPT !.active = TRUE, !.seqno = c, !.replier = p]
    BY DEF Started
  <2>. HIDE DEF g
  <2>3. g \in FetchState /\ g.pending = 0 /\ g.queued = 0
    BY <2>1, <2>2 DEF FetchState
  <2>. QED
    BY <2>3 DEF Fetching, g
<1>2. LevelOf(FirstNodes)
  BY TreeNodes DEF FirstNodes, LevelOf, LeafNode
<1>3. fetch' = Ask(Started(c, p), FirstNodes) /\ net' = rest \union Requests(Started(c, p), FirstNodes)
  BY DEF StartFetch
<1>. QED
  BY <1>1, <1>2, <1>3, AskFetching, RequestsCarry

LEMMA EndedTyped ==
  ASSUME NEW f, Fetching(f) PROVE Fetching(Ended(f)) /\ Ended(f).seqno = f.seqno
<1>. DEFINE g == Ended(f)
<1>1. g = [f EXCEPT !.active = FALSE, !.queued = 0, !.pending = 0, !.received = {}]
  BY DEF Ended
<1>2. f \in FetchState /\ 0 \in 0 .. QueueMax
  BY SizeAssumption DEF Fetching
<1>. HIDE DEF g
<1>3. g \in FetchState /\ g.pending = 0 /\ g.queued = 0 /\ g.seqno = f.seqno
  BY <1>1, <1>2 DEF FetchState
<1>. QED
  BY <1>3 DEF Fetching, g

LEMMA MarkStableTyped ==
  ASSUME NEW s \in MyState, NEW f, Fetching(f), NEW c \in 0 .. MaxSeqno, NEW rest,
         \A m \in rest : Carries(m), MarkStable(s, f, c, rest)
  PROVE  me' \in MyState /\ Fetching(fetch') /\ \A m \in net' : Carries(m)
<1>1. CASE me' = s /\ fetch' = f /\ net' = rest
  BY <1>1
<1>2. CASE me' = s /\ StartFetch(c, Primary, rest)
  BY <1>2, StartFetchTyped, SizeAssumption
<1>3. CASE me' = Truncated(s, c) /\ fetch' = f /\ net' = rest
  BY <1>3, TruncatedIs
<1>. QED
  BY <1>1, <1>2, <1>3 DEF MarkStable

LEMMA AnsweredTyped ==
  ASSUME NEW f, Fetching(f), NEW m PROVE Fetching(Answered(f, m)) /\ Answered(f, m).seqno = f.seqno
BY DEF Answered, Fetching, FetchState

LEMMA ReceivedTyped ==
  ASSUME Fetching(fetch), NEW b \in Block
  PROVE  Fetching(Received(b)) /\ Received(b).seqno = fetch.seqno
<1>. DEFINE pending == IF fetch.pending > 0 THEN fetch.pending - 1 ELSE 0
            received == fetch.received \union {b}
            open == fetch.open \ {LeafNode(b)}
            g == Received(b)
<1>1. /\ fetch \in FetchState /\ fetch.pending \in 0 .. QueueMax /\ fetch.queued \in 0 .. QueueMax
      /\ fetch.pending <= fetch.queued
  BY DEF Fetching, FetchState
<1>2. pending \in 0 .. QueueMax /\ pending <= fetch.queued
  BY <1>1, SizeAssumption
<1>3. received \in SUBSET Block /\ open \in SUBSET Node
  BY <1>1, TreeNodes DEF FetchState
<1>4. g = [fetch EXCEPT !.received = received, !.open = open, !.pending = pending]
  BY DEF Received
<1>. HIDE DEF pending, received, open, g
<1>5. g \in FetchState /\ g.pending = pending /\ g.queued = fetch.queued /\ g.seqno = fetch.seqno
  BY <1>1, <1>2, <1>3, <1>4 DEF FetchState
<1>. QED
  BY <1>2, <1>5 DEF Fetching, g

LEMMA NextReplierType == ASSUME NEW p \in Replica PROVE NextReplier(p) \in Replica
<1>1. \A k \in Nat : (k + 1) % N \in Replica
  BY SizeAssumption DEF Replica
<1>2. p \in Nat /\ Replica \subseteq Nat
  BY SizeAssumption DEF Replica
<1>. QED
  BY <1>1, <1>2 DEF NextReplier

-----------------------------------------------------------------------------
(* Type correctness *)

TInv ==
  /\ peer \in [Peer -> 0 .. MaxSeqno] /\ me \in MyState /\ Fetching(fetch)
  /\ \A m \in net : Carries(m)
  /\ mishaps \in 0 .. MaxMishaps /\ repeated \in 0 .. MaxRepeated

LEMMA InitTyped == Init => TInv
<1>. SUFFICES ASSUME Init PROVE TInv
  OBVIOUS
<1>1. peer \in [Peer -> 0 .. MaxSeqno] /\ net = {} /\ mishaps \in 0 .. MaxMishaps /\ repeated \in 0 .. MaxRepeated
  BY SizeAssumption DEF Init
<1>2. me \in MyState
  BY SizeAssumption, ServiceAssumption DEF Init, MyState
<1>3. fetch \in FetchState /\ fetch.pending = 0 /\ fetch.queued = 0
  BY SizeAssumption DEF Init, NoFetch, FetchState
<1>. QED
  BY <1>1, <1>2, <1>3 DEF TInv, Fetching

\* The network's share of a delivery.
LEMMA ChargeTyped ==
  ASSUME TInv, NEW m \in net, NEW rest \in Leaves(m), Charge(rest)
  PROVE  (\A k \in rest : Carries(k)) /\ mishaps' \in 0 .. MaxMishaps /\ repeated' \in 0 .. MaxRepeated
<1>1. rest \subseteq net /\ (rest = net => repeated < MaxRepeated)
  BY DEF Leaves
<1>. QED
  BY <1>1, SizeAssumption DEF TInv, Charge

LEMMA HandleFetchTyped == TInv /\ HandleFetch => TInv'
<1>. SUFFICES ASSUME TInv, HandleFetch PROVE TInv'
  OBVIOUS
<1>1. PICK m \in net : \E rest \in Leaves(m) :
        /\ m.type = "Fetch" /\ net' = rest \union {Answer(p, m) : p \in {m.to} \cap Peer}
        /\ Charge(rest) /\ UNCHANGED <<peer, me, fetch>>
  BY DEF HandleFetch
<1>2. PICK rest \in Leaves(m) :
        /\ m.type = "Fetch" /\ net' = rest \union {Answer(p, m) : p \in {m.to} \cap Peer}
        /\ Charge(rest) /\ UNCHANGED <<peer, me, fetch>>
  BY <1>1
<1>3. (\A k \in rest : Carries(k)) /\ mishaps' \in 0 .. MaxMishaps /\ repeated' \in 0 .. MaxRepeated
  BY <1>2, ChargeTyped
<1>4. m.node \in Tree
  BY <1>2 DEF TInv, Carries
<1>5. \A k \in net' : Carries(k)
  BY <1>2, <1>3, <1>4, AnswerCarries DEF TInv
<1>. QED
  BY <1>2, <1>3, <1>5 DEF TInv

LEMMA HandleMetaDataTyped == TInv /\ HandleMetaData => TInv'
<1>. SUFFICES ASSUME TInv, HandleMetaData PROVE TInv'
  OBVIOUS
<1>. DEFINE asked(m) == Ask(Answered(fetch, m), Differing(m))
<1>1. PICK m \in net : \E rest \in Leaves(m) :
        /\ m.type = "Meta_data" /\ Charge(rest) /\ peer' = peer
        /\ \/ net' = rest /\ me' = me /\ fetch' = fetch
           \/ MarkStable(me, Ended(asked(m)), fetch.seqno, rest)
           \/ /\ fetch' = asked(m) /\ me' = me
              /\ net' = rest \union Requests(fetch, Differing(m))
  BY DEF HandleMetaData
<1>2. PICK rest \in Leaves(m) :
        /\ m.type = "Meta_data" /\ Charge(rest) /\ peer' = peer
        /\ \/ net' = rest /\ me' = me /\ fetch' = fetch
           \/ MarkStable(me, Ended(asked(m)), fetch.seqno, rest)
           \/ /\ fetch' = asked(m) /\ me' = me
              /\ net' = rest \union Requests(fetch, Differing(m))
  BY <1>1
<1>3. (\A k \in rest : Carries(k)) /\ mishaps' \in 0 .. MaxMishaps /\ repeated' \in 0 .. MaxRepeated
  BY <1>2, ChargeTyped
<1>4. LevelOf(Differing(m)) /\ m.node \in Tree
  BY <1>2, DifferingLevel DEF TInv, Carries
<1>5. Fetching(fetch) /\ fetch.seqno \in 0 .. MaxSeqno /\ me \in MyState
  BY DEF TInv, Fetching, FetchState
<1>6. Fetching(asked(m))
  BY <1>4, <1>5, AskFetching, AnsweredTyped
<1>. HIDE DEF asked
<1>7. CASE net' = rest /\ me' = me /\ fetch' = fetch
  BY <1>2, <1>3, <1>7 DEF TInv
<1>8. CASE MarkStable(me, Ended(asked(m)), fetch.seqno, rest)
  <2>1. me' \in MyState /\ Fetching(fetch') /\ \A k \in net' : Carries(k)
    BY <1>3, <1>5, <1>6, <1>8, EndedTyped, MarkStableTyped
  <2>. QED
    BY <1>2, <1>3, <2>1 DEF TInv
<1>9. CASE fetch' = asked(m) /\ me' = me /\ net' = rest \union Requests(fetch, Differing(m))
  <2>1. \A k \in net' : Carries(k)
    BY <1>3, <1>4, <1>9, RequestsCarry
  <2>. QED
    BY <1>2, <1>3, <1>6, <1>9, <2>1 DEF TInv
<1>. QED
  BY <1>2, <1>7, <1>8, <1>9

LEMMA HandleDataTyped == TInv /\ HandleData => TInv'
<1>. SUFFICES ASSUME TInv, HandleData PROVE TInv'
  OBVIOUS
<1>1. PICK m \in net : \E rest \in Leaves(m) :
        /\ m.type = "Data" /\ Charge(rest) /\ peer' = peer
        /\ \/ net' = rest /\ me' = me /\ fetch' = fetch
           \/ me' = TakeBlock(m) /\ fetch' = Received(m.block) /\ net' = rest
           \/ MarkStable(TakeBlock(m), Ended(Received(m.block)), fetch.seqno, rest)
  BY DEF HandleData
<1>2. PICK rest \in Leaves(m) :
        /\ m.type = "Data" /\ Charge(rest) /\ peer' = peer
        /\ \/ net' = rest /\ me' = me /\ fetch' = fetch
           \/ me' = TakeBlock(m) /\ fetch' = Received(m.block) /\ net' = rest
           \/ MarkStable(TakeBlock(m), Ended(Received(m.block)), fetch.seqno, rest)
  BY <1>1
<1>3. (\A k \in rest : Carries(k)) /\ mishaps' \in 0 .. MaxMishaps /\ repeated' \in 0 .. MaxRepeated
  BY <1>2, ChargeTyped
<1>4. m.block \in Block /\ m.content \in Value
  BY <1>2 DEF TInv, Carries
<1>5. Fetching(fetch) /\ fetch.seqno \in 0 .. MaxSeqno /\ me \in MyState
  BY DEF TInv, Fetching, FetchState
<1>6. TakeBlock(m) \in MyState /\ Fetching(Received(m.block))
  BY <1>4, <1>5, TakeBlockIs, ReceivedTyped
<1>7. CASE net' = rest /\ me' = me /\ fetch' = fetch
  BY <1>2, <1>3, <1>7 DEF TInv
<1>8. CASE me' = TakeBlock(m) /\ fetch' = Received(m.block) /\ net' = rest
  BY <1>2, <1>3, <1>6, <1>8 DEF TInv
<1>9. CASE MarkStable(TakeBlock(m), Ended(Received(m.block)), fetch.seqno, rest)
  <2>1. me' \in MyState /\ Fetching(fetch') /\ \A k \in net' : Carries(k)
    BY <1>3, <1>5, <1>6, <1>9, EndedTyped, MarkStableTyped
  <2>. QED
    BY <1>2, <1>3, <2>1 DEF TInv
<1>. QED
  BY <1>2, <1>7, <1>8, <1>9

LEMMA NextTyped == TInv /\ [Next]_vars => TInv'
<1>. SUFFICES ASSUME TInv, [Next]_vars PROVE TInv'
  OBVIOUS
<1>0. Seqno \subseteq 0 .. MaxSeqno /\ Seqno = 1 .. MaxSeqno /\ MaxSeqno \in Nat /\ Peer \subseteq Replica
      /\ Announcers \subseteq Replica
  BY SizeAssumption DEF Seqno, Peer
<1>1. CASE UNCHANGED vars
  BY <1>1 DEF vars, TInv
<1>2. ASSUME NEW p \in Peer, PeerExecute(p) PROVE TInv'
  BY <1>0, <1>2 DEF PeerExecute, TInv
<1>3. CASE Lose
  BY <1>3, SizeAssumption DEF Lose, TInv
<1>4. CASE Execute
  <2>. DEFINE n == me.executed + 1
  <2>1. /\ \E p \in Peer : peer[p] >= n
        /\ me' = Checkpoint(Written(n)) \/ me' = Written(n)
        /\ UNCHANGED <<peer, fetch, net, mishaps, repeated>>
    BY <1>4 DEF Execute
  <2>2. n \in Seqno
    BY <1>0, <2>1 DEF TInv, MyState
  <2>. HIDE DEF n
  <2>3. me' \in MyState
    BY <2>1, <2>2, WrittenIs, CheckpointIs DEF TInv
  <2>. QED
    BY <2>1, <2>3 DEF TInv
<1>5. ASSUME NEW c \in Seqno, CertifyCheckpoint(c) PROVE TInv'
  <2>. DEFINE s == [me EXCEPT !.certified = @ \union {c}]
  <2>1. MarkStable(s, fetch, c, net) /\ UNCHANGED <<peer, mishaps, repeated>>
    BY <1>5 DEF CertifyCheckpoint
  <2>2. s \in MyState
    BY DEF TInv, MyState
  <2>. HIDE DEF s
  <2>3. me' \in MyState /\ Fetching(fetch') /\ \A m \in net' : Carries(m)
    BY <1>0, <2>1, <2>2, MarkStableTyped DEF TInv
  <2>. QED
    BY <2>1, <2>3 DEF TInv
<1>6. ASSUME NEW p \in Announcers, NEW c \in Seqno, RecvStatus(p, c) PROVE TInv'
  <2>1. StartFetch(c, p, net) /\ UNCHANGED <<peer, me, repeated>>
    BY <1>6 DEF RecvStatus
  <2>2. Fetching(fetch') /\ \A m \in net' : Carries(m)
    BY <1>0, <2>1, StartFetchTyped DEF TInv
  <2>3. mishaps' \in 0 .. MaxMishaps
    BY <1>6, SizeAssumption DEF RecvStatus, TInv
  <2>. QED
    BY <2>1, <2>2, <2>3 DEF TInv
<1>7. CASE Receive
  BY <1>7, HandleFetchTyped, HandleMetaDataTyped, HandleDataTyped DEF Receive
<1>8. CASE Timeout
  <2>1. StartFetch(fetch.seqno, NextReplier(fetch.replier), net) /\ UNCHANGED <<peer, me, repeated>>
    BY <1>8 DEF Timeout
  <2>2. fetch.seqno \in 0 .. MaxSeqno /\ NextReplier(fetch.replier) \in Replica
    BY NextReplierType DEF TInv, Fetching, FetchState
  <2>3. Fetching(fetch') /\ \A m \in net' : Carries(m)
    BY <2>1, <2>2, StartFetchTyped DEF TInv
  <2>4. mishaps' \in 0 .. MaxMishaps
    BY <1>8, SizeAssumption DEF Timeout, Patience, TInv
  <2>. QED
    BY <2>1, <2>3, <2>4 DEF TInv
<1>. QED
  BY <1>1, <1>2, <1>3, <1>4, <1>5, <1>6, <1>7, <1>8 DEF Next

\* Type correctness: what is asked for lies in the tree, a message carries what
\* it should, and the queue of fetch requests and the count of pending leaves
\* keep their limit, however many fetches start, overlap and are answered late.
THEOREM TransferTyped == Spec => []TypeOK
<1>1. TInv => TypeOK
  BY DEF TInv, TypeOK, MyState, Fetching, FetchState
<1>. QED
  BY <1>1, InitTyped, NextTyped, PTL DEF Spec

-----------------------------------------------------------------------------
(* Checkpoints and marks *)

LEMMA CheckpointedIs ==
  /\ \A n \in Nat : Checkpointed(n) \in 0 .. n
  /\ \A n \in Nat \ {0} :
       Checkpointed(n) = IF n % CheckpointInterval = 0 THEN n ELSE Checkpointed(n - 1)
<1>. DEFINE c == CheckpointInterval
            q(n) == n \div c
<1>1. c \in Nat \ {0}
  BY SizeAssumption
<1>2. ASSUME NEW n \in Nat
      PROVE  /\ q(n) \in Nat /\ n % c \in 0 .. c - 1
             /\ c * q(n) <= n /\ n < c * (q(n) + 1) /\ n = c * q(n) + (n % c)
  <2>1. q(n) \in Int /\ c * q(n) <= n /\ n < c * (q(n) + 1)
    BY <1>1
  <2>2. q(n) \in Nat
    BY <1>1, Quotient
  <2>3. n % c \in 0 .. c - 1 /\ n = c * q(n) + (n % c)
    BY <1>1
  <2>. QED
    BY <2>1, <2>2, <2>3
<1>3. \A n \in Nat : Checkpointed(n) = c * q(n)
  <2>. TAKE n \in Nat
  <2>1. Checkpointed(n) = q(n) * c
    BY DEF Checkpointed
  <2>2. q(n) \in Nat /\ c \in Nat
    BY <1>1, <1>2
  <2>. HIDE DEF q, c
  <2>. QED
    BY <2>1, <2>2
<1>. HIDE DEF q, c
<1>4. ASSUME NEW n \in Nat PROVE Checkpointed(n) \in 0 .. n
  <2>1. c * q(n) \in Nat
    BY <1>1, <1>2
  <2>. QED
    BY <1>2, <1>3, <2>1
<1>5. ASSUME NEW n \in Nat \ {0}, n % c = 0 PROVE Checkpointed(n) = n
  <2>1. c * q(n) \in Nat
    BY <1>1, <1>2
  <2>. QED
    BY <1>2, <1>3, <1>5, <2>1
<1>6. ASSUME NEW n \in Nat \ {0}, n % c # 0 PROVE Checkpointed(n) = Checkpointed(n - 1)
  <2>. DEFINE a == q(n)
              b == q(n - 1)
  <2>1. n - 1 \in Nat
    OBVIOUS
  <2>2. a \in Nat /\ c * a <= n - 1 /\ n - 1 < c * (a + 1)
    <3>. DEFINE r == n % c
    <3>1. a \in Nat /\ r \in 0 .. c - 1 /\ n = c * a + r /\ n < c * (a + 1)
      BY <1>2
    <3>2. r # 0
      BY <1>6
    <3>. HIDE DEF a, r
    <3>3. c * a \in Nat /\ c * (a + 1) \in Nat
      BY <1>1, <3>1
    <3>. QED
      BY <1>1, <3>1, <3>2, <3>3
  <2>3. b \in Nat /\ c * b <= n - 1 /\ n - 1 < c * (b + 1)
    BY <1>2, <2>1
  <2>. HIDE DEF a, b
  <2>4. ASSUME NEW x \in Nat, NEW y \in Nat, c * x <= n - 1, n - 1 < c * (y + 1) PROVE x <= y
    <3>1. SUFFICES ASSUME y + 1 <= x PROVE FALSE
      OBVIOUS
    <3>2. c * (y + 1) <= c * x
      BY <1>1, <3>1
    <3>3. c * x \in Nat /\ c * (y + 1) \in Nat
      BY <1>1
    <3>. QED
      BY <2>1, <2>4, <3>2, <3>3
  <2>5. a = b
    BY <2>2, <2>3, <2>4
  <2>. QED
    BY <1>3, <2>1, <2>5 DEF a, b
<1>. QED
  BY <1>4, <1>5, <1>6 DEF c

LEMMA MarksFinite ==
  ASSUME NEW s \in Nat, NEW e \in Nat
  PROVE  IsFiniteSet(Marks(s, e)) /\ Cardinality(Marks(s, e)) \in Nat
<1>. DEFINE f == [n \in s + 1 .. e |-> <<Checkpointed(n - 1), Effect[n].block>>]
<1>1. f \in Surjection(s + 1 .. e, Marks(s, e))
  BY DEF Surjection, Marks
<1>2. IsFiniteSet(s + 1 .. e)
  BY FS_Interval
<1>. HIDE DEF f
<1>. QED
  BY <1>1, <1>2, FS_Surjection, FS_CardinalityType

LEMMA NextMark ==
  ASSUME NEW s \in Nat, NEW n \in Nat, s < n
  PROVE  Marks(s, n) = Marks(s, n - 1) \union {<<Checkpointed(n - 1), Effect[n].block>>}
<1>1. s + 1 .. n = (s + 1 .. n - 1) \union {n}
  OBVIOUS
<1>. QED
  BY <1>1 DEF Marks

-----------------------------------------------------------------------------
(* What the handlers do to tree, bitmap and copies *)

\* Every block is in the bitmap, or is what its leaf stands for.
Accounted(s) ==
  \A b \in Block : b \notin s.dirty =>
    s.leaf[b] = s.mem[b] \/ (s.leaf[b] = Unhashed /\ s.mem[b] = Blank)

\* No more copies are kept than were marked since the stable point, and what
\* was written since the last checkpoint is in the bitmap.
Counted(s) ==
  /\ s.stable <= s.executed
  /\ s.saved <= Cardinality(Marks(s.stable, s.executed))
  /\ \A n \in s.stable + 1 .. s.executed :
       Checkpointed(n - 1) = Checkpointed(s.executed) => Effect[n].block \in s.dirty

Sound(s) == s \in MyState /\ Accounted(s) /\ Counted(s)

\* A block the bitmap does not have yet finds room for its copy.
LEMMA WrittenMarks ==
  ASSUME CopiesSuffice, Sound(me), NEW n \in Seqno, n = me.executed + 1,
         n <= me.stable + WindowSize
  PROVE  LET b == Effect[n].block
             t == Written(n)
         IN  /\ t.dirty = me.dirty \union {b}
             /\ t.saved <= Cardinality(Marks(t.stable, t.executed))
<1>. DEFINE b == Effect[n].block
            t == Written(n)
            old == Marks(me.stable, n - 1)
            new == Marks(me.stable, n)
            mark == <<Checkpointed(n - 1), b>>
<1>1. /\ me \in MyState /\ b \in Block /\ me.stable \in Nat /\ me.executed \in Nat
      /\ n \in Nat /\ n - 1 = me.executed /\ n <= MaxSeqno /\ me.stable < n /\ me.saved \in Nat
  BY ServiceAssumption, SizeAssumption DEF Sound, Counted, MyState, Seqno
<1>2. /\ t.stable = me.stable /\ t.executed = n
      /\ t.dirty = Cow(me, b).dirty /\ t.saved = Cow(me, b).saved
  BY <1>1, WrittenIs
<1>3. new = old \union {mark} /\ IsFiniteSet(old) /\ Cardinality(old) \in Nat /\ Cardinality(new) \in Nat
  BY <1>1, NextMark, MarksFinite
<1>4. me.saved <= Cardinality(old)
  BY <1>1 DEF Sound, Counted
<1>5. Cardinality(new) <= NumBlocks
  BY <1>1, SizeAssumption DEF CopiesSuffice
<1>6. CASE b \in me.dirty
  <2>1. Cardinality(old) <= Cardinality(new)
    <3>. HIDE DEF old, new, mark
    <3>1. Cardinality(new) = IF mark \in old THEN Cardinality(old) ELSE Cardinality(old) + 1
      BY <1>3, FS_AddElement
    <3>. QED
      BY <1>3, <3>1
  <2>2. t.dirty = me.dirty /\ t.saved = me.saved
    BY <1>1, <1>2, <1>6, CowIs
  <2>. HIDE DEF old, new, t
  <2>3. t.saved <= Cardinality(new)
    BY <1>1, <1>3, <1>4, <2>1, <2>2
  <2>. QED
    BY <1>2, <1>6, <2>2, <2>3 DEF new, t
<1>7. CASE b \notin me.dirty
  <2>1. mark \notin old
    <3>1. SUFFICES ASSUME NEW k \in me.stable + 1 .. n - 1, mark = <<Checkpointed(k - 1), Effect[k].block>>
                   PROVE FALSE
      BY DEF Marks
    <3>2. k \in me.stable + 1 .. me.executed /\ Checkpointed(k - 1) = Checkpointed(me.executed)
          /\ Effect[k].block = b
      BY <1>1, <3>1
    <3>. QED
      BY <1>7, <3>2 DEF Sound, Counted
  <2>2. Cardinality(new) = Cardinality(old) + 1
    BY <1>3, <2>1, FS_AddElement
  <2>3. me.saved < NumBlocks
    <3>. HIDE DEF old, new
    <3>. QED
      BY <1>1, <1>3, <1>4, <1>5, <2>2, SizeAssumption
  <2>4. t.dirty = me.dirty \union {b} /\ t.saved = me.saved + 1
    BY <1>1, <1>2, <1>7, <2>3, CowIs
  <2>. HIDE DEF old, new, t
  <2>5. t.saved <= Cardinality(new)
    BY <1>1, <1>3, <1>4, <2>2, <2>4
  <2>. QED
    BY <1>2, <2>4, <2>5 DEF new, t
<1>. QED
  BY <1>6, <1>7

LEMMA WrittenSound ==
  ASSUME CopiesSuffice, Sound(me), NEW n \in Seqno, n = me.executed + 1,
         n <= me.stable + WindowSize
  PROVE  Sound(Written(n)) /\ Written(n).executed = n
<1>. DEFINE b == Effect[n].block
            t == Written(n)
<1>1. /\ me \in MyState /\ me.stable \in Nat /\ me.executed \in Nat /\ n \in Nat \ {0}
      /\ me.stable < n /\ b \in Block
  BY ServiceAssumption, SizeAssumption DEF Sound, Counted, MyState, Seqno
<1>2. /\ t \in MyState /\ t.executed = n /\ t.stable = me.stable /\ t.leaf = me.leaf
      /\ t.mem = [me.mem EXCEPT ![b] = Effect[n].value]
  BY <1>1, WrittenIs
<1>3. t.dirty = me.dirty \union {b} /\ t.saved <= Cardinality(Marks(t.stable, t.executed))
  BY WrittenMarks
<1>. HIDE DEF t
<1>4. Accounted(t)
  <2>. SUFFICES ASSUME NEW k \in Block, k \notin t.dirty
                PROVE  t.leaf[k] = t.mem[k] \/ (t.leaf[k] = Unhashed /\ t.mem[k] = Blank)
    BY DEF Accounted
  <2>1. k # b /\ k \notin me.dirty
    BY <1>3
  <2>2. t.mem[k] = me.mem[k] /\ t.leaf[k] = me.leaf[k]
    BY <1>1, <1>2, <2>1 DEF MyState
  <2>. QED
    BY <2>1, <2>2 DEF Sound, Accounted
<1>5. ASSUME NEW k \in me.stable + 1 .. n, Checkpointed(k - 1) = Checkpointed(n)
      PROVE  Effect[k].block \in t.dirty
  <2>1. CASE k = n
    BY <1>3, <2>1
  <2>2. CASE k # n
    <3>1. k - 1 \in Nat /\ k - 1 < n /\ k \in me.stable + 1 .. me.executed /\ n - 1 = me.executed
      BY <1>1, <2>2
    <3>2. Checkpointed(k - 1) < n
      BY <1>1, <3>1, CheckpointedIs
    <3>3. Checkpointed(n) = Checkpointed(me.executed)
      BY <1>1, <1>5, <3>1, <3>2, CheckpointedIs
    <3>. QED
      BY <1>3, <1>5, <3>1, <3>3 DEF Sound, Counted
  <2>. QED
    BY <2>1, <2>2
<1>6. Counted(t)
  BY <1>1, <1>2, <1>3, <1>5 DEF Counted
<1>. QED
  BY <1>2, <1>4, <1>6 DEF Sound, t

\* The checkpoint hashes what is in the bitmap, and that is enough.
LEMMA CheckpointSound ==
  ASSUME NEW s, Sound(s), s.executed % CheckpointInterval = 0, s.executed # 0
  PROVE  Sound(Checkpoint(s))
<1>. DEFINE t == Checkpoint(s)
<1>1. /\ t \in MyState /\ t.mem = s.mem /\ t.dirty = {} /\ t.saved = s.saved
      /\ t.executed = s.executed /\ t.stable = s.stable
      /\ \A b \in Block : t.leaf[b] = IF b \in s.dirty THEN s.mem[b] ELSE s.leaf[b]
  BY CheckpointIs DEF Sound
<1>2. s.executed \in Nat \ {0} /\ s.stable \in Nat
  BY SizeAssumption DEF Sound, MyState
<1>. HIDE DEF t
<1>3. Accounted(t)
  BY <1>1 DEF Sound, Accounted
<1>4. ASSUME NEW n \in s.stable + 1 .. s.executed, Checkpointed(n - 1) = Checkpointed(s.executed)
      PROVE  FALSE
  <2>1. n - 1 \in Nat /\ n - 1 < s.executed
    BY <1>2
  <2>2. Checkpointed(n - 1) <= n - 1 /\ Checkpointed(n - 1) \in Nat
    BY <2>1, CheckpointedIs
  <2>3. Checkpointed(s.executed) = s.executed
    BY <1>2, CheckpointedIs
  <2>. QED
    BY <1>2, <1>4, <2>1, <2>2, <2>3
<1>5. Counted(t)
  BY <1>1, <1>4 DEF Sound, Counted
<1>. QED
  BY <1>1, <1>3, <1>5 DEF Sound, t

\* A fetched block goes into the state and into the tree; whether it is in the
\* bitmap does not matter.
LEMMA TakeBlockSound ==
  ASSUME Sound(me), NEW m, m.block \in Block, m.content \in Value PROVE Sound(TakeBlock(m))
<1>. DEFINE t == TakeBlock(m)
<1>1. /\ t \in MyState /\ t.dirty = me.dirty /\ t.saved = me.saved
      /\ t.executed = me.executed /\ t.stable = me.stable
      /\ t.mem = [me.mem EXCEPT ![m.block] = m.content]
      /\ t.leaf = [me.leaf EXCEPT ![m.block] = m.content]
  BY TakeBlockIs DEF Sound
<1>2. me.mem \in [Block -> Value] /\ me.leaf \in [Block -> Value \union {Unhashed}]
  BY DEF Sound, MyState
<1>. HIDE DEF t
<1>3. ASSUME NEW b \in Block, b \notin t.dirty
      PROVE  t.leaf[b] = t.mem[b] \/ (t.leaf[b] = Unhashed /\ t.mem[b] = Blank)
  <2>1. CASE b = m.block
    BY <1>1, <1>2, <2>1
  <2>2. CASE b # m.block
    <3>1. t.mem[b] = me.mem[b] /\ t.leaf[b] = me.leaf[b]
      BY <1>1, <1>2, <2>2
    <3>. QED
      BY <1>1, <1>3, <3>1 DEF Sound, Accounted
  <2>. QED
    BY <2>1, <2>2
<1>4. Accounted(t) /\ Counted(t)
  BY <1>1, <1>3 DEF Sound, Accounted, Counted
<1>. QED
  BY <1>1, <1>4 DEF Sound, t

\* The record of a new stable point is empty, and what was executed after it
\* was executed after the old one.
LEMMA TruncatedSound ==
  ASSUME NEW s, Sound(s), NEW c \in 0 .. MaxSeqno, c > s.stable PROVE Sound(Truncated(s, c))
<1>. DEFINE t == Truncated(s, c)
<1>1. /\ t \in MyState /\ t.mem = s.mem /\ t.leaf = s.leaf /\ t.dirty = s.dirty
      /\ t.stable = c /\ t.saved = 0
      /\ t.executed = IF s.executed < c THEN c ELSE s.executed
  BY TruncatedIs DEF Sound
<1>2. s.executed \in Nat /\ s.stable \in Nat /\ c \in Nat
  BY SizeAssumption DEF Sound, MyState
<1>. HIDE DEF t
<1>3. t.executed \in Nat /\ t.stable \in Nat /\ t.stable <= t.executed
  BY <1>1, <1>2
<1>4. t.saved <= Cardinality(Marks(t.stable, t.executed))
  <2>1. Cardinality(Marks(t.stable, t.executed)) \in Nat
    BY <1>3, MarksFinite
  <2>. QED
    BY <1>1, <2>1
<1>5. ASSUME NEW n \in t.stable + 1 .. t.executed, Checkpointed(n - 1) = Checkpointed(t.executed)
      PROVE  Effect[n].block \in t.dirty
  <2>1. t.executed = s.executed /\ n \in s.stable + 1 .. s.executed
    BY <1>1, <1>2
  <2>. QED
    BY <1>1, <1>5, <2>1 DEF Sound, Counted
<1>6. Counted(t)
  BY <1>3, <1>4, <1>5 DEF Counted
<1>7. Accounted(t)
  BY <1>1 DEF Sound, Accounted
<1>. QED
  BY <1>1, <1>6, <1>7 DEF Sound, t

LEMMA MarkStableSound ==
  ASSUME NEW s, Sound(s), NEW f, NEW c \in 0 .. MaxSeqno, NEW rest, MarkStable(s, f, c, rest)
  PROVE  Sound(me')
<1>1. me' = s \/ (c > s.stable /\ me' = Truncated(s, c))
  BY DEF MarkStable
<1>. QED
  BY <1>1, TruncatedSound

-----------------------------------------------------------------------------
(* The tree accounts for every block *)

AInv == Sound(me)

LEMMA InitSound == Init => AInv
<1>. SUFFICES ASSUME Init PROVE Sound(me)
  BY DEF AInv
<1>1. /\ me.mem = [b \in Block |-> Blank] /\ me.leaf = [b \in Block |-> Unhashed]
      /\ me.saved = 0 /\ me.executed = 0 /\ me.stable = 0
  BY DEF Init
<1>2. me \in MyState
  BY InitTyped DEF TInv
<1>3. Accounted(me)
  BY <1>1 DEF Accounted
<1>4. Cardinality(Marks(0, 0)) \in Nat
  BY MarksFinite
<1>5. Counted(me)
  BY <1>1, <1>4 DEF Counted
<1>. QED
  BY <1>2, <1>3, <1>5 DEF Sound

LEMMA NextSound ==
  ASSUME CopiesSuffice PROVE TInv /\ AInv /\ [Next]_vars => AInv'
<1>. SUFFICES ASSUME TInv, Sound(me), [Next]_vars PROVE Sound(me')
  BY DEF AInv, Sound, MyState, Accounted, Counted
<1>0. Seqno \subseteq 0 .. MaxSeqno /\ fetch.seqno \in 0 .. MaxSeqno
  BY SizeAssumption DEF Seqno, TInv, Fetching, FetchState
<1>1. CASE UNCHANGED vars
  BY <1>1 DEF vars
<1>2. ASSUME NEW p \in Peer, PeerExecute(p) PROVE Sound(me')
  BY <1>2 DEF PeerExecute
<1>3. CASE Lose
  BY <1>3 DEF Lose
<1>4. CASE Execute
  <2>. DEFINE n == me.executed + 1
  <2>1. /\ \E p \in Peer : peer[p] >= n
        /\ n <= me.stable + WindowSize
        /\ me' = IF n % CheckpointInterval = 0 THEN Checkpoint(Written(n)) ELSE Written(n)
    BY <1>4 DEF Execute
  <2>2. n \in Seqno /\ n # 0
    BY <2>1, SizeAssumption DEF TInv, MyState, Seqno
  <2>. HIDE DEF n
  <2>3. Sound(Written(n)) /\ Written(n).executed = n
    BY <2>1, <2>2, WrittenSound DEF n
  <2>. QED
    BY <2>1, <2>2, <2>3, CheckpointSound
<1>5. ASSUME NEW c \in Seqno, CertifyCheckpoint(c) PROVE Sound(me')
  <2>. DEFINE s == [me EXCEPT !.certified = @ \union {c}]
  <2>1. MarkStable(s, fetch, c, net)
    BY <1>5 DEF CertifyCheckpoint
  <2>2. /\ s \in MyState /\ s.mem = me.mem /\ s.leaf = me.leaf /\ s.dirty = me.dirty
        /\ s.saved = me.saved /\ s.executed = me.executed /\ s.stable = me.stable
    BY DEF Sound, MyState
  <2>. HIDE DEF s
  <2>3. Sound(s)
    BY <2>2 DEF Sound, Accounted, Counted
  <2>. QED
    BY <1>0, <2>1, <2>3, MarkStableSound
<1>6. ASSUME NEW p \in Announcers, NEW c \in Seqno, RecvStatus(p, c) PROVE Sound(me')
  BY <1>6 DEF RecvStatus
<1>7. CASE HandleFetch
  BY <1>7 DEF HandleFetch
<1>8. CASE HandleMetaData
  <2>1. me' = me \/ \E f, rest : MarkStable(me, f, fetch.seqno, rest)
    BY <1>8 DEF HandleMetaData
  <2>. QED
    BY <1>0, <2>1, MarkStableSound
<1>9. CASE HandleData
  <2>1. PICK m \in net :
          /\ m.type = "Data"
          /\ \/ me' = me \/ me' = TakeBlock(m)
             \/ \E f, rest : MarkStable(TakeBlock(m), f, fetch.seqno, rest)
    BY <1>9 DEF HandleData
  <2>2. m.block \in Block /\ m.content \in Value
    BY <2>1 DEF TInv, Carries
  <2>. QED
    BY <1>0, <2>1, <2>2, TakeBlockSound, MarkStableSound
<1>10. CASE Timeout
  BY <1>10 DEF Timeout
<1>. QED
  BY <1>1, <1>2, <1>3, <1>4, <1>5, <1>6, <1>7, <1>8, <1>9, <1>10 DEF Next, Receive

\* As long as the requests of a window need no more copies than there is room
\* for: however executions, checkpoints, fetched blocks and stable points
\* interleave, a block that tbft_state_checkpoint will not rehash is the one
\* its leaf stands for.
THEOREM TreeAccounts ==
  ASSUME CopiesSuffice PROVE Spec => []CleanBlocksHashed
<1>1. AInv => CleanBlocksHashed
  BY DEF AInv, Sound, Accounted, CleanBlocksHashed
<1>2. TInv /\ AInv /\ [Next]_vars => AInv'
  BY NextSound
<1>. QED
  BY <1>1, <1>2, InitTyped, NextTyped, InitSound, PTL DEF Spec
=============================================================================
