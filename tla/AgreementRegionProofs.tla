----------------------- MODULE AgreementRegionProofs -----------------------
(***************************************************************************)
(* When New_views come in order, the ring of agreement slices is what      *)
(* module Agreement takes it for: a function from the sequence numbers of  *)
(* the window to slices, whose prepared certificates survive every handler *)
(* until the window has moved past them.                                   *)
(*                                                                         *)
(* The strengthening is that head_idx is the index of head when seqno 1 is *)
(* at index 0, so that a seqno's index never depends on where the window   *)
(* stands, and that the window of the region is the replica's.             *)
(***************************************************************************)
EXTENDS AgreementRegion, TLAPS

USE RingAssumption

-----------------------------------------------------------------------------
(* Remainders by the window size *)

LEMMA Divide ==
  ASSUME NEW a \in Int
  PROVE  /\ a = WindowSize * (a \div WindowSize) + (a % WindowSize)
         /\ a % WindowSize \in Index
         /\ a \div WindowSize \in Int
  BY DEF Index

LEMMA Remainder ==
  ASSUME NEW q \in Int, NEW p \in Int, NEW r \in Index, NEW s \in Index,
         WindowSize * q + r = WindowSize * p + s
  PROVE  r = s
<1> USE DEF Index
<1>1. CASE q = p
  BY <1>1
<1>2. CASE q >= p + 1
  <2>1. WindowSize * (q - p) >= WindowSize
    BY <1>2
  <2> QED BY <2>1
<1>3. CASE p >= q + 1
  <2>1. WindowSize * (p - q) >= WindowSize
    BY <1>3
  <2> QED BY <2>1
<1> QED BY <1>1, <1>2, <1>3

\* Masking before an addition changes nothing.
LEMMA MaskedSum ==
  ASSUME NEW a \in Int, NEW d \in Int
  PROVE  ((a % WindowSize) + d) % WindowSize = (a + d) % WindowSize
<1> DEFINE q1 == a \div WindowSize
           r1 == a % WindowSize
<1>1. a = WindowSize * q1 + r1 /\ q1 \in Int /\ r1 \in Index
  BY Divide
<1> HIDE DEF q1, r1
<1> DEFINE b == r1 + d
<1>2. b \in Int /\ b = r1 + d
  BY <1>1 DEF Index
<1> HIDE DEF b
<1> DEFINE q2 == b \div WindowSize
           r2 == b % WindowSize
           q3 == (a + d) \div WindowSize
           r3 == (a + d) % WindowSize
<1>3. b = WindowSize * q2 + r2 /\ q2 \in Int /\ r2 \in Index
  BY <1>2, Divide
<1>4. a + d = WindowSize * q3 + r3 /\ q3 \in Int /\ r3 \in Index
  BY Divide
<1> HIDE DEF q2, r2, q3, r3
<1>5. WindowSize * (q1 + q2) = WindowSize * q1 + WindowSize * q2 /\ q1 + q2 \in Int
  BY <1>1, <1>3
<1>6. WindowSize * (q1 + q2) + r2 = WindowSize * q3 + r3
  BY <1>1, <1>2, <1>3, <1>4, <1>5 DEF Index
<1>7. r2 = r3
  BY <1>3, <1>4, <1>5, <1>6, Remainder
<1> QED BY <1>7 DEF b, r1, r2, r3

\* A whole turn of the ring ends where it began.
LEMMA FullTurn ==
  ASSUME NEW a \in Int
  PROVE  (a + WindowSize) % WindowSize = a % WindowSize
<1> DEFINE q1 == a \div WindowSize
           r1 == a % WindowSize
           q2 == (a + WindowSize) \div WindowSize
           r2 == (a + WindowSize) % WindowSize
<1>1. a = WindowSize * q1 + r1 /\ q1 \in Int /\ r1 \in Index
  BY Divide
<1>2. a + WindowSize = WindowSize * q2 + r2 /\ q2 \in Int /\ r2 \in Index
  BY Divide
<1> HIDE DEF q1, q2, r1, r2
<1>3. WindowSize * (q1 + 1) = WindowSize * q1 + WindowSize /\ q1 + 1 \in Int
  BY <1>1
<1>4. WindowSize * (q1 + 1) + r1 = WindowSize * q2 + r2
  BY <1>1, <1>2, <1>3 DEF Index
<1>5. r1 = r2
  BY <1>1, <1>2, <1>3, <1>4, Remainder
<1> QED BY <1>5 DEF r1, r2

\* Numbers less than a turn apart have different places.
LEMMA Apart ==
  ASSUME NEW a \in Int, NEW b \in Int, a < b, b < a + WindowSize
  PROVE  a % WindowSize # b % WindowSize
<1> SUFFICES ASSUME a % WindowSize = b % WindowSize
             PROVE  FALSE
  OBVIOUS
<1> DEFINE q1 == a \div WindowSize
           q2 == b \div WindowSize
           r  == a % WindowSize
<1>1. a = WindowSize * q1 + r /\ q1 \in Int /\ r \in Index
  BY Divide
<1>2. b = WindowSize * q2 + r /\ q2 \in Int
  <2>1. b = WindowSize * q2 + (b % WindowSize) /\ q2 \in Int
    BY Divide
  <2> QED BY <2>1
<1> HIDE DEF q1, q2, r
<1>3. WindowSize * (q2 - q1) = b - a
  BY <1>1, <1>2 DEF Index
<1>4. CASE q2 <= q1
  <2>1. WindowSize * (q1 - q2) >= 0
    BY <1>1, <1>2, <1>4
  <2>2. WindowSize * (q2 - q1) = -(WindowSize * (q1 - q2))
    BY <1>1, <1>2
  <2> QED BY <1>1, <1>2, <1>3, <2>1, <2>2
<1>5. CASE q2 >= q1 + 1
  <2>1. WindowSize * (q2 - q1) >= WindowSize
    BY <1>1, <1>2, <1>5
  <2> QED BY <1>1, <1>2, <1>3, <2>1
<1> QED BY <1>1, <1>2, <1>4, <1>5

-----------------------------------------------------------------------------
(* What holds of a region on its own *)

Positive == Nat \ {0}

OwnSlice(n) == [pp : {0, n}, prepare : {0, n}, commit : {0, n}]

\* head_idx is where head is when seqno 1 is at index 0.
Aligned(a) == a \in RegionType /\ a.idx = (a.head - 1) % WindowSize

Good(a) ==
  /\ Aligned(a)
  /\ \A n \in Positive : InRange(a, n) => SliceOf(a, n) \in OwnSlice(n)

\* The prepared certificates of a that fit in b are in b.
Kept(a, b) ==
  \A n \in Positive :
    PreparedAt(a, n) /\ SliceOf(a, n).pp = n /\ InRange(b, n)
      => PreparedAt(b, n) /\ SliceOf(b, n).pp = n

\* A seqno's index does not depend on where the window stands.
LEMMA FixedIndex ==
  ASSUME NEW a, Aligned(a), NEW n \in Nat
  PROVE  IndexOf(a, n) = (n - 1) % WindowSize /\ IndexOf(a, n) \in Index
<1> DEFINE h == a.head
<1>1. h \in Nat /\ a.idx = (h - 1) % WindowSize
  BY DEF Aligned, RegionType
<1>2. IndexOf(a, n) = (((h - 1) % WindowSize) + (n - h)) % WindowSize
  BY <1>1 DEF IndexOf
<1> HIDE DEF h
<1>3. h - 1 \in Int /\ n - h \in Int /\ n - 1 \in Int
  BY <1>1
<1>4. (((h - 1) % WindowSize) + (n - h)) % WindowSize = ((h - 1) + (n - h)) % WindowSize
  BY <1>3, MaskedSum
<1>5. (h - 1) + (n - h) = n - 1
  BY <1>1
<1> QED BY <1>2, <1>3, <1>4, <1>5, Divide

LEMMA SliceTyped ==
  ASSUME NEW a, Good(a), NEW n \in Positive
  PROVE  SliceOf(a, n) \in SliceType
  BY FixedIndex DEF Good, Aligned, RegionType, SliceOf, Positive

\* Storing under one seqno touches no other seqno's slice.
LEMMA PutGood ==
  ASSUME NEW a, Good(a), NEW n \in Positive, InRange(a, n), NEW sl \in OwnSlice(n)
  PROVE  /\ Good(Put(a, n, sl))
         /\ Put(a, n, sl).head = a.head
         /\ SliceOf(Put(a, n, sl), n) = sl
         /\ \A m \in Positive : InRange(a, m) /\ m # n =>
              SliceOf(Put(a, n, sl), m) = SliceOf(a, m)
<1> DEFINE b == Put(a, n, sl)
           i == IndexOf(a, n)
<1>1. a \in RegionType /\ i = (n - 1) % WindowSize /\ i \in Index
  BY FixedIndex DEF Good, Aligned, Positive
<1>2. sl \in SliceType
  BY DEF OwnSlice, SliceType, Positive
<1>3. b = [a EXCEPT !.slice[i] = sl]
  BY DEF Put
<1>4. /\ b \in RegionType /\ b.head = a.head /\ b.idx = a.idx
      /\ \A j \in Index : b.slice[j] = IF j = i THEN sl ELSE a.slice[j]
  BY <1>1, <1>2, <1>3 DEF RegionType
<1> HIDE DEF b
<1>5. \A m : IndexOf(b, m) = IndexOf(a, m) /\ (InRange(b, m) <=> InRange(a, m))
  BY <1>4 DEF IndexOf, InRange
<1>6. SliceOf(b, n) = sl
  BY <1>1, <1>4, <1>5 DEF SliceOf
<1>7. ASSUME NEW m \in Positive, InRange(a, m), m # n
      PROVE  SliceOf(b, m) = SliceOf(a, m)
  <2>1. IndexOf(a, m) = (m - 1) % WindowSize /\ IndexOf(a, m) \in Index
    BY FixedIndex DEF Good, Positive
  <2>2. a.head \in Nat
    BY <1>1 DEF RegionType
  <2>3. (m - 1) % WindowSize # (n - 1) % WindowSize
    <3>1. m - 1 \in Int /\ n - 1 \in Int
      BY DEF Positive
    <3>2. CASE m < n
      <4>1. m - 1 < n - 1 /\ n - 1 < (m - 1) + WindowSize
        BY <1>7, <2>2, <3>2 DEF InRange, Positive
      <4> QED BY <3>1, <4>1, Apart
    <3>3. CASE n < m
      <4>1. n - 1 < m - 1 /\ m - 1 < (n - 1) + WindowSize
        BY <1>7, <2>2, <3>3 DEF InRange, Positive
      <4> QED BY <3>1, <4>1, Apart
    <3> QED BY <1>7, <3>2, <3>3 DEF Positive
  <2> QED BY <1>1, <1>4, <1>5, <2>1, <2>3 DEF SliceOf
<1>8. \A m \in Positive : InRange(b, m) => SliceOf(b, m) \in OwnSlice(m)
  <2> SUFFICES ASSUME NEW m \in Positive, InRange(b, m)
               PROVE  SliceOf(b, m) \in OwnSlice(m)
    OBVIOUS
  <2>1. CASE m = n
    BY <1>6, <2>1
  <2>2. CASE m # n
    BY <1>5, <1>7, <2>2 DEF Good
  <2> QED BY <2>1, <2>2
<1>9. Good(b)
  BY <1>4, <1>8 DEF Good, Aligned
<1> QED BY <1>4, <1>6, <1>7, <1>9 DEF b
LEMMA EmptyOwn == ASSUME NEW n \in Positive PROVE EmptySlice \in OwnSlice(n)
  BY DEF EmptySlice, OwnSlice

\* The clear loop frees the slices of the seqnos that leave the window, which
\* are those of the seqnos that enter it.
LEMMA FreedSlices ==
  ASSUME NEW a, Aligned(a), NEW delta \in Positive, NEW n \in Positive, n >= a.head
  PROVE  /\ a.head + WindowSize <= n /\ n < a.head + delta + WindowSize
              => IndexOf(a, n) \in Freed(a, delta)
         /\ a.head + delta <= n /\ n < a.head + WindowSize
              => IndexOf(a, n) \notin Freed(a, delta)
<1> DEFINE h == a.head
<1>1. h \in Positive /\ a.idx = (h - 1) % WindowSize
  BY DEF Aligned, RegionType, Positive
<1>2. IndexOf(a, n) = (n - 1) % WindowSize /\ IndexOf(a, n) \in Index
  BY FixedIndex DEF Positive
<1> HIDE DEF h
<1>3. ASSUME NEW k \in Nat
      PROVE  (a.idx + k) % WindowSize = (h - 1 + k) % WindowSize
  <2> DEFINE g == h - 1
  <2>1. g \in Int /\ k \in Int /\ a.idx = g % WindowSize
    BY <1>1 DEF Positive
  <2> HIDE DEF g
  <2>2. (a.idx + k) % WindowSize = (g + k) % WindowSize
    BY <2>1, MaskedSum
  <2> QED BY <2>2 DEF g
<1>4. ASSUME h + WindowSize <= n, n < h + delta + WindowSize
      PROVE  IndexOf(a, n) \in Freed(a, delta)
  <2> DEFINE x == n - h - WindowSize
             k == x % WindowSize
  <2>1. x \in Nat /\ x < delta
    BY <1>1, <1>4 DEF Positive
  <2>2. k \in Index
    BY <2>1, Divide
  <2>3. k < delta
    <3> HIDE DEF x
    <3>1. CASE x < WindowSize
      <4> DEFINE q == x \div WindowSize
      <4>1. x = WindowSize * q + k /\ q \in Int
        BY <2>1, Divide
      <4>2. x = WindowSize * 0 + x /\ x \in Index /\ 0 \in Int
        BY <2>1, <3>1 DEF Index
      <4> HIDE DEF k, q
      <4>3. WindowSize * q + k = WindowSize * 0 + x
        BY <4>1, <4>2
      <4>4. k = x
        BY <2>2, <4>1, <4>2, <4>3, Remainder
      <4> QED BY <2>1, <4>4
    <3>2. CASE x >= WindowSize
      BY <2>1, <2>2, <3>2 DEF Index, Positive
    <3> QED BY <2>1, <3>1, <3>2
  <2>4. (a.idx + k) % WindowSize = (n - 1) % WindowSize
    <3>1. (a.idx + k) % WindowSize = (h - 1 + k) % WindowSize
      <4> HIDE DEF k
      <4> QED BY <1>3, <2>2 DEF Index
    <3>2. (k + (h - 1)) % WindowSize = (x + (h - 1)) % WindowSize
      <4> DEFINE g == h - 1
      <4>1. g \in Int /\ x \in Int
        BY <1>1, <2>1 DEF Positive
      <4> HIDE DEF x, g
      <4>2. ((x % WindowSize) + g) % WindowSize = (x + g) % WindowSize
        BY <4>1, MaskedSum
      <4> QED BY <4>2 DEF g
    <3>3. (x + (h - 1)) + WindowSize = n - 1 /\ x + (h - 1) \in Int
      BY <1>1 DEF Positive
    <3>4. (x + (h - 1)) % WindowSize = (n - 1) % WindowSize
      <4> HIDE DEF x
      <4> QED BY <3>3, FullTurn
    <3>5. h - 1 + k = k + (h - 1)
      <4> HIDE DEF k
      <4> QED BY <1>1, <2>2 DEF Index, Positive
    <3> QED BY <3>1, <3>2, <3>4, <3>5
  <2> QED BY <1>2, <2>2, <2>3, <2>4 DEF Freed
<1>5. ASSUME h + delta <= n, n < h + WindowSize
      PROVE  IndexOf(a, n) \notin Freed(a, delta)
  <2> SUFFICES ASSUME NEW k \in Index, k < delta, (n - 1) % WindowSize = (a.idx + k) % WindowSize
               PROVE  FALSE
    BY <1>2 DEF Freed
  <2>1. (n - 1) % WindowSize = (h - 1 + k) % WindowSize
    BY <1>3 DEF Index
  <2>2. h - 1 + k < n - 1 /\ n - 1 < (h - 1 + k) + WindowSize /\ h - 1 + k \in Int /\ n - 1 \in Int
    BY <1>1, <1>5 DEF Index, Positive
  <2> QED BY <2>1, <2>2, Apart
<1> QED BY <1>4, <1>5 DEF h

LEMMA TruncateGood ==
  ASSUME NEW a, Good(a), NEW head \in Positive
  PROVE  /\ Good(Truncate(a, head))
         /\ Truncate(a, head).head = Larger(a.head, head)
         /\ Kept(a, Truncate(a, head))
<1>1. CASE head <= a.head
  <2>1. Truncate(a, head) = a
    BY <1>1 DEF Truncate
  <2>2. Larger(a.head, head) = a.head
    BY <1>1 DEF Larger, Good, Aligned, RegionType, Positive
  <2> QED BY <2>1, <2>2 DEF Kept
<1>2. CASE ~(head <= a.head)
  <2> DEFINE b     == Truncate(a, head)
             delta == head - a.head
             freed == Freed(a, delta)
  <2>1. Aligned(a) /\ a \in RegionType /\ a.head \in Positive /\ a.idx \in Index
    BY DEF Good, Aligned, RegionType, Positive
  <2>2. delta \in Positive /\ a.head + delta = head
    BY <1>2, <2>1 DEF Positive
  <2>3. b = Shifted(a, head, (a.idx + delta) % WindowSize, freed)
    BY <1>2 DEF Truncate
  <2>4. a.idx + delta \in Int
    BY <2>1, <2>2 DEF Index, Positive
  <2>5. (a.idx + delta) % WindowSize = (head - 1) % WindowSize
    <3>1. a.head - 1 \in Int /\ delta \in Int /\ (a.head - 1) + delta = head - 1
      BY <2>1, <2>2 DEF Positive
    <3>2. a.idx = (a.head - 1) % WindowSize
      BY <2>1 DEF Aligned
    <3> HIDE DEF delta
    <3> QED BY <3>1, <3>2, MaskedSum
  <2> HIDE DEF delta, freed
  <2>6. /\ b.head = head
        /\ b.idx = (head - 1) % WindowSize
        /\ b.slice = [i \in Index |-> IF i \in freed THEN EmptySlice ELSE a.slice[i]]
    BY <2>3, <2>5 DEF Shifted
  <2>7. b \in RegionType
    <3>1. EmptySlice \in SliceType
      BY DEF EmptySlice, SliceType
    <3>2. b.idx \in Index
      BY <2>3, <2>4, Divide DEF Shifted
    <3>3. b.slice \in [Index -> SliceType]
      BY <2>1, <2>6, <3>1 DEF RegionType
    <3>4. b.head \in Nat \ {0}
      BY <2>6 DEF Positive
    <3>5. b = [head |-> b.head, idx |-> b.idx, slice |-> b.slice]
      BY <2>3 DEF Shifted
    <3> QED BY <3>2, <3>3, <3>4, <3>5 DEF RegionType
  <2> HIDE DEF b
  <2>8. Aligned(b)
    BY <2>6, <2>7 DEF Aligned
  <2>9. ASSUME NEW n \in Positive
        PROVE  IndexOf(b, n) = IndexOf(a, n) /\ IndexOf(a, n) \in Index
    BY <2>1, <2>8, FixedIndex DEF Positive
  <2>10. ASSUME NEW n \in Positive, InRange(b, n)
         PROVE  SliceOf(b, n) \in OwnSlice(n)
    <3>1. head <= n /\ n < head + WindowSize
      BY <2>6, <2>10 DEF InRange
    <3>2. CASE InRange(a, n)
      <4>1. SliceOf(a, n) \in OwnSlice(n)
        BY <3>2 DEF Good
      <4> QED BY <2>6, <2>9, <4>1, EmptyOwn DEF SliceOf
    <3>3. CASE ~InRange(a, n)
      <4>1. a.head + WindowSize <= n /\ n < a.head + delta + WindowSize /\ n >= a.head
        BY <1>2, <2>1, <2>2, <3>1, <3>3 DEF InRange, Positive
      <4>2. IndexOf(a, n) \in freed
        BY <2>1, <2>2, <4>1, FreedSlices DEF freed
      <4> QED BY <2>6, <2>9, <4>2, EmptyOwn DEF SliceOf
    <3> QED BY <3>2, <3>3
  <2>11. Kept(a, b)
    <3> SUFFICES ASSUME NEW n \in Positive, PreparedAt(a, n), SliceOf(a, n).pp = n, InRange(b, n)
                 PROVE  PreparedAt(b, n) /\ SliceOf(b, n).pp = n
      BY DEF Kept
    <3>1. a.head + delta <= n /\ n < a.head + WindowSize /\ n >= a.head
      BY <1>2, <2>1, <2>2, <2>6 DEF PreparedAt, InRange, Positive
    <3>2. IndexOf(a, n) \notin freed
      BY <2>1, <2>2, <3>1, FreedSlices DEF freed
    <3>3. SliceOf(b, n) = SliceOf(a, n)
      BY <2>6, <2>9, <3>2 DEF SliceOf
    <3> QED BY <3>3 DEF PreparedAt
  <2>12. Good(b) /\ b.head = Larger(a.head, head)
    BY <1>2, <2>1, <2>6, <2>8, <2>10 DEF Good, Larger, Positive
  <2> QED BY <2>11, <2>12 DEF b
<1> QED BY <1>1, <1>2
-----------------------------------------------------------------------------
(* The handlers *)

LEMMA PutKept ==
  ASSUME NEW a, Good(a), NEW n \in Positive, InRange(a, n), NEW sl \in OwnSlice(n),
         PreparedAt(a, n) /\ SliceOf(a, n).pp = n => sl.pp = n /\ sl.prepare = n
  PROVE  Kept(a, Put(a, n, sl))
<1> DEFINE b == Put(a, n, sl)
<1> SUFFICES ASSUME NEW m \in Positive, PreparedAt(a, m), SliceOf(a, m).pp = m
             PROVE  PreparedAt(b, m) /\ SliceOf(b, m).pp = m
  BY DEF Kept
<1>1. /\ b.head = a.head /\ SliceOf(b, n) = sl
      /\ \A k \in Positive : InRange(a, k) /\ k # n => SliceOf(b, k) = SliceOf(a, k)
  BY PutGood
<1> HIDE DEF b
<1>2. InRange(a, m) /\ InRange(b, m)
  BY <1>1 DEF PreparedAt, InRange
<1>3. CASE m = n
  BY <1>1, <1>2, <1>3 DEF PreparedAt, Positive
<1>4. CASE m # n
  BY <1>1, <1>2, <1>4 DEF PreparedAt
<1> QED BY <1>3, <1>4

\* The assignment after the truncation changes nothing when it is to no less.
LEMMA MoveHeadForward ==
  ASSUME NEW a, Good(a), NEW head \in Positive, a.head <= head
  PROVE  MoveHead(a, head) = Truncate(a, head)
<1> DEFINE b == Truncate(a, head)
<1>1. a.head \in Nat
  BY DEF Good, Aligned, RegionType
<1>2. b.head = head
  <2>1. b.head = Larger(a.head, head)
    BY TruncateGood
  <2> QED BY <1>1, <2>1 DEF Larger, Positive
<1>3. b \in RegionType
  BY TruncateGood DEF Good, Aligned
<1> HIDE DEF b
<1>4. [b EXCEPT !.head = head] = b
  BY <1>2, <1>3 DEF RegionType
<1> QED BY <1>4 DEF MoveHead, b

RInv ==
  /\ Good(ar)
  /\ HeadFollows
  /\ stable \in Nat /\ prepared \in 0 .. MaxSeqno /\ executed \in Nat
  /\ log \subseteq [seqno : Nat, request : Nat]
  /\ ExecutesOwn

LEMMA InitGood == Init => RInv
<1> SUFFICES ASSUME Init PROVE RInv
  OBVIOUS
<1>1. EmptySlice \in SliceType
  BY DEF EmptySlice, SliceType
<1>2. ar.head = 1 /\ ar.idx = 0 /\ 0 \in Index /\ ar.slice = [i \in Index |-> EmptySlice]
  BY DEF Init, Index
<1>3. ar \in RegionType
  BY <1>1, <1>2 DEF Init, RegionType
<1>4. 0 % WindowSize = 0
  <2> DEFINE q == 0 \div WindowSize
             r == 0 % WindowSize
  <2>1. 0 = WindowSize * q + r /\ q \in Int /\ r \in Index
    BY Divide
  <2>2. 0 = WindowSize * 0 + 0 /\ 0 \in Int
    OBVIOUS
  <2> HIDE DEF q, r
  <2>3. WindowSize * q + r = WindowSize * 0 + 0
    BY <2>1, <2>2
  <2>4. r = 0
    BY <1>2, <2>1, <2>2, <2>3, Remainder
  <2> QED BY <2>4 DEF r
<1>5. Aligned(ar)
  BY <1>2, <1>3, <1>4 DEF Aligned
<1>6. \A n \in Positive : SliceOf(ar, n) \in OwnSlice(n)
  BY <1>2, <1>5, FixedIndex, EmptyOwn DEF SliceOf, Positive
<1>7. Good(ar)
  BY <1>5, <1>6 DEF Good
<1> QED BY <1>2, <1>7 DEF Init, RInv, HeadFollows, ExecutesOwn

LEMMA ExecuteGood ==
  ASSUME RInv, NEW a, Good(a), a.head = ar.head, Kept(ar, a),
         NEW p \in 0 .. MaxSeqno, ExecuteCommitted(a, p)
  PROVE  RInv' /\ Kept(ar, ar')
<1> DEFINE run == {n \in executed + 1 .. p : \A k \in executed + 1 .. n : ExecutableAt(a, k)}
<1>1. executed \in Nat /\ stable \in Nat /\ ar.head = stable + 1
  BY DEF RInv, HeadFollows
<1>2. ASSUME NEW n \in run
      PROVE  n \in Positive /\ SliceOf(a, n).pp = n
  <2>1. n \in Positive /\ ExecutableAt(a, n)
    BY <1>1 DEF Positive
  <2>2. SliceOf(a, n) \in OwnSlice(n) /\ SliceOf(a, n).pp # 0
    BY <2>1 DEF Good, ExecutableAt
  <2> QED BY <2>1, <2>2 DEF OwnSlice
<1>3. /\ log' = log \union {[seqno |-> n, request |-> SliceOf(a, n).pp] : n \in run}
      /\ executed' \in {executed} \union run
      /\ stable' \in {stable} \union {n \in run : n > stable}
      /\ prepared' = p
      /\ ar' = Truncate(a, stable' + 1)
  BY DEF ExecuteCommitted
<1> HIDE DEF run
<1>4. executed' \in Nat /\ stable' \in Nat /\ stable' >= stable
  BY <1>1, <1>2, <1>3 DEF Positive
<1>5. stable' + 1 \in Positive
  <2>1. \A m \in Nat : m + 1 \in Positive
    BY DEF Positive
  <2> QED BY <1>4, <2>1
<1>6. Good(ar') /\ ar'.head = Larger(a.head, stable' + 1) /\ Kept(a, ar')
  BY <1>3, <1>5, TruncateGood
<1>7. ar'.head = stable' + 1
  BY <1>1, <1>4, <1>6 DEF Larger
<1>8. log' \subseteq [seqno : Nat, request : Nat] /\ \A e \in log' : e.request = e.seqno
  BY <1>2, <1>3 DEF RInv, ExecutesOwn, Positive
<1>9. Kept(ar, ar')
  <2> SUFFICES ASSUME NEW n \in Positive, PreparedAt(ar, n), SliceOf(ar, n).pp = n, InRange(ar', n)
               PROVE  PreparedAt(ar', n) /\ SliceOf(ar', n).pp = n
    BY DEF Kept
  <2>1. InRange(a, n)
    BY DEF PreparedAt, InRange
  <2>2. PreparedAt(a, n) /\ SliceOf(a, n).pp = n
    BY <2>1 DEF Kept
  <2> QED BY <1>6, <2>2 DEF Kept
<1> QED BY <1>3, <1>4, <1>6, <1>7, <1>8, <1>9 DEF RInv, HeadFollows, ExecutesOwn

LEMMA StepGood ==
  ASSUME RInv, Orderly, [Next]_vars
  PROVE  RInv' /\ Kept(ar, ar')
<1>1. /\ Good(ar) /\ ar.head = stable + 1
      /\ stable \in Nat /\ prepared \in 0 .. MaxSeqno /\ executed \in Nat
  BY DEF RInv, HeadFollows
<1>2. \A n \in Seqno : n \in Positive /\ n \in 0 .. MaxSeqno /\ Larger(prepared, n) \in 0 .. MaxSeqno
  BY <1>1 DEF Seqno, Positive, Larger
<1>3. Kept(ar, ar)
  BY DEF Kept
<1>4. CASE UNCHANGED vars
  BY <1>3, <1>4 DEF vars, RInv, HeadFollows, ExecutesOwn
<1>5. ASSUME NEW n \in Seqno, StorePP(n)
      PROVE  RInv' /\ Kept(ar, ar')
  <2> DEFINE sl == [SliceOf(ar, n) EXCEPT !.pp = n]
  <2>1. n \in Positive /\ InRange(ar, n) /\ SliceOf(ar, n).pp # n /\ ar' = Put(ar, n, sl)
    BY <1>2, <1>5 DEF StorePP
  <2>2. SliceOf(ar, n) \in OwnSlice(n)
    BY <1>1, <2>1 DEF Good
  <2>3. sl \in OwnSlice(n)
    BY <2>2 DEF OwnSlice
  <2> HIDE DEF sl
  <2>4. Good(ar') /\ ar'.head = ar.head
    BY <1>1, <2>1, <2>3, PutGood
  <2>5. Kept(ar, ar')
    BY <1>1, <2>1, <2>3, PutKept
  <2> QED BY <1>1, <1>5, <2>4, <2>5 DEF StorePP, RInv, HeadFollows, ExecutesOwn
<1>6. ASSUME NEW n \in Seqno, PrepareQuorum(n)
      PROVE  RInv' /\ Kept(ar, ar')
  <2> DEFINE sl == [SliceOf(ar, n) EXCEPT !.prepare = n]
             a  == Put(ar, n, sl)
  <2>1. /\ n \in Positive /\ InRange(ar, n)
        /\ SliceOf(ar, n).pp = n /\ SliceOf(ar, n).prepare = 0
    BY <1>2, <1>6 DEF PrepareQuorum
  <2>2. SliceOf(ar, n) \in OwnSlice(n)
    BY <1>1, <2>1 DEF Good
  <2>3. sl \in OwnSlice(n)
    BY <2>2 DEF OwnSlice
  <2>4. \/ ar' = a /\ prepared' = Larger(prepared, n) /\ UNCHANGED <<stable, executed, log>>
        \/ ExecuteCommitted(a, Larger(prepared, n))
    BY <1>6 DEF PrepareQuorum
  <2>5. ~PreparedAt(ar, n)
    BY <2>1 DEF PreparedAt, Positive
  <2> HIDE DEF sl
  <2>6. Good(a) /\ a.head = ar.head
    BY <1>1, <2>1, <2>3, PutGood
  <2>7. Kept(ar, a)
    BY <1>1, <2>1, <2>3, <2>5, PutKept
  <2> HIDE DEF a
  <2>8. CASE ar' = a /\ prepared' = Larger(prepared, n) /\ UNCHANGED <<stable, executed, log>>
    BY <1>1, <1>2, <2>6, <2>7, <2>8 DEF RInv, HeadFollows, ExecutesOwn
  <2>9. CASE ExecuteCommitted(a, Larger(prepared, n))
    BY <1>2, <2>6, <2>7, <2>9, ExecuteGood
  <2> QED BY <2>4, <2>8, <2>9
<1>7. ASSUME NEW n \in Seqno, CommitQuorum(n)
      PROVE  RInv' /\ Kept(ar, ar')
  <2> DEFINE sl == [SliceOf(ar, n) EXCEPT !.commit = n]
             a  == Put(ar, n, sl)
  <2>1. n \in Positive /\ InRange(ar, n) /\ ExecuteCommitted(a, prepared)
    BY <1>2, <1>7 DEF CommitQuorum
  <2>2. SliceOf(ar, n) \in OwnSlice(n)
    BY <1>1, <2>1 DEF Good
  <2>3. sl \in OwnSlice(n) /\ sl.pp = SliceOf(ar, n).pp /\ sl.prepare = SliceOf(ar, n).prepare
    BY <2>2 DEF OwnSlice
  <2>4. PreparedAt(ar, n) /\ SliceOf(ar, n).pp = n => sl.pp = n /\ sl.prepare = n
    BY <2>3 DEF PreparedAt
  <2> HIDE DEF sl
  <2>5. Good(a) /\ a.head = ar.head
    BY <1>1, <2>1, <2>3, PutGood
  <2>6. Kept(ar, a)
    BY <1>1, <2>1, <2>3, <2>4, PutKept
  <2> HIDE DEF a
  <2> QED BY <1>1, <2>1, <2>5, <2>6, ExecuteGood
<1>8. ASSUME NEW n \in Checkpoint, MarkStable(n)
      PROVE  RInv' /\ Kept(ar, ar')
  <2>1. n \in Seqno /\ n + 1 \in Positive /\ n > stable /\ n \in Nat
    BY <1>2, <1>8 DEF Checkpoint, MarkStable, Positive
  <2>2. Good(ar') /\ ar'.head = Larger(ar.head, n + 1) /\ Kept(ar, ar')
    BY <1>1, <1>8, <2>1, TruncateGood DEF MarkStable
  <2>3. ar'.head = n + 1
    BY <1>1, <2>1, <2>2 DEF Larger
  <2>4. executed' \in Nat /\ stable' = n /\ prepared' \in 0 .. MaxSeqno /\ log' = log
    BY <1>1, <1>2, <1>8, <2>1 DEF MarkStable, Larger
  <2> QED BY <2>1, <2>2, <2>3, <2>4 DEF RInv, HeadFollows, ExecutesOwn
<1>9. CASE AdoptView
  <2>1. stable + 1 \in Positive /\ ar.head <= stable + 1
    BY <1>1 DEF Positive
  <2>2. ar' = Truncate(ar, stable + 1)
    BY <1>1, <1>9, <2>1, MoveHeadForward DEF AdoptView
  <2>3. Good(ar') /\ ar'.head = Larger(ar.head, stable + 1) /\ Kept(ar, ar')
    BY <1>1, <2>1, <2>2, TruncateGood
  <2>4. ar'.head = stable + 1
    BY <1>1, <2>3 DEF Larger
  <2> QED BY <1>9, <2>3, <2>4 DEF AdoptView, RInv, HeadFollows, ExecutesOwn
<1>10. ASSUME NEW min \in {0} \union Checkpoint, NEW top \in {0} \union Seqno, InstallNewView(min, top)
       PROVE  RInv' /\ Kept(ar, ar')
  <2>1. min \in 0 .. MaxSeqno /\ min + 1 \in Positive
    BY <1>2 DEF Checkpoint, Positive
  <2>2. min >= stable /\ NextSeqno(min, top) <= min + WindowSize
    BY <1>10 DEF InstallNewView
  <2>3. ~(NextSeqno(min, top) > min + WindowSize)
    <3>1. top \in Nat
      BY <1>2
    <3>2. NextSeqno(min, top) \in Nat
      BY <1>1, <2>1, <3>1 DEF NextSeqno, Larger
    <3> QED BY <2>1, <2>2, <3>2
  <2>4. ar' = MoveHead(ar, min + 1)
    BY <1>10, <2>3 DEF InstallNewView
  <2>5. ar.head <= min + 1
    BY <1>1, <2>1, <2>2
  <2>6. ar' = Truncate(ar, min + 1)
    BY <1>1, <2>1, <2>4, <2>5, MoveHeadForward
  <2>7. Good(ar') /\ ar'.head = Larger(ar.head, min + 1) /\ Kept(ar, ar')
    BY <1>1, <2>1, <2>6, TruncateGood
  <2>8. /\ stable' = min /\ executed' \in Nat /\ prepared' \in 0 .. MaxSeqno /\ log' = log
        /\ ar'.head = stable' + 1
    BY <1>1, <1>10, <2>1, <2>2, <2>5, <2>7 DEF InstallNewView, Larger
  <2> QED BY <2>1, <2>7, <2>8 DEF RInv, HeadFollows, ExecutesOwn
<1> QED BY <1>4, <1>5, <1>6, <1>7, <1>8, <1>9, <1>10 DEF Next

-----------------------------------------------------------------------------
(* The results *)

LEMMA Inductive == Orderly => (Spec => []RInv)
<1> SUFFICES ASSUME Orderly PROVE Spec => []RInv
  OBVIOUS
<1>1. RInv /\ [Next]_vars => RInv'
  BY StepGood
<1> QED BY <1>1, InitGood, PTL DEF Spec

\* RingTyped: the region keeps its C types.
THEOREM RingTyped == Orderly => (Spec => []TypeOK)
<1> SUFFICES ASSUME Orderly PROVE Spec => []TypeOK
  OBVIOUS
<1>1. RInv => TypeOK
  BY DEF RInv, TypeOK, Good, Aligned
<1> QED BY <1>1, Inductive, PTL

\* WindowFollows: every handler that moves last_stable moves the ring's head
\* along, so the window of the region is the replica's.
THEOREM WindowFollows == Orderly => (Spec => []HeadFollows)
<1> SUFFICES ASSUME Orderly PROVE Spec => []HeadFollows
  OBVIOUS
<1>1. RInv => HeadFollows
  BY DEF RInv
<1> QED BY <1>1, Inductive, PTL

\* Slots: the slice found for a seqno holds what was stored for that seqno.
\* This is what lets Agreement treat the ring as a function from seqno to
\* slice.
THEOREM Slots == Orderly => (Spec => []SlotsOwn)
<1> SUFFICES ASSUME Orderly PROVE Spec => []SlotsOwn
  OBVIOUS
<1>1. RInv => SlotsOwn
  BY DEF RInv, SlotsOwn, Good, OwnSlice, Positive, Seqno
<1> QED BY <1>1, Inductive, PTL

\* ExecutionOwn: no request is executed under another's sequence number.
THEOREM ExecutionOwn == Orderly => (Spec => []ExecutesOwn)
<1> SUFFICES ASSUME Orderly PROVE Spec => []ExecutesOwn
  OBVIOUS
<1>1. RInv => ExecutesOwn
  BY DEF RInv
<1> QED BY <1>1, Inductive, PTL

\* KeepsInFlight: no handler, a change of view included, drops a prepared
\* certificate that is still in the window.
THEOREM KeepsInFlight == Orderly => (Spec => InFlightKept)
<1> SUFFICES ASSUME Orderly PROVE Spec => InFlightKept
  OBVIOUS
<1> DEFINE Keeps(n) ==
      PreparedAt(ar, n) /\ SliceOf(ar, n).pp = n /\ InWindow(n) /\ InWindow(n)'
        => PreparedAt(ar', n) /\ SliceOf(ar', n).pp = n
<1>1. RInv /\ [Next]_vars => \A n \in Seqno : Keeps(n)
  <2> SUFFICES ASSUME RInv, [Next]_vars, NEW n \in Seqno, InWindow(n)'
               PROVE  Keeps(n)
    OBVIOUS
  <2>1. RInv' /\ Kept(ar, ar') /\ n \in Positive
    BY StepGood DEF Seqno, Positive
  <2>2. stable' \in Nat /\ ar'.head = stable' + 1
    BY <2>1 DEF RInv, HeadFollows
  <2>3. stable' < n /\ n <= stable' + WindowSize
    BY DEF InWindow
  <2>4. \A m \in Nat : m < n /\ n <= m + WindowSize => m + 1 <= n /\ n < m + 1 + WindowSize
    BY DEF Seqno
  <2>5. InRange(ar', n)
    BY <2>2, <2>3, <2>4 DEF InRange
  <2> QED BY <2>1, <2>5 DEF Kept
<1>2. RInv /\ [Next]_vars => [\A n \in Seqno : Keeps(n)]_vars
  BY <1>1
<1> QED BY <1>2, Inductive, PTL DEF Spec, InFlightKept
=============================================================================
