----------------------- MODULE SnapshotArena_proofs -----------------------
(***************************************************************************)
(* Proofs that the arena invariant IInv is inductive and implies that no   *)
(* release is ever refused, for every arena, extent capacity and set of    *)
(* requests.                                                               *)
(***************************************************************************)
EXTENDS SnapshotArena, FiniteSetTheorems, WellFoundedInduction, TLAPS

\* Arithmetic on aligned sizes and on intervals of bytes.
LEMMA Multiples ==
  ASSUME NEW a \in Nat, NEW b \in Nat, a % 16 = 0, b % 16 = 0
  PROVE  (a + b) % 16 = 0 /\ (b <= a => (a - b) % 16 = 0)
BY SMT

\* An interval without its front is the rest of it.
LEMMA IntervalTail ==
  ASSUME NEW a \in Nat, NEW b \in Nat, NEW t \in Nat, t <= b
  PROVE  (a + t)..(a + b - 1) = (a..(a + b - 1)) \ (a..(a + t - 1))
BY SMT

\* Intervals that lie one behind the other share nothing.
LEMMA IntervalsApart ==
  ASSUME NEW a \in Nat, NEW b \in Nat, NEW c \in Nat, NEW d \in Nat,
         a + b <= c \/ c + d <= a
  PROVE  (a..(a + b - 1)) \cap (c..(c + d - 1)) = {}
BY SMT

\* The byte behind an extent that does not touch the next one is in the arena.
LEMMA GapInside ==
  ASSUME NEW b \in Nat, NEW e \in Nat, NEW a \in Nat, NEW l \in Nat,
         NEW c \in Nat, NEW d \in Nat,
         b <= a, a + l < c, c + d <= e
  PROVE  a + l \in b..(e - 1)
BY SMT

\* The byte behind a later interval is not in an earlier one.
LEMMA PastEnd ==
  ASSUME NEW a \in Nat, NEW l \in Nat, NEW c \in Nat, NEW d \in Nat, a + l < c
  PROVE  (c + d) \notin a..(a + l - 1)
BY SMT

\* Of two extents that touch, the second does not lie before the first.
LEMMA NoCycle ==
  ASSUME NEW a \in Nat, NEW b \in Nat, NEW c \in Nat, NEW d \in Nat, b > 0,
         a + b = c, c + d <= a
  PROVE  FALSE
BY SMT

\* The last byte of an interval is in it.
LEMMA LastByte ==
  ASSUME NEW a \in Nat, NEW l \in Nat, l > 0, NEW x, x = a + l
  PROVE  x - 1 \in a..(a + l - 1)
BY SMT

\* The byte before one that is not the first of an interval is in it.
LEMMA ByteBefore ==
  ASSUME NEW a \in Nat, NEW l \in Nat, NEW x \in a..(a + l - 1), a # x
  PROVE  x - 1 \in a..(a + l - 1)
BY SMT

\* Two intervals that touch make one.
LEMMA IntervalJoin ==
  ASSUME NEW a \in Nat, NEW b \in Nat, NEW c \in Nat
  PROVE  a..(a + (b + c) - 1) = (a..(a + b - 1)) \cup ((a + b)..(a + b + c - 1))
BY SMT

\* A set of naturals has a least element.
LEMMA Least ==
  ASSUME NEW T, T \subseteq Nat, T # {}
  PROVE  \E x \in T : \A y \in T : x <= y
<1> DEFINE R == OpToRel(<, Nat)
<1>1. IsWellFoundedOn(R, Nat) BY Zenon, NatLessThanWellFounded
<1>2. \A x, y \in Nat : <<x, y>> \in R <=> x < y
  BY Zenon DEF OpToRel
<1> HIDE DEF R
<1>3. PICK x \in T : \A y \in T : ~(<<y, x>> \in R) BY Zenon, <1>1, WFMin
<1>4. ASSUME NEW y \in T PROVE x <= y
  <2>1. x \in Nat /\ y \in Nat BY Zenon
  <2>2. ~(y < x) BY Zenon, <2>1, <1>2, <1>3
  <2> QED BY <2>1, <2>2
<1> QED BY Zenon, <1>4

\* An extent's fields are numbers, and so is its end.
LEMMA ExtentFacts ==
  ASSUME NEW e \in Extent
  PROVE  e.address \in Nat /\ e.size \in Nat /\ EndOf(e) \in Nat
BY DEF Extent, EndOf

\* The first w bytes of an extent.
Head_(e, w) == e.address..(e.address + w - 1)

\* What is left of an extent when its first w bytes are taken.
Tail_(e, w) == [address |-> e.address + w, size |-> e.size - w]

\* Extents with a gap between them share no byte with each other's front.
LEMMA Apart ==
  ASSUME NEW e \in Extent, NEW f \in Extent, NEW w \in Nat, w <= e.size,
         EndOf(f) <= e.address \/ EndOf(e) <= f.address
  PROVE  Bytes(f) \cap Head_(e, w) = {}
<1>1. e.address \in Nat /\ e.size \in Nat /\ f.address \in Nat /\ f.size \in Nat
  BY Zenon DEF Extent
<1>2. f.address + f.size <= e.address \/ e.address + w <= f.address
  BY <1>1 DEF EndOf
<1> QED BY Zenon, <1>1, <1>2, IntervalsApart DEF Bytes, Head_

\* All of an extent is its front of full length.
LEMMA WholeIsHead ==
  ASSUME NEW e \in Extent
  PROVE  Bytes(e) = Head_(e, e.size)
BY Zenon DEF Bytes, Head_

\* Cutting an aligned front off a piece of the arena leaves a piece of it.
LEMMA Shrink ==
  ASSUME TypeOK, NEW e \in Extent, Piece(e),
         NEW w \in Nat, 0 < w, w < e.size, w % 16 = 0
  PROVE  /\ Tail_(e, w) \in Extent
         /\ Piece(Tail_(e, w))
         /\ EndOf(Tail_(e, w)) = EndOf(e)
         /\ e.address < Tail_(e, w).address
         /\ Bytes(Tail_(e, w)) = Bytes(e) \ Head_(e, w)
<1>1. e.address \in Nat /\ e.size \in Nat /\ begin_ \in Nat /\ end_ \in Nat
  BY ArenaAssumption DEF Extent, TypeOK
<1>2. Tail_(e, w).address = e.address + w /\ Tail_(e, w).size = e.size - w
  BY Zenon DEF Tail_
<1>3. /\ e.address >= begin_ /\ e.address + e.size <= end_
      /\ e.address % 16 = 0 /\ e.size % 16 = 0
  BY Zenon DEF Piece, EndOf, alignment
<1>4. Tail_(e, w) \in Extent
  BY <1>1 DEF Tail_, Extent
<1>5. EndOf(Tail_(e, w)) = EndOf(e)
  BY <1>1, <1>2 DEF EndOf
<1>6. (e.address + w) % 16 = 0 /\ (e.size - w) % 16 = 0
  BY <1>1, <1>3, Multiples
<1>7. Piece(Tail_(e, w))
  BY <1>1, <1>2, <1>3, <1>5, <1>6 DEF Piece, EndOf, alignment
<1>8. Bytes(Tail_(e, w)) = Bytes(e) \ Head_(e, w)
  <2>1. (e.address + w) + (e.size - w) - 1 = e.address + e.size - 1
    BY <1>1
  <2> QED BY <1>1, <1>2, <2>1, IntervalTail DEF Bytes, Head_
<1> QED BY <1>1, <1>2, <1>4, <1>5, <1>7, <1>8

\* Membership in the two byte sets, pointwise.
LEMMA BytesPointwise ==
  ASSUME NEW x
  PROVE  /\ x \in FreeBytes <=> \E i \in 1..Len(free_) : x \in Bytes(free_[i])
         /\ x \in LiveBytes <=> \E a \in live : x \in Bytes(a)
BY Zenon DEF FreeBytes, LiveBytes

\* Rounding an accepted request up gives an aligned size no smaller than the
\* request, without wrapping.
LEMMA AlignUpFits ==
  ASSUME NEW r \in 1..(WordMax - 15)
  PROVE  /\ align_up(r) \in Nat
         /\ align_up(r) > 0
         /\ align_up(r) % 16 = 0
BY ArenaAssumption, SMT DEF align_up, align_down, alignment

\* A well-formed free list: pieces of the arena, in order, with gaps.
FreeList(s) ==
  /\ s \in Seq(Extent)
  /\ \A k \in 1..Len(s) : Piece(s[k])
  /\ \A k, l \in 1..Len(s) : k < l => EndOf(s[k]) < s[l].address

Covers(s, x) == \E k \in 1..Len(s) : x \in Bytes(s[k])

\* Removing extent i from a well-formed list removes exactly its bytes.
LEMMA EraseOK ==
  ASSUME NEW s, FreeList(s), NEW i \in 1..Len(s)
  PROVE  /\ FreeList(erase(s, i))
         /\ Len(erase(s, i)) = Len(s) - 1
         /\ \A x : Covers(erase(s, i), x) <=> Covers(s, x) /\ x \notin Bytes(s[i])
<1> DEFINE n == Len(s)
           t == erase(s, i)
<1>1. /\ s \in Seq(Extent) /\ n \in Nat /\ n - 1 \in Nat
      /\ \A k \in 1..n : s[k] \in Extent
  BY DEF FreeList
<1>2. t = [k \in 1..(n - 1) |-> IF k < i THEN s[k] ELSE s[k + 1]]
  BY Zenon DEF erase
<1>3. t \in Seq(Extent) /\ Len(t) = n - 1
  BY <1>1, <1>2
<1> HIDE DEF t
<1>4. ASSUME NEW k \in 1..Len(t)
      PROVE  \/ k < i /\ k \in 1..n /\ t[k] = s[k]
             \/ k >= i /\ k + 1 \in 1..n /\ t[k] = s[k + 1]
  BY <1>1, <1>2, <1>3
<1>5. \A k \in 1..Len(t) : Piece(t[k])
  BY Zenon, <1>4 DEF FreeList
<1>6. ASSUME NEW k \in 1..Len(t), NEW l \in 1..Len(t), k < l
      PROVE  EndOf(t[k]) < t[l].address
  <2>1. k \in Int /\ l \in Int /\ i \in Int BY <1>3
  <2>2. \E p, q \in 1..n : p < q /\ t[k] = s[p] /\ t[l] = s[q]
    <3>1. CASE l < i BY <3>1, <2>1, <1>4, <1>6
    <3>2. CASE k < i /\ l >= i BY <3>2, <2>1, <1>4, <1>6
    <3>3. CASE k >= i BY <3>3, <2>1, <1>4, <1>6
    <3> QED BY <3>1, <3>2, <3>3, <2>1, <1>6
  <2> QED BY Zenon, <2>2 DEF FreeList
<1>7. ASSUME NEW x
      PROVE  Covers(t, x) <=> \E k \in 1..n : k # i /\ x \in Bytes(s[k])
  <2>1. ASSUME NEW k \in 1..Len(t), x \in Bytes(t[k])
        PROVE  \E m \in 1..n : m # i /\ x \in Bytes(s[m])
    <3>1. k \in Int /\ i \in Int BY <1>3
    <3> QED BY <3>1, <2>1, <1>4
  <2>2. ASSUME NEW k \in 1..n, k # i, x \in Bytes(s[k])
        PROVE  \E m \in 1..Len(t) : x \in Bytes(t[m])
    <3>1. CASE k < i
      <4>1. k \in 1..Len(t) /\ t[k] = s[k]
        BY <3>1, <1>1, <1>2, <1>3
      <4> QED BY Zenon, <4>1, <2>2
    <3>2. CASE k > i
      <4>1. k - 1 \in 1..Len(t) /\ t[k - 1] = s[k]
        BY <3>2, <1>1, <1>2, <1>3
      <4> QED BY Zenon, <4>1, <2>2
    <3> QED BY <3>1, <3>2, <2>2, <1>1
  <2> QED BY Zenon, <2>1, <2>2 DEF Covers
<1>8. ASSUME NEW k \in 1..n, k # i
      PROVE  Bytes(s[k]) \cap Bytes(s[i]) = {}
  <2>1. k < i \/ i < k BY <1>8, <1>1
  <2>2. EndOf(s[k]) < s[i].address \/ EndOf(s[i]) < s[k].address
    BY Zenon, <2>1 DEF FreeList
  <2>3. /\ s[i] \in Extent /\ s[k] \in Extent BY Zenon, <1>1
  <2>4. EndOf(s[k]) <= s[i].address \/ EndOf(s[i]) <= s[k].address
    BY <2>2, <2>3, ExtentFacts
  <2>5. s[i].size \in Nat /\ s[i].size <= s[i].size BY <2>3, ExtentFacts
  <2> HIDE DEF n
  <2>6. Bytes(s[k]) \cap Head_(s[i], s[i].size) = {}
    BY Zenon, <2>3, <2>4, <2>5, Apart
  <2> QED BY Zenon, <2>6, <2>3, WholeIsHead
<1>9. \A x : Covers(t, x) <=> Covers(s, x) /\ x \notin Bytes(s[i])
  BY Zenon, <1>7, <1>8 DEF Covers
<1> QED BY Zenon, <1>3, <1>5, <1>6, <1>9 DEF FreeList, t

\* Replacing extent i by another that ends where it ended and starts no
\* earlier, or ends later without reaching its neighbour, keeps the order.
LEMMA ReplaceOK ==
  ASSUME NEW s, FreeList(s), NEW i \in 1..Len(s), NEW e \in Extent, Piece(e),
         i # 1 => EndOf(s[i - 1]) < e.address,
         i # Len(s) => EndOf(e) < s[i + 1].address
  PROVE  /\ FreeList([s EXCEPT ![i] = e])
         /\ Len([s EXCEPT ![i] = e]) = Len(s)
         /\ \A x : Covers([s EXCEPT ![i] = e], x)
                     <=> x \in Bytes(e) \/ \E k \in 1..Len(s) : k # i /\ x \in Bytes(s[k])
<1> DEFINE n == Len(s)
           t == [s EXCEPT ![i] = e]
<1>1. /\ s \in Seq(Extent) /\ n \in Nat /\ i \in Int
      /\ \A k \in 1..n : s[k] \in Extent
  BY DEF FreeList
<1>2. t \in Seq(Extent) /\ Len(t) = n
  BY <1>1
<1>3. t[i] = e /\ \A k \in 1..n : k # i => t[k] = s[k]
  BY <1>1
<1> HIDE DEF t
<1>4. \A k \in 1..Len(t) : Piece(t[k])
  BY Zenon, <1>2, <1>3 DEF FreeList
<1>5. ASSUME NEW k \in 1..n, k < i
      PROVE  EndOf(s[k]) < e.address
  <2>1. i - 1 \in 1..n /\ i # 1 BY <1>5, <1>1
  <2>2. CASE k = i - 1 BY Zenon, <2>1, <2>2
  <2>3. CASE k < i - 1
    <3>1. EndOf(s[k]) < s[i - 1].address BY Zenon, <2>1, <2>3 DEF FreeList
    <3>2. s[k] \in Extent /\ s[i - 1] \in Extent BY Zenon, <1>1, <2>1
    <3>3. s[i - 1].address <= EndOf(s[i - 1])
      BY <3>2 DEF EndOf, Extent
    <3>4. EndOf(s[i - 1]) < e.address BY Zenon, <2>1
    <3>5. /\ EndOf(s[k]) \in Nat /\ EndOf(s[i - 1]) \in Nat
          /\ s[i - 1].address \in Nat /\ e.address \in Nat
      BY Zenon, <3>2, ExtentFacts
    <3> QED BY <3>1, <3>3, <3>4, <3>5
  <2> QED BY <2>2, <2>3, <1>5, <1>1
<1>6. ASSUME NEW k \in 1..n, i < k
      PROVE  EndOf(e) < s[k].address
  <2>1. i + 1 \in 1..n /\ i # n BY <1>6, <1>1
  <2>2. CASE k = i + 1 BY Zenon, <2>1, <2>2
  <2>3. CASE i + 1 < k
    <3>1. EndOf(s[i + 1]) < s[k].address BY Zenon, <2>1, <2>3 DEF FreeList
    <3>2. s[k] \in Extent /\ s[i + 1] \in Extent BY Zenon, <1>1, <2>1
    <3>3. s[i + 1].address <= EndOf(s[i + 1])
      BY <3>2 DEF EndOf, Extent
    <3>4. EndOf(e) < s[i + 1].address BY Zenon, <2>1
    <3>5. /\ EndOf(e) \in Nat /\ EndOf(s[i + 1]) \in Nat
          /\ s[i + 1].address \in Nat /\ s[k].address \in Nat
      BY Zenon, <3>2, ExtentFacts
    <3> QED BY <3>1, <3>3, <3>4, <3>5
  <2> QED BY <2>2, <2>3, <1>6, <1>1
<1>7. ASSUME NEW k \in 1..Len(t), NEW l \in 1..Len(t), k < l
      PROVE  EndOf(t[k]) < t[l].address
  <2>1. CASE k # i /\ l # i BY <2>1, <1>7, <1>2, <1>3 DEF FreeList
  <2>2. CASE l = i BY <2>2, <1>7, <1>2, <1>3, <1>5
  <2>3. CASE k = i BY <2>3, <1>7, <1>2, <1>3, <1>6
  <2> QED BY Zenon, <2>1, <2>2, <2>3
<1>8. \A x : Covers(t, x)
               <=> x \in Bytes(e) \/ \E k \in 1..n : k # i /\ x \in Bytes(s[k])
  BY Zenon, <1>2, <1>3 DEF Covers
<1> QED BY Zenon, <1>2, <1>4, <1>7, <1>8 DEF FreeList, t

\* Putting an extent in front of position p, with gaps on both sides.
LEMMA InsertOK ==
  ASSUME NEW s, FreeList(s), NEW p \in 1..(Len(s) + 1), NEW e \in Extent, Piece(e),
         \A k \in 1..Len(s) : k < p => EndOf(s[k]) < e.address,
         \A k \in 1..Len(s) : k >= p => EndOf(e) < s[k].address
  PROVE  /\ FreeList(insert(s, p, e))
         /\ Len(insert(s, p, e)) = Len(s) + 1
         /\ \A x : Covers(insert(s, p, e), x) <=> Covers(s, x) \/ x \in Bytes(e)
<1> DEFINE n == Len(s)
           t == insert(s, p, e)
<1>1. /\ s \in Seq(Extent) /\ n \in Nat /\ n + 1 \in Nat
      /\ \A k \in 1..n : s[k] \in Extent
  BY DEF FreeList
<1>2. t = [k \in 1..(n + 1) |-> IF k < p THEN s[k] ELSE IF k = p THEN e ELSE s[k - 1]]
  BY Zenon DEF insert
<1>3. t \in Seq(Extent) /\ Len(t) = n + 1
  BY <1>1, <1>2
<1> HIDE DEF t
<1>4. ASSUME NEW k \in 1..Len(t)
      PROVE  \/ k < p /\ k \in 1..n /\ t[k] = s[k]
             \/ k = p /\ t[k] = e
             \/ k > p /\ k - 1 \in 1..n /\ t[k] = s[k - 1]
  BY <1>1, <1>2, <1>3
<1>5. \A k \in 1..Len(t) : Piece(t[k])
  BY Zenon, <1>4 DEF FreeList
<1>6. ASSUME NEW k \in 1..Len(t), NEW l \in 1..Len(t), k < l
      PROVE  EndOf(t[k]) < t[l].address
  <2>1. k \in Int /\ l \in Int /\ p \in Int BY <1>3
  <2>2. CASE k = p
    <3>1. l - 1 \in 1..n /\ l - 1 >= p /\ t[l] = s[l - 1]
      BY <2>1, <2>2, <1>4, <1>6
    <3> QED BY <3>1, <2>1, <2>2, <1>4
  <2>3. CASE l = p
    <3>1. k \in 1..n /\ k < p /\ t[k] = s[k]
      BY <2>1, <2>3, <1>4, <1>6
    <3> QED BY <3>1, <2>1, <2>3, <1>4
  <2>4. CASE k # p /\ l # p
    <3>1. \E a, b \in 1..n : a < b /\ t[k] = s[a] /\ t[l] = s[b]
      <4>1. CASE l < p
        <5>1. k \in 1..n /\ t[k] = s[k] BY <4>1, <2>1, <1>4, <1>6
        <5>2. l \in 1..n /\ t[l] = s[l] BY <4>1, <2>1, <1>4
        <5> QED BY Zenon, <5>1, <5>2, <1>6
      <4>2. CASE k < p /\ l > p
        <5>1. k \in 1..n /\ t[k] = s[k] BY <4>2, <2>1, <1>4
        <5>2. l - 1 \in 1..n /\ t[l] = s[l - 1] BY <4>2, <2>1, <1>4
        <5>3. k < l - 1 BY <4>2, <2>1
        <5> QED BY Zenon, <5>1, <5>2, <5>3
      <4>3. CASE k > p
        <5>1. k - 1 \in 1..n /\ t[k] = s[k - 1] BY <4>3, <2>1, <1>4
        <5>2. l - 1 \in 1..n /\ t[l] = s[l - 1] BY <4>3, <2>1, <1>4, <1>6
        <5>3. k - 1 < l - 1 BY <2>1, <1>6
        <5> QED BY Zenon, <5>1, <5>2, <5>3
      <4> QED BY <4>1, <4>2, <4>3, <2>1, <2>4, <1>6
    <3> QED BY Zenon, <3>1 DEF FreeList
  <2> QED BY Zenon, <2>2, <2>3, <2>4
<1>7. ASSUME NEW x
      PROVE  Covers(t, x) <=> Covers(s, x) \/ x \in Bytes(e)
  <2>1. ASSUME NEW k \in 1..Len(t), x \in Bytes(t[k])
        PROVE  Covers(s, x) \/ x \in Bytes(e)
    BY Zenon, <2>1, <1>4 DEF Covers
  <2>2. ASSUME NEW k \in 1..n, x \in Bytes(s[k])
        PROVE  Covers(t, x)
    <3>1. CASE k < p
      <4>1. k \in 1..Len(t) /\ t[k] = s[k]
        BY <3>1, <1>1, <1>2, <1>3
      <4> QED BY Zenon, <4>1, <2>2 DEF Covers
    <3>2. CASE k >= p
      <4>1. k + 1 \in 1..Len(t) /\ t[k + 1] = s[k]
        BY <3>2, <1>1, <1>2, <1>3
      <4> QED BY Zenon, <4>1, <2>2 DEF Covers
    <3> QED BY <3>1, <3>2, <1>1
  <2>3. x \in Bytes(e) => Covers(t, x)
    <3>1. p \in 1..Len(t) /\ t[p] = e BY <1>1, <1>2, <1>3
    <3> QED BY Zenon, <3>1 DEF Covers
  <2> QED BY Zenon, <2>1, <2>2, <2>3 DEF Covers
<1> QED BY Zenon, <1>3, <1>5, <1>6, <1>7 DEF FreeList, t

\* Serving w bytes from the front of extent i removes exactly those bytes.
LEMMA TakeOK ==
  ASSUME TypeOK, FreeList(free_), NEW i \in 1..Len(free_), NEW e, e = free_[i],
         NEW w \in Nat, 0 < w, w % 16 = 0, w <= e.size,
         NEW t, t = IF e.size = w THEN erase(free_, i)
                    ELSE [free_ EXCEPT ![i] = Tail_(e, w)]
  PROVE  /\ FreeList(t)
         /\ \A x : Covers(t, x) <=> Covers(free_, x) /\ x \notin Head_(e, w)
<1>1. e \in Extent /\ Piece(e)
  BY DEF FreeList
<1>2. e.address \in Nat /\ e.size \in Nat
  BY Zenon, <1>1, ExtentFacts
<1>3. CASE e.size = w
  BY <1>3, <1>1, EraseOK, WholeIsHead
<1>4. CASE e.size # w
  <2>1. w < e.size BY <1>4, <1>2
  <2> DEFINE g == Tail_(e, w)
  <2>2. /\ g \in Extent /\ Piece(g) /\ EndOf(g) = EndOf(e)
        /\ e.address < g.address /\ Bytes(g) = Bytes(e) \ Head_(e, w)
    BY Zenon, <2>1, <1>1, Shrink
  <2> HIDE DEF g
  <2>3. i # 1 => EndOf(free_[i - 1]) < g.address
    <3> SUFFICES ASSUME i # 1 PROVE EndOf(free_[i - 1]) < g.address
      BY Zenon
    <3>1. i - 1 \in 1..Len(free_) /\ i - 1 < i
      BY DEF FreeList
    <3>2. EndOf(free_[i - 1]) < e.address
      BY Zenon, <3>1 DEF FreeList
    <3>3. free_[i - 1] \in Extent
      BY <3>1 DEF FreeList
    <3>4. EndOf(free_[i - 1]) \in Nat /\ g.address \in Nat
      BY Zenon, <3>3, <2>2, ExtentFacts
    <3> QED BY <3>2, <3>4, <2>2, <1>2
  <2>4. i # Len(free_) => EndOf(g) < free_[i + 1].address
    <3> SUFFICES ASSUME i # Len(free_) PROVE EndOf(g) < free_[i + 1].address
      BY Zenon
    <3>1. i + 1 \in 1..Len(free_) /\ i < i + 1
      BY DEF FreeList
    <3>2. EndOf(e) < free_[i + 1].address
      BY Zenon, <3>1 DEF FreeList
    <3> QED BY Zenon, <3>2, <2>2
  <2>5. t = [free_ EXCEPT ![i] = g]
    BY Zenon, <1>4 DEF g
  <2>6. /\ FreeList(t)
        /\ \A x : Covers(t, x)
             <=> x \in Bytes(g) \/ \E k \in 1..Len(free_) : k # i /\ x \in Bytes(free_[k])
    <3> DEFINE u == [free_ EXCEPT ![i] = g]
    <3>1. /\ FreeList(u)
          /\ \A x : Covers(u, x)
               <=> x \in Bytes(g) \/ \E k \in 1..Len(free_) : k # i /\ x \in Bytes(free_[k])
      BY Zenon, <2>2, <2>3, <2>4, ReplaceOK
    <3>2. t = u BY Zenon, <2>5
    <3> HIDE DEF u
    <3> QED BY Zenon, <3>1, <3>2
  <2>7. ASSUME NEW k \in 1..Len(free_), k # i
        PROVE  Bytes(free_[k]) \cap Head_(e, w) = {}
    <3>1. free_[k] \in Extent /\ (k < i \/ i < k)
      BY <2>7 DEF FreeList
    <3>2. EndOf(free_[k]) < e.address \/ EndOf(e) < free_[k].address
      BY Zenon, <3>1 DEF FreeList
    <3>3. EndOf(free_[k]) \in Nat /\ free_[k].address \in Nat /\ EndOf(e) \in Nat
      BY Zenon, <3>1, <1>1, ExtentFacts
    <3>4. EndOf(free_[k]) <= e.address \/ EndOf(e) <= free_[k].address
      BY <3>2, <3>3, <1>2
    <3> QED BY Zenon, <3>1, <3>4, <1>1, Apart
  <2>8. ASSUME NEW x
        PROVE  Covers(t, x) <=> Covers(free_, x) /\ x \notin Head_(e, w)
    BY Zenon, <2>6, <2>7, <2>2 DEF Covers
  <2> QED BY Zenon, <2>6, <2>8
<1> QED BY Zenon, <1>3, <1>4

-----------------------------------------------------------------------------

\* The free list of a state that satisfies the invariant is well formed.
LEMMA FreeListOfInv ==
  ASSUME TypeOK, Inside, Coalesced
  PROVE  FreeList(free_)
BY Zenon DEF TypeOK, Inside, Coalesced, FreeList

\* The free bytes are those the free list covers.
LEMMA FreeBytesCovers ==
  ASSUME NEW x
  PROVE  x \in FreeBytes <=> Covers(free_, x)
BY Zenon DEF FreeBytes, Covers

\* The held bytes are finitely many.
LEMMA LiveBytesFinite ==
  ASSUME TypeOK, Tiling
  PROVE  IsFiniteSet(LiveBytes) /\ Cardinality(LiveBytes) \in Nat
<1>1. begin_ \in Int /\ end_ - 1 \in Int
  BY ArenaAssumption DEF TypeOK
<1>2. IsFiniteSet(begin_..(end_ - 1))
  BY Zenon, <1>1, FS_Interval
<1>3. LiveBytes \in SUBSET (begin_..(end_ - 1))
  BY Zenon DEF Tiling
<1>4. IsFiniteSet(LiveBytes)
  BY Zenon, <1>2, <1>3, FS_Subset
<1> QED BY Zenon, <1>4, FS_CardinalityType

\* The number of bytes of an extent is its size.
LEMMA BytesCount ==
  ASSUME NEW e \in Extent, e.size > 0
  PROVE  IsFiniteSet(Bytes(e)) /\ Cardinality(Bytes(e)) = e.size
<1>1. e.address \in Nat /\ e.size \in Nat BY Zenon, ExtentFacts
<1>2. /\ IsFiniteSet(e.address..(e.address + e.size - 1))
      /\ Cardinality(e.address..(e.address + e.size - 1)) =
           IF e.address > e.address + e.size - 1 THEN 0
           ELSE (e.address + e.size - 1) - e.address + 1
  <2>1. e.address \in Int /\ e.address + e.size - 1 \in Int BY <1>1
  <2> HIDE <1>1
  <2> QED BY Zenon, <2>1, FS_Interval
<1> QED BY <1>1, <1>2 DEF Bytes

\* Non-overlapping extents are apart in address order.
LEMMA DisjointApart ==
  ASSUME NEW e \in Extent, NEW f \in Extent, e.size > 0, f.size > 0,
         Bytes(e) \cap Bytes(f) = {}
  PROVE  EndOf(e) <= f.address \/ EndOf(f) <= e.address
<1>1. e.address \in Nat /\ e.size \in Nat /\ f.address \in Nat /\ f.size \in Nat
  BY Zenon, ExtentFacts
<1>2. CASE e.address <= f.address
  <2>1. f.address \in Bytes(f) BY <1>1 DEF Bytes
  <2>2. f.address \notin Bytes(e) BY Zenon, <2>1
  <2> QED BY <2>2, <1>1, <1>2 DEF Bytes, EndOf
<1>3. CASE f.address <= e.address
  <2>1. e.address \in Bytes(e) BY <1>1 DEF Bytes
  <2>2. e.address \notin Bytes(f) BY Zenon, <2>1
  <2> QED BY <2>2, <1>1, <1>3 DEF Bytes, EndOf
<1> QED BY <1>1, <1>2, <1>3

\* The bytes a set of allocations covers.
HeldBytes(S) == UNION {Bytes(b) : b \in S}

\* Handing out free memory keeps the allocations disjoint and counts it.
LEMMA AddLive ==
  ASSUME IInv, NEW a \in Extent, Piece(a), Bytes(a) \subseteq FreeBytes,
         NEW L, L = live \cup {a}
  PROVE  /\ L \in SUBSET Extent
         /\ IsFiniteSet(L) /\ Cardinality(L) = Cardinality(live) + 1
         /\ \A b, c \in L : b # c => EndOf(b) <= c.address \/ EndOf(c) <= b.address
         /\ HeldBytes(L) = LiveBytes \cup Bytes(a)
         /\ Cardinality(HeldBytes(L)) = allocated_ + a.size
<1>1. a.size > 0 /\ a.size \in Nat /\ a.address \in Nat
  BY Zenon, ExtentFacts DEF Piece
<1>2. Bytes(a) \cap LiveBytes = {}
  BY Zenon DEF IInv, Tiling
<1>3. ASSUME NEW b \in live
      PROVE  b \in Extent /\ b.size > 0 /\ Bytes(b) \cap Bytes(a) = {}
  BY Zenon, <1>2 DEF IInv, TypeOK, Inside, Piece, LiveBytes
<1>4. a \notin live
  <2>1. a.address \in Bytes(a) BY <1>1 DEF Bytes
  <2> QED BY Zenon, <2>1, <1>3
<1>5. L \in SUBSET Extent BY Zenon, <1>3
<1>6. IsFiniteSet(L) /\ Cardinality(L) = Cardinality(live) + 1
  BY Zenon, <1>4, FS_AddElement DEF IInv
<1>7. ASSUME NEW b \in L, NEW c \in L, b # c
      PROVE  EndOf(b) <= c.address \/ EndOf(c) <= b.address
  <2>1. CASE b \in live /\ c \in live BY Zenon, <2>1, <1>7 DEF IInv, LiveDisjoint
  <2>2. CASE b = a /\ c \in live BY Zenon, <2>2, <1>1, <1>3, DisjointApart
  <2>3. CASE b \in live /\ c = a BY Zenon, <2>3, <1>1, <1>3, DisjointApart
  <2> QED BY Zenon, <2>1, <2>2, <2>3, <1>7
<1>8. HeldBytes(L) = LiveBytes \cup Bytes(a)
  BY Zenon DEF LiveBytes, HeldBytes
<1>9. Cardinality(HeldBytes(L)) = allocated_ + a.size
  <2>1. IsFiniteSet(LiveBytes) /\ Cardinality(LiveBytes) \in Nat
    BY Zenon, LiveBytesFinite DEF IInv
  <2>2. IsFiniteSet(Bytes(a)) /\ Cardinality(Bytes(a)) = a.size
    BY Zenon, <1>1, BytesCount
  <2>3. Cardinality(HeldBytes(L)) = Cardinality(LiveBytes) + Cardinality(Bytes(a))
                           - Cardinality(LiveBytes \cap Bytes(a))
    BY Zenon, <1>8, <2>1, <2>2, FS_Union
  <2>4. Cardinality(LiveBytes \cap Bytes(a)) = 0
    <3>1. LiveBytes \cap Bytes(a) = {} BY Zenon, <1>2
    <3> QED BY Zenon, <3>1, FS_EmptySet
  <2> QED BY <2>1, <2>2, <2>3, <2>4, <1>1 DEF IInv, Accounting
<1> QED BY Zenon, <1>5, <1>6, <1>7, <1>8, <1>9

\* What is held is part of the arena and is counted.
LEMMA HeldFits ==
  ASSUME IInv, NEW a \in live
  PROVE  /\ a \in Extent /\ Piece(a) /\ a.size > 0 /\ a.size \in Nat
         /\ Bytes(a) \subseteq LiveBytes
         /\ a.size <= allocated_
<1>1. a \in Extent /\ Piece(a) /\ a.size > 0 /\ a.size \in Nat
  BY Zenon, ExtentFacts DEF IInv, TypeOK, Inside, Piece
<1>2. Bytes(a) \in SUBSET LiveBytes
  BY Zenon DEF LiveBytes
<1>3. /\ IsFiniteSet(LiveBytes) /\ Cardinality(LiveBytes) \in Nat
      /\ allocated_ = Cardinality(LiveBytes)
  BY Zenon, LiveBytesFinite DEF IInv, Accounting
<1>4. IsFiniteSet(Bytes(a)) /\ Cardinality(Bytes(a)) = a.size
  BY Zenon, <1>1, BytesCount
<1>5. Cardinality(Bytes(a)) <= Cardinality(LiveBytes)
  BY Zenon, <1>2, <1>3, FS_Subset
<1> QED BY Zenon, <1>1, <1>2, <1>3, <1>4, <1>5

\* Taking an allocation back removes its bytes and no others.
LEMMA RemoveLive ==
  ASSUME IInv, NEW a \in live,
         NEW L, L = live \ {a}
  PROVE  /\ L \in SUBSET Extent
         /\ IsFiniteSet(L) /\ Cardinality(L) = Cardinality(live) - 1
         /\ HeldBytes(L) = LiveBytes \ Bytes(a)
         /\ Cardinality(HeldBytes(L)) = allocated_ - a.size
<1>1. a \in Extent /\ Piece(a) /\ a.size > 0 /\ a.size \in Nat
  BY Zenon, HeldFits
<1>2. ASSUME NEW b \in L
      PROVE  Bytes(b) \cap Bytes(a) = {}
  <2>1. b \in Extent /\ b \in live /\ b # a BY Zenon DEF IInv, TypeOK
  <2>2. EndOf(b) <= a.address \/ EndOf(a) <= b.address
    BY Zenon, <2>1 DEF IInv, LiveDisjoint
  <2>3. a.size <= a.size BY <1>1
  <2> QED BY Zenon, <2>1, <2>2, <2>3, <1>1, Apart, WholeIsHead
<1>3. HeldBytes(L) = LiveBytes \ Bytes(a)
  BY Zenon, <1>2 DEF LiveBytes, HeldBytes
<1>4. Bytes(a) \subseteq LiveBytes
  BY Zenon, HeldFits
<1>5. IsFiniteSet(L) /\ Cardinality(L) = Cardinality(live) - 1
  BY Zenon, FS_RemoveElement DEF IInv
<1>6. /\ IsFiniteSet(LiveBytes) /\ Cardinality(LiveBytes) \in Nat
      /\ allocated_ = Cardinality(LiveBytes)
  BY Zenon, LiveBytesFinite DEF IInv, Accounting
<1>7. IsFiniteSet(Bytes(a)) /\ Cardinality(Bytes(a)) = a.size
  BY Zenon, <1>1, BytesCount
<1>9. Cardinality(HeldBytes(L)) = allocated_ - a.size
  <2>1. Cardinality(LiveBytes \ Bytes(a))
          = Cardinality(LiveBytes) - Cardinality(LiveBytes \cap Bytes(a))
    BY Zenon, <1>6, FS_Difference
  <2>2. LiveBytes \cap Bytes(a) = Bytes(a) BY Zenon, <1>4
  <2> QED BY Zenon, <2>1, <2>2, <1>3, <1>6, <1>7
<1>10. L \in SUBSET Extent BY Zenon DEF IInv, TypeOK
<1> QED BY Zenon, <1>3, <1>5, <1>9, <1>10

\* Every free extent but the last ends where some allocation begins, so any
\* set of allocations that contains those neighbours bounds the list.
LEMMA ExtentCount ==
  ASSUME IInv, NEW S \in SUBSET live,
         \A i \in 1..(Len(free_) - 1) :
           \A b \in live : b.address = EndOf(free_[i]) => b \in S
  PROVE  Len(free_) <= Cardinality(S) + 1
<1> DEFINE n == Len(free_)
<1>1. /\ FreeList(free_) /\ n \in Nat /\ n - 1 \in Int
      /\ \A k \in 1..n : free_[k] \in Extent /\ Piece(free_[k])
  BY FreeListOfInv DEF IInv, FreeList
<1>2. IsFiniteSet(S) /\ Cardinality(S) \in Nat
  BY Zenon, FS_Subset, FS_CardinalityType DEF IInv
<1>3. ASSUME NEW i \in 1..(n - 1)
      PROVE  \E b \in S : b.address = EndOf(free_[i])
  <2> DEFINE x == EndOf(free_[i])
  <2>1. i \in 1..n /\ i + 1 \in 1..n /\ i < i + 1 BY <1>1
  <2>2. x < free_[i + 1].address
    BY Zenon, <2>1, <1>1 DEF FreeList
  <2>3. /\ x \in Nat /\ free_[i + 1].address \in Nat /\ free_[i].address \in Nat
        /\ free_[i].size \in Nat /\ free_[i + 1].size \in Nat
        /\ x = free_[i].address + free_[i].size
    BY Zenon, <2>1, <1>1, ExtentFacts DEF EndOf
  <2>4. /\ begin_ \in Nat /\ end_ \in Nat
        /\ free_[i].size > 0
        /\ begin_ <= free_[i].address /\ EndOf(free_[i + 1]) <= end_
        /\ EndOf(free_[i + 1]) = free_[i + 1].address + free_[i + 1].size
    BY <2>1, <1>1, ArenaAssumption DEF IInv, TypeOK, Piece, EndOf
  <2>5. x \in begin_..(end_ - 1)
    <3>1. free_[i].address + free_[i].size < free_[i + 1].address
      BY Zenon, <2>2, <2>3
    <3>2. free_[i + 1].address + free_[i + 1].size <= end_
      BY Zenon, <2>4
    <3> HIDE DEF x
    <3> QED BY Zenon, <3>1, <3>2, <2>3, <2>4, GapInside
  <2>6. ASSUME NEW k \in 1..n
        PROVE  x \notin Bytes(free_[k])
    <3>1. free_[k].address \in Nat /\ free_[k].size \in Nat
          /\ EndOf(free_[k]) = free_[k].address + free_[k].size
      BY Zenon, <1>1, ExtentFacts DEF EndOf
    <3>2. CASE k < i
      <4>1. EndOf(free_[k]) < free_[i].address BY Zenon, <3>2, <2>1, <1>1 DEF FreeList
      <4>2. free_[k].address + free_[k].size < free_[i].address BY Zenon, <4>1, <3>1
      <4> HIDE DEF x
      <4> QED BY Zenon, <4>2, <3>1, <2>3, PastEnd DEF Bytes
    <3>3. CASE k = i BY <3>3, <3>1, <2>3 DEF Bytes
    <3>4. CASE k > i
      <4>1. x < free_[k].address BY Zenon, <3>4, <2>1, <1>1 DEF FreeList
      <4> QED BY <4>1, <3>1, <2>3 DEF Bytes
    <3> QED BY <3>2, <3>3, <3>4, <2>1
  <2>7. x \in LiveBytes
    BY <2>5, <2>6 DEF IInv, Tiling, FreeBytes
  <2>8. PICK b \in live : x \in Bytes(b)
    BY Zenon, <2>7 DEF LiveBytes
  <2>9. b.address \in Nat /\ b.size \in Nat
    BY Zenon, ExtentFacts DEF IInv, TypeOK
  <2>10. b.address = x
    <3> SUFFICES ASSUME b.address # x PROVE FALSE BY Zenon
    <3> HIDE DEF x
    <3>1. x - 1 \in Bytes(b)
      BY Zenon, <2>8, <2>9, ByteBefore DEF Bytes
    <3>2. x - 1 \in Bytes(free_[i])
      BY Zenon, <2>3, <2>4, LastByte DEF Bytes
    <3>3. x - 1 \in FreeBytes \cap LiveBytes
      BY Zenon, <3>1, <3>2, <2>1 DEF FreeBytes, LiveBytes
    <3> QED BY Zenon, <3>3 DEF IInv, Tiling
  <2> QED BY Zenon, <2>10
<1> DEFINE f == [i \in 1..(n - 1) |-> CHOOSE b \in S : b.address = EndOf(free_[i])]
<1>4. \A i \in 1..(n - 1) : f[i] \in S /\ f[i].address = EndOf(free_[i])
  BY Zenon, <1>3
<1>5. f \in Injection(1..(n - 1), S)
  <2>1. f \in [1..(n - 1) -> S] BY Zenon, <1>4
  <2>2. ASSUME NEW i \in 1..(n - 1), NEW j \in 1..(n - 1), f[i] = f[j], i < j
        PROVE  FALSE
    <3> HIDE DEF f
    <3>1. EndOf(free_[i]) = EndOf(free_[j]) BY Zenon, <2>2, <1>4
    <3>2. i \in 1..n /\ j \in 1..n BY <1>1
    <3>3. EndOf(free_[i]) < free_[j].address BY Zenon, <3>2, <2>2, <1>1 DEF FreeList
    <3>4. /\ free_[j].address \in Nat /\ free_[j].size \in Nat
          /\ EndOf(free_[j]) = free_[j].address + free_[j].size
      BY Zenon, <3>2, <1>1, ExtentFacts DEF EndOf
    <3>5. EndOf(free_[i]) \in Nat BY Zenon, <3>2, <1>1, ExtentFacts
    <3> QED BY <3>1, <3>3, <3>4, <3>5
  <2>3. \A i, j \in 1..(n - 1) : f[i] = f[j] => i = j
    <3> HIDE DEF f
    <3> SUFFICES ASSUME NEW i \in 1..(n - 1), NEW j \in 1..(n - 1), f[i] = f[j]
                 PROVE  i = j
      BY Zenon
    <3>1. i \in Int /\ j \in Int BY <1>1
    <3> QED BY <3>1, <2>2
  <2> HIDE DEF f
  <2> QED BY Zenon, <2>1, <2>3 DEF Injection, IsInjective
<1>6. /\ IsFiniteSet(1..(n - 1))
      /\ Cardinality(1..(n - 1)) = IF 1 > n - 1 THEN 0 ELSE (n - 1) - 1 + 1
  <2>1. 1 \in Int /\ n - 1 \in Int BY <1>1
  <2> HIDE DEF n, f
  <2> QED BY Zenon, <2>1, FS_Interval
<1>7. Cardinality(1..(n - 1)) <= Cardinality(S)
  BY Zenon, <1>5, <1>2, FS_Injection
<1> QED BY <1>1, <1>2, <1>6, <1>7

\* The arena invariant bounds the free list by the allocations held.
THEOREM ExtentBoundFromInv == IInv => ExtentBound
BY Zenon, ExtentCount DEF ExtentBound

\* Where a held allocation belongs in the free list: everything before the
\* position ends at or before it, everything from there on starts after it.
LEMMA PositionOK ==
  ASSUME IInv, NEW a \in live, NEW p \in 1..(Len(free_) + 1), Position(a, p)
  PROVE  /\ \A k \in 1..Len(free_) : k < p => EndOf(free_[k]) <= a.address
         /\ \A k \in 1..Len(free_) : k >= p => EndOf(a) <= free_[k].address
<1>1. a \in Extent /\ Piece(a) /\ a.size > 0 /\ Bytes(a) \subseteq LiveBytes
  BY Zenon DEF IInv, TypeOK, Inside, Piece, LiveBytes
<1>2. /\ FreeList(free_) /\ Len(free_) \in Nat
      /\ \A k \in 1..Len(free_) : free_[k] \in Extent /\ Piece(free_[k]) /\ free_[k].size > 0
  BY FreeListOfInv DEF IInv, FreeList, Piece
<1>3. ASSUME NEW k \in 1..Len(free_)
      PROVE  EndOf(free_[k]) <= a.address \/ EndOf(a) <= free_[k].address
  <2>1. Bytes(free_[k]) \cap Bytes(a) = {}
    BY Zenon, <1>1 DEF IInv, Tiling, FreeBytes
  <2> QED BY Zenon, <2>1, <1>1, <1>2, DisjointApart
<1>4. ASSUME NEW k \in 1..Len(free_), k < p
      PROVE  EndOf(free_[k]) <= a.address
  <2>1. free_[k].address < a.address
    BY <1>4, <1>2 DEF Position
  <2>2. a.address \in Nat /\ a.size \in Nat /\ free_[k].address \in Nat
        /\ EndOf(a) = a.address + a.size
    BY Zenon, <1>1, <1>2, ExtentFacts DEF EndOf
  <2>3. ~(EndOf(a) <= free_[k].address) BY <2>1, <2>2
  <2> QED BY Zenon, <2>3, <1>3
<1>5. ASSUME NEW k \in 1..Len(free_), k >= p
      PROVE  EndOf(a) <= free_[k].address
  <2>1. p \in 1..Len(free_) /\ a.address <= free_[p].address
    <3>1. p \in 1..Len(free_) BY <1>5, <1>2
    <3>2. free_[p].address >= a.address BY <3>1, <1>2 DEF Position
    <3>3. free_[p].address \in Nat /\ a.address \in Nat
      BY Zenon, <3>1, <1>1, <1>2, ExtentFacts
    <3> QED BY Zenon, <3>1, <3>2, <3>3
  <2>2. a.address <= free_[k].address
    <3>1. CASE k = p BY Zenon, <3>1, <2>1
    <3>2. CASE p < k
      <4>1. EndOf(free_[p]) < free_[k].address BY Zenon, <3>2, <2>1, <1>2 DEF FreeList
      <4>2. /\ free_[p].address \in Nat /\ free_[p].size \in Nat /\ free_[k].address \in Nat
            /\ a.address \in Nat
            /\ EndOf(free_[p]) = free_[p].address + free_[p].size
        BY Zenon, <2>1, <1>1, <1>2, ExtentFacts DEF EndOf
      <4> QED BY <4>1, <4>2, <2>1
    <3> QED BY <3>1, <3>2, <1>5, <1>2
  <2>3. /\ a.address \in Nat /\ free_[k].address \in Nat /\ free_[k].size \in Nat
        /\ free_[k].size > 0
        /\ EndOf(free_[k]) = free_[k].address + free_[k].size
    BY Zenon, <1>1, <1>2, ExtentFacts DEF EndOf
  <2>4. ~(EndOf(free_[k]) <= a.address) BY <2>2, <2>3
  <2> QED BY Zenon, <2>4, <1>3
<1> QED BY Zenon, <1>4, <1>5

\* No release of a held allocation is refused.
LEMMA NotRefused ==
  ASSUME IInv, NEW a \in live
  PROVE  ~ReleaseRefused(a)
<1>1. a \in Extent /\ Piece(a) /\ a.size <= allocated_
  BY Zenon, HeldFits
<1>2. begin_ # 0 /\ begin_ \in Nat /\ end_ \in Nat
  BY ArenaAssumption DEF IInv, TypeOK, Inside
<1>3. WellFormed(a)
  <2>1. a.address \in Nat /\ a.size \in Nat /\ EndOf(a) = a.address + a.size
    BY Zenon, <1>1, ExtentFacts DEF EndOf
  <2>2. /\ a.size > 0 /\ a.address >= begin_ /\ a.address + a.size <= end_
        /\ a.address % 16 = 0 /\ a.size % 16 = 0
    BY Zenon, <1>1, <2>1 DEF Piece, alignment
  <2> QED BY <1>1, <1>2, <2>1, <2>2 DEF WellFormed, alignment
<1>4. ASSUME NEW p \in 1..(Len(free_) + 1), Position(a, p)
      PROVE  /\ ~Overlaps(a, p)
             /\ ~merge_previous(a, p) /\ ~merge_next(a, p) => Len(free_) # ExtentCapacity
  <2>1. /\ \A k \in 1..Len(free_) : k < p => EndOf(free_[k]) <= a.address
        /\ \A k \in 1..Len(free_) : k >= p => EndOf(a) <= free_[k].address
    BY Zenon, <1>4, PositionOK
  <2>2. /\ Len(free_) \in Nat
        /\ \A k \in 1..Len(free_) : free_[k] \in Extent
    BY DEF IInv, TypeOK
  <2>3. ~Overlaps(a, p)
    <3>1. ASSUME p # 1 PROVE ~(EndOf(free_[p - 1]) > a.address)
      <4>1. p - 1 \in 1..Len(free_) /\ p - 1 < p BY <3>1, <2>2
      <4>2. EndOf(free_[p - 1]) <= a.address BY Zenon, <4>1, <2>1
      <4>3. EndOf(free_[p - 1]) \in Nat /\ a.address \in Nat
        BY Zenon, <4>1, <2>2, <1>1, ExtentFacts
      <4> QED BY <4>2, <4>3
    <3>2. ASSUME p # Len(free_) + 1 PROVE ~(EndOf(a) > free_[p].address)
      <4>1. p \in 1..Len(free_) /\ p >= p BY <3>2, <2>2
      <4>2. EndOf(a) <= free_[p].address BY Zenon, <4>1, <2>1
      <4>3. EndOf(a) \in Nat /\ free_[p].address \in Nat
        BY Zenon, <4>1, <2>2, <1>1, ExtentFacts
      <4> QED BY <4>2, <4>3
    <3> QED BY Zenon, <3>1, <3>2 DEF Overlaps
  <2>4. ASSUME ~merge_previous(a, p), ~merge_next(a, p)
        PROVE  Len(free_) # ExtentCapacity
    <3> DEFINE S == live \ {a}
    <3>1. ASSUME NEW i \in 1..(Len(free_) - 1), NEW b \in live,
                 b.address = EndOf(free_[i])
          PROVE  b \in S
      <4> SUFFICES ASSUME b = a PROVE FALSE BY Zenon
      <4>1. i \in 1..Len(free_) /\ i + 1 \in 1..Len(free_) /\ i < i + 1 BY <2>2
      <4>2. EndOf(free_[i]) = a.address BY Zenon, <3>1
      <4>3. /\ free_[i].address \in Nat /\ free_[i].size \in Nat /\ free_[i].size > 0
            /\ a.address \in Nat /\ a.size \in Nat /\ a.size > 0
            /\ EndOf(free_[i]) = free_[i].address + free_[i].size
            /\ EndOf(a) = a.address + a.size
        BY Zenon, <4>1, <2>2, <1>1, ExtentFacts DEF EndOf, IInv, Inside, Piece
      <4>4. i < p
        <5> SUFFICES ASSUME i >= p PROVE FALSE BY <4>1
        <5>1. EndOf(a) <= free_[i].address BY Zenon, <4>1, <2>1
        <5>2. a.address + a.size <= free_[i].address BY Zenon, <5>1, <4>3
        <5>3. free_[i].address + free_[i].size = a.address BY Zenon, <4>2, <4>3
        <5> QED BY Zenon, <5>2, <5>3, <4>3, NoCycle
      <4>5. i + 1 >= p
        <5> SUFFICES ASSUME i + 1 < p PROVE FALSE BY <4>1
        <5>1. EndOf(free_[i + 1]) <= a.address BY Zenon, <4>1, <2>1
        <5>2. EndOf(free_[i]) < free_[i + 1].address
          BY Zenon, <4>1 DEF IInv, Coalesced
        <5>3. /\ free_[i + 1].address \in Nat /\ free_[i + 1].size \in Nat
              /\ EndOf(free_[i + 1]) = free_[i + 1].address + free_[i + 1].size
          BY Zenon, <4>1, <2>2, ExtentFacts DEF EndOf
        <5>4. free_[i + 1].address + free_[i + 1].size <= a.address
          BY Zenon, <5>1, <5>3
        <5>5. a.address < free_[i + 1].address BY Zenon, <5>2, <4>2
        <5> QED BY <5>3, <5>4, <5>5, <4>3
      <4>6. p = i + 1 /\ p # 1 BY <4>1, <4>4, <4>5
      <4> QED BY <4>6, <4>2, <2>4, <4>1 DEF merge_previous
    <3>2. Len(free_) <= Cardinality(S) + 1
      BY Zenon, <3>1, ExtentCount
    <3>3. Cardinality(S) = Cardinality(live) - 1 /\ Cardinality(live) \in Nat
      BY Zenon, FS_RemoveElement, FS_CardinalityType DEF IInv
    <3> HIDE DEF S
    <3> QED BY <3>2, <3>3, <2>2, ArenaAssumption DEF IInv
  <2> QED BY Zenon, <2>3, <2>4
<1> QED BY Zenon, <1>3, <1>4 DEF ReleaseRefused

-----------------------------------------------------------------------------

\* The scan of release() always stops somewhere.
LEMMA PositionExists ==
  ASSUME TypeOK, NEW a \in Extent
  PROVE  \E p \in 1..(Len(free_) + 1) : Position(a, p)
<1> DEFINE n == Len(free_)
           T == {k \in 1..(n + 1) : k = n + 1 \/ free_[k].address >= a.address}
<1>1. n \in Nat /\ \A k \in 1..n : free_[k].address \in Nat
  BY ExtentFacts DEF TypeOK
<1>2. a.address \in Nat BY Zenon, ExtentFacts
<1>3. T \subseteq Nat /\ n + 1 \in T BY <1>1
<1>4. PICK p \in T : \A y \in T : p <= y
  <2> HIDE DEF T
  <2> QED BY Zenon, <1>3, Least
<1>5. ASSUME NEW j \in 1..(p - 1)
      PROVE  free_[j].address < a.address
  <2>1. j \in 1..n /\ j \notin T BY <1>1, <1>4
  <2> QED BY <2>1, <1>1, <1>2
<1>6. p <= n => free_[p].address >= a.address BY <1>1, <1>4
<1> QED BY Zenon, <1>4, <1>5, <1>6 DEF Position

\* Two pieces that touch make one piece with the bytes of both.
LEMMA Join ==
  ASSUME TypeOK, NEW e \in Extent, NEW f \in Extent, Piece(e), Piece(f),
         EndOf(e) = f.address,
         NEW g, g = [address |-> e.address, size |-> e.size + f.size]
  PROVE  /\ g \in Extent /\ Piece(g)
         /\ g.address = e.address /\ EndOf(g) = EndOf(f)
         /\ Bytes(g) = Bytes(e) \cup Bytes(f)
<1>1. /\ e.address \in Nat /\ e.size \in Nat /\ f.address \in Nat /\ f.size \in Nat
      /\ begin_ \in Nat /\ end_ \in Nat
  BY ExtentFacts, ArenaAssumption DEF TypeOK
<1>2. g.address = e.address /\ g.size = e.size + f.size
  BY Zenon
<1>3. g \in Extent BY <1>1 DEF Extent
<1>4. f.address = e.address + e.size BY Zenon DEF EndOf
<1>5. EndOf(g) = EndOf(f) BY <1>1, <1>2, <1>4 DEF EndOf
<1>6. /\ e.size > 0 /\ f.size > 0 /\ e.address >= begin_ /\ EndOf(f) <= end_
      /\ e.address % 16 = 0 /\ e.size % 16 = 0 /\ f.size % 16 = 0
  BY Zenon DEF Piece, alignment
<1>7. (e.size + f.size) % 16 = 0 /\ e.size + f.size > 0
  BY <1>1, <1>6, Multiples
<1>8. Piece(g) BY Zenon, <1>2, <1>5, <1>6, <1>7 DEF Piece, alignment
<1>9. Bytes(g) = Bytes(e) \cup Bytes(f)
  BY <1>1, <1>2, <1>4, IntervalJoin DEF Bytes
<1> QED BY Zenon, <1>2, <1>3, <1>5, <1>8, <1>9

\* release()'s four ways of putting an allocation back all give a well-formed
\* list that covers what was free and the allocation.
LEMMA ReturnedOK ==
  ASSUME IInv, NEW a \in live, NEW p \in 1..(Len(free_) + 1), Position(a, p),
         NEW t, t = Returned(a, p)
  PROVE  /\ FreeList(t)
         /\ \A x : Covers(t, x) <=> Covers(free_, x) \/ x \in Bytes(a)
<1> DEFINE n == Len(free_)
<1>1. /\ TypeOK /\ FreeList(free_) /\ n \in Nat /\ p \in Int
      /\ \A k \in 1..n : free_[k] \in Extent /\ Piece(free_[k])
  BY FreeListOfInv DEF IInv, FreeList
<1>2. a \in Extent /\ Piece(a)
  BY Zenon DEF IInv, TypeOK, Inside
<1>3. /\ \A k \in 1..n : k < p => EndOf(free_[k]) <= a.address
      /\ \A k \in 1..n : k >= p => EndOf(a) <= free_[k].address
  BY Zenon, PositionOK
<1>4. CASE ~merge_previous(a, p) /\ ~merge_next(a, p)
  <2>1. t = insert(free_, p, a) BY Zenon, <1>4 DEF Returned
  <2>2. ASSUME NEW k \in 1..n, k < p PROVE EndOf(free_[k]) < a.address
    <3>1. p - 1 \in 1..n /\ p # 1 /\ p - 1 < p BY <2>2, <1>1
    <3>2. EndOf(free_[p - 1]) <= a.address /\ EndOf(free_[p - 1]) # a.address
      BY Zenon, <3>1, <1>3, <1>4 DEF merge_previous
    <3>3. EndOf(free_[p - 1]) \in Nat /\ a.address \in Nat /\ EndOf(free_[k]) \in Nat
          /\ free_[p - 1].address \in Nat
      BY Zenon, <3>1, <1>1, <1>2, ExtentFacts
    <3>4. CASE k = p - 1 BY <3>4, <3>2, <3>3
    <3>5. CASE k < p - 1
      <4>1. EndOf(free_[k]) < free_[p - 1].address BY Zenon, <3>5, <3>1, <1>1 DEF FreeList
      <4>2. free_[p - 1].address <= EndOf(free_[p - 1])
        BY <3>1, <1>1 DEF EndOf, Extent
      <4> QED BY <4>1, <4>2, <3>2, <3>3
    <3> QED BY <3>4, <3>5, <2>2, <1>1
  <2>3. ASSUME NEW k \in 1..n, k >= p PROVE EndOf(a) < free_[k].address
    <3>1. p \in 1..n /\ p # n + 1 BY <2>3, <1>1
    <3>2. EndOf(a) <= free_[p].address /\ EndOf(a) # free_[p].address
      BY <3>1, <1>1, <1>3, <1>4 DEF merge_next
    <3>3. EndOf(free_[p]) \in Nat /\ EndOf(a) \in Nat /\ free_[k].address \in Nat
          /\ free_[p].address \in Nat
      BY Zenon, <3>1, <1>1, <1>2, ExtentFacts
    <3>4. CASE k = p BY <3>4, <3>2, <3>3
    <3>5. CASE p < k
      <4>1. EndOf(free_[p]) < free_[k].address BY Zenon, <3>5, <3>1, <1>1 DEF FreeList
      <4>2. free_[p].address <= EndOf(free_[p])
        BY <3>1, <1>1 DEF EndOf, Extent
      <4> QED BY <4>1, <4>2, <3>2, <3>3
    <3> QED BY <3>4, <3>5, <2>3, <1>1
  <2> QED BY <2>1, <2>2, <2>3, <1>1, <1>2, InsertOK
<1>5. CASE merge_previous(a, p) /\ ~merge_next(a, p)
  <2> DEFINE i == p - 1
             g == [address |-> free_[i].address, size |-> free_[i].size + a.size]
  <2>1. i \in 1..n /\ i + 1 = p /\ EndOf(free_[i]) = a.address
    BY <1>5, <1>1 DEF merge_previous
  <2>2. /\ g \in Extent /\ Piece(g) /\ g.address = free_[i].address
        /\ EndOf(g) = EndOf(a) /\ Bytes(g) = Bytes(free_[i]) \cup Bytes(a)
    <3>1. free_[i] \in Extent /\ Piece(free_[i]) BY Zenon, <2>1, <1>1
    <3> HIDE DEF i
    <3> QED BY <3>1, <2>1, <1>1, <1>2, Join
  <2>3. t = [free_ EXCEPT ![i] = g]
    <3>1. t = [free_ EXCEPT ![i].size = @ + a.size] BY Zenon, <1>5 DEF Returned
    <3>2. [free_[i] EXCEPT !.size = @ + a.size] = g
      BY <2>1, <1>1 DEF Extent
    <3> QED BY Zenon, <3>1, <3>2
  <2> HIDE DEF g
  <2>4. i # 1 => EndOf(free_[i - 1]) < g.address
    <3> SUFFICES ASSUME i # 1 PROVE EndOf(free_[i - 1]) < free_[i].address BY Zenon, <2>2
    <3>1. i - 1 \in 1..n /\ i - 1 < i BY <2>1, <1>1
    <3> QED BY Zenon, <3>1, <2>1, <1>1 DEF FreeList
  <2>5. i # n => EndOf(g) < free_[i + 1].address
    <3> SUFFICES ASSUME i # n PROVE EndOf(a) < free_[p].address BY Zenon, <2>1, <2>2
    <3>1. p \in 1..n /\ p # n + 1 BY <2>1, <1>1
    <3>2. EndOf(a) <= free_[p].address /\ EndOf(a) # free_[p].address
      BY <3>1, <1>1, <1>3, <1>5 DEF merge_next
    <3>3. EndOf(a) \in Nat /\ free_[p].address \in Nat
      BY Zenon, <3>1, <1>1, <1>2, ExtentFacts
    <3> QED BY <3>2, <3>3
  <2>6. /\ FreeList(t)
        /\ \A x : Covers(t, x)
             <=> x \in Bytes(g) \/ \E k \in 1..n : k # i /\ x \in Bytes(free_[k])
    <3> DEFINE u == [free_ EXCEPT ![i] = g]
    <3> HIDE DEF i
    <3>1. /\ FreeList(u)
          /\ \A x : Covers(u, x)
               <=> x \in Bytes(g) \/ \E k \in 1..n : k # i /\ x \in Bytes(free_[k])
      BY Zenon, <2>1, <2>2, <2>4, <2>5, <1>1, ReplaceOK
    <3>2. t = u BY Zenon, <2>3
    <3> HIDE DEF u
    <3> QED BY Zenon, <3>1, <3>2
  <2> HIDE DEF i
  <2>7. \A x : Covers(t, x) <=> Covers(free_, x) \/ x \in Bytes(a)
    BY Zenon, <2>1, <2>2, <2>6 DEF Covers
  <2> QED BY Zenon, <2>6, <2>7
<1>6. CASE ~merge_previous(a, p) /\ merge_next(a, p)
  <2> DEFINE g == [address |-> a.address, size |-> free_[p].size + a.size]
  <2>1. p \in 1..n /\ EndOf(a) = free_[p].address
    BY <1>6, <1>1 DEF merge_next
  <2>2. /\ g \in Extent /\ Piece(g) /\ g.address = a.address
        /\ EndOf(g) = EndOf(free_[p]) /\ Bytes(g) = Bytes(free_[p]) \cup Bytes(a)
    <3>1. free_[p] \in Extent /\ Piece(free_[p]) BY Zenon, <2>1, <1>1
    <3>2. free_[p].size + a.size = a.size + free_[p].size
      BY <3>1, <1>2, ExtentFacts
    <3>3. g = [address |-> a.address, size |-> a.size + free_[p].size] BY Zenon, <3>2
    <3> HIDE DEF g
    <3> QED BY <3>1, <3>3, <2>1, <1>1, <1>2, Join
  <2>3. t = [free_ EXCEPT ![p] = g]
    BY Zenon, <1>6 DEF Returned
  <2> HIDE DEF g
  <2>4. p # 1 => EndOf(free_[p - 1]) < g.address
    <3> SUFFICES ASSUME p # 1 PROVE EndOf(free_[p - 1]) < a.address BY Zenon, <2>2
    <3>1. p - 1 \in 1..n /\ p - 1 < p BY <2>1, <1>1
    <3>2. EndOf(free_[p - 1]) <= a.address /\ EndOf(free_[p - 1]) # a.address
      BY Zenon, <3>1, <1>1, <1>3, <1>6 DEF merge_previous
    <3>3. EndOf(free_[p - 1]) \in Nat /\ a.address \in Nat
      BY Zenon, <3>1, <1>1, <1>2, ExtentFacts
    <3> QED BY <3>2, <3>3
  <2>5. p # n => EndOf(g) < free_[p + 1].address
    <3> SUFFICES ASSUME p # n PROVE EndOf(free_[p]) < free_[p + 1].address BY Zenon, <2>2
    <3>1. p + 1 \in 1..n /\ p < p + 1 BY <2>1, <1>1
    <3> QED BY Zenon, <3>1, <2>1, <1>1 DEF FreeList
  <2>6. /\ FreeList(t)
        /\ \A x : Covers(t, x)
             <=> x \in Bytes(g) \/ \E k \in 1..n : k # p /\ x \in Bytes(free_[k])
    <3> DEFINE u == [free_ EXCEPT ![p] = g]
    <3>1. /\ FreeList(u)
          /\ \A x : Covers(u, x)
               <=> x \in Bytes(g) \/ \E k \in 1..n : k # p /\ x \in Bytes(free_[k])
      BY Zenon, <2>1, <2>2, <2>4, <2>5, <1>1, ReplaceOK
    <3>2. t = u BY Zenon, <2>3
    <3> HIDE DEF u
    <3> QED BY Zenon, <3>1, <3>2
  <2>7. \A x : Covers(t, x) <=> Covers(free_, x) \/ x \in Bytes(a)
    BY Zenon, <2>1, <2>2, <2>6 DEF Covers
  <2> QED BY Zenon, <2>6, <2>7
<1>7. CASE merge_previous(a, p) /\ merge_next(a, p)
  <2> DEFINE i == p - 1
             g == [address |-> free_[i].address, size |-> free_[i].size + a.size]
             G == [address |-> free_[i].address,
                   size |-> (free_[i].size + a.size) + free_[p].size]
             h == erase(free_, p)
  <2>1. /\ i \in 1..n /\ i + 1 = p /\ p \in 1..n /\ i < p
        /\ EndOf(free_[i]) = a.address /\ EndOf(a) = free_[p].address
    BY <1>7, <1>1 DEF merge_previous, merge_next
  <2>2. /\ free_[i] \in Extent /\ Piece(free_[i])
        /\ free_[p] \in Extent /\ Piece(free_[p])
    BY Zenon, <2>1, <1>1
  <2>3. /\ g \in Extent /\ Piece(g) /\ g.address = free_[i].address
        /\ EndOf(g) = EndOf(a) /\ Bytes(g) = Bytes(free_[i]) \cup Bytes(a)
    <3> HIDE DEF i
    <3> QED BY <2>1, <2>2, <1>1, <1>2, Join
  <2>4. /\ G \in Extent /\ Piece(G) /\ G.address = free_[i].address
        /\ EndOf(G) = EndOf(free_[p])
        /\ Bytes(G) = Bytes(free_[i]) \cup Bytes(a) \cup Bytes(free_[p])
    <3>1. G = [address |-> g.address, size |-> g.size + free_[p].size] BY Zenon
    <3> DEFINE f == free_[p]
    <3>2. /\ EndOf(g) = f.address /\ f \in Extent /\ Piece(f)
          /\ g \in Extent /\ Piece(g)
      BY Zenon, <2>1, <2>2, <2>3
    <3> HIDE DEF g, G, i, f
    <3>3. G = [address |-> g.address, size |-> g.size + f.size] BY Zenon, <3>1 DEF f
    <3>4. /\ G \in Extent /\ Piece(G) /\ G.address = g.address
          /\ EndOf(G) = EndOf(f)
          /\ Bytes(G) = Bytes(g) \cup Bytes(f)
      <4> HIDE <3>1
      <4> QED BY <3>2, <3>3, <1>1, Join
    <3> QED BY Zenon, <3>4, <2>3 DEF f
  <2>5. t = erase([free_ EXCEPT ![i] = G], p)
    <3> DEFINE u == [free_ EXCEPT ![i].size = @ + a.size]
    <3>1. t = erase([u EXCEPT ![i].size = @ + free_[p].size], p)
      BY Zenon, <1>7 DEF Returned
    <3>2. [free_[i] EXCEPT !.size = @ + a.size] = g
      BY <2>2 DEF Extent
    <3>3. u = [free_ EXCEPT ![i] = g] BY Zenon, <3>2
    <3>4. [g EXCEPT !.size = @ + free_[p].size] = G
      OBVIOUS
    <3> HIDE DEF G, g, u
    <3>5. u[i] = g /\ DOMAIN u = 1..n
      <4>1. DOMAIN free_ = 1..n BY DEF IInv, TypeOK
      <4> QED BY Zenon, <4>1, <3>3, <2>1
    <3>6. [u EXCEPT ![i].size = @ + free_[p].size] = [u EXCEPT ![i] = G]
      BY Zenon, <3>4, <3>5
    <3>7. [u EXCEPT ![i] = G] = [free_ EXCEPT ![i] = G]
      BY Zenon, <3>3
    <3> QED BY Zenon, <3>1, <3>6, <3>7
  <2> HIDE DEF g, G
  <2>6. /\ FreeList(h) /\ Len(h) = n - 1
        /\ \A x : Covers(h, x) <=> Covers(free_, x) /\ x \notin Bytes(free_[p])
    BY Zenon, <2>1, <1>1, EraseOK
  <2>7. /\ i \in 1..Len(h) /\ h[i] = free_[i]
        /\ \A k \in 1..(n - 1) : h[k] = IF k < p THEN free_[k] ELSE free_[k + 1]
    BY <2>1, <2>6, <1>1 DEF erase
  <2>8. t = [h EXCEPT ![i] = G]
    <3> DEFINE u == [free_ EXCEPT ![i] = G]
    <3>1. /\ Len(u) = n
          /\ \A k \in 1..n : u[k] = IF k = i THEN G ELSE free_[k]
      BY <2>1, <2>4, <1>1 DEF IInv, TypeOK
    <3> HIDE DEF u
    <3>2. t = [k \in 1..(n - 1) |-> IF k < p THEN u[k] ELSE u[k + 1]]
      BY Zenon, <2>5, <3>1 DEF erase, u
    <3>3. h = [k \in 1..(n - 1) |-> IF k < p THEN free_[k] ELSE free_[k + 1]]
      BY Zenon DEF erase
    <3>4. ASSUME NEW k \in 1..(n - 1)
          PROVE  t[k] = [h EXCEPT ![i] = G][k]
      <4>1. k \in 1..n /\ k + 1 \in 1..n BY <1>1
      <4>2. CASE k = i BY Zenon, <4>1, <4>2, <3>1, <3>2, <3>3, <2>1
      <4>3. CASE k # i /\ k < p BY Zenon, <4>1, <4>3, <3>1, <3>2, <3>3, <2>1
      <4>4. CASE k >= p
        <5>1. k # i /\ k + 1 # i /\ ~(k < p) BY <4>1, <4>4, <2>1
        <5>2. t[k] = u[k + 1] /\ h[k] = free_[k + 1] BY Zenon, <5>1, <3>2, <3>3
        <5>3. [h EXCEPT ![i] = G][k] = h[k] BY Zenon, <5>1, <3>3
        <5> QED BY Zenon, <5>1, <5>2, <5>3, <4>1, <3>1
      <4> QED BY <4>2, <4>3, <4>4, <1>1
    <3> QED BY Zenon, <3>2, <3>3, <3>4
  <2> HIDE DEF h
  <2>9. i # 1 => EndOf(h[i - 1]) < G.address
    <3> SUFFICES ASSUME i # 1 PROVE EndOf(h[i - 1]) < free_[i].address BY Zenon, <2>4
    <3>1. i - 1 \in 1..Len(h) /\ i - 1 < i BY <2>7, <2>1, <1>1
    <3>2. EndOf(h[i - 1]) < h[i].address BY Zenon, <3>1, <2>6, <2>7 DEF FreeList
    <3> QED BY Zenon, <3>2, <2>7
  <2>10. i # Len(h) => EndOf(G) < h[i + 1].address
    <3> SUFFICES ASSUME i # Len(h) PROVE EndOf(free_[p]) < h[i + 1].address BY Zenon, <2>4
    <3>1. p + 1 \in 1..n /\ p < p + 1 /\ p \in 1..(n - 1) BY <2>1, <2>6, <2>7, <1>1
    <3>2. h[i + 1] = free_[p + 1] BY <3>1, <2>1, <2>7
    <3>3. EndOf(free_[p]) < free_[p + 1].address BY Zenon, <3>1, <2>1, <1>1 DEF FreeList
    <3> QED BY Zenon, <3>2, <3>3
  <2>11. /\ FreeList(t)
         /\ \A x : Covers(t, x)
              <=> x \in Bytes(G) \/ \E k \in 1..Len(h) : k # i /\ x \in Bytes(h[k])
    <3> DEFINE u == [h EXCEPT ![i] = G]
    <3> HIDE DEF i
    <3>1. /\ FreeList(u)
          /\ \A x : Covers(u, x)
               <=> x \in Bytes(G) \/ \E k \in 1..Len(h) : k # i /\ x \in Bytes(h[k])
      BY Zenon, <2>4, <2>6, <2>7, <2>9, <2>10, ReplaceOK
    <3>2. t = u BY Zenon, <2>8
    <3> HIDE DEF u
    <3> QED BY Zenon, <3>1, <3>2
  <2> HIDE DEF i
  <2>12. \A x : Covers(t, x) <=> Covers(free_, x) \/ x \in Bytes(a)
    <3>1. \A x : Covers(t, x) <=> x \in Bytes(G) \/ Covers(h, x)
      BY Zenon, <2>11, <2>7, <2>4 DEF Covers
    <3>2. \A x : x \in Bytes(free_[i]) \/ x \in Bytes(free_[p]) => Covers(free_, x)
      BY Zenon, <2>1 DEF Covers
    <3> QED BY Zenon, <3>1, <3>2, <2>4, <2>6
  <2> QED BY Zenon, <2>11, <2>12
<1> QED BY Zenon, <1>4, <1>5, <1>6, <1>7

-----------------------------------------------------------------------------

\* What a step must re-establish.
LEMMA Rebuild ==
  ASSUME IInv, begin_' = begin_, end_' = end_, halted' = FALSE, begin_ # 0,
         FreeList(free_'),
         live' \in SUBSET Extent, IsFiniteSet(live'), Cardinality(live') <= MaxLive,
         \A a \in live' : Piece(a),
         \A a, b \in live' : a # b => EndOf(a) <= b.address \/ EndOf(b) <= a.address,
         allocated_' \in Nat, allocated_' = Cardinality(LiveBytes'),
         \A x : Covers(free_', x) => x \notin LiveBytes',
         \A x : Covers(free_', x) \/ x \in LiveBytes' <=> x \in begin_..(end_ - 1)
  PROVE  IInv'
<1>1. TypeOK' BY Zenon DEF IInv, TypeOK, FreeList
<1>2. \A e : Piece(e)' <=> Piece(e) BY Zenon DEF Piece
<1>3. Inside' BY Zenon, <1>2 DEF IInv, Inside, FreeList, Piece
<1>4. Coalesced' BY Zenon DEF Coalesced, FreeList
<1>5. LiveDisjoint' BY Zenon DEF LiveDisjoint
<1>6. \A x : x \in FreeBytes' <=> Covers(free_', x) BY Zenon DEF FreeBytes, Covers
<1>7. Tiling'
  <2>1. FreeBytes' \cap LiveBytes' = {} BY Zenon, <1>6
  <2>2. FreeBytes' \cup LiveBytes' = begin_'..(end_' - 1) BY Zenon, <1>6
  <2> QED BY Zenon, <2>1, <2>2 DEF Tiling
<1>8. Accounting' /\ NeverHalts' BY Zenon DEF Accounting, NeverHalts
<1> QED BY Zenon, <1>1, <1>3, <1>4, <1>5, <1>7, <1>8 DEF IInv

\* The memory allocate() hands out is a piece of the extent it came from.
LEMMA FrontPiece ==
  ASSUME TypeOK, NEW e \in Extent, Piece(e),
         NEW w \in Nat, 0 < w, w <= e.size, w % 16 = 0,
         NEW a, a = [address |-> e.address, size |-> w]
  PROVE  /\ a \in Extent /\ Piece(a) /\ a.size = w
         /\ Bytes(a) = Head_(e, w) /\ Bytes(a) \subseteq Bytes(e)
<1>1. e.address \in Nat /\ e.size \in Nat /\ begin_ \in Nat /\ end_ \in Nat
  BY ExtentFacts, ArenaAssumption DEF TypeOK
<1>2. a.address = e.address /\ a.size = w BY Zenon
<1>3. a \in Extent BY Zenon, <1>1 DEF Extent
<1>4. Piece(a) BY <1>1, <1>2 DEF Piece, EndOf, alignment
<1>5. Bytes(a) = Head_(e, w) BY Zenon, <1>2 DEF Bytes, Head_
<1>6. Bytes(a) \subseteq Bytes(e) BY <1>1, <1>2 DEF Bytes
<1> QED BY Zenon, <1>2, <1>3, <1>4, <1>5, <1>6

\* allocate keeps the inductive invariant.
LEMMA AllocateStep ==
  ASSUME IInv, NEW r \in Requests, allocate(r)
  PROVE  IInv'
<1> DEFINE w == align_up(r)
<1>1. r \in 1..(WordMax - 15)
  BY ArenaAssumption DEF allocate, Refused, alignment
<1>2. w \in Nat /\ w > 0 /\ w % 16 = 0
  BY Zenon, <1>1, AlignUpFits
<1> HIDE DEF w
<1>3. PICK i \in 1..Len(free_) :
        /\ free_[i].size >= w
        /\ free_' = IF free_[i].size = w THEN erase(free_, i)
                    ELSE [free_ EXCEPT ![i] = [address |-> @.address + w,
                                               size |-> @.size - w]]
        /\ live' = live \cup {[address |-> free_[i].address, size |-> w]}
        /\ allocated_' = allocated_ + w
  BY Zenon DEF allocate, FirstFit, w
<1>4. /\ begin_' = begin_ /\ end_' = end_ /\ halted' = FALSE /\ begin_ # 0
      /\ Cardinality(live) < MaxLive
  BY DEF allocate, IInv, NeverHalts
<1>5. /\ TypeOK /\ FreeList(free_)
      /\ free_[i] \in Extent /\ Piece(free_[i])
  BY FreeListOfInv DEF IInv, FreeList
<1> DEFINE e == free_[i]
           a == [address |-> e.address, size |-> w]
<1>6. e.size \in Nat /\ w <= e.size BY Zenon, <1>2, <1>3, <1>5, ExtentFacts
<1>7. /\ a \in Extent /\ Piece(a) /\ a.size = w
      /\ Bytes(a) = Head_(e, w) /\ Bytes(a) \subseteq Bytes(e)
  <2>1. e \in Extent /\ Piece(e) BY Zenon, <1>5
  <2> HIDE DEF e
  <2> QED BY <2>1, <1>2, <1>5, <1>6, FrontPiece
<1>8. live' = live \cup {a} BY Zenon, <1>3
<1>9. Bytes(a) \subseteq FreeBytes BY Zenon, <1>7 DEF FreeBytes
<1>10. /\ FreeList(free_')
       /\ \A x : Covers(free_', x) <=> Covers(free_, x) /\ x \notin Bytes(a)
  <2>1. e = free_[i] BY Zenon
  <2>2. free_' = IF e.size = w THEN erase(free_, i) ELSE [free_ EXCEPT ![i] = Tail_(e, w)]
    BY Zenon, <1>3 DEF Tail_
  <2>3. Bytes(a) = Head_(e, w) BY Zenon, <1>7
  <2> HIDE DEF e, a
  <2>4. \A x : Covers(free_', x) <=> Covers(free_, x) /\ x \notin Head_(e, w)
    BY Zenon, <2>1, <2>2, <1>2, <1>5, <1>6, TakeOK
  <2>5. FreeList(free_')
    BY Zenon, <2>1, <2>2, <1>2, <1>5, <1>6, TakeOK
  <2> QED BY Zenon, <2>3, <2>4, <2>5
<1> HIDE DEF a, e
<1>11. /\ live' \in SUBSET Extent
       /\ IsFiniteSet(live') /\ Cardinality(live') = Cardinality(live) + 1
       /\ \A b, c \in live' : b # c => EndOf(b) <= c.address \/ EndOf(c) <= b.address
       /\ LiveBytes' = LiveBytes \cup Bytes(a)
       /\ Cardinality(LiveBytes') = allocated_ + w
  <2> DEFINE L == live'
  <2>1. LiveBytes' = HeldBytes(L) BY Zenon DEF LiveBytes, HeldBytes
  <2>2. L = live \cup {a} BY Zenon, <1>8
  <2>3. a \in Extent /\ Piece(a) BY Zenon, <1>7
  <2> HIDE DEF L
  <2>4. /\ L \in SUBSET Extent
        /\ IsFiniteSet(L) /\ Cardinality(L) = Cardinality(live) + 1
        /\ \A b, c \in L : b # c => EndOf(b) <= c.address \/ EndOf(c) <= b.address
        /\ HeldBytes(L) = LiveBytes \cup Bytes(a)
        /\ Cardinality(HeldBytes(L)) = allocated_ + a.size
    BY <2>2, <2>3, <1>9, AddLive
  <2> QED BY Zenon, <2>1, <2>4, <1>7 DEF L
<1>12. Cardinality(live') <= MaxLive
  <2>1. Cardinality(live) \in Nat BY Zenon, FS_CardinalityType DEF IInv
  <2> QED BY <2>1, <1>4, <1>11, ArenaAssumption
<1>13. \A b \in live' : Piece(b) BY Zenon, <1>7, <1>8 DEF IInv, Inside
<1>14. allocated_' \in Nat /\ allocated_' = Cardinality(LiveBytes')
  BY <1>2, <1>3, <1>11 DEF IInv, TypeOK
<1>15. /\ \A x : Covers(free_, x) => x \notin LiveBytes
       /\ \A x : Covers(free_, x) \/ x \in LiveBytes <=> x \in begin_..(end_ - 1)
       /\ \A x : x \in Bytes(a) => Covers(free_, x)
  BY Zenon, <1>9, FreeBytesCovers DEF IInv, Tiling
<1>16. /\ \A x : Covers(free_', x) => x \notin LiveBytes'
       /\ \A x : Covers(free_', x) \/ x \in LiveBytes' <=> x \in begin_..(end_ - 1)
  BY Zenon, <1>10, <1>11, <1>15
<1> QED BY Zenon, <1>4, <1>10, <1>11, <1>12, <1>13, <1>14, <1>16, Rebuild

\* release keeps the inductive invariant.
LEMMA ReleaseStep ==
  ASSUME IInv, NEW a \in live, release(a)
  PROVE  IInv'
<1> DEFINE p == CHOOSE q \in 1..(Len(free_) + 1) : Position(a, q)
<1>1. /\ a \in Extent /\ Piece(a) /\ a.size > 0 /\ a.size \in Nat
      /\ Bytes(a) \subseteq LiveBytes /\ a.size <= allocated_
  BY Zenon, HeldFits
<1>2. ~ReleaseRefused(a) BY Zenon, NotRefused
<1>3. p \in 1..(Len(free_) + 1) /\ Position(a, p)
  BY Zenon, <1>1, PositionExists DEF IInv
<1>4. /\ free_' = Returned(a, p) /\ live' = live \ {a}
      /\ allocated_' = allocated_ - a.size
      /\ begin_' = begin_ /\ end_' = end_ /\ halted' = FALSE
  BY <1>2 DEF release
<1> HIDE DEF p
<1>5. /\ FreeList(free_')
      /\ \A x : Covers(free_', x) <=> Covers(free_, x) \/ x \in Bytes(a)
  BY Zenon, <1>3, <1>4, ReturnedOK
<1>6. /\ live' \in SUBSET Extent
      /\ IsFiniteSet(live') /\ Cardinality(live') = Cardinality(live) - 1
      /\ LiveBytes' = LiveBytes \ Bytes(a)
      /\ Cardinality(LiveBytes') = allocated_ - a.size
  <2> DEFINE L == live'
  <2>1. LiveBytes' = HeldBytes(L) BY Zenon DEF LiveBytes, HeldBytes
  <2>2. L = live \ {a} BY Zenon, <1>4
  <2> HIDE DEF L
  <2>3. /\ L \in SUBSET Extent
        /\ IsFiniteSet(L) /\ Cardinality(L) = Cardinality(live) - 1
        /\ HeldBytes(L) = LiveBytes \ Bytes(a)
        /\ Cardinality(HeldBytes(L)) = allocated_ - a.size
    BY Zenon, <2>2, RemoveLive
  <2> QED BY Zenon, <2>1, <2>3 DEF L
<1>7. Cardinality(live') <= MaxLive
  <2>1. Cardinality(live) \in Nat BY Zenon, FS_CardinalityType DEF IInv
  <2> QED BY <2>1, <1>6, ArenaAssumption DEF IInv
<1>8. \A b \in live' : Piece(b) BY Zenon, <1>4 DEF IInv, Inside
<1>9. \A b, c \in live' : b # c => EndOf(b) <= c.address \/ EndOf(c) <= b.address
  BY Zenon, <1>4 DEF IInv, LiveDisjoint
<1>10. allocated_' \in Nat /\ allocated_' = Cardinality(LiveBytes')
  BY <1>1, <1>4, <1>6 DEF IInv, TypeOK
<1>11. begin_ # 0 BY Zenon DEF IInv, Inside
<1>12. /\ \A x : Covers(free_, x) => x \notin LiveBytes
       /\ \A x : Covers(free_, x) \/ x \in LiveBytes <=> x \in begin_..(end_ - 1)
  BY Zenon, FreeBytesCovers DEF IInv, Tiling
<1>13. /\ \A x : Covers(free_', x) => x \notin LiveBytes'
       /\ \A x : Covers(free_', x) \/ x \in LiveBytes' <=> x \in begin_..(end_ - 1)
  BY Zenon, <1>1, <1>5, <1>6, <1>12
<1> QED BY Zenon, <1>4, <1>5, <1>6, <1>7, <1>8, <1>9, <1>10, <1>11, <1>13, Rebuild

\* The freshly initialized arena is one extent of aligned, free memory.
LEMMA InitializeStep ==
  ASSUME IInv, initialize
  PROVE  IInv'
<1> DEFINE b == align_up(ArenaBegin)
           e == align_down(ArenaEnd)
           x0 == [address |-> b, size |-> e - b]
<1>1. /\ b \in 0..WordMax /\ e \in 0..WordMax /\ b % 16 = 0 /\ e % 16 = 0
  BY ArenaAssumption, SMT DEF align_up, align_down, alignment
<1>2. /\ b # 0 /\ b < e /\ begin_' = b /\ end_' = e
      /\ free_' = <<x0>> /\ allocated_' = 0
      /\ live' = live /\ halted' = halted /\ begin_ = 0
  BY Zenon DEF initialize
<1> HIDE DEF b, e
<1>3. live = {} /\ live' = {} /\ halted' = FALSE
  BY <1>2 DEF IInv, Inside, NeverHalts
<1>4. b \in Nat /\ e \in Nat /\ e - b \in Nat /\ (e - b) % 16 = 0
  BY <1>1, <1>2, ArenaAssumption, Multiples
<1>5. x0 \in Extent /\ Len(free_') = 1 /\ free_'[1] = x0 /\ free_' \in Seq(Extent)
  BY <1>2, <1>4 DEF Extent
<1>6. Piece(x0)'
  BY <1>1, <1>2, <1>4 DEF Piece, EndOf, alignment
<1>7. Bytes(x0) = b..(e - 1)
  BY <1>4 DEF Bytes
<1> HIDE DEF x0
<1>8. TypeOK' BY Zenon, <1>1, <1>2, <1>3, <1>5 DEF TypeOK
<1>9. Inside' BY <1>2, <1>3, <1>5, <1>6 DEF Inside
<1>10. Coalesced' BY <1>5 DEF Coalesced
<1>11. LiveBytes' = {} BY Zenon, <1>3 DEF LiveBytes
<1>12. FreeBytes' = b..(e - 1)
  <2>1. 1..Len(free_') = {1} BY <1>5
  <2>2. FreeBytes' = UNION {Bytes(free_'[i]) : i \in {1}} BY Zenon, <2>1 DEF FreeBytes
  <2>3. UNION {Bytes(free_'[i]) : i \in {1}} = Bytes(free_'[1]) BY Zenon
  <2> QED BY Zenon, <2>2, <2>3, <1>5, <1>7
<1>13. Tiling' BY Zenon, <1>2, <1>11, <1>12 DEF Tiling
<1>14. Accounting' BY Zenon, <1>2, <1>11, FS_EmptySet DEF Accounting
<1>15. LiveDisjoint' /\ NeverHalts' BY Zenon, <1>3 DEF LiveDisjoint, NeverHalts
<1>16. IsFiniteSet(live') /\ Cardinality(live') <= MaxLive
  BY <1>3, FS_EmptySet, ArenaAssumption
<1> QED BY Zenon, <1>8, <1>9, <1>10, <1>13, <1>14, <1>15, <1>16 DEF IInv

\* An arena just initialised satisfies the inductive invariant.
LEMMA InitInv == Init => IInv
<1> SUFFICES ASSUME Init PROVE IInv BY Zenon
<1>1. TypeOK
  <2>1. begin_ \in 0..WordMax /\ end_ \in 0..WordMax /\ allocated_ \in Nat
    BY ArenaAssumption DEF Init
  <2>2. free_ \in Seq(Extent) BY DEF Init
  <2>3. live \in SUBSET Extent /\ halted \in BOOLEAN BY Zenon DEF Init
  <2> QED BY Zenon, <2>1, <2>2, <2>3 DEF TypeOK
<1>2. Inside /\ Coalesced /\ LiveDisjoint /\ NeverHalts
  BY DEF Init, Inside, Coalesced, LiveDisjoint, NeverHalts
<1>3. LiveBytes = {} /\ FreeBytes = {} BY DEF Init, LiveBytes, FreeBytes
<1>4. Tiling BY <1>3 DEF Init, Tiling
<1>5. Accounting BY Zenon, <1>3, FS_EmptySet DEF Init, Accounting
<1>6. IsFiniteSet(live) /\ Cardinality(live) <= MaxLive
  BY FS_EmptySet, ArenaAssumption DEF Init
<1> QED BY Zenon, <1>1, <1>2, <1>4, <1>5, <1>6 DEF IInv

\* The arena invariant is inductive: whatever sequence of snapshots the fork
\* adapter takes and gives back, the free list and the snapshots tile the
\* arena, the counters agree with the memory, and no release is refused.
THEOREM ArenaInvariant == Spec => []IInv
<1>1. IInv /\ [Next]_vars => IInv'
  <2> SUFFICES ASSUME IInv, [Next]_vars PROVE IInv' BY Zenon
  <2>1. CASE initialize BY Zenon, <2>1, InitializeStep
  <2>2. ASSUME NEW r \in Requests, allocate(r) PROVE IInv' BY Zenon, <2>2, AllocateStep
  <2>3. ASSUME NEW a \in live, release(a) PROVE IInv' BY Zenon, <2>3, ReleaseStep
  <2>4. CASE UNCHANGED vars
    BY <2>4 DEF vars, IInv, TypeOK, Inside, Piece, Coalesced, LiveDisjoint, Tiling,
                Accounting, NeverHalts, LiveBytes, FreeBytes
  <2> QED BY Zenon, <2>1, <2>2, <2>3, <2>4 DEF Next
<1> QED BY <1>1, InitInv, PTL DEF Spec

\* Every variable keeps its type.
THEOREM TypeCorrect == Spec => []TypeOK
BY ArenaInvariant, PTL DEF IInv

\* Two suspended contexts never hold overlapping memory, no byte is both free
\* and held, and none is lost (snapshot_arena.hpp:46-123).
THEOREM MemorySafety == Spec => [](LiveDisjoint /\ Tiling)
BY ArenaInvariant, PTL DEF IInv

\* release_snapshot never reaches its shutdown(9) (kernel/syscall.cpp:271-281).
THEOREM ReleaseNeverRefused == Spec => []NeverHalts
BY ArenaInvariant, PTL DEF IInv

\* One free extent more than held snapshots at most: the extent table sized
\* "above the process-context bound" (kernel/syscall.cpp:119-121) suffices.
THEOREM ExtentTableSuffices == Spec => []ExtentBound
BY ArenaInvariant, ExtentBoundFromInv, PTL

\* Memory whose first byte is free overlaps the extent before its position or
\* the one at it (snapshot_arena.hpp:93).
LEMMA FreeOverlaps ==
  ASSUME IInv, NEW a \in Extent, a.size > 0, a.address \in FreeBytes,
         NEW p \in 1..(Len(free_) + 1), Position(a, p)
  PROVE  Overlaps(a, p)
<1>1. /\ Len(free_) \in Nat /\ a.address \in Nat /\ a.size \in Nat
      /\ \A k \in 1..Len(free_) : /\ free_[k].address \in Nat /\ free_[k].size \in Nat
                                  /\ EndOf(free_[k]) = free_[k].address + free_[k].size
  BY ExtentFacts DEF IInv, TypeOK, EndOf
<1>2. PICK i \in 1..Len(free_) : a.address \in Bytes(free_[i]) BY Zenon, BytesPointwise
<1>3. free_[i].address <= a.address /\ a.address < EndOf(free_[i])
  BY <1>1, <1>2 DEF Bytes
<1>4. \A j, k \in 1..Len(free_) : j < k => EndOf(free_[j]) < free_[k].address
  BY Zenon DEF IInv, Coalesced
<1>5. CASE free_[i].address < a.address
  <2>1. i < p
    <3>1. SUFFICES ASSUME p <= i PROVE FALSE BY <1>1
    <3>2. p \in 1..Len(free_) /\ free_[p].address >= a.address BY <1>1, <3>1 DEF Position
    <3>3. p # i BY <1>1, <1>5, <3>2
    <3>4. p < i BY <1>1, <3>1, <3>3
    <3>5. EndOf(free_[p]) < free_[i].address BY Zenon, <1>4, <3>2, <3>4
    <3> QED BY <1>1, <1>5, <3>2, <3>5
  <2>2. p - 1 \in 1..Len(free_) /\ i <= p - 1 BY <1>1, <2>1
  <2>3. free_[p - 1].address < a.address BY <1>1, <2>2 DEF Position
  <2>4. i = p - 1
    <3>1. SUFFICES ASSUME i < p - 1 PROVE FALSE BY <2>2
    <3>2. EndOf(free_[i]) < free_[p - 1].address BY Zenon, <1>4, <2>2, <3>1
    <3> QED BY <1>1, <1>3, <2>2, <2>3, <3>2
  <2>5. p # 1 BY <2>2
  <2> QED BY Zenon, <1>3, <2>4, <2>5 DEF Overlaps
<1>6. CASE free_[i].address = a.address
  <2>1. p <= i
    <3>1. SUFFICES ASSUME i < p PROVE FALSE BY <1>1
    <3>2. i \in 1..(p - 1) BY <1>1, <3>1
    <3>3. free_[i].address < a.address BY Zenon, <3>2 DEF Position
    <3> QED BY <1>1, <1>6, <3>3
  <2>2. p \in 1..Len(free_) /\ p # Len(free_) + 1 BY <1>1, <2>1
  <2>3. free_[p].address <= a.address
    <3>1. CASE p = i BY <1>1, <1>6, <3>1
    <3>2. CASE p < i
      <4>1. EndOf(free_[p]) < free_[i].address BY Zenon, <1>4, <2>2, <3>2
      <4> QED BY <1>1, <1>6, <2>2, <4>1
    <3> QED BY <1>1, <2>1, <3>1, <3>2
  <2>4. EndOf(a) > free_[p].address BY <1>1, <2>2, <2>3 DEF EndOf
  <2> QED BY Zenon, <2>2, <2>4 DEF Overlaps
<1> QED BY <1>1, <1>3, <1>5, <1>6

\* Whatever was released before, in whatever order, memory that is free is not
\* released a second time (snapshot_arena.hpp:76-123).
THEOREM NoDoubleRelease == Spec => []DoubleReleaseRefused
<1>1. IInv => DoubleReleaseRefused
  <2> SUFFICES ASSUME IInv,
                      NEW a \in [address : begin_..end_, size : 1..(end_ - begin_)],
                      Bytes(a) \subseteq FreeBytes
               PROVE  ReleaseRefused(a)
    BY Zenon DEF DoubleReleaseRefused
  <2>1. TypeOK /\ begin_ \in Nat /\ end_ \in Nat BY ArenaAssumption DEF IInv, TypeOK
  <2>2. a \in Extent /\ a.size > 0 BY <2>1 DEF Extent
  <2>3. a.address \in Bytes(a) BY <2>2 DEF Bytes, Extent
  <2>4. PICK p \in 1..(Len(free_) + 1) : Position(a, p) BY Zenon, <2>1, <2>2, PositionExists
  <2>5. Overlaps(a, p) BY Zenon, <2>2, <2>3, <2>4, FreeOverlaps
  <2> QED BY Zenon, <2>4, <2>5 DEF ReleaseRefused
<1> QED BY <1>1, ArenaInvariant, PTL

=============================================================================
