----------------------------- MODULE XenProofs ------------------------------
(***************************************************************************)
(* A guest of xen.  The xenstore rings for any size, any width of the      *)
(* indices and messages of any length; the setup of block devices for any  *)
(* number of drives and any first event channel.                           *)
(***************************************************************************)
EXTENDS Xen, Integers, SequenceTheorems, TLAPS

-----------------------------------------------------------------------------
(***************************************************************************)
(* xen-xs.c.  Requested and Coming, the request and the answer as          *)
(* sequences, are where a ring and what its two ends have or owe meet; the *)
(* first half says what copying, publishing and consuming do to the content *)
(* of a ring, the second has one lemma for each step of either end.  The   *)
(* invariant StoreInv says what each stage of xenbus_send() may find in the *)
(* two.                                                                    *)
(***************************************************************************)

(* Concatenation, element by element. *)
LEMMA Joined ==
  ASSUME NEW s \in Seq(Cell), NEW t \in Seq(Cell)
  PROVE  /\ s \o t \in Seq(Cell) /\ Len(s \o t) = Len(s) + Len(t)
         /\ Len(s) \in Nat /\ Len(t) \in Nat
         /\ \A i \in 1..Len(s) : (s \o t)[i] = s[i]
         /\ \A i \in 1..Len(t) : (s \o t)[Len(s) + i] = t[i]
<1>1. s \o t \in Seq(Cell) /\ Len(s) \in Nat /\ Len(t) \in Nat
  BY ConcatProperties
<1>2. Len(s \o t) = Len(s) + Len(t)
  BY ConcatProperties
<1>3. \A i \in 1..(Len(s) + Len(t)) :
        (s \o t)[i] = IF i <= Len(s) THEN s[i] ELSE t[i - Len(s)]
  BY ConcatProperties
<1> QED BY <1>1, <1>2, <1>3

(* Concatenation may be regrouped. *)
LEMMA Regrouped ==
  ASSUME NEW s \in Seq(Cell), NEW t \in Seq(Cell), NEW u \in Seq(Cell)
  PROVE  (s \o t) \o u = s \o (t \o u)
BY ConcatAssociative

(* Cutting a sequence in two. *)
LEMMA Split ==
  ASSUME NEW s \in Seq(Cell), NEW n \in 0..Len(s)
  PROVE  /\ SubSeq(s, 1, n) \in Seq(Cell) /\ SubSeq(s, n + 1, Len(s)) \in Seq(Cell)
         /\ Len(SubSeq(s, 1, n)) = n /\ Len(SubSeq(s, n + 1, Len(s))) = Len(s) - n
         /\ \A i \in 1..n : SubSeq(s, 1, n)[i] = s[i]
         /\ SubSeq(s, 1, n) \o SubSeq(s, n + 1, Len(s)) = s
<1>1. SubSeq(s, 1, n) \in Seq(Cell) /\ Len(SubSeq(s, 1, n)) = n
  OBVIOUS
<1>2. SubSeq(s, n + 1, Len(s)) \in Seq(Cell) /\ Len(SubSeq(s, n + 1, Len(s))) = Len(s) - n
  OBVIOUS
<1>3. \A i \in 1..n : SubSeq(s, 1, n)[i] = s[i]
  OBVIOUS
<1>4. SubSeq(s, 1, n) \o SubSeq(s, n + 1, Len(s)) = SubSeq(s, 1, Len(s))
  <2>1. Len(s) \in Nat /\ 1 \in 1..(Len(s) + 1) /\ n \in (1 - 1)..Len(s) /\ Len(s) \in n..Len(s)
    OBVIOUS
  <2> QED BY <2>1, ConcatAdjacentSubSeq
<1>5. SubSeq(s, 1, Len(s)) = s
  BY SubSeqFull
<1> QED BY <1>1, <1>2, <1>3, <1>4, <1>5

USE XenStoreAssumption DEF XenStoreAssumption

Idx == 0..(IdxMod - 1)
Slot == 0..(RingSize - 1)

(* Remainders of a multiple and something small, and what division leaves. *)
LEMMA ModMultiple ==
  ASSUME NEW m \in Nat \ {0}, NEW k \in Int, NEW a \in 0..(m - 1)
  PROVE  (k * m + a) % m = a
OBVIOUS

(* A number is what its quotient and remainder make. *)
LEMMA DivMod ==
  ASSUME NEW m \in Nat \ {0}, NEW a \in Int
  PROVE  a = (a \div m) * m + (a % m) /\ a \div m \in Int /\ a % m \in 0..(m - 1)
OBVIOUS

(* The same, of an index and the ring. *)
LEMMA MaskDiv ==
  ASSUME NEW i \in Nat
  PROVE  i = (i \div RingSize) * RingSize + Mask(i) /\ i \div RingSize \in Int
BY DivMod DEF Mask

(* The u32 difference of two indices, without the wrap. *)
LEMMA SubIs ==
  ASSUME NEW p \in Idx, NEW c \in Idx
  PROVE  Sub(p, c) = (IF p >= c THEN p - c ELSE p + IdxMod - c) /\ Sub(p, c) \in Idx
<1>1. CASE p >= c
  <2> DEFINE r == p - c
  <2>1. r \in 0..(IdxMod - 1) /\ p + IdxMod - c = 1 * IdxMod + r
    BY <1>1 DEF Idx
  <2>2. (1 * IdxMod + r) % IdxMod = r
    <3> HIDE DEF r
    <3> QED BY <2>1, ModMultiple
  <2> QED BY <1>1, <2>1, <2>2 DEF Sub, Idx
<1>2. CASE p < c
  <2> DEFINE r == p + IdxMod - c
  <2>1. r \in 0..(IdxMod - 1) /\ r = 0 * IdxMod + r
    BY <1>2 DEF Idx
  <2>2. r % IdxMod = r
    <3> HIDE DEF r
    <3> QED BY <2>1, ModMultiple
  <2> QED BY <1>2, <2>1, <2>2 DEF Sub, Idx
<1> QED BY <1>1, <1>2 DEF Idx

(* It is a number, and 0 only of an index and itself. *)
LEMMA SubNat ==
  ASSUME NEW p \in Idx, NEW c \in Idx
  PROVE  Sub(p, c) \in Nat /\ (Sub(p, c) = 0 <=> p = c)
<1>1. Sub(p, c) = IF p >= c THEN p - c ELSE p + IdxMod - c
  BY SubIs
<1> QED BY <1>1 DEF Idx

(* The u32 sum, without the wrap. *)
LEMMA AddIs ==
  ASSUME NEW p \in Idx, NEW n \in 0..RingSize
  PROVE  Add(p, n) = (IF p + n < IdxMod THEN p + n ELSE p + n - IdxMod) /\ Add(p, n) \in Idx
<1>1. CASE p + n < IdxMod
  <2>1. p + n \in 0..(IdxMod - 1) /\ p + n = 0 * IdxMod + (p + n)
    BY <1>1 DEF Idx
  <2> QED BY <1>1, <2>1, ModMultiple DEF Add, Idx
<1>2. CASE p + n >= IdxMod
  <2> DEFINE r == p + n - IdxMod
  <2>1. r \in 0..(IdxMod - 1) /\ p + n = 1 * IdxMod + r
    BY <1>2 DEF Idx
  <2>2. (1 * IdxMod + r) % IdxMod = r
    <3> HIDE DEF r
    <3> QED BY <2>1, ModMultiple
  <2> QED BY <1>2, <2>1, <2>2 DEF Add, Idx
<1> QED BY <1>1, <1>2 DEF Idx

(* The wrap of the indices is none for the ring. *)
LEMMA MaskIs ==
  ASSUME NEW i \in Nat
  PROVE  Mask(i) \in Slot /\ Mask(i + IdxMod) = Mask(i)
<1> DEFINE a == i \div RingSize
           q == IdxMod \div RingSize
<1>1. i = a * RingSize + Mask(i) /\ a \in Int /\ Mask(i) \in 0..(RingSize - 1)
  BY DivMod DEF Mask
<1>2. IdxMod = q * RingSize /\ q \in Int
  BY DivMod
<1> HIDE DEF a, q
<1>3. i + IdxMod = (a + q) * RingSize + Mask(i)
  BY <1>1, <1>2
<1>4. ((a + q) * RingSize + Mask(i)) % RingSize = Mask(i)
  <2>1. a + q \in Int
    BY <1>1, <1>2
  <2> QED BY <1>1, <2>1, ModMultiple
<1> QED BY <1>1, <1>3, <1>4 DEF Mask, Slot

(* A cell is its own place. *)
LEMMA MaskSmall == \A i \in Slot : Mask(i) = i
<1> TAKE i \in Slot
<1>1. i \in 0..(RingSize - 1) /\ i = 0 * RingSize + i
  BY DEF Slot
<1>2. (0 * RingSize + i) % RingSize = i
  BY <1>1, ModMultiple
<1> QED BY <1>1, <1>2 DEF Mask

(* A chunk that does not cross the end lies in successive cells. *)
LEMMA MaskNext ==
  ASSUME NEW i \in Nat, NEW k \in Nat, Mask(i) + k < RingSize
  PROVE  Mask(i + k) = Mask(i) + k
<1> DEFINE a == i \div RingSize
<1>1. i = a * RingSize + Mask(i) /\ a \in Int /\ Mask(i) \in 0..(RingSize - 1)
  BY DivMod DEF Mask
<1> HIDE DEF a
<1>2. i + k = a * RingSize + (Mask(i) + k) /\ Mask(i) + k \in 0..(RingSize - 1)
  BY <1>1
<1>3. (a * RingSize + (Mask(i) + k)) % RingSize = Mask(i) + k
  BY <1>1, <1>2, ModMultiple
<1> QED BY <1>2, <1>3 DEF Mask

(* Fewer cells than the ring has are different cells. *)
LEMMA MaskDiffers ==
  ASSUME NEW i \in Nat, NEW j \in Nat, i < j, j - i < RingSize
  PROVE  Mask(i) # Mask(j)
<1> SUFFICES ASSUME Mask(i) = Mask(j) PROVE FALSE
  OBVIOUS
<1> DEFINE a == i \div RingSize
           b == j \div RingSize
<1>1. i = a * RingSize + Mask(i) /\ a \in Int /\ Mask(i) \in 0..(RingSize - 1)
  BY DivMod DEF Mask
<1>2. j = b * RingSize + Mask(i) /\ b \in Int
  BY DivMod DEF Mask
<1> HIDE DEF a, b
<1>3. j - i = (b - a) * RingSize
  BY <1>1, <1>2
<1> DEFINE d == b - a
<1>4. d \in Int /\ j - i = d * RingSize
  BY <1>1, <1>2, <1>3
<1> HIDE DEF d
<1>5. CASE d <= 0
  BY <1>4, <1>5
<1>6. CASE d >= 1
  <2>1. d * RingSize >= RingSize
    BY <1>4, <1>6
  <2> QED BY <1>4, <2>1
<1> QED BY <1>4, <1>5, <1>6

(* The cells of a message may be counted from either end of the ring. *)
LEMMA MaskFrom ==
  ASSUME NEW p \in Idx, NEW c \in Idx, NEW k \in Nat
  PROVE  Mask(c + Sub(p, c) + k) = Mask(p + k)
<1>1. CASE p >= c
  BY <1>1, SubIs DEF Idx
<1>2. CASE p < c
  <2>1. c + Sub(p, c) + k = (p + k) + IdxMod
    BY <1>2, SubIs DEF Idx
  <2> QED BY <2>1, MaskIs DEF Idx
<1> QED BY <1>1, <1>2 DEF Idx

(* Moving an index moves the place. *)
LEMMA MaskAdd ==
  ASSUME NEW c \in Idx, NEW n \in 0..RingSize, NEW k \in Nat
  PROVE  Mask(Add(c, n) + k) = Mask(c + n + k)
<1>1. CASE c + n < IdxMod
  BY <1>1, AddIs
<1>2. CASE c + n >= IdxMod
  <2>1. c + n + k = (Add(c, n) + k) + IdxMod /\ Add(c, n) + k \in Nat
    <3>1. Add(c, n) = c + n - IdxMod /\ Add(c, n) \in Idx
      BY <1>2, AddIs DEF Idx
    <3> QED BY <3>1 DEF Idx
  <2> QED BY <2>1, MaskIs
<1> QED BY <1>1, <1>2 DEF Idx

(* Which of the daemon's cells goes where: cell i of the ring gets the one  *)
(* this far behind the producer.                                           *)
LEMMA MaskForth ==
  ASSUME NEW p \in Nat, NEW i \in Slot
  PROVE  /\ Mask(i + RingSize - Mask(p)) \in Slot
         /\ Mask(p + Mask(i + RingSize - Mask(p))) = i
<1> DEFINE k == Mask(i + RingSize - Mask(p))
           a == p \div RingSize
           b == (i + RingSize - Mask(p)) \div RingSize
<1>1. Mask(p) \in Slot /\ i + RingSize - Mask(p) \in Nat
  <2>1. Mask(p) \in Slot
    BY MaskIs
  <2> QED BY <2>1 DEF Slot
<1>2. p = a * RingSize + Mask(p) /\ a \in Int
  BY DivMod DEF Mask
<1>3. i + RingSize - Mask(p) = b * RingSize + k /\ b \in Int
  BY <1>1, MaskDiv
<1>4. k \in Slot
  BY <1>1, MaskIs
<1> HIDE DEF a, b, k
<1>5. p + k = (a + 1 - b) * RingSize + i
  BY <1>1, <1>2, <1>3, <1>4 DEF Slot
<1>6. ((a + 1 - b) * RingSize + i) % RingSize = i
  <2>1. a + 1 - b \in Int
    BY <1>2, <1>3
  <2> QED BY <2>1, ModMultiple DEF Slot
<1> QED BY <1>4, <1>5, <1>6 DEF k, Mask

(* And the cell that far behind the producer is cell i. *)
LEMMA MaskBack ==
  ASSUME NEW p \in Nat, NEW j \in Slot
  PROVE  Mask(Mask(p + j) + RingSize - Mask(p)) = j
<1> DEFINE i == Mask(p + j)
           k == Mask(i + RingSize - Mask(p))
<1>1. i \in Slot /\ p + j \in Nat
  <2>1. p + j \in Nat
    BY DEF Slot
  <2> QED BY <2>1, MaskIs
<1>2. k \in Slot /\ Mask(p + k) = Mask(p + j)
  <2> HIDE DEF i
  <2>1. k \in Slot /\ Mask(p + k) = i
    BY <1>1, MaskForth
  <2> QED BY <2>1 DEF i
<1> HIDE DEF k
<1>3. ~(k < j) /\ ~(j < k)
  <2>1. p + k \in Nat
    BY <1>2 DEF Slot
  <2>2. CASE k < j
    <3>1. p + k < p + j /\ (p + j) - (p + k) < RingSize
      BY <1>2, <2>2 DEF Slot
    <3> QED BY <1>1, <1>2, <2>1, <3>1, MaskDiffers
  <2>3. CASE j < k
    <3>1. p + j < p + k /\ (p + k) - (p + j) < RingSize
      BY <1>2, <2>3 DEF Slot
    <3> QED BY <1>1, <1>2, <2>1, <3>1, MaskDiffers
  <2> QED BY <2>2, <2>3
<1> QED BY <1>2, <1>3 DEF k, Slot

(* Moving an index moves the distance between the two. *)
LEMMA SubAddConsumer ==
  ASSUME NEW p \in Idx, NEW c \in Idx, NEW n \in 0..RingSize, n <= Sub(p, c)
  PROVE  Sub(p, Add(c, n)) = Sub(p, c) - n
<1>1. Add(c, n) = (IF c + n < IdxMod THEN c + n ELSE c + n - IdxMod) /\ Add(c, n) \in Idx
  BY AddIs
<1>2. /\ Sub(p, c) = IF p >= c THEN p - c ELSE p + IdxMod - c
      /\ Sub(p, Add(c, n)) = IF p >= Add(c, n) THEN p - Add(c, n) ELSE p + IdxMod - Add(c, n)
  BY <1>1, SubIs
<1> QED BY <1>1, <1>2 DEF Idx

(* The producer adds to it. *)
LEMMA SubAddProducer ==
  ASSUME NEW p \in Idx, NEW c \in Idx, NEW n \in 0..RingSize, Sub(p, c) + n < RingSize
  PROVE  Sub(Add(p, n), c) = Sub(p, c) + n
<1>1. Add(p, n) = (IF p + n < IdxMod THEN p + n ELSE p + n - IdxMod) /\ Add(p, n) \in Idx
  BY AddIs
<1>2. /\ Sub(p, c) = IF p >= c THEN p - c ELSE p + IdxMod - c
      /\ Sub(Add(p, n), c) = IF Add(p, n) >= c THEN Add(p, n) - c ELSE Add(p, n) + IdxMod - c
  BY <1>1, SubIs
<1> QED BY <1>1, <1>2 DEF Idx

(* The clamps are minima of numbers. *)
LEMMA LeastOf ==
  ASSUME NEW a \in Int, NEW b \in Int, NEW c \in Int
  PROVE  /\ Min({a, b, c}) \in {a, b, c}
         /\ Min({a, b, c}) <= a /\ Min({a, b, c}) <= b /\ Min({a, b, c}) <= c
<1>1. \E x \in {a, b, c} : \A y \in {a, b, c} : x <= y
  OBVIOUS
<1> QED BY <1>1 DEF Min

-----------------------------------------------------------------------------
(* The content of a ring, as a sequence. *)
LEMMA ContentIs ==
  ASSUME NEW ring \in [Slot -> Cell], NEW c \in Idx, NEW p \in Idx
  PROVE  /\ Content(ring, c, p) \in Seq(Cell)
         /\ Len(Content(ring, c, p)) = Sub(p, c)
         /\ \A i \in 1..Sub(p, c) : Content(ring, c, p)[i] = ring[Mask(c + i - 1)]
<1>1. Sub(p, c) \in Nat
  BY SubIs DEF Idx
<1>2. ASSUME NEW i \in 1..Sub(p, c) PROVE ring[Mask(c + i - 1)] \in Cell
  <2>1. c + i - 1 \in Nat
    BY <1>1 DEF Idx
  <2>2. Mask(c + i - 1) \in Slot
    BY <2>1, MaskIs
  <2> QED BY <2>2
<1>3. Content(ring, c, p) \in [1..Sub(p, c) -> Cell]
  BY <1>2 DEF Content
<1>4. Content(ring, c, p) \in Seq(Cell) /\ Len(Content(ring, c, p)) = Sub(p, c)
  BY <1>1, <1>3
<1> QED BY <1>4 DEF Content

(* Consuming n cells takes them off the front. *)
LEMMA ContentConsume ==
  ASSUME NEW ring \in [Slot -> Cell], NEW c \in Idx, NEW p \in Idx,
         NEW n \in 0..RingSize, n <= Sub(p, c)
  PROVE  /\ Len(Content(ring, Add(c, n), p)) = Sub(p, c) - n
         /\ Content(ring, Add(c, n), p) \in Seq(Cell)
         /\ \A i \in 1..(Sub(p, c) - n) :
              Content(ring, Add(c, n), p)[i] = Content(ring, c, p)[i + n]
<1>1. Add(c, n) \in Idx /\ Sub(p, Add(c, n)) = Sub(p, c) - n /\ Sub(p, c) \in Nat
  BY AddIs, SubIs, SubAddConsumer DEF Idx
<1>2. ASSUME NEW i \in 1..(Sub(p, c) - n)
      PROVE  Content(ring, Add(c, n), p)[i] = Content(ring, c, p)[i + n]
  <2>1. Mask(Add(c, n) + (i - 1)) = Mask(c + n + (i - 1))
    <3>1. i - 1 \in Nat
      BY <1>1
    <3> QED BY <3>1, MaskAdd
  <2>2. Content(ring, Add(c, n), p)[i] = ring[Mask(Add(c, n) + i - 1)]
    <3> DEFINE d == Add(c, n)
    <3>1. d \in Idx /\ i \in 1..Sub(p, d)
      BY <1>1
    <3> HIDE DEF d
    <3>2. \A k \in 1..Sub(p, d) : Content(ring, d, p)[k] = ring[Mask(d + k - 1)]
      BY ZenonT(60), <3>1, ContentIs
    <3> QED BY <3>1, <3>2 DEF d
  <2>3. i + n \in 1..Sub(p, c)
    BY <1>1
  <2>4. Content(ring, c, p)[i + n] = ring[Mask(c + (i + n) - 1)]
    BY <2>3, ContentIs
  <2>5. Add(c, n) + (i - 1) = Add(c, n) + i - 1 /\ c + n + (i - 1) = c + (i + n) - 1
    BY <1>1 DEF Idx
  <2> QED BY <2>1, <2>2, <2>4, <2>5
<1> QED BY <1>1, <1>2, ContentIs

(* Publishing n cells puts them at the end. *)
LEMMA ContentPublish ==
  ASSUME NEW ring \in [Slot -> Cell], NEW c \in Idx, NEW p \in Idx,
         NEW n \in 0..RingSize, Sub(p, c) + n < RingSize
  PROVE  /\ Len(Content(ring, c, Add(p, n))) = Sub(p, c) + n
         /\ Content(ring, c, Add(p, n)) \in Seq(Cell)
         /\ \A i \in 1..Sub(p, c) : Content(ring, c, Add(p, n))[i] = Content(ring, c, p)[i]
         /\ \A k \in 1..n : Content(ring, c, Add(p, n))[Sub(p, c) + k] = ring[Mask(p + k - 1)]
<1>1. Add(p, n) \in Idx /\ Sub(Add(p, n), c) = Sub(p, c) + n /\ Sub(p, c) \in Nat
  BY AddIs, SubIs, SubAddProducer DEF Idx
<1>2. \A i \in 1..(Sub(p, c) + n) : Content(ring, c, Add(p, n))[i] = ring[Mask(c + i - 1)]
  <2> DEFINE q == Add(p, n)
  <2>1. q \in Idx /\ Sub(q, c) = Sub(p, c) + n
    BY <1>1
  <2> HIDE DEF q
  <2>2. \A i \in 1..Sub(q, c) : Content(ring, c, q)[i] = ring[Mask(c + i - 1)]
    BY ZenonT(60), <2>1, ContentIs
  <2> QED BY <2>1, <2>2 DEF q
<1>3. ASSUME NEW i \in 1..Sub(p, c)
      PROVE  Content(ring, c, Add(p, n))[i] = Content(ring, c, p)[i]
  <2>1. Content(ring, c, p)[i] = ring[Mask(c + i - 1)]
    BY ContentIs
  <2>2. i \in 1..(Sub(p, c) + n)
    BY <1>1
  <2> QED BY <1>2, <2>1, <2>2
<1>4. ASSUME NEW k \in 1..n
      PROVE  Content(ring, c, Add(p, n))[Sub(p, c) + k] = ring[Mask(p + k - 1)]
  <2>1. Sub(p, c) + k \in 1..(Sub(p, c) + n)
    BY <1>1
  <2>2. Mask(c + Sub(p, c) + (k - 1)) = Mask(p + (k - 1))
    <3>1. k - 1 \in Nat
      OBVIOUS
    <3> QED BY <3>1, MaskFrom
  <2>3. c + Sub(p, c) + (k - 1) = c + (Sub(p, c) + k) - 1 /\ p + (k - 1) = p + k - 1
    BY <1>1 DEF Idx
  <2> QED BY <1>2, <2>1, <2>2, <2>3
<1> QED BY <1>1, <1>3, <1>4, ContentIs

(* A store into one of the cells behind the content leaves the content.    *)
LEMMA ContentStays ==
  ASSUME NEW ring \in [Slot -> Cell], NEW c \in Idx, NEW p \in Idx,
         NEW new \in [Slot -> Cell], NEW n \in 0..RingSize, Sub(p, c) + n < RingSize,
         \A i \in Slot : new[i] = ring[i] \/ \E k \in 0..(n - 1) : i = Mask(p + k)
  PROVE  Content(new, c, p) = Content(ring, c, p)
<1>1. Sub(p, c) \in Nat
  BY SubIs DEF Idx
<1>2. ASSUME NEW i \in 1..Sub(p, c) PROVE new[Mask(c + i - 1)] = ring[Mask(c + i - 1)]
  <2>1. c + i - 1 \in Nat /\ Mask(c + i - 1) \in Slot
    <3>1. c + i - 1 \in Nat
      BY <1>1 DEF Idx
    <3> QED BY <3>1, MaskIs
  <2>2. ASSUME NEW k \in 0..(n - 1) PROVE Mask(c + i - 1) # Mask(p + k)
    <3>1. Mask(c + Sub(p, c) + k) = Mask(p + k)
      BY MaskFrom
    <3>2. /\ c + Sub(p, c) + k \in Nat
          /\ c + i - 1 < c + Sub(p, c) + k
          /\ (c + Sub(p, c) + k) - (c + i - 1) < RingSize
      BY <1>1 DEF Idx
    <3> QED BY <2>1, <3>1, <3>2, MaskDiffers
  <2> QED BY <2>1, <2>2
<1> QED BY <1>2 DEF Content

(* Messages: a header and a payload. *)
LEMMA Cells ==
  ASSUME NEW i \in Ids
  PROVE  /\ \A n \in 0..MaxLen, t \in {"ask", "answer"} \cup Errors :
              Hdr(i, n, t) \in Cell /\ Hdr(i, n, t).id = i /\ Hdr(i, n, t).len = n
              /\ Hdr(i, n, t).type = t
         /\ \A k \in 0..MaxLen :
              Byte(i, k) \in Cell /\ Byte(i, k).id = i /\ Byte(i, k).type = "data"
         /\ Blank \in Cell /\ MaxLen \in Nat \ {0}
<1>1. MaxLen \in Nat \ {0}
  BY DEF MaxLen
<1> QED BY <1>1 DEF Hdr, Byte, Blank, Cell, Ids

(* The cells of a message, one by one. *)
LEMMA MessageIs ==
  ASSUME NEW i \in Ids, NEW n \in 1..MaxLen, NEW t \in {"ask", "answer"} \cup Errors
  PROVE  /\ Message(i, n, t) \in Seq(Cell) /\ Len(Message(i, n, t)) = n + 1
         /\ Message(i, n, t)[1] = Hdr(i, n, t)
         /\ \A k \in 2..(n + 1) : Message(i, n, t)[k].id = i /\ Message(i, n, t)[k].type = "data"
<1> DEFINE first == <<Hdr(i, n, t)>>
           body == [k \in 1..n |-> Byte(i, k)]
<1>1. first \in Seq(Cell) /\ Len(first) = 1 /\ first[1] = Hdr(i, n, t)
  BY Cells
<1>2. body \in [1..n -> Cell] /\ n \in Nat /\ n <= MaxLen
  BY Cells
<1>3. body \in Seq(Cell) /\ Len(body) = n
  BY <1>2
<1>4. \A k \in 1..n : body[k].id = i /\ body[k].type = "data"
  BY <1>2, Cells
<1>5. Message(i, n, t) = first \o body
  BY DEF Message
<1> HIDE DEF first, body
<1>6. /\ first \o body \in Seq(Cell) /\ Len(first \o body) = Len(first) + Len(body)
      /\ Len(first) \in Nat /\ Len(body) \in Nat
      /\ \A k \in 1..Len(first) : (first \o body)[k] = first[k]
      /\ \A k \in 1..Len(body) : (first \o body)[Len(first) + k] = body[k]
  BY <1>1, <1>3, Joined, Zenon
<1>7. ASSUME NEW k \in 2..(n + 1)
      PROVE  (first \o body)[k].id = i /\ (first \o body)[k].type = "data"
  <2>1. k - 1 \in 1..n /\ 1 + (k - 1) = k
    BY <1>2
  <2>2. (first \o body)[1 + (k - 1)] = body[k - 1]
    BY <1>1, <1>3, <1>6, <2>1
  <2> QED BY <1>4, <2>1, <2>2
<1> QED BY <1>1, <1>2, <1>3, <1>5, <1>6, <1>7

(* The daemon may take n cells out of the ring: behind what it has, they   *)
(* are where they were.                                                    *)
LEMMA Taken ==
  ASSUME NEW ring \in [Slot -> Cell], NEW c \in Idx, NEW p \in Idx,
         NEW n \in 0..RingSize, n <= Sub(p, c), NEW g \in Seq(Cell)
  PROVE  /\ g \o SubSeq(Content(ring, c, p), 1, n) \in Seq(Cell)
         /\ Len(g \o SubSeq(Content(ring, c, p), 1, n)) = Len(g) + n
         /\ (g \o SubSeq(Content(ring, c, p), 1, n)) \o Content(ring, Add(c, n), p)
              = g \o Content(ring, c, p)
<1> DEFINE whole == Content(ring, c, p)
           front == SubSeq(whole, 1, n)
           rest == Content(ring, Add(c, n), p)
<1>1. whole \in Seq(Cell) /\ Len(whole) = Sub(p, c) /\ Sub(p, c) \in Nat
  <2>1. Sub(p, c) \in Nat
    BY SubIs DEF Idx
  <2> QED BY <2>1, ContentIs
<1>2. /\ rest \in Seq(Cell) /\ Len(rest) = Sub(p, c) - n
      /\ \A i \in 1..(Sub(p, c) - n) : rest[i] = whole[i + n]
  BY ContentConsume
<1> HIDE DEF whole, rest
<1>3. front \in Seq(Cell) /\ Len(front) = n /\ \A i \in 1..n : front[i] = whole[i]
  BY <1>1
<1> HIDE DEF front
<1>4. front \o rest = whole
  <2>1. /\ front \o rest \in Seq(Cell) /\ Len(front \o rest) = Len(front) + Len(rest)
        /\ Len(front) \in Nat /\ Len(rest) \in Nat
        /\ \A i \in 1..Len(front) : (front \o rest)[i] = front[i]
        /\ \A i \in 1..Len(rest) : (front \o rest)[Len(front) + i] = rest[i]
    BY <1>2, <1>3, Joined, Zenon
  <2>2. Len(front \o rest) = Len(whole)
    BY <1>1, <1>2, <1>3, <2>1
  <2>3. ASSUME NEW i \in 1..Len(front \o rest) PROVE (front \o rest)[i] = whole[i]
    <3>1. CASE i <= n
      BY <1>3, <2>1, <3>1
    <3>2. CASE i > n
      <4>1. i - n \in 1..Len(rest) /\ n + (i - n) = i /\ (i - n) + n = i
        BY <1>1, <1>2, <2>2, <3>2
      <4>2. (front \o rest)[n + (i - n)] = rest[i - n] /\ rest[i - n] = whole[(i - n) + n]
        BY <1>2, <1>3, <2>1, <4>1
      <4> QED BY <4>1, <4>2
    <3> QED BY <3>1, <3>2
  <2> QED BY <1>1, <2>1, <2>2, <2>3, SeqEqual, Zenon
<1>5. /\ g \o front \in Seq(Cell) /\ Len(g \o front) = Len(g) + Len(front)
  BY <1>3, Joined, Zenon
<1>6. (g \o front) \o rest = g \o (front \o rest)
  BY <1>2, <1>3, Regrouped, Zenon
<1> QED BY <1>3, <1>4, <1>5, <1>6 DEF front, whole, rest

(* new is ring with the first n cells of o copied in from index p on. *)
Copied(new, ring, p, n, o) ==
  /\ \A i \in Slot : new[i] = ring[i] \/ \E k \in 0..(n - 1) : i = Mask(p + k)
  /\ \A k \in 1..n : new[Mask(p + k - 1)] = o[k]

(* What is left of o behind its first n cells, and a ring with o behind it. *)
Uncopied(o, n) == SubSeq(o, n + 1, Len(o))
AllOf(ring, c, p, o) == Content(ring, c, p) \o o

(* Or put n cells of what it still owes into the ring. *)
LEMMA Given ==
  ASSUME NEW ring \in [Slot -> Cell], NEW c \in Idx, NEW p \in Idx,
         NEW n \in 0..RingSize, Sub(p, c) + n < RingSize,
         NEW o \in Seq(Cell), n <= Len(o), NEW new \in [Slot -> Cell],
         Copied(new, ring, p, n, o)
  PROVE  /\ Uncopied(o, n) \in Seq(Cell)
         /\ AllOf(new, c, Add(p, n), Uncopied(o, n)) = AllOf(ring, c, p, o)
<1> DEFINE old == Content(ring, c, p)
           whole == Content(new, c, Add(p, n))
           front == SubSeq(o, 1, n)
           rest == SubSeq(o, n + 1, Len(o))
<1>1. Content(new, c, p) = Content(ring, c, p)
  <2>1. \A i \in Slot : new[i] = ring[i] \/ \E k \in 0..(n - 1) : i = Mask(p + k)
    BY DEF Copied
  <2>2. /\ ring \in [Slot -> Cell] /\ c \in Idx /\ p \in Idx /\ new \in [Slot -> Cell]
        /\ n \in 0..RingSize /\ Sub(p, c) + n < RingSize
    OBVIOUS
  <2> QED BY ONLY <2>1, <2>2, ContentStays
<1>2. old \in Seq(Cell) /\ Len(old) = Sub(p, c) /\ Sub(p, c) \in Nat
  <2>1. Sub(p, c) \in Nat
    BY SubIs DEF Idx
  <2> QED BY <2>1, ContentIs
<1>3. /\ Len(whole) = Sub(p, c) + n /\ whole \in Seq(Cell)
      /\ \A i \in 1..Sub(p, c) : whole[i] = old[i]
      /\ \A k \in 1..n : whole[Sub(p, c) + k] = o[k]
  <2>1. \A k \in 1..n : new[Mask(p + k - 1)] = o[k]
    BY DEF Copied
  <2>2. /\ Len(whole) = Sub(p, c) + n /\ whole \in Seq(Cell)
        /\ \A i \in 1..Sub(p, c) : whole[i] = Content(new, c, p)[i]
        /\ \A k \in 1..n : whole[Sub(p, c) + k] = new[Mask(p + k - 1)]
    BY ContentPublish
  <2> QED BY <1>1, <2>1, <2>2
<1> HIDE DEF old, whole
<1>4. front \in Seq(Cell) /\ Len(front) = n /\ \A i \in 1..n : front[i] = o[i]
  BY Split
<1>5. rest \in Seq(Cell) /\ front \o rest = o
  <2>1. n \in 0..Len(o)
    OBVIOUS
  <2>2. SubSeq(o, n + 1, Len(o)) \in Seq(Cell)
    BY <2>1, Split
  <2>3. SubSeq(o, 1, n) \o SubSeq(o, n + 1, Len(o)) = o
    BY <2>1, Split
  <2> QED BY <2>2, <2>3
<1> HIDE DEF front, rest
<1>6. old \o front = whole
  <2>1. /\ old \o front \in Seq(Cell) /\ Len(old \o front) = Len(old) + Len(front)
        /\ Len(old) \in Nat /\ Len(front) \in Nat
        /\ \A i \in 1..Len(old) : (old \o front)[i] = old[i]
        /\ \A i \in 1..Len(front) : (old \o front)[Len(old) + i] = front[i]
    BY <1>2, <1>4, Joined, Zenon
  <2>2. Len(old \o front) = Len(whole)
    BY <1>2, <1>3, <1>4, <2>1
  <2>3. ASSUME NEW i \in 1..Len(old \o front) PROVE (old \o front)[i] = whole[i]
    <3>1. CASE i <= Sub(p, c)
      BY <1>2, <1>3, <2>1, <3>1
    <3>2. CASE i > Sub(p, c)
      <4>1. i - Sub(p, c) \in 1..n /\ Sub(p, c) + (i - Sub(p, c)) = i
        BY <1>2, <1>3, <2>2, <3>2
      <4>2. whole[Sub(p, c) + (i - Sub(p, c))] = o[i - Sub(p, c)]
        BY <1>3, <4>1
      <4>3. (old \o front)[Sub(p, c) + (i - Sub(p, c))] = front[i - Sub(p, c)]
        BY <1>2, <1>4, <2>1, <4>1
      <4> QED BY <1>4, <4>1, <4>2, <4>3
    <3> QED BY <1>2, <3>1, <3>2
  <2> QED BY <1>3, <2>1, <2>2, <2>3, SeqEqual, Zenon
<1>7. (old \o front) \o rest = old \o (front \o rest)
  <2>1. old \in Seq(Cell) /\ front \in Seq(Cell) /\ rest \in Seq(Cell)
    BY <1>2, <1>4, <1>5
  <2> QED BY ONLY <2>1, Regrouped
<1> QED BY <1>5, <1>6, <1>7 DEF old, whole, rest, AllOf, Uncopied

(* The guest publishes n cells behind the rest of the request. *)
LEMMA Appended ==
  ASSUME NEW ring \in [Slot -> Cell], NEW c \in Idx, NEW p \in Idx,
         NEW n \in 0..RingSize, Sub(p, c) + n < RingSize, NEW g \in Seq(Cell)
  PROVE  LET old == g \o Content(ring, c, p)
             new == g \o Content(ring, c, Add(p, n))
         IN  /\ Len(new) = Len(old) + n /\ Len(old) \in Nat
             /\ \A i \in 1..Len(old) : new[i] = old[i]
             /\ \A k \in 1..n : new[Len(old) + k] = ring[Mask(p + k - 1)]
<1> DEFINE old == g \o Content(ring, c, p)
           new == g \o Content(ring, c, Add(p, n))
           before == Content(ring, c, p)
           after == Content(ring, c, Add(p, n))
           s == Sub(p, c)
<1>1. before \in Seq(Cell) /\ Len(before) = s /\ s \in Nat
  BY ContentIs, SubNat
<1>2. /\ Len(after) = s + n /\ after \in Seq(Cell)
      /\ \A i \in 1..s : after[i] = before[i]
      /\ \A k \in 1..n : after[s + k] = ring[Mask(p + k - 1)]
  BY ContentPublish
<1>3. old = g \o before /\ new = g \o after
  OBVIOUS
<1> HIDE DEF before, after, s, old, new
<1>4. /\ old \in Seq(Cell) /\ Len(old) = Len(g) + Len(before)
      /\ Len(g) \in Nat /\ Len(before) \in Nat
      /\ \A i \in 1..Len(g) : old[i] = g[i]
      /\ \A i \in 1..Len(before) : old[Len(g) + i] = before[i]
  <2>1. /\ g \o before \in Seq(Cell) /\ Len(g \o before) = Len(g) + Len(before)
        /\ Len(g) \in Nat /\ Len(before) \in Nat
        /\ \A i \in 1..Len(g) : (g \o before)[i] = g[i]
        /\ \A i \in 1..Len(before) : (g \o before)[Len(g) + i] = before[i]
    BY <1>1, Joined, Zenon
  <2> QED BY <1>3, <2>1
<1>5. /\ new \in Seq(Cell) /\ Len(new) = Len(g) + Len(after)
      /\ Len(g) \in Nat /\ Len(after) \in Nat
      /\ \A i \in 1..Len(g) : new[i] = g[i]
      /\ \A i \in 1..Len(after) : new[Len(g) + i] = after[i]
  <2>1. /\ g \o after \in Seq(Cell) /\ Len(g \o after) = Len(g) + Len(after)
        /\ Len(g) \in Nat /\ Len(after) \in Nat
        /\ \A i \in 1..Len(g) : (g \o after)[i] = g[i]
        /\ \A i \in 1..Len(after) : (g \o after)[Len(g) + i] = after[i]
    BY <1>2, Joined, Zenon
  <2> QED BY <1>3, <2>1
<1>6. ASSUME NEW i \in 1..Len(old) PROVE new[i] = old[i]
  <2>1. CASE i <= Len(g)
    BY <1>4, <1>5, <2>1
  <2>2. CASE ~(i <= Len(g))
    <3> DEFINE k == i - Len(g)
    <3>1. k \in 1..s /\ Len(g) + k = i /\ k \in 1..Len(before) /\ k \in 1..Len(after)
      BY <1>1, <1>2, <1>4, <2>2
    <3> HIDE DEF k
    <3>2. new[Len(g) + k] = after[k] /\ after[k] = before[k] /\ old[Len(g) + k] = before[k]
      BY <1>2, <1>4, <1>5, <3>1
    <3> QED BY <3>1, <3>2
  <2> QED BY <2>1, <2>2
<1>7. ASSUME NEW k \in 1..n PROVE new[Len(old) + k] = ring[Mask(p + k - 1)]
  <2>1. s + k \in 1..Len(after) /\ Len(g) + (s + k) = Len(old) + k
    BY <1>1, <1>2, <1>4
  <2>2. new[Len(g) + (s + k)] = after[s + k]
    BY <1>5, <2>1
  <2> QED BY <1>2, <2>1, <2>2
<1>8. Len(new) = Len(old) + n /\ Len(old) \in Nat
  BY <1>1, <1>2, <1>4, <1>5
<1> QED BY <1>6, <1>7, <1>8 DEF old, new

(* The guest consumes the first n cells of the answer. *)
LEMMA Removed ==
  ASSUME NEW ring \in [Slot -> Cell], NEW c \in Idx, NEW p \in Idx,
         NEW n \in 0..RingSize, n <= Sub(p, c), NEW o \in Seq(Cell)
  PROVE  LET old == Content(ring, c, p) \o o
             new == Content(ring, Add(c, n), p) \o o
         IN  /\ Len(new) = Len(old) - n /\ Len(old) \in Nat /\ n <= Len(old)
             /\ \A i \in 1..(Len(old) - n) : new[i] = old[i + n]
<1> DEFINE old == Content(ring, c, p) \o o
           new == Content(ring, Add(c, n), p) \o o
           before == Content(ring, c, p)
           after == Content(ring, Add(c, n), p)
           s == Sub(p, c)
<1>1. before \in Seq(Cell) /\ Len(before) = s /\ s \in Nat
  BY ContentIs, SubNat
<1>2. /\ Len(after) = s - n /\ after \in Seq(Cell)
      /\ \A i \in 1..(s - n) : after[i] = before[i + n]
  BY ContentConsume
<1>3. old = before \o o /\ new = after \o o
  OBVIOUS
<1> HIDE DEF before, after, old, new
<1>4. /\ old \in Seq(Cell) /\ Len(old) = Len(before) + Len(o)
      /\ Len(before) \in Nat /\ Len(o) \in Nat
      /\ \A i \in 1..Len(before) : old[i] = before[i]
      /\ \A i \in 1..Len(o) : old[Len(before) + i] = o[i]
  <2>1. /\ before \o o \in Seq(Cell) /\ Len(before \o o) = Len(before) + Len(o)
        /\ Len(before) \in Nat /\ Len(o) \in Nat
        /\ \A i \in 1..Len(before) : (before \o o)[i] = before[i]
        /\ \A i \in 1..Len(o) : (before \o o)[Len(before) + i] = o[i]
    BY <1>1, Joined, Zenon
  <2> QED BY <1>3, <2>1
<1>5. /\ new \in Seq(Cell) /\ Len(new) = Len(after) + Len(o)
      /\ Len(after) \in Nat /\ Len(o) \in Nat
      /\ \A i \in 1..Len(after) : new[i] = after[i]
      /\ \A i \in 1..Len(o) : new[Len(after) + i] = o[i]
  <2>1. /\ after \o o \in Seq(Cell) /\ Len(after \o o) = Len(after) + Len(o)
        /\ Len(after) \in Nat /\ Len(o) \in Nat
        /\ \A i \in 1..Len(after) : (after \o o)[i] = after[i]
        /\ \A i \in 1..Len(o) : (after \o o)[Len(after) + i] = o[i]
    BY <1>2, Joined, Zenon
  <2> QED BY <1>3, <2>1
<1> HIDE DEF s
<1>6. n <= s
  BY DEF s
<1>7. ASSUME NEW i \in 1..(Len(old) - n) PROVE new[i] = old[i + n]
  <2>1. CASE i <= s - n
    <3>1. i \in 1..Len(after) /\ i + n \in 1..Len(before)
      BY <1>1, <1>2, <1>6, <2>1
    <3> QED BY <1>2, <1>4, <1>5, <2>1, <3>1
  <2>2. CASE ~(i <= s - n)
    <3> DEFINE k == i - (s - n)
    <3>1. k \in 1..Len(o) /\ Len(after) + k = i /\ Len(before) + k = i + n
      BY <1>1, <1>2, <1>4, <1>6, <2>2
    <3> HIDE DEF k
    <3>2. new[Len(after) + k] = o[k] /\ old[Len(before) + k] = o[k]
      BY <1>4, <1>5, <3>1
    <3> QED BY <3>1, <3>2
  <2> QED BY <2>1, <2>2
<1>8. Len(old) \in Nat /\ Len(old) = s + Len(o) /\ Len(new) = (s - n) + Len(o) /\ Len(o) \in Nat
  BY <1>1, <1>2, <1>4, <1>5
<1>9. Len(new) = Len(old) - n /\ n <= Len(old)
  BY <1>1, <1>6, <1>8
<1> QED BY <1>7, <1>8, <1>9 DEF old, new

-----------------------------------------------------------------------------
(* A request and its answer: what the daemon holds of one and what is in   *)
(* the ring, in order.                                                     *)
Requested == got \o Content(req, req_cons, req_prod)
Coming == Content(rsp, rsp_cons, rsp_prod) \o out

AnswerTypes == {"answer"} \cup Errors
IsData(c, i) == c.id = i /\ c.type = "data"
Asking == pc = "send" \/ stage = "rhdr"

Types ==
  /\ req \in [Slot -> Cell] /\ rsp \in [Slot -> Cell]
  /\ req_prod \in Idx /\ req_cons \in Idx /\ rsp_prod \in Idx /\ rsp_cons \in Idx
  /\ evtchn_pending \in BOOLEAN /\ kicked \in BOOLEAN
  /\ data \in Seq(Cell) /\ payload \in Seq(Cell) /\ got \in Seq(Cell) /\ out \in Seq(Cell)
  /\ len \in 0..MaxLen /\ part \in 0..len
  /\ id \in Ids /\ hdr \in Cell
  /\ result \in {"none", "answer", "nothing", "null"}

Stages ==
  /\ \/ pc = "idle" /\ stage = "none"
     \/ pc = "send" /\ stage = "wdata"
     \/ pc \in {"write", "written", "stuck", "wait"} /\ stage \in {"whdr", "wdata"}
     \/ pc \in {"read", "taken", "stuck", "wait"} /\ stage \in {"rhdr", "rdata"}
  /\ IF pc \in {"written", "taken"} THEN part >= 1 ELSE part = 0
  /\ stage \in {"whdr", "rhdr"} => len = 1

(* One cell of each ring stays free. *)
Room == Sub(req_prod, req_cons) < RingSize /\ Sub(rsp_prod, rsp_cons) < RingSize

(* The request, as far as it is published and not thrown away: its header  *)
(* says how much there will be.                                            *)
Asks ==
  /\ \A k \in 1..Len(Requested) :
       /\ Requested[k].id = id
       /\ Requested[k].type = IF k = 1 THEN "ask" ELSE "data"
  /\ stage = "whdr" =>
       /\ Len(Requested) = 0 /\ Len(data) >= 2 /\ data[1] = Hdr(id, Len(data) - 1, "ask")
       /\ Len(data) - 1 <= MaxLen
       /\ \A k \in 2..Len(data) : IsData(data[k], id)
  /\ stage = "wdata" /\ pc # "send" =>
       /\ len \in 1..Len(data) /\ Len(Requested) = 1 + Len(data) - len
       /\ Requested[1].len = Len(data)
       /\ \A k \in 1..Len(data) : IsData(data[k], id)
  /\ Asking /\ Len(Requested) > 0 => Len(Requested) = Requested[1].len + 1
  /\ stage \in {"none", "rdata"} => Len(Requested) = 0

(* The answer, as far as the guest has not consumed it. *)
Answers ==
  /\ Len(Requested) > 0 => Len(Coming) = 0
  /\ stage \in {"none", "whdr", "wdata"} /\ pc # "send" => Len(Coming) = 0
  /\ Asking /\ Len(Requested) = 0 =>
       /\ Len(Coming) >= 2 /\ Len(Coming) = Coming[1].len + 1
       /\ Coming[1].id = id /\ Coming[1].type \in AnswerTypes
       /\ \A j \in 2..Len(Coming) : IsData(Coming[j], id)
  /\ pc = "taken" /\ stage = "rhdr" => Len(Requested) = 0 /\ hdr = Coming[1]
  /\ stage = "rdata" =>
       /\ Len(Coming) = len /\ len \in 1..Len(payload)
       /\ \A j \in 1..Len(Coming) : IsData(Coming[j], id)
       /\ \A i \in 1..Len(payload) : payload[i] = Blank \/ IsData(payload[i], id)

(* The header and the payload the guest has, while and after it reads them. *)
Received ==
  /\ stage = "rdata" => hdr.id = id /\ hdr.type \in AnswerTypes
  /\ pc = "idle" => \A i \in 1..Len(payload) : payload[i] = Blank \/ IsData(payload[i], id)
  /\ pc = "idle" /\ result # "none" => hdr.id = id /\ hdr.type \in AnswerTypes

StoreInv ==
  Types /\ Stages /\ Room /\ ChunkPrivate /\ Asks /\ Answers /\ Received

(* What the two sequences hold, cell by cell. *)
LEMMA Streams ==
  ASSUME Types
  PROVE  /\ Requested \in Seq(Cell) /\ Len(Requested) = Len(got) + Sub(req_prod, req_cons)
         /\ \A i \in 1..Len(got) : Requested[i] = got[i]
         /\ \A i \in 1..Sub(req_prod, req_cons) :
              Requested[Len(got) + i] = req[Mask(req_cons + i - 1)]
         /\ Coming \in Seq(Cell) /\ Len(Coming) = Sub(rsp_prod, rsp_cons) + Len(out)
         /\ \A i \in 1..Sub(rsp_prod, rsp_cons) : Coming[i] = rsp[Mask(rsp_cons + i - 1)]
         /\ \A i \in 1..Len(out) : Coming[Sub(rsp_prod, rsp_cons) + i] = out[i]
         /\ Sub(req_prod, req_cons) \in Nat /\ Sub(rsp_prod, rsp_cons) \in Nat
         /\ Len(got) \in Nat /\ Len(out) \in Nat /\ Len(Requested) \in Nat /\ Len(Coming) \in Nat
<1> DEFINE asked == Content(req, req_cons, req_prod)
           due == Content(rsp, rsp_cons, rsp_prod)
<1>1. /\ req \in [Slot -> Cell] /\ rsp \in [Slot -> Cell]
      /\ req_prod \in Idx /\ req_cons \in Idx /\ rsp_prod \in Idx /\ rsp_cons \in Idx
      /\ got \in Seq(Cell) /\ out \in Seq(Cell)
  BY DEF Types
<1>2. Sub(req_prod, req_cons) \in Nat /\ Sub(rsp_prod, rsp_cons) \in Nat
  BY ONLY <1>1, SubNat
<1>3. /\ asked \in Seq(Cell) /\ Len(asked) = Sub(req_prod, req_cons)
      /\ \A i \in 1..Sub(req_prod, req_cons) : asked[i] = req[Mask(req_cons + i - 1)]
  BY ONLY <1>1, ContentIs
<1>4. /\ due \in Seq(Cell) /\ Len(due) = Sub(rsp_prod, rsp_cons)
      /\ \A i \in 1..Sub(rsp_prod, rsp_cons) : due[i] = rsp[Mask(rsp_cons + i - 1)]
  BY ONLY <1>1, ContentIs
<1> HIDE DEF asked, due
<1>5. /\ got \o asked \in Seq(Cell) /\ Len(got \o asked) = Len(got) + Len(asked)
      /\ Len(got) \in Nat /\ Len(asked) \in Nat
      /\ \A i \in 1..Len(got) : (got \o asked)[i] = got[i]
      /\ \A i \in 1..Len(asked) : (got \o asked)[Len(got) + i] = asked[i]
  BY <1>1, <1>3, Joined, Zenon
<1>6. /\ due \o out \in Seq(Cell) /\ Len(due \o out) = Len(due) + Len(out)
      /\ Len(due) \in Nat /\ Len(out) \in Nat
      /\ \A i \in 1..Len(due) : (due \o out)[i] = due[i]
      /\ \A i \in 1..Len(out) : (due \o out)[Len(due) + i] = out[i]
  BY <1>1, <1>4, Joined, Zenon
<1>7. Requested = got \o asked /\ Coming = due \o out
  BY DEF Requested, Coming, asked, due
<1>8. /\ Requested \in Seq(Cell) /\ Len(Requested) = Len(got) + Sub(req_prod, req_cons)
      /\ Len(got) \in Nat /\ Len(Requested) \in Nat
      /\ \A i \in 1..Len(got) : Requested[i] = got[i]
      /\ \A i \in 1..Sub(req_prod, req_cons) :
           Requested[Len(got) + i] = req[Mask(req_cons + i - 1)]
  BY ONLY <1>2, <1>3, <1>5, <1>7
<1>9. /\ Coming \in Seq(Cell) /\ Len(Coming) = Sub(rsp_prod, rsp_cons) + Len(out)
      /\ Len(out) \in Nat /\ Len(Coming) \in Nat
      /\ \A i \in 1..Sub(rsp_prod, rsp_cons) : Coming[i] = rsp[Mask(rsp_cons + i - 1)]
      /\ \A i \in 1..Len(out) : Coming[Sub(rsp_prod, rsp_cons) + i] = out[i]
  BY ONLY <1>2, <1>4, <1>6, <1>7
<1> QED BY ONLY <1>2, <1>8, <1>9

(* The properties follow. *)
LEMMA InvImplies == ASSUME StoreInv PROVE Framing
<1>1. Types /\ Stages /\ Asks /\ Answers /\ Received
  BY DEF StoreInv
<1>2. StoreTypeOK
  <2>1. \A s \in {data, payload, got, out} : s \in Seq(Cell)
    BY <1>1 DEF Types
  <2>2. \A s \in {data, payload, got, out} : \A i \in DOMAIN s : s[i] \in Cell
    BY <2>1
  <2> QED BY <1>1, <2>2 DEF Types, Stages, StoreTypeOK, Slot, Idx
<1>3. InOrder
  <2>1. ASSUME NEW i \in DOMAIN got
        PROVE  got[i].id = id /\ got[i].type = IF i = 1 THEN "ask" ELSE "data"
    <3>1. got \in Seq(Cell) /\ i \in 1..Len(got)
      BY <1>1 DEF Types
    <3>2. i \in 1..Len(Requested) /\ Requested[i] = got[i]
      BY <1>1, <3>1, Streams
    <3> QED BY <1>1, <3>2 DEF Asks
  <2>2. ASSUME pc = "idle", NEW i \in DOMAIN payload
        PROVE  payload[i] = Blank \/ (payload[i].id = id /\ payload[i].type = "data")
    <3>1. i \in 1..Len(payload)
      BY <1>1 DEF Types
    <3> QED BY <1>1, <2>2, <3>1 DEF Received, IsData
  <2> QED BY <1>1, <2>1, <2>2 DEF InOrder, Received, AnswerTypes
<1>4. ASSUME pc = "idle", result # "none"
      PROVE  /\ req_prod = req_cons /\ rsp_prod = rsp_cons /\ got = << >> /\ out = << >>
             /\ hdr.id = id /\ hdr.type \in {"answer"} \cup Errors
  <2>1. Len(Requested) = 0 /\ Len(Coming) = 0
    BY <1>1, <1>4 DEF Stages, Asks, Answers
  <2>2. /\ Len(got) = 0 /\ Len(out) = 0
        /\ Sub(req_prod, req_cons) = 0 /\ Sub(rsp_prod, rsp_cons) = 0
    BY <1>1, <2>1, Streams
  <2>3. got = << >> /\ out = << >>
    BY <1>1, <2>2, EmptySeq DEF Types
  <2>4. req_prod = req_cons /\ rsp_prod = rsp_cons
    <3>1. req_prod \in Idx /\ req_cons \in Idx /\ rsp_prod \in Idx /\ rsp_cons \in Idx
      BY <1>1 DEF Types
    <3> QED BY <2>2, <3>1, SubNat
  <2> QED BY <1>1, <1>4, <2>3, <2>4 DEF Received, AnswerTypes
<1> QED BY <1>2, <1>3, <1>4 DEF Framing

-----------------------------------------------------------------------------
(* The steps. *)
LEMMA SameStreams ==
  ASSUME UNCHANGED <<ringVars, got, out>>
  PROVE  Requested' = Requested /\ Coming' = Coming
BY DEF ringVars, Requested, Coming

(* Empty rings, nobody in a call. *)
LEMMA StoreInitInv == StoreInit => StoreInv
<1> SUFFICES ASSUME StoreInit PROVE StoreInv
  OBVIOUS
<1>1. Types
  BY Cells, EmptySeq DEF StoreInit, Types, Slot, Idx, Ids
<1>2. Stages /\ ChunkPrivate /\ Received
  <2>1. Len(payload) = 0
    BY DEF StoreInit
  <2> QED BY <2>1 DEF StoreInit, Stages, ChunkPrivate, Received
<1>3. /\ Sub(req_prod, req_cons) = 0 /\ Sub(rsp_prod, rsp_cons) = 0
      /\ Len(got) = 0 /\ Len(out) = 0
  BY <1>1, SubNat DEF StoreInit, Types
<1>4. Len(Requested) = 0 /\ Len(Coming) = 0
  BY <1>1, <1>3, Streams
<1>5. Asks /\ Answers
  BY <1>4 DEF StoreInit, Asks, Answers, Asking
<1>6. Room
  BY <1>3 DEF Room
<1> QED BY <1>1, <1>2, <1>5, <1>6 DEF StoreInv

(* The guest waits, the daemon goes to sleep. *)
LEMMA WaitStep ==
  ASSUME StoreInv, ring_stuck \/ ring_wait \/ wake_up \/ daemon_sleep
  PROVE  StoreInv'
<1>1. /\ UNCHANGED <<ringVars, stage, data, len, part, id, hdr, payload, result, got, out>>
      /\ \/ pc \in {"write", "read"} /\ pc' = "stuck"
         \/ pc = "stuck" /\ pc' = "wait"
         \/ pc = "wait" /\ pc' = IF stage \in {"whdr", "wdata"} THEN "write" ELSE "read"
         \/ pc' = pc
      /\ evtchn_pending' \in {FALSE, evtchn_pending} /\ kicked' \in {FALSE, kicked}
  BY DEF ring_stuck, ring_wait, wake_up, daemon_sleep, guestVars
<1>2. Requested' = Requested /\ Coming' = Coming
  BY <1>1, SameStreams
<1>3. Types' /\ Stages' /\ Room'
  BY ZenonT(60), <1>1 DEF StoreInv, Types, Stages, Room, ringVars
<1>4. ChunkPrivate' /\ Received'
  BY <1>1 DEF StoreInv, ChunkPrivate, Received, Stages, ringVars
<1>5. Asks' /\ Answers'
  BY <1>1, <1>2 DEF StoreInv, Asks, Answers, Asking, Stages
<1> QED BY <1>3, <1>4, <1>5 DEF StoreInv

(* A call begins. *)
LEMMA BeginStep ==
  ASSUME StoreInv, NEW n \in QueryLens, xenbus_send(n)
  PROVE  StoreInv'
<1>1. /\ pc = "idle" /\ pc' = "write" /\ stage' = "whdr" /\ len' = 1 /\ result' = "none"
      /\ id' = 1 - id /\ data' = Message(1 - id, n, "ask")
      /\ UNCHANGED <<ringVars, evtchn_pending, kicked, part, hdr, payload, got, out>>
  BY DEF xenbus_send
<1>2. Types /\ Stages /\ Asks /\ Answers /\ Room
  BY DEF StoreInv
<1>3. Requested' = Requested /\ Coming' = Coming /\ Len(Requested) = 0 /\ Len(Coming) = 0
  BY <1>1, <1>2, SameStreams DEF Stages, Asks, Answers
<1>4. 1 - id \in Ids /\ n \in 1..MaxLen /\ MaxLen \in Nat \ {0}
  BY <1>2 DEF Types, Ids, MaxLen
<1>5. /\ data' \in Seq(Cell) /\ Len(data') = n + 1 /\ data'[1] = Hdr(1 - id, n, "ask")
      /\ \A k \in 2..(n + 1) : IsData(data'[k], 1 - id)
  BY <1>1, <1>4, MessageIs DEF IsData
<1>6. Types'
  BY <1>1, <1>2, <1>4, <1>5 DEF Types, Stages, ringVars
<1>7. Stages' /\ Room' /\ ChunkPrivate' /\ Received'
  BY <1>1, <1>2 DEF Stages, Room, ChunkPrivate, Received, ringVars
<1>8. Asks' /\ Answers'
  BY <1>1, <1>3, <1>4, <1>5 DEF Asks, Answers, Asking
<1> QED BY <1>6, <1>7, <1>8 DEF StoreInv

(* The kick. *)
LEMMA KickStep == ASSUME StoreInv, evtchn_send PROVE StoreInv'
<1>1. /\ pc = "send" /\ pc' = "read" /\ stage' = "rhdr" /\ len' = 1 /\ kicked' = TRUE
      /\ UNCHANGED <<ringVars, evtchn_pending, data, part, id, hdr, payload, result, got, out>>
  BY DEF evtchn_send
<1>2. Types /\ Stages /\ Asks /\ Answers /\ Room
  BY DEF StoreInv
<1>3. Requested' = Requested /\ Coming' = Coming
  BY <1>1, SameStreams
<1>4. Types' /\ Stages' /\ Room'
  <2>1. part = 0 /\ MaxLen \in Nat \ {0}
    BY <1>1, <1>2 DEF Stages, MaxLen
  <2> QED BY <1>1, <1>2, <2>1 DEF Types, Stages, Room, ringVars
<1>5. ChunkPrivate' /\ Received'
  BY <1>1 DEF ChunkPrivate, Received
<1>6. Asks' /\ Answers'
  BY <1>1, <1>2, <1>3 DEF Asks, Answers, Asking
<1> QED BY <1>4, <1>5, <1>6 DEF StoreInv

(* What the three clamps of ring_write leave. *)
LEMMA WriteClamps ==
  ASSUME Types, Room, WritePart > 0
  PROVE  /\ WritePart \in 1..len /\ WritePart \in 0..RingSize
         /\ Sub(req_prod, req_cons) + WritePart < RingSize
         /\ \A k \in 0..(WritePart - 1) :
              Mask(req_prod + k) = Mask(req_prod) + k /\ Mask(req_prod) + k \in Slot
<1> DEFINE w == WritePart
           q == Sub(req_prod, req_cons)
<1>1. req_prod \in Idx /\ req_cons \in Idx /\ len \in Nat
  BY DEF Types, MaxLen
<1>2. q \in Slot /\ Mask(q) = q /\ Mask(req_prod) \in Slot
  <2>1. q \in Nat /\ req_prod \in Nat
    BY <1>1, SubNat DEF Idx
  <2>2. q \in Slot
    BY <2>1 DEF Room, Slot
  <2> QED BY <2>1, <2>2, MaskSmall, MaskIs
<1>3. w = Min({RingSize - 1 - q, RingSize - Mask(req_prod), len})
  BY <1>2 DEF WritePart
<1> DEFINE a == RingSize - 1 - q
           b == RingSize - Mask(req_prod)
<1>4. a \in Int /\ b \in Int /\ b \in 0..RingSize
  BY <1>2 DEF Slot
<1> HIDE DEF w, a, b
<1>5. w \in {a, b, len} /\ w <= a /\ w <= b /\ w <= len
  <2>1. w = Min({a, b, len}) /\ len \in Int
    BY <1>1, <1>3 DEF a, b
  <2> QED BY <1>4, <2>1, LeastOf
<1>6. w \in 1..len /\ w \in 0..RingSize /\ q + w < RingSize
  BY <1>1, <1>2, <1>4, <1>5 DEF a, w, Slot
<1>7. ASSUME NEW k \in 0..(w - 1)
      PROVE  Mask(req_prod + k) = Mask(req_prod) + k /\ Mask(req_prod) + k \in Slot
  <2>1. k \in Nat /\ Mask(req_prod) + k < RingSize /\ req_prod \in Nat
    BY <1>1, <1>2, <1>5, <1>6 DEF b, Idx, Slot
  <2> QED BY <1>2, <2>1, MaskNext DEF Slot
<1> QED BY <1>6, <1>7 DEF w

(* memcpy into the request ring: cells nobody has published. *)
LEMMA CopyStep == ASSUME StoreInv, write_copy PROVE StoreInv'
<1> DEFINE w == WritePart
           lo == Mask(req_prod)
<1>1. /\ pc = "write" /\ pc' = "written" /\ part' = w /\ w > 0
      /\ req' = [i \in DOMAIN req |-> IF i \in lo..(lo + w - 1) THEN data[i - lo + 1] ELSE req[i]]
      /\ UNCHANGED <<rsp, req_prod, req_cons, rsp_prod, rsp_cons, evtchn_pending, kicked,
                     stage, data, len, id, hdr, payload, result, got, out>>
  BY DEF write_copy
<1>2. Types /\ Stages /\ Asks /\ Answers /\ Room /\ Received
  BY DEF StoreInv
<1>3. /\ w \in 1..len /\ w \in 0..RingSize /\ Sub(req_prod, req_cons) + w < RingSize
      /\ \A k \in 0..(w - 1) : Mask(req_prod + k) = lo + k /\ lo + k \in Slot
  BY <1>1, <1>2, WriteClamps
<1>4. data \in Seq(Cell) /\ w \in 1..Len(data) /\ lo \in Slot /\ req \in [Slot -> Cell]
  <2>1. stage \in {"whdr", "wdata"} /\ pc # "send" /\ data \in Seq(Cell) /\ Len(data) \in Nat
    BY <1>1, <1>2 DEF Stages, Types
  <2>2. len <= Len(data) /\ len \in Nat
    BY <1>2, <2>1 DEF Asks, Stages, Types, MaxLen
  <2>3. req_prod \in Nat /\ req \in [Slot -> Cell]
    BY <1>2 DEF Types, Idx
  <2>4. lo \in Slot
    BY <2>3, MaskIs
  <2> QED BY <1>3, <2>1, <2>2, <2>3, <2>4
<1> HIDE DEF w, lo
<1>5. /\ req' \in [Slot -> Cell]
      /\ \A i \in Slot : i \in lo..(lo + w - 1) => req'[i] = data[i - lo + 1]
      /\ \A i \in Slot : i \notin lo..(lo + w - 1) => req'[i] = req[i]
  <2>1. ASSUME NEW i \in Slot, i \in lo..(lo + w - 1) PROVE data[i - lo + 1] \in Cell
    <3>1. i - lo + 1 \in 1..Len(data)
      BY <1>4, <2>1 DEF Slot
    <3> QED BY <1>4, <3>1
  <2> QED BY <1>1, <1>4, <2>1
<1>6. ASSUME NEW k \in 1..w PROVE req'[Mask(req_prod + k - 1)] = data[k]
  <2>1. k - 1 \in 0..(w - 1) /\ req_prod + (k - 1) = req_prod + k - 1
    BY <1>2, <1>3 DEF Types, Idx
  <2>2. Mask(req_prod + k - 1) = lo + (k - 1) /\ lo + (k - 1) \in Slot
    BY <1>3, <2>1
  <2>3. lo + (k - 1) \in lo..(lo + w - 1) /\ (lo + (k - 1)) - lo + 1 = k
    BY <1>3, <1>4 DEF Slot
  <2> QED BY <1>5, <2>2, <2>3
<1>7. Requested' = Requested /\ Coming' = Coming
  <2>1. /\ req \in [Slot -> Cell] /\ req' \in [Slot -> Cell] /\ req_cons \in Idx
        /\ req_prod \in Idx /\ w \in 0..RingSize /\ Sub(req_prod, req_cons) + w < RingSize
    BY <1>2, <1>3, <1>5 DEF Types
  <2>2. ASSUME NEW i \in Slot
        PROVE  req'[i] = req[i] \/ \E k \in 0..(w - 1) : i = Mask(req_prod + k)
    <3>1. CASE i \in lo..(lo + w - 1)
      <4>1. i - lo \in 0..(w - 1) /\ lo + (i - lo) = i
        BY <1>3, <1>4, <3>1 DEF Slot
      <4> QED BY <1>3, <4>1
    <3>2. CASE i \notin lo..(lo + w - 1)
      BY <1>5, <3>2
    <3> QED BY <3>1, <3>2
  <2>3. Content(req', req_cons, req_prod) = Content(req, req_cons, req_prod)
    BY ONLY <2>1, <2>2, ContentStays
  <2> QED BY <1>1, <2>3 DEF Requested, Coming
<1>8. Types' /\ Stages' /\ Room'
  BY <1>1, <1>2, <1>3, <1>5 DEF Types, Stages, Room
<1>9. ChunkPrivate' /\ Received'
  BY <1>1, <1>2, <1>3, <1>6 DEF ChunkPrivate, Received
<1>10. Asks' /\ Answers'
  BY <1>1, <1>2, <1>7 DEF Asks, Answers, Asking, Stages
<1> QED BY <1>8, <1>9, <1>10 DEF StoreInv

(* req_prod moves behind the chunk. *)
LEMMA PublishStep == ASSUME StoreInv, write_publish PROVE StoreInv'
<1>1. /\ pc = "written" /\ req_prod' = Add(req_prod, part) /\ part' = 0
      /\ UNCHANGED <<req, rsp, req_cons, rsp_prod, rsp_cons, evtchn_pending, kicked,
                     id, hdr, payload, result, got, out>>
  BY DEF write_publish
<1>2. \/ /\ len > part /\ len' = len - part /\ pc' = "write" /\ UNCHANGED <<stage, data>>
      \/ /\ len = part /\ stage = "whdr" /\ stage' = "wdata" /\ pc' = "write"
         /\ data' = Tail(data) /\ len' = Len(data) - 1
      \/ /\ ~(len > part) /\ ~(len = part /\ stage = "whdr")
         /\ len' = 0 /\ pc' = "send" /\ data' = << >> /\ UNCHANGED stage
  BY DEF write_publish
<1>3. Types /\ Stages /\ Asks /\ Answers /\ Room /\ Received /\ ChunkPrivate
  BY DEF StoreInv
<1>4. /\ part \in 1..len /\ part \in 0..RingSize /\ len \in Nat /\ len <= MaxLen
      /\ Sub(req_prod, req_cons) + part < RingSize
      /\ \A k \in 1..part : req[Mask(req_prod + k - 1)] = data[k]
      /\ stage \in {"whdr", "wdata"} /\ MaxLen \in Nat /\ (stage = "whdr" => len = part)
  <2>1. MaxLen \in Nat /\ len \in 0..MaxLen /\ part \in 0..len /\ part >= 1
        /\ stage \in {"whdr", "wdata"}
    BY <1>1, <1>3 DEF Types, Stages, MaxLen
  <2>2. /\ Sub(req_prod, req_cons) + part < RingSize
        /\ \A k \in 1..part : req[Mask(req_prod + k - 1)] = data[k]
    BY <1>1, <1>3 DEF ChunkPrivate
  <2>3. Sub(req_prod, req_cons) \in Nat
    BY <1>3, SubNat DEF Types
  <2>4. stage = "whdr" => len = part
    BY <1>3, <2>1 DEF Stages
  <2> QED BY <2>1, <2>2, <2>3, <2>4
<1>5. /\ Len(Requested') = Len(Requested) + part /\ Len(Requested) \in Nat
      /\ \A i \in 1..Len(Requested) : Requested'[i] = Requested[i]
      /\ \A k \in 1..part : Requested'[Len(Requested) + k] = data[k]
  <2>1. /\ req \in [Slot -> Cell] /\ req_cons \in Idx /\ req_prod \in Idx /\ got \in Seq(Cell)
        /\ part \in 0..RingSize /\ Sub(req_prod, req_cons) + part < RingSize
    BY <1>3, <1>4 DEF Types
  <2>2. /\ Requested = got \o Content(req, req_cons, req_prod)
        /\ Requested' = got \o Content(req, req_cons, Add(req_prod, part))
    BY <1>1 DEF Requested
  <2> DEFINE old == got \o Content(req, req_cons, req_prod)
             new == got \o Content(req, req_cons, Add(req_prod, part))
  <2>3. /\ Len(new) = Len(old) + part /\ Len(old) \in Nat
        /\ \A i \in 1..Len(old) : new[i] = old[i]
        /\ \A k \in 1..part : new[Len(old) + k] = req[Mask(req_prod + k - 1)]
    BY ONLY ZenonT(60), <2>1, Appended
  <2> HIDE DEF old, new
  <2>4. Requested = old /\ Requested' = new
    BY <2>2 DEF old, new
  <2> QED BY <1>4, <2>3, <2>4
<1>6. Coming' = Coming
  BY <1>1 DEF Coming
<1>7. /\ data \in Seq(Cell) /\ Len(data) \in Nat /\ len <= Len(data)
      /\ data[1] \in Cell
  <2>1. data \in Seq(Cell) /\ Len(data) \in Nat
    BY <1>3 DEF Types
  <2>2. len <= Len(data) /\ Len(data) >= 1
    BY <1>1, <1>3, <1>4, <2>1 DEF Asks, Stages
  <2> QED BY <2>1, <2>2
<1>8. /\ data' \in Seq(Cell) /\ len' \in 0..MaxLen
      /\ stage = "whdr" /\ len = part =>
           Len(data') = Len(data) - 1 /\ \A k \in 1..(Len(data) - 1) : data'[k] = data[k + 1]
  <2>1. CASE len > part
    BY <1>2, <1>4, <1>7, <2>1
  <2>2. CASE len = part /\ stage = "whdr"
    <3>1. Len(data) >= 2 /\ Len(data) - 1 <= MaxLen
      BY <1>3, <2>2 DEF Asks
    <3>2. data # << >>
      BY <1>7, <3>1
    <3>3. data' = Tail(data) /\ len' = Len(data) - 1
      BY <1>2, <1>4, <2>2
    <3>4. /\ Tail(data) \in Seq(Cell) /\ Len(Tail(data)) = Len(data) - 1
          /\ \A i \in 1..Len(Tail(data)) : Tail(data)[i] = data[i + 1]
      BY <1>7, <3>2, HeadTailProperties
    <3> QED BY <1>4, <1>7, <3>1, <3>3, <3>4
  <2>3. CASE ~(len > part) /\ ~(len = part /\ stage = "whdr")
    <3>1. data' = << >> /\ len' = 0
      BY <1>2, <2>3
    <3>2. << >> \in Seq(Cell) /\ 0 \in 0..MaxLen
      BY <1>4
    <3> QED BY <2>3, <3>1, <3>2
  <2> QED BY <2>1, <2>2, <2>3
<1>9. Types' /\ Stages' /\ Room'
  <2>1. req_prod' \in Idx /\ Sub(req_prod', req_cons) < RingSize
    <3>1. req_prod \in Idx /\ req_cons \in Idx
      BY <1>3 DEF Types
    <3>2. Add(req_prod, part) \in Idx
      BY <1>4, <3>1, AddIs
    <3>3. Sub(Add(req_prod, part), req_cons) = Sub(req_prod, req_cons) + part
      BY <1>4, <3>1, SubAddProducer
    <3> QED BY <1>1, <1>4, <3>2, <3>3
  <2>2. Types'
    BY <1>1, <1>3, <1>4, <1>8, <2>1 DEF Types
  <2>3. Stages'
    BY <1>1, <1>2, <1>3, <1>4 DEF Stages
  <2> QED BY <1>1, <1>3, <2>1, <2>2, <2>3 DEF Room
<1>10. ChunkPrivate' /\ Received'
  BY <1>1, <1>2, <1>3, <1>4 DEF ChunkPrivate, Received
<1>11. Asks'
  <2>1. CASE stage = "whdr"
    <3>1. /\ len = 1 /\ part = 1 /\ Len(Requested) = 0 /\ Len(Requested') = 1
          /\ data[1] = Hdr(id, Len(data) - 1, "ask") /\ Len(data) >= 2 /\ Len(data) - 1 <= MaxLen
          /\ \A k \in 2..Len(data) : IsData(data[k], id)
      BY <1>3, <1>4, <1>5, <2>1 DEF Asks, Stages
    <3>2. stage' = "wdata" /\ pc' = "write" /\ len' = Len(data) - 1 /\ id' = id
      BY <1>1, <1>2, <2>1, <3>1
    <3>3. Requested'[1] = data[1]
      <4>1. Requested'[0 + 1] = data[1]
        BY <1>5, <3>1
      <4> QED BY <4>1
    <3>4. Requested'[1].id = id /\ Requested'[1].type = "ask" /\ Requested'[1].len = Len(data) - 1
      <4>1. id \in Ids /\ Len(data) - 1 \in 0..MaxLen
        BY <1>3, <1>7, <3>1 DEF Types
      <4> QED BY <3>1, <3>3, <4>1, Cells
    <3>5. /\ Len(data') = Len(data) - 1
          /\ \A k \in 1..(Len(data) - 1) : IsData(data'[k], id)
      <4>1. ASSUME NEW k \in 1..(Len(data) - 1) PROVE IsData(data'[k], id)
        <5>1. k + 1 \in 2..Len(data) /\ data'[k] = data[k + 1]
          BY <1>7, <1>8, <2>1, <3>1
        <5> QED BY <3>1, <5>1
      <4> QED BY <1>8, <2>1, <3>1, <4>1
    <3> QED BY <1>7, <3>1, <3>2, <3>4, <3>5 DEF Asks, Asking
  <2>2. CASE stage = "wdata"
    <3>1. /\ len \in 1..Len(data) /\ Len(Requested) = 1 + Len(data) - len
          /\ Requested[1].len = Len(data) /\ \A k \in 1..Len(data) : IsData(data[k], id)
      BY <1>1, <1>3, <2>2 DEF Asks
    <3>2. Len(Requested) >= 1 /\ Requested'[1] = Requested[1]
      BY <1>4, <1>5, <1>7, <3>1
    <3>3. ASSUME NEW k \in 1..Len(Requested')
          PROVE  /\ Requested'[k].id = id
                 /\ Requested'[k].type = IF k = 1 THEN "ask" ELSE "data"
      <4>1. CASE k <= Len(Requested)
        BY <1>3, <1>4, <1>5, <3>3, <4>1 DEF Asks
      <4>2. CASE ~(k <= Len(Requested))
        <5> DEFINE j == k - Len(Requested)
        <5>1. j \in 1..part /\ Len(Requested) + j = k /\ j \in 1..Len(data) /\ k # 1
          BY <1>4, <1>5, <1>7, <3>2, <4>2
        <5> HIDE DEF j
        <5>2. Requested'[k] = data[j]
          BY <1>5, <5>1
        <5> QED BY <3>1, <5>1, <5>2 DEF IsData
      <4> QED BY <4>1, <4>2
    <3>4. stage' = "wdata" /\ id' = id
      BY <1>1, <1>2, <2>2
    <3>5. CASE len > part
      <4>1. pc' = "write" /\ len' = len - part /\ data' = data
        BY <1>2, <1>4, <3>5
      <4> QED BY <1>4, <1>5, <1>7, <3>1, <3>2, <3>3, <3>4, <3>5, <4>1 DEF Asks, Asking
    <3>6. CASE ~(len > part)
      <4>1. pc' = "send"
        BY <1>2, <1>4, <2>2, <3>6
      <4>2. Len(Requested') = Requested'[1].len + 1
        <5>1. part = len
          BY <1>4, <3>6
        <5> QED BY <1>4, <1>5, <1>7, <3>1, <3>2, <5>1
      <4> QED BY <3>3, <3>4, <4>1, <4>2 DEF Asks, Asking
    <3> QED BY <3>5, <3>6
  <2> QED BY <1>4, <2>1, <2>2
<1>12. Answers'
  <2>1. Len(Coming') = 0
    BY <1>1, <1>3, <1>4, <1>6 DEF Answers
  <2>2. Len(Requested') > 0
    BY <1>4, <1>5
  <2>3. stage' = "wdata" /\ pc' # "taken"
    BY <1>2, <1>4
  <2> QED BY <2>1, <2>2, <2>3 DEF Answers
<1> QED BY <1>9, <1>10, <1>11, <1>12 DEF StoreInv

(* What the clamps of ring_read leave. *)
LEMMA ReadClamps ==
  ASSUME Types, Room, ReadPart > 0
  PROVE  /\ ReadPart \in 1..len /\ ReadPart \in 0..RingSize
         /\ ReadPart <= Sub(rsp_prod, rsp_cons)
         /\ \A k \in 0..(ReadPart - 1) : Mask(rsp_cons + k) = Mask(rsp_cons) + k
<1> DEFINE w == ReadPart
           q == Sub(rsp_prod, rsp_cons)
           b == RingSize - Mask(rsp_cons)
<1>1. rsp_prod \in Idx /\ rsp_cons \in Idx /\ len \in Nat
  BY DEF Types, MaxLen
<1>2. q \in Slot /\ Mask(q) = q /\ Mask(rsp_cons) \in Slot
  <2>1. q \in Nat /\ rsp_cons \in Nat
    BY <1>1, SubNat DEF Idx
  <2>2. q \in Slot
    BY <2>1 DEF Room, Slot
  <2> QED BY <2>1, <2>2, MaskSmall, MaskIs
<1>3. w = Min({q, RingSize - Mask(rsp_cons), len})
  BY <1>2 DEF ReadPart
<1>4. q \in Int /\ b \in Int /\ b \in 0..RingSize
  BY <1>2 DEF Slot
<1> HIDE DEF w, q, b
<1>5. w \in {q, b, len} /\ w <= q /\ w <= b /\ w <= len
  <2>1. w = Min({q, b, len}) /\ len \in Int
    BY <1>1, <1>3 DEF b
  <2> QED BY <1>4, <2>1, LeastOf
<1>6. w \in 1..len /\ w \in 0..RingSize /\ w <= q
  BY <1>1, <1>2, <1>4, <1>5 DEF w, Slot
<1>7. ASSUME NEW k \in 0..(w - 1) PROVE Mask(rsp_cons + k) = Mask(rsp_cons) + k
  <2>1. k \in Nat /\ Mask(rsp_cons) + k < RingSize /\ rsp_cons \in Nat
    BY <1>1, <1>2, <1>5, <1>6 DEF b, Idx, Slot
  <2> QED BY <2>1, MaskNext
<1> QED BY <1>6, <1>7 DEF w, q

(* memcpy out of the response ring: cells the guest has not consumed. *)
LEMMA ReadStep == ASSUME StoreInv, read_copy PROVE StoreInv'
<1> DEFINE w == ReadPart
           lo == Mask(rsp_cons)
<1>1. /\ pc = "read" /\ pc' = "taken" /\ part' = w /\ w > 0
      /\ \/ stage = "rhdr" /\ hdr' = rsp[lo] /\ payload' = payload
         \/ /\ stage # "rhdr" /\ hdr' = hdr
            /\ payload' = [k \in 1..Len(payload) |-> IF k <= w THEN rsp[lo + k - 1] ELSE payload[k]]
      /\ UNCHANGED <<ringVars, evtchn_pending, kicked, stage, data, len, id, result, got, out>>
  BY DEF read_copy
<1>2. Types /\ Stages /\ Asks /\ Answers /\ Room /\ Received
  BY DEF StoreInv
<1>3. /\ w \in 1..len /\ w \in 0..RingSize /\ w <= Sub(rsp_prod, rsp_cons)
      /\ \A k \in 0..(w - 1) : Mask(rsp_cons + k) = lo + k
  BY <1>1, <1>2, ReadClamps
<1>4. /\ lo \in Nat /\ rsp_cons \in Nat /\ len \in Nat /\ payload \in Seq(Cell)
      /\ Len(payload) \in Nat
  <2>1. rsp_cons \in Nat
    BY <1>2 DEF Types, Idx
  <2> QED BY <1>2, <2>1, MaskIs DEF Types, Slot, MaxLen
<1> HIDE DEF w, lo
<1>5. \A k \in 1..w : rsp[lo + k - 1] = Coming[k] /\ Mask(rsp_cons + k - 1) = lo + k - 1
  <2> SUFFICES ASSUME NEW k \in 1..w
               PROVE  rsp[lo + k - 1] = Coming[k] /\ Mask(rsp_cons + k - 1) = lo + k - 1
    OBVIOUS
  <2>1. /\ k - 1 \in 0..(w - 1) /\ rsp_cons + (k - 1) = rsp_cons + k - 1
        /\ lo + (k - 1) = lo + k - 1
    BY <1>3, <1>4
  <2>2. Mask(rsp_cons + k - 1) = lo + k - 1
    BY <1>3, <2>1
  <2>3. k \in 1..Sub(rsp_prod, rsp_cons)
    BY <1>2, <1>3, Streams
  <2>4. Coming[k] = rsp[Mask(rsp_cons + k - 1)]
    BY <1>2, <2>3, Streams
  <2> QED BY <2>2, <2>4
<1>6. /\ Coming \in Seq(Cell) /\ Len(Coming) \in Nat /\ w <= Len(Coming)
      /\ \A k \in 1..w : Coming[k] \in Cell
  <2>1. Coming \in Seq(Cell) /\ Len(Coming) \in Nat /\ w <= Len(Coming)
    BY <1>2, <1>3, Streams
  <2> QED BY <1>3, <2>1
<1>7. Requested' = Requested /\ Coming' = Coming
  BY <1>1, SameStreams
<1>8. CASE stage = "rhdr"
  <2>1. hdr' = Coming[1] /\ payload' = payload /\ len = 1 /\ w = 1
    <3>1. len = 1 /\ w = 1
      BY <1>2, <1>3, <1>8 DEF Stages
    <3>2. lo + 1 - 1 = lo /\ 1 \in 1..w
      BY <1>4, <3>1
    <3> QED BY <1>1, <1>5, <1>8, <3>1, <3>2
  <2>2. Coming[1] \in Cell
    BY <1>6, <2>1
  <2>3. Types' /\ Stages' /\ Room'
    BY <1>1, <1>2, <1>3, <1>8, <2>1, <2>2 DEF Types, Stages, Room, ringVars
  <2>4. ChunkPrivate' /\ Received'
    BY <1>1, <1>3, <1>8 DEF ChunkPrivate, Received, ringVars
  <2>5. Len(Requested) = 0
    <3>1. Len(Coming) # 0 /\ Len(Requested) \in Nat
      BY <1>2, <1>6, <2>1, Streams
    <3> QED BY <1>2, <3>1 DEF Answers
  <2>6. Asks' /\ Answers'
    BY <1>1, <1>2, <1>7, <1>8, <2>1, <2>5 DEF Asks, Answers, Asking
  <2> QED BY <2>3, <2>4, <2>6 DEF StoreInv
<1>9. CASE stage # "rhdr"
  <2>1. stage = "rdata" /\ hdr' = hdr
    BY <1>1, <1>2, <1>9 DEF Stages
  <2>2. payload' = [k \in 1..Len(payload) |-> IF k <= w THEN Coming[k] ELSE payload[k]]
    <3>1. payload' = [k \in 1..Len(payload) |-> IF k <= w THEN rsp[lo + k - 1] ELSE payload[k]]
      BY <1>1, <1>9
    <3>2. \A k \in 1..Len(payload) : k <= w => rsp[lo + k - 1] = Coming[k]
      BY <1>3, <1>4, <1>5
    <3> QED BY <3>1, <3>2
  <2>3. /\ payload' \in Seq(Cell) /\ Len(payload') = Len(payload)
        /\ \A k \in 1..Len(payload) :
             payload'[k] = IF k <= w THEN Coming[k] ELSE payload[k]
    <3>1. \A k \in 1..Len(payload) : (IF k <= w THEN Coming[k] ELSE payload[k]) \in Cell
      BY <1>3, <1>4, <1>6
    <3>2. payload' \in [1..Len(payload) -> Cell]
      BY <2>2, <3>1
    <3> QED BY <1>4, <2>2, <3>2
  <2>4. /\ Len(Coming) = len /\ len \in 1..Len(payload)
        /\ \A j \in 1..Len(Coming) : IsData(Coming[j], id)
        /\ \A i \in 1..Len(payload) : payload[i] = Blank \/ IsData(payload[i], id)
    BY <1>2, <2>1 DEF Answers
  <2>5. \A i \in 1..Len(payload') : payload'[i] = Blank \/ IsData(payload'[i], id)
    <3> SUFFICES ASSUME NEW i \in 1..Len(payload)
                 PROVE  payload'[i] = Blank \/ IsData(payload'[i], id)
      BY <2>3
    <3>1. CASE i <= w
      <4>1. i \in 1..Len(Coming)
        BY <1>3, <1>4, <1>6, <3>1
      <4> QED BY <2>3, <2>4, <3>1, <4>1
    <3>2. CASE ~(i <= w)
      BY <2>3, <2>4, <3>2
    <3> QED BY <3>1, <3>2
  <2>6. Types' /\ Stages' /\ Room'
    BY <1>1, <1>2, <1>3, <2>1, <2>3 DEF Types, Stages, Room, ringVars
  <2>7. ChunkPrivate' /\ Received'
    <3>1. \A k \in 1..w : rsp[Mask(rsp_cons + k - 1)] = payload'[k]
      <4> SUFFICES ASSUME NEW k \in 1..w PROVE rsp[Mask(rsp_cons + k - 1)] = payload'[k]
        OBVIOUS
      <4>1. k \in 1..Len(payload) /\ k <= w
        BY <1>3, <1>4, <2>4
      <4> QED BY <1>5, <2>3, <4>1
    <3> QED BY <1>1, <1>2, <1>3, <2>1, <3>1 DEF ChunkPrivate, Received, ringVars
  <2>8. Asks' /\ Answers'
    BY <1>1, <1>2, <1>7, <2>1, <2>3, <2>4, <2>5 DEF Asks, Answers, Asking
  <2> QED BY <2>6, <2>7, <2>8 DEF StoreInv
<1> QED BY <1>8, <1>9

(* rsp_cons moves behind the chunk. *)
LEMMA ConsumeStep == ASSUME StoreInv, read_consume PROVE StoreInv'
<1>1. /\ pc = "taken" /\ rsp_cons' = Add(rsp_cons, part) /\ part' = 0
      /\ UNCHANGED <<req, rsp, req_prod, req_cons, rsp_prod, evtchn_pending, kicked,
                     data, id, hdr, got, out>>
  BY DEF read_consume
<1>2. \/ len > part /\ len' = len - part /\ pc' = "read" /\ UNCHANGED <<stage, payload, result>>
      \/ /\ len = part /\ stage = "rhdr" /\ stage' = "rdata" /\ pc' = "read"
         /\ len' = hdr.len /\ payload' = [k \in 1..hdr.len |-> Blank] /\ UNCHANGED result
      \/ /\ ~(len > part) /\ ~(len = part /\ stage = "rhdr")
         /\ len' = 0 /\ pc' = "idle" /\ stage' = "none" /\ result' = Returned(hdr.type)
         /\ UNCHANGED payload
  BY DEF read_consume, after_header
<1>3. Types /\ Stages /\ Asks /\ Answers /\ Room /\ Received /\ ChunkPrivate
  BY DEF StoreInv
<1>4. /\ part \in 1..len /\ part \in 0..RingSize /\ len \in Nat /\ len <= MaxLen
      /\ part <= Sub(rsp_prod, rsp_cons) /\ MaxLen \in Nat
      /\ stage \in {"rhdr", "rdata"} /\ (stage = "rhdr" => len = 1 /\ part = 1)
  <2>1. MaxLen \in Nat /\ len \in 0..MaxLen /\ part \in 0..len /\ part >= 1
        /\ stage \in {"rhdr", "rdata"}
    BY <1>1, <1>3 DEF Types, Stages, MaxLen
  <2>2. part <= Sub(rsp_prod, rsp_cons)
    BY <1>1, <1>3 DEF ChunkPrivate
  <2>3. Sub(rsp_prod, rsp_cons) \in Nat /\ Sub(rsp_prod, rsp_cons) < RingSize
    BY <1>3, SubNat DEF Types, Room
  <2>4. stage = "rhdr" => len = 1
    BY <1>3 DEF Stages
  <2> QED BY <2>1, <2>2, <2>3, <2>4
<1>5. /\ Len(Coming') = Len(Coming) - part /\ Len(Coming) \in Nat /\ part <= Len(Coming)
      /\ \A i \in 1..(Len(Coming) - part) : Coming'[i] = Coming[i + part]
  <2>1. /\ rsp \in [Slot -> Cell] /\ rsp_cons \in Idx /\ rsp_prod \in Idx /\ out \in Seq(Cell)
        /\ part \in 0..RingSize /\ part <= Sub(rsp_prod, rsp_cons)
    BY <1>3, <1>4 DEF Types
  <2> DEFINE old == Content(rsp, rsp_cons, rsp_prod) \o out
             new == Content(rsp, Add(rsp_cons, part), rsp_prod) \o out
  <2>2. /\ Len(new) = Len(old) - part /\ Len(old) \in Nat /\ part <= Len(old)
        /\ \A i \in 1..(Len(old) - part) : new[i] = old[i + part]
    BY ONLY <2>1, Removed
  <2>3. Coming = old /\ Coming' = new
    BY <1>1 DEF Coming
  <2> HIDE DEF old, new
  <2> QED BY <2>2, <2>3
<1>6. Requested' = Requested
  BY <1>1 DEF Requested
<1>7. Len(Requested) = 0
  BY <1>1, <1>3, <1>4 DEF Answers, Asks
<1>8. /\ rsp_cons' \in Idx /\ Sub(rsp_prod', rsp_cons') < RingSize
      /\ Sub(req_prod', req_cons') < RingSize
  <2>1. rsp_cons \in Idx /\ rsp_prod \in Idx
    BY <1>3 DEF Types
  <2>2. /\ Add(rsp_cons, part) \in Idx
        /\ Sub(rsp_prod, Add(rsp_cons, part)) = Sub(rsp_prod, rsp_cons) - part
        /\ Sub(rsp_prod, rsp_cons) \in Nat
    BY <1>4, <2>1, AddIs, SubAddConsumer, SubNat
  <2> QED BY <1>1, <1>3, <1>4, <2>2 DEF Room
<1>9. CASE stage = "rhdr"
  <2>1. /\ stage' = "rdata" /\ pc' = "read" /\ len' = hdr.len
        /\ payload' = [k \in 1..hdr.len |-> Blank] /\ result' = result
    BY <1>2, <1>4, <1>9
  <2>2. /\ hdr = Coming[1] /\ Len(Coming) >= 2 /\ Len(Coming) = hdr.len + 1
        /\ hdr.id = id /\ hdr.type \in AnswerTypes
        /\ \A j \in 2..Len(Coming) : IsData(Coming[j], id)
    BY <1>1, <1>3, <1>7, <1>9 DEF Answers, Asking
  <2>3. hdr.len \in 1..MaxLen
    <3>1. hdr.len \in 0..MaxLen
      BY <1>3 DEF Types, Cell
    <3> QED BY <1>4, <1>5, <2>2, <3>1
  <2>4. /\ payload' \in Seq(Cell) /\ Len(payload') = hdr.len
        /\ \A i \in 1..hdr.len : payload'[i] = Blank
    <3>1. hdr.len \in Nat
      BY <1>4, <2>3
    <3>2. payload' \in [1..hdr.len -> Cell]
      BY <1>3, <2>1, Cells DEF Types
    <3> QED BY <2>1, <3>1, <3>2
  <2>5. Types' /\ Stages' /\ Room'
    BY <1>1, <1>3, <1>4, <1>8, <2>1, <2>3, <2>4 DEF Types, Stages, Room
  <2>6. ChunkPrivate' /\ Received'
    BY <1>1, <2>1, <2>2 DEF ChunkPrivate, Received
  <2>7. Asks'
    BY <1>6, <1>7, <2>1 DEF Asks, Asking
  <2>8. \A j \in 1..Len(Coming') : IsData(Coming'[j], id)
    <3> SUFFICES ASSUME NEW j \in 1..Len(Coming') PROVE IsData(Coming'[j], id)
      OBVIOUS
    <3>1. j + 1 \in 2..Len(Coming) /\ Coming'[j] = Coming[j + 1]
      BY <1>4, <1>5, <1>9
    <3> QED BY <2>2, <3>1
  <2>9. Len(Coming') = len'
    BY <1>4, <1>5, <1>9, <2>1, <2>2, <2>3
  <2>10. Answers'
    BY <1>1, <1>6, <1>7, <2>1, <2>3, <2>4, <2>8, <2>9 DEF Answers, Asking
  <2> QED BY <2>5, <2>6, <2>7, <2>10 DEF StoreInv
<1>10. CASE stage = "rdata"
  <2>1. /\ Len(Coming) = len /\ len \in 1..Len(payload)
        /\ \A j \in 1..Len(Coming) : IsData(Coming[j], id)
        /\ \A i \in 1..Len(payload) : payload[i] = Blank \/ IsData(payload[i], id)
        /\ hdr.id = id /\ hdr.type \in AnswerTypes /\ payload' = payload
    BY <1>2, <1>3, <1>10 DEF Answers, Received
  <2>2. CASE len > part
    <3>1. len' = len - part /\ pc' = "read" /\ stage' = stage /\ result' = result
      BY <1>2, <1>4, <2>2
    <3>2. Types' /\ Stages' /\ Room'
      BY <1>1, <1>3, <1>4, <1>8, <1>10, <2>1, <2>2, <3>1 DEF Types, Stages, Room
    <3>3. ChunkPrivate' /\ Received'
      BY <1>1, <1>3, <1>10, <2>1, <3>1 DEF ChunkPrivate, Received
    <3>4. Asks'
      BY <1>6, <1>7, <1>10, <3>1 DEF Asks, Asking
    <3>5. \A j \in 1..Len(Coming') : IsData(Coming'[j], id)
      <4> SUFFICES ASSUME NEW j \in 1..Len(Coming') PROVE IsData(Coming'[j], id)
        OBVIOUS
      <4>1. j + part \in 1..Len(Coming) /\ Coming'[j] = Coming[j + part]
        BY <1>4, <1>5
      <4> QED BY <2>1, <4>1
    <3>6. Len(Coming') = len' /\ len' \in 1..Len(payload')
      BY <1>4, <1>5, <2>1, <2>2, <3>1
    <3>7. Answers'
      BY <1>1, <1>6, <1>7, <1>10, <2>1, <3>1, <3>5, <3>6 DEF Answers, Asking
    <3> QED BY <3>2, <3>3, <3>4, <3>7 DEF StoreInv
  <2>3. CASE ~(len > part)
    <3>1. /\ len' = 0 /\ pc' = "idle" /\ stage' = "none"
          /\ result' \in {"answer", "nothing", "null"}
      BY <1>2, <1>10, <2>3 DEF Returned
    <3>2. Types' /\ Stages' /\ Room'
      BY <1>1, <1>3, <1>4, <1>8, <2>1, <3>1 DEF Types, Stages, Room
    <3>3. ChunkPrivate' /\ Received'
      BY <1>1, <2>1, <3>1 DEF ChunkPrivate, Received
    <3>4. Len(Coming') = 0
      BY <1>4, <1>5, <2>1, <2>3
    <3>5. Asks' /\ Answers'
      BY <1>6, <1>7, <3>1, <3>4 DEF Asks, Answers, Asking
    <3> QED BY <3>2, <3>3, <3>5 DEF StoreInv
  <2> QED BY <2>2, <2>3
<1> QED BY <1>4, <1>9, <1>10

(* The daemon takes a piece of the request ... *)
LEMMA TakeStep ==
  ASSUME StoreInv, NEW n \in 1..RingSize, daemon_read(n)
  PROVE  StoreInv'
<1>1. /\ n \in 1..Sub(req_prod, req_cons)
      /\ got' = got \o SubSeq(Content(req, req_cons, req_prod), 1, n)
      /\ req_cons' = Add(req_cons, n) /\ evtchn_pending' = TRUE
      /\ UNCHANGED <<req, rsp, req_prod, rsp_prod, rsp_cons, kicked, guestVars, out>>
  BY DEF daemon_read
<1>2. Types /\ Stages /\ Asks /\ Answers /\ Room /\ Received /\ ChunkPrivate
  BY DEF StoreInv
<1>3. /\ req \in [Slot -> Cell] /\ req_cons \in Idx /\ req_prod \in Idx /\ got \in Seq(Cell)
      /\ Sub(req_prod, req_cons) \in Nat /\ n \in 0..RingSize /\ n <= Sub(req_prod, req_cons)
      /\ part \in Nat
  BY <1>1, <1>2, SubNat DEF Types, MaxLen
<1>4. Requested' = Requested /\ Coming' = Coming /\ got' \in Seq(Cell)
  <2>1. /\ got \o SubSeq(Content(req, req_cons, req_prod), 1, n) \in Seq(Cell)
        /\ (got \o SubSeq(Content(req, req_cons, req_prod), 1, n))
               \o Content(req, Add(req_cons, n), req_prod)
             = got \o Content(req, req_cons, req_prod)
    BY ONLY <1>3, Taken
  <2> QED BY <1>1, <2>1 DEF Requested, Coming
<1>5. req_cons' \in Idx /\ Sub(req_prod', req_cons') = Sub(req_prod, req_cons) - n
  BY <1>1, <1>3, AddIs, SubAddConsumer
<1>6. Types' /\ Stages' /\ Room'
  BY <1>1, <1>2, <1>3, <1>4, <1>5 DEF Types, Stages, Room, guestVars
<1>7. ChunkPrivate' /\ Received'
  BY <1>1, <1>2, <1>3, <1>5 DEF ChunkPrivate, Received, guestVars
<1>8. Asks' /\ Answers'
  BY <1>1, <1>2, <1>4 DEF Asks, Answers, Asking, guestVars
<1> QED BY <1>6, <1>7, <1>8 DEF StoreInv

(* ... answers when it has all of it: then nothing of it is in the ring ... *)
LEMMA AnswerStep ==
  ASSUME StoreInv, NEW n \in ReplyLens, NEW t \in AnswerTypes, daemon_answer(n, t)
  PROVE  StoreInv'
<1>1. /\ got # << >> /\ Len(got) = got[1].len + 1
      /\ out' = Message(got[1].id, n, t) /\ got' = << >>
      /\ UNCHANGED <<ringVars, evtchn_pending, kicked, guestVars>>
  BY DEF daemon_answer, Complete
<1>2. Types /\ Stages /\ Asks /\ Answers /\ Room /\ Received /\ ChunkPrivate
  BY DEF StoreInv
<1>3. /\ got \in Seq(Cell) /\ Len(got) \in Nat \ {0}
      /\ Sub(req_prod, req_cons) \in Nat /\ Len(Requested) = Len(got) + Sub(req_prod, req_cons)
      /\ Requested[1] = got[1] /\ 1 \in 1..Len(Requested)
  <2>1. got \in Seq(Cell)
    BY <1>2 DEF Types
  <2>2. Len(got) \in Nat \ {0}
    BY <1>1, <2>1, EmptySeq
  <2> QED BY <1>2, <2>1, <2>2, Streams
<1>4. Asking
  <2> SUFFICES ASSUME ~Asking PROVE FALSE
    OBVIOUS
  <2>1. stage = "wdata" /\ pc # "send"
    BY <1>2, <1>3 DEF Asking, Stages, Asks
  <2>2. /\ len \in 1..Len(data) /\ Len(Requested) = 1 + Len(data) - len
        /\ Requested[1].len = Len(data) /\ Len(data) \in Nat
    BY <1>2, <2>1 DEF Asks, Types
  <2> QED BY <1>1, <1>3, <2>2
<1>5. Sub(req_prod, req_cons) = 0 /\ got[1].id = id /\ id \in Ids
  <2>1. Len(Requested) = Requested[1].len + 1 /\ Requested[1].id = id
    BY <1>2, <1>3, <1>4 DEF Asks
  <2> QED BY <1>1, <1>2, <1>3, <2>1 DEF Types
<1>6. Sub(rsp_prod, rsp_cons) = 0
  <2>1. Len(Coming) = 0
    BY <1>2, <1>3 DEF Answers
  <2>2. /\ Len(Coming) = Sub(rsp_prod, rsp_cons) + Len(out)
        /\ Sub(rsp_prod, rsp_cons) \in Nat /\ Len(out) \in Nat
    BY <1>2, Streams
  <2> QED BY <2>1, <2>2
<1>7. n \in 1..MaxLen /\ MaxLen \in Nat /\ t \in {"ask", "answer"} \cup Errors
  BY DEF MaxLen, AnswerTypes
<1>8. /\ out' \in Seq(Cell) /\ Len(out') = n + 1 /\ out'[1] = Hdr(id, n, t)
      /\ \A k \in 2..(n + 1) : IsData(out'[k], id)
  BY <1>1, <1>5, <1>7, MessageIs DEF IsData
<1>9. Requested' = << >> /\ Coming' = out'
  <2>1. /\ req \in [Slot -> Cell] /\ rsp \in [Slot -> Cell]
        /\ req_prod \in Idx /\ req_cons \in Idx /\ rsp_prod \in Idx /\ rsp_cons \in Idx
    BY <1>2 DEF Types
  <2>2. /\ Content(req, req_cons, req_prod) \in Seq(Cell)
        /\ Len(Content(req, req_cons, req_prod)) = 0
    BY <1>5, <2>1, ContentIs
  <2>3. /\ Content(rsp, rsp_cons, rsp_prod) \in Seq(Cell)
        /\ Len(Content(rsp, rsp_cons, rsp_prod)) = 0
    BY <1>6, <2>1, ContentIs
  <2>4. Content(req, req_cons, req_prod) = << >> /\ Content(rsp, rsp_cons, rsp_prod) = << >>
    BY <2>2, <2>3, EmptySeq
  <2>5. << >> \o out' = out' /\ << >> \o << >> = << >>
    BY <1>8, ConcatEmptySeq
  <2> QED BY <1>1, <2>4, <2>5 DEF Requested, Coming, ringVars
<1>10. Types' /\ Stages' /\ Room'
  BY <1>1, <1>2, <1>8, EmptySeq DEF Types, Stages, Room, ringVars, guestVars
<1>11. ChunkPrivate' /\ Received'
  BY <1>1, <1>2 DEF ChunkPrivate, Received, ringVars, guestVars
<1>12. Len(Requested') = 0 /\ Len(Coming') = n + 1
  BY <1>8, <1>9
<1>13. Asks'
  BY <1>1, <1>2, <1>4, <1>12 DEF Asks, Asking, Stages, guestVars
<1>14. Answers'
  <2>1. /\ Coming'[1].id = id /\ Coming'[1].len = n /\ Coming'[1].type \in AnswerTypes
        /\ \A k \in 2..Len(Coming') : IsData(Coming'[k], id)
    <3>1. Hdr(id, n, t).id = id /\ Hdr(id, n, t).len = n /\ Hdr(id, n, t).type = t
      BY DEF Hdr
    <3> QED BY <1>7, <1>8, <1>9, <1>12, <3>1
  <2>2. ~(pc = "taken" /\ stage = "rhdr")
    BY <1>2, <1>3 DEF Answers
  <2> QED BY <1>1, <1>2, <1>4, <1>7, <1>12, <2>1, <2>2 DEF Answers, Asking, Stages, guestVars
<1> QED BY <1>10, <1>11, <1>13, <1>14 DEF StoreInv

(* ... and writes a piece of the answer into the free part of the ring. *)
LEMMA GiveStep ==
  ASSUME StoreInv, NEW n \in 1..RingSize, daemon_write(n)
  PROVE  StoreInv'
<1> DEFINE place(i) == Mask(i + RingSize - Mask(rsp_prod))
<1>1. /\ n \in 1..Len(out) /\ n <= RingSize - 1 - Sub(rsp_prod, rsp_cons)
      /\ rsp' = [i \in DOMAIN rsp |-> IF place(i) + 1 <= n THEN out[place(i) + 1] ELSE rsp[i]]
      /\ rsp_prod' = Add(rsp_prod, n) /\ out' = SubSeq(out, n + 1, Len(out))
      /\ evtchn_pending' = TRUE
      /\ UNCHANGED <<req, req_prod, req_cons, rsp_cons, kicked, guestVars, got>>
  BY DEF daemon_write
<1>2. Types /\ Stages /\ Asks /\ Answers /\ Room /\ Received /\ ChunkPrivate
  BY DEF StoreInv
<1>3. /\ rsp \in [Slot -> Cell] /\ rsp_cons \in Idx /\ rsp_prod \in Idx /\ out \in Seq(Cell)
      /\ Sub(rsp_prod, rsp_cons) \in Nat /\ n \in 0..RingSize /\ rsp_prod \in Nat
      /\ Sub(rsp_prod, rsp_cons) + n < RingSize /\ n <= Len(out) /\ Len(out) \in Nat
  <2>1. /\ rsp \in [Slot -> Cell] /\ rsp_cons \in Idx /\ rsp_prod \in Idx /\ out \in Seq(Cell)
    BY <1>2 DEF Types
  <2>2. Sub(rsp_prod, rsp_cons) \in Nat /\ rsp_prod \in Nat /\ Len(out) \in Nat
    BY <2>1, SubNat DEF Idx
  <2> QED BY <1>1, <2>1, <2>2
<1>4. \A i \in Slot : place(i) \in Slot /\ Mask(rsp_prod + place(i)) = i
  BY <1>3, MaskForth
<1>5. ASSUME NEW k \in 1..n
      PROVE  Mask(rsp_prod + k - 1) \in Slot /\ place(Mask(rsp_prod + k - 1)) = k - 1
  <2>1. k - 1 \in Slot /\ rsp_prod + (k - 1) = rsp_prod + k - 1 /\ rsp_prod + k - 1 \in Nat
    BY <1>3 DEF Slot
  <2>2. place(Mask(rsp_prod + (k - 1))) = k - 1
    BY <1>3, <2>1, MaskBack
  <2> QED BY <2>1, <2>2, MaskIs
<1> HIDE DEF place
<1>6. rsp' \in [Slot -> Cell]
  <2>1. ASSUME NEW i \in Slot, place(i) + 1 <= n PROVE out[place(i) + 1] \in Cell
    <3>1. place(i) + 1 \in 1..Len(out)
      <4>1. place(i) \in Slot
        BY <1>4
      <4>2. place(i) \in Nat /\ n \in Nat
        BY <4>1 DEF Slot
      <4> QED BY <1>3, <2>1, <4>2
    <3> QED BY <1>3, <3>1
  <2> QED BY <1>1, <1>3, <2>1
<1>7. ASSUME NEW i \in Slot
      PROVE  rsp'[i] = rsp[i] \/ \E k \in 0..(n - 1) : i = Mask(rsp_prod + k)
  <2>1. CASE place(i) + 1 <= n
    <3>1. place(i) \in 0..(n - 1)
      BY <1>3, <1>4, <2>1 DEF Slot
    <3> QED BY <1>4, <3>1
  <2>2. CASE ~(place(i) + 1 <= n)
    BY <1>1, <1>3, <2>2
  <2> QED BY <2>1, <2>2
<1>8. ASSUME NEW k \in 1..n PROVE rsp'[Mask(rsp_prod + k - 1)] = out[k]
  <2>1. place(Mask(rsp_prod + k - 1)) = k - 1
    BY <1>5
  <2>2. (k - 1) + 1 = k /\ k <= n
    BY <1>3
  <2> QED BY <1>1, <1>3, <1>5, <2>1, <2>2
<1>9. Requested' = Requested /\ Coming' = Coming /\ out' \in Seq(Cell)
  <2>1. /\ SubSeq(out, n + 1, Len(out)) \in Seq(Cell)
        /\ Content(rsp', rsp_cons, Add(rsp_prod, n)) \o SubSeq(out, n + 1, Len(out))
             = Content(rsp, rsp_cons, rsp_prod) \o out
    <3> DEFINE new == rsp'
    <3>1. new \in [Slot -> Cell] /\ Copied(new, rsp, rsp_prod, n, out)
      BY <1>6, <1>7, <1>8 DEF Copied
    <3> HIDE DEF new
    <3>2. /\ Uncopied(out, n) \in Seq(Cell)
          /\ AllOf(new, rsp_cons, Add(rsp_prod, n), Uncopied(out, n))
               = AllOf(rsp, rsp_cons, rsp_prod, out)
      BY ONLY <1>3, <3>1, Given
    <3> QED BY <3>2 DEF new, AllOf, Uncopied
  <2> QED BY <1>1, <2>1 DEF Requested, Coming
<1>10. /\ rsp_prod' \in Idx /\ Sub(rsp_prod', rsp_cons') = Sub(rsp_prod, rsp_cons) + n
  BY <1>1, <1>3, AddIs, SubAddProducer
<1>11. Types' /\ Stages' /\ Room'
  BY <1>1, <1>2, <1>3, <1>6, <1>9, <1>10 DEF Types, Stages, Room, guestVars
<1>12. ASSUME NEW k \in 1..Sub(rsp_prod, rsp_cons)
       PROVE  rsp'[Mask(rsp_cons + k - 1)] = rsp[Mask(rsp_cons + k - 1)]
  <2>1. Content(rsp', rsp_cons, rsp_prod) = Content(rsp, rsp_cons, rsp_prod)
    BY ONLY <1>3, <1>6, <1>7, ContentStays
  <2>2. Content(rsp', rsp_cons, rsp_prod)[k] = rsp'[Mask(rsp_cons + k - 1)]
    BY SMTT(30), <1>3, <1>6, ContentIs
  <2>3. Content(rsp, rsp_cons, rsp_prod)[k] = rsp[Mask(rsp_cons + k - 1)]
    BY SMTT(30), <1>3, ContentIs
  <2> QED BY <2>1, <2>2, <2>3
<1>13. ChunkPrivate' /\ Received'
  <2>1. ASSUME pc = "taken", stage = "rdata", NEW k \in 1..part
        PROVE  rsp'[Mask(rsp_cons + k - 1)] = payload[k]
    <3>1. part \in Nat /\ part <= Sub(rsp_prod, rsp_cons)
      BY <1>2, <2>1 DEF Types, MaxLen, ChunkPrivate
    <3>2. k \in 1..Sub(rsp_prod, rsp_cons)
      BY <1>3, <3>1
    <3> QED BY <1>2, <1>12, <2>1, <3>2 DEF ChunkPrivate
  <2>2. pc = "taken" => part <= Sub(rsp_prod', rsp_cons')
    <3>1. part \in Nat
      BY <1>2 DEF Types, MaxLen
    <3> QED BY <1>2, <1>3, <1>10, <3>1 DEF ChunkPrivate
  <2> QED BY <1>1, <1>2, <2>1, <2>2 DEF ChunkPrivate, Received, guestVars
<1>14. Asks' /\ Answers'
  BY <1>1, <1>2, <1>9 DEF Asks, Answers, Asking, guestVars
<1> QED BY <1>11, <1>13, <1>14 DEF StoreInv

(* Every step of xenbus_send() and of the daemon keeps the invariant. *)
LEMMA StoreInvariant == StoreSpec => []StoreInv
<1>1. StoreInv /\ [StoreNext]_storeVars => StoreInv'
  <2> SUFFICES ASSUME StoreInv, [StoreNext]_storeVars PROVE StoreInv'
    OBVIOUS
  <2>1. CASE UNCHANGED storeVars
    <3>1. /\ UNCHANGED <<ringVars, evtchn_pending, kicked, guestVars, got, out>>
      BY <2>1 DEF storeVars
    <3>2. Requested' = Requested /\ Coming' = Coming
      BY <3>1, SameStreams
    <3>3. Types' /\ Room'
      BY <3>1 DEF StoreInv, Types, Room, ringVars, guestVars
    <3>4. Stages'
      BY <3>1 DEF StoreInv, Stages, ringVars, guestVars
    <3>5. ChunkPrivate' /\ Received'
      BY <3>1 DEF StoreInv, ChunkPrivate, Received, ringVars, guestVars
    <3>6. Asks' /\ Answers'
      BY <3>1, <3>2 DEF StoreInv, Asks, Answers, Asking, guestVars
    <3> QED BY <3>3, <3>4, <3>5, <3>6 DEF StoreInv
  <2>2. CASE \E n \in QueryLens : xenbus_send(n)
    BY <2>2, BeginStep
  <2>3. CASE Guest
    BY <2>3, CopyStep, PublishStep, KickStep, ReadStep, ConsumeStep, WaitStep DEF Guest
  <2>4. CASE Daemon
    BY <2>4, TakeStep, GiveStep, AnswerStep, WaitStep DEF Daemon, AnswerTypes
  <2> QED BY <2>1, <2>2, <2>3, <2>4 DEF StoreNext
<1> QED BY <1>1, StoreInitInv, PTL DEF StoreSpec

(* Both ends of the xenstore rings agree on where messages begin, and no   *)
(* call leaves anything of itself behind, for rings, indices and messages  *)
(* of any length (ring_write, ring_read, xenbus_send).                     *)
THEOREM MessagesFramed == StoreSpec => []Framing
BY StoreInvariant, InvImplies, PTL

(* The chunk a memcpy of ring_write or ring_read is about is never touched *)
(* by the daemon before the index moves over it.                           *)
THEOREM ChunksPrivate == StoreSpec => []ChunkPrivate
BY StoreInvariant, PTL DEF StoreInv

HIDE XenStoreAssumption DEF XenStoreAssumption

-----------------------------------------------------------------------------
(***************************************************************************)
(* xen-blk.c: xen_blk_setup().  What a backend maps and binds is what the  *)
(* frontend put there for that drive, at whatever points of the handshake  *)
(* the two ends meet.                                                      *)
(***************************************************************************)

Busy == at \notin {"init", "done"}

(* How far xen_blk_setup() has come, in every counter it keeps. *)
Counts ==
  /\ Busy => vbd < Vbds
  /\ count_grants = 2 * vbd + (IF Busy THEN 3 ELSE 1)
  /\ count_drives = vbd + (IF Busy THEN 1 ELSE 0)
  /\ drives <= vbd
  /\ nextport \in Nat /\ FirstPort <= nextport
  /\ nextport <= FirstPort + vbd
                 + (IF at \in {"ringref", "initialised", "poll", "connected"} THEN 1 ELSE 0)

(* The references are those of the drive's own pages. *)
Grants ==
  \A v \in Vbd : v < vbd \/ (v = vbd /\ Busy) =>
    ring_ref[v] = 2 * v + 2 /\ grant_entries[2 * v + 2] = [vbd |-> v, what |-> "ring"]

Ports == \A v \in Vbd : port[v] = 0 \/ (FirstPort <= port[v] /\ port[v] < nextport)

Announced(v) == nstate[v] \in {Initialised, Connected}

(* What the frontend has put into xenstore by the time it needs it. *)
Nodes ==
  /\ at \in {"initialised", "poll", "connected"} => nring[vbd] = 2 * vbd + 2
  /\ at \in {"ringref", "initialised", "poll", "connected"} =>
       port[vbd] # 0 /\ nchannel[vbd] = itoa(port[vbd])
  /\ \A v \in Vbd : Announced(v) =>
       /\ nring[v] = 2 * v + 2
       /\ port[v] # 0 /\ nchannel[v] = itoa(port[v])
       /\ v < vbd \/ (v = vbd /\ at \in {"poll", "connected"})

(* A backend moves only once its drive is announced. *)
Backends ==
  /\ \A v \in Vbd : ~Announced(v) => bstate[v] \in {Initialising, InitWait}
  /\ at = "connected" => bstate[vbd] = Connected

VbdInv == OwnRing /\ Counts /\ Grants /\ Ports /\ Nodes /\ Backends

USE XenVbdAssumption, DrivesAssumption DEF XenVbdAssumption, DrivesAssumption

(* itoa() writes two digits in the wrong order, which names another number *)
(* only of two that are far apart.                                         *)
LEMMA ItoaFacts ==
  ASSUME NEW n \in 0..99
  PROVE  /\ itoa(n) \in 0..99
         /\ n < 10 => itoa(n) = n
         /\ \A m \in 0..99 : itoa(n) = m /\ m - n < 9 /\ n - m < 9 => m = n
BY DEF itoa

(* VbdTypes as the steps below need them. *)
LEMMA VbdTypes ==
  ASSUME VbdInv
  PROVE  /\ vbd \in 0..Vbds /\ Vbds \in 0..4 /\ FirstPort \in Nat \ {0}
         /\ grant_entries \in [Ref -> Page] /\ ring_ref \in [Vbd -> Ref]
         /\ port \in [Vbd -> 0..99] /\ nring \in [Vbd -> 0..99] /\ nchannel \in [Vbd -> 0..99]
         /\ nstate \in [Vbd -> 0..5] /\ bstate \in [Vbd -> 1..5]
         /\ bpage \in [Vbd -> Page] /\ bport \in [Vbd -> 0..99]
         /\ \A v \in Vbd : v \in 0..3 /\ 2 * v + 2 \in Ref /\ 2 * v + 3 \in Ref
BY SMTT(30) DEF VbdInv, OwnRing, VbdTypeOK, Vbd, Ref, Port, Initialising, Closing

(* The drive at hand is one of the directory, and its page is granted. *)
LEMMA BusyDrive ==
  ASSUME VbdInv, at \notin {"init", "done"}
  PROVE  vbd \in Vbd /\ ring_ref[vbd] = 2 * vbd + 2 /\ vbd \in 0..3
<1>1. vbd < Vbds
  BY DEF VbdInv, Counts, Busy
<1>2. vbd \in Vbd
  BY <1>1, VbdTypes DEF Vbd
<1> QED BY <1>2, VbdTypes DEF VbdInv, Grants, Busy

(* Nothing is granted or announced. *)
LEMMA InitInv == VbdInit => VbdInv
<1> SUFFICES ASSUME VbdInit PROVE VbdInv
  OBVIOUS
<1> USE DEF VbdInit
<1>1. VbdTypeOK
  BY DEF VbdTypeOK, Vbd, Ref, Port, Page, NoPage, Initialising, Closing
<1>2. OwnRing
  BY <1>1 DEF OwnRing, Initialising, Connected, Vbd
<1>3. Counts /\ Grants /\ Ports /\ Nodes /\ Backends
  BY DEF Counts, Busy, Grants, Ports, Nodes, Announced, Backends, Vbd, Initialising, Initialised,
         InitWait, Connected
<1> QED BY <1>2, <1>3 DEF VbdInv

(* A grant goes to an entry no drive before it has. *)
LEMMA GrantStep == ASSUME VbdInv, init_xen_blk PROVE VbdInv'
<1>1. /\ vbd \in Vbd /\ vbd' = vbd /\ at = "init" /\ at' = "share"
      /\ count_drives' = count_drives + 1
      /\ count_grants = 2 * vbd + 1 /\ count_drives = vbd /\ count_grants' = 2 * vbd + 3
      /\ grant_entries' = [grant_entries EXCEPT ![2 * vbd + 2] = [vbd |-> vbd, what |-> "ring"],
                                                ![2 * vbd + 3] = [vbd |-> vbd, what |-> "buffer"]]
      /\ ring_ref' = [ring_ref EXCEPT ![vbd] = 2 * vbd + 2]
      /\ UNCHANGED <<type, drives, port, nextport, nodeVars, backVars>>
  <2>1. vbd \in Vbd /\ at = "init" /\ vbd \in 0..3
    BY VbdTypes DEF init_xen_blk, Vbd
  <2>2. count_grants = 2 * vbd + 1 /\ count_drives = vbd
    BY <2>1 DEF VbdInv, Counts, Busy
  <2>3. get_free_grant(1) = 2 * vbd + 2 /\ get_free_grant(2) = 2 * vbd + 3
    BY <2>1, <2>2 DEF get_free_grant
  <2> QED BY <2>1, <2>2, <2>3 DEF init_xen_blk
<1>2. VbdTypeOK'
  <2>1. grant_entries' \in [Ref -> Page] /\ ring_ref' \in [Vbd -> Ref]
    BY <1>1, VbdTypes DEF Page
  <2>2. count_grants' \in Ref /\ count_drives' \in 0..MAX_DRIVES
    BY <1>1, VbdTypes DEF Ref, Vbd
  <2> QED BY <1>1, <2>1, <2>2 DEF VbdInv, OwnRing, VbdTypeOK, nodeVars, backVars
<1>3. OwnRing' /\ Nodes' /\ Ports' /\ Backends'
  BY <1>1, <1>2 DEF VbdInv, OwnRing, Nodes, Ports, Backends, Announced, nodeVars, backVars
<1>4. Counts'
  BY <1>1, VbdTypes DEF VbdInv, Counts, Busy, Vbd
<1>5. Grants'
  <2> SUFFICES ASSUME NEW v \in Vbd, v <= vbd
               PROVE  ring_ref'[v] = 2 * v + 2 /\ grant_entries'[2 * v + 2] = [vbd |-> v, what |-> "ring"]
    BY <1>1, VbdTypes DEF Grants, Vbd
  <2>1. CASE v = vbd
    BY <1>1, <2>1, VbdTypes
  <2>2. CASE v < vbd
    <3>1. ring_ref[v] = 2 * v + 2 /\ grant_entries[2 * v + 2] = [vbd |-> v, what |-> "ring"]
      BY <2>2 DEF VbdInv, Grants
    <3>2. 2 * v + 2 # 2 * vbd + 2 /\ 2 * v + 2 # 2 * vbd + 3
      BY <1>1, <2>2, VbdTypes
    <3> QED BY <1>1, <2>2, <3>1, <3>2, VbdTypes
  <2> QED BY <1>1, <2>1, <2>2, VbdTypes
<1> QED BY <1>3, <1>4, <1>5 DEF VbdInv

(* The steps that only move on: their counters and nodes stay. *)
LEMMA ShareStep == ASSUME VbdInv, xenstore_share_vbd \/ setup_done PROVE VbdInv'
<1>1. /\ UNCHANGED <<type, grant_entries, count_grants, count_drives, ring_ref, port, nextport,
                     nodeVars, backVars>>
      /\ \/ at = "share" /\ at' = "initialising" /\ UNCHANGED <<vbd, drives>>
         \/ at = "share" /\ at' = "init" /\ vbd' = vbd + 1 /\ drives' \in {drives, drives + 1}
         \/ at = "init" /\ at' = "done" /\ UNCHANGED <<vbd, drives>>
  BY DEF xenstore_share_vbd, setup_done, frontVars
<1>2. VbdTypeOK' /\ Counts'
  <2>1. vbd < Vbds \/ at = "init"
    BY <1>1 DEF VbdInv, Counts, Busy
  <2>2. Counts'
    <3> USE <1>1, VbdTypes DEF VbdInv, Counts, Busy, OwnRing, VbdTypeOK
    <3>1. CASE at' = "initialising"
      BY <3>1
    <3>2. CASE at' = "init"
      BY <2>1, <3>2
    <3>3. CASE at' = "done"
      BY <3>3
    <3> QED BY <3>1, <3>2, <3>3
  <2>3. vbd' \in 0..Vbds /\ drives' \in 0..MAX_DRIVES
    BY <1>1, <2>1, <2>2, VbdTypes DEF VbdInv, OwnRing, VbdTypeOK, Counts
  <2> QED BY <1>1, <2>2, <2>3 DEF VbdInv, OwnRing, VbdTypeOK, nodeVars, backVars
<1>3. OwnRing' /\ Ports' /\ Backends'
  BY <1>1, <1>2 DEF VbdInv, OwnRing, Ports, Backends, Announced, nodeVars, backVars
<1>4. Grants'
  BY <1>1, VbdTypes DEF VbdInv, Grants, Busy, Vbd
<1>5. Nodes'
  BY <1>1, VbdTypes DEF VbdInv, Nodes, Announced, nodeVars, Vbd
<1> QED BY <1>2, <1>3, <1>4, <1>5 DEF VbdInv

(* The state and the ring-ref of a drive are written before it is announced. *)
LEMMA WriteStep == ASSUME VbdInv, write_initialising \/ write_ring_ref PROVE VbdInv'
<1>1. /\ UNCHANGED <<vbd, type, frontVars, nchannel, backVars>>
      /\ \/ /\ at = "initialising" /\ at' = "channel" /\ nring' = nring
            /\ nstate' = [nstate EXCEPT ![vbd] = 1]
         \/ /\ at = "ringref" /\ at' = "initialised" /\ nstate' = nstate
            /\ nring' = [nring EXCEPT ![vbd] = itoa(ring_ref[vbd])]
         \/ /\ at = "initialised" /\ at' = "poll" /\ nring' = nring
            /\ nstate' = [nstate EXCEPT ![vbd] = 3]
  BY DEF write_initialising, write_ring_ref, Initialising, Initialised
<1>2. vbd \in Vbd /\ ring_ref[vbd] = 2 * vbd + 2 /\ itoa(2 * vbd + 2) = 2 * vbd + 2
      /\ 2 * vbd + 2 \in 0..99
  <2>1. vbd \in Vbd /\ ring_ref[vbd] = 2 * vbd + 2 /\ vbd \in 0..3
    BY <1>1, BusyDrive
  <2>2. 2 * vbd + 2 \in 0..99 /\ 2 * vbd + 2 < 10
    BY <2>1
  <2> QED BY <2>1, <2>2, ItoaFacts
<1>3. ~Announced(vbd)
  <2>1. ~(vbd < vbd)
    BY VbdTypes
  <2> QED BY <1>1, <1>2, <2>1 DEF VbdInv, Nodes
<1>4. VbdTypeOK'
  <2>1. nring' \in [Vbd -> Port] /\ nstate' \in [Vbd -> 0..Closing]
    <3>1. nring \in [Vbd -> Port] /\ nstate \in [Vbd -> 0..Closing]
      BY DEF VbdInv, OwnRing, VbdTypeOK
    <3>2. 2 * vbd + 2 \in Port /\ 1 \in 0..Closing /\ 3 \in 0..Closing
      BY <1>2 DEF Port, Closing
    <3> QED BY <1>1, <1>2, <3>1, <3>2
  <2> QED BY <1>1, <2>1 DEF VbdInv, OwnRing, VbdTypeOK, frontVars, backVars
<1>5. OwnRing'
  <2>1. ASSUME NEW v \in Vbd, nstate'[v] = 4 PROVE nstate[v] = 4
    <3>1. nstate' = nstate \/ nstate' = [nstate EXCEPT ![vbd] = 1] \/ nstate' = [nstate EXCEPT ![vbd] = 3]
      BY <1>1
    <3>2. nstate \in [Vbd -> 0..5]
      BY VbdTypes
    <3> QED BY <2>1, <3>1, <3>2
  <2> QED BY <1>1, <1>4, <2>1 DEF VbdInv, OwnRing, frontVars, backVars, Connected
<1>6. Counts' /\ Grants' /\ Ports'
  BY <1>1 DEF VbdInv, Counts, Busy, Grants, Ports, frontVars
<1>7. Nodes'
  BY <1>1, <1>2, <1>3, VbdTypes
     DEF VbdInv, Nodes, Announced, frontVars, Initialised, Connected, Vbd
<1>8. Backends'
  BY <1>1, <1>2, <1>3, VbdTypes
     DEF VbdInv, Backends, Announced, backVars, Initialising, InitWait, Initialised, Connected
<1> QED BY <1>5, <1>6, <1>7, <1>8 DEF VbdInv

(* The channel that is written is the one just allocated. *)
LEMMA ChannelStep == ASSUME VbdInv, write_channel PROVE VbdInv'
<1>1. /\ UNCHANGED <<vbd, type, grant_entries, count_grants, count_drives, drives, ring_ref,
                     nstate, nring, backVars>>
      /\ at = "channel" /\ at' = "ringref" /\ nextport \in 0..99
      /\ port' = [port EXCEPT ![vbd] = nextport]
      /\ nextport' = nextport + 1
      /\ nchannel' = [nchannel EXCEPT ![vbd] = itoa(nextport)]
  BY DEF write_channel, Port
<1>2. vbd \in Vbd /\ ~Announced(vbd) /\ bstate[vbd] # Connected /\ FirstPort <= nextport
  <2>1. vbd \in Vbd /\ ~(vbd < vbd)
    BY <1>1, BusyDrive, VbdTypes
  <2>2. ~Announced(vbd)
    BY <1>1, <2>1 DEF VbdInv, Nodes
  <2> QED BY <2>1, <2>2 DEF VbdInv, Counts, Backends, Initialising, InitWait, Connected
<1>3. VbdTypeOK'
  <2>1. nchannel' \in [Vbd -> Port] /\ port' \in [Vbd -> Port]
    BY <1>1, <1>2, VbdTypes, ItoaFacts DEF Port
  <2> QED BY <1>1, <2>1 DEF VbdInv, OwnRing, VbdTypeOK, backVars
<1>4. OwnRing'
  BY <1>1, <1>2, <1>3, VbdTypes DEF VbdInv, OwnRing, backVars
<1>5. Counts' /\ Grants' /\ Backends'
  BY <1>1, VbdTypes DEF VbdInv, Counts, Busy, Grants, Backends, Announced, backVars
<1>6. Ports'
  BY SMTT(60), <1>1, <1>2, VbdTypes DEF VbdInv, Ports
<1>7. Nodes'
  BY <1>1, <1>2, VbdTypes DEF VbdInv, Nodes, Announced
<1> QED BY <1>4, <1>5, <1>6, <1>7 DEF VbdInv

(* The frontend follows a backend that is connected. *)
LEMMA ConnectedStep == ASSUME VbdInv, poll_backend \/ write_connected PROVE VbdInv'
<1>1. CASE poll_backend
  <2>1. at = "poll" /\ at' = "connected" /\ bstate[vbd] = Connected
        /\ UNCHANGED <<vbd, type, frontVars, nodeVars, backVars>>
    BY <1>1 DEF poll_backend
  <2> QED BY <2>1 DEF VbdInv, OwnRing, VbdTypeOK, Counts, Busy, Grants, Ports, Nodes, Announced,
                      Backends, frontVars, nodeVars, backVars
<1>2. CASE write_connected
  <2>1. /\ at = "connected" /\ at' = "init" /\ vbd' = vbd + 1 /\ drives' = drives + 1
        /\ nstate' = [nstate EXCEPT ![vbd] = 4]
        /\ UNCHANGED <<type, grant_entries, count_grants, count_drives, ring_ref, port, nextport,
                       nring, nchannel, backVars>>
    BY <1>2 DEF write_connected, Connected
  <2>2. vbd \in Vbd /\ bstate[vbd] = 4 /\ Announced(vbd)
    <3>1. vbd \in Vbd /\ bstate[vbd] = 4
      BY <2>1, BusyDrive DEF VbdInv, Backends, Connected
    <3> QED BY <3>1 DEF VbdInv, Backends, Initialising, InitWait
  <2>3. VbdTypeOK' /\ Counts'
    <3>1. nstate' \in [Vbd -> 0..Closing]
      BY <2>1, <2>2, VbdTypes DEF Closing
    <3> QED BY SMTT(30), <2>1, <2>2, <3>1, VbdTypes
         DEF VbdInv, OwnRing, VbdTypeOK, Counts, Busy, backVars, Vbd
  <2>4. OwnRing'
    BY <2>1, <2>2, <2>3, VbdTypes DEF VbdInv, OwnRing, backVars, Connected
  <2>5. Grants' /\ Ports'
    BY <2>1, <2>2, VbdTypes DEF VbdInv, Grants, Busy, Ports, Vbd
  <2>6. Nodes' /\ Backends'
    BY <2>1, <2>2, VbdTypes
       DEF VbdInv, Nodes, Backends, Announced, backVars, Initialised, Connected, Vbd
  <2> QED BY <2>3, <2>4, <2>5, <2>6 DEF VbdInv
<1> QED BY <1>1, <1>2

(* What a backend finds in xenstore is the page and the channel of its own *)
(* drive, for the channels of four drives are too close together for the   *)
(* digits of one, read backwards, to name another.                         *)
LEMMA BackendStep == ASSUME VbdInv, NEW v \in Vbd, Backend(v) PROVE VbdInv'
<1>1. CASE backend_wait(v)
  <2>1. /\ bstate[v] = 1 /\ bstate' = [bstate EXCEPT ![v] = 2]
        /\ UNCHANGED <<at, vbd, type, frontVars, nodeVars, bpage, bport>>
    BY <1>1 DEF backend_wait, Initialising, InitWait
  <2>2. VbdTypeOK'
    <3>1. bstate' \in [Vbd -> Initialising..Closing]
      BY <2>1, VbdTypes DEF Initialising, Closing
    <3> QED BY <2>1, <3>1 DEF VbdInv, OwnRing, VbdTypeOK, frontVars, nodeVars
  <2>3. OwnRing' /\ Backends'
    BY <2>1, <2>2, VbdTypes
       DEF VbdInv, OwnRing, Backends, Announced, frontVars, nodeVars, Connected, InitWait, Vbd
  <2>4. Counts' /\ Grants' /\ Ports' /\ Nodes'
    BY <2>1 DEF VbdInv, Counts, Busy, Grants, Ports, Nodes, Announced, frontVars, nodeVars
  <2> QED BY <2>3, <2>4 DEF VbdInv
<1>2. CASE backend_connect(v)
  <2> DEFINE page == IF nring[v] \in Ref THEN grant_entries[nring[v]] ELSE NoPage
             ok == page # NoPage /\ \E u \in Vbd : port[u] # 0 /\ port[u] = nchannel[v]
  <2>1. /\ bstate[v] = 2 /\ Announced(v)
        /\ bstate' = [bstate EXCEPT ![v] = IF ok THEN 4 ELSE 5]
        /\ bpage' = [bpage EXCEPT ![v] = IF ok THEN page ELSE NoPage]
        /\ bport' = [bport EXCEPT ![v] = IF ok THEN nchannel[v] ELSE 0]
        /\ UNCHANGED <<at, vbd, type, frontVars, nodeVars>>
    BY <1>2 DEF backend_connect, Announced, InitWait, Initialised, Connected, Closing
  <2>2. page = [vbd |-> v, what |-> "ring"]
    BY <2>1, VbdTypes DEF VbdInv, Nodes, Grants, Busy, Announced, Vbd
  <2>3. ASSUME ok PROVE nchannel[v] = port[v]
    <3>1. PICK u \in Vbd : port[u] # 0 /\ port[u] = nchannel[v]
      BY <2>3
    <3>2. port[v] # 0 /\ itoa(port[v]) = port[u]
      BY <2>1, <3>1 DEF VbdInv, Nodes
    <3>3. port[u] - port[v] < 9 /\ port[v] - port[u] < 9
      <4>1. nextport \in Nat /\ nextport <= FirstPort + 5
        BY VbdTypes DEF VbdInv, Counts
      <4>2. /\ FirstPort <= port[u] /\ port[u] < nextport
            /\ FirstPort <= port[v] /\ port[v] < nextport
        BY <3>1, <3>2 DEF VbdInv, Ports
      <4> QED BY <4>1, <4>2, VbdTypes
    <3> QED BY <3>1, <3>2, <3>3, VbdTypes, ItoaFacts
  <2>4. NoPage \in Page /\ page \in Page
    BY <2>2 DEF NoPage, Page
  <2> HIDE DEF page, ok
  <2>5. VbdTypeOK'
    <3>1. /\ bstate' \in [Vbd -> Initialising..Closing]
          /\ bpage' \in [Vbd -> Page] /\ bport' \in [Vbd -> Port]
      BY <2>1, <2>4, VbdTypes DEF Initialising, Closing, Port
    <3> QED BY <2>1, <3>1 DEF VbdInv, OwnRing, VbdTypeOK, frontVars, nodeVars
  <2>6. OwnRing'
    <3> USE <2>1, VbdTypes DEF Connected, frontVars, nodeVars, InitWait
    <3>1. ASSUME NEW u \in Vbd, bstate'[u] = Connected
          PROVE  bpage'[u] = [vbd |-> u, what |-> "ring"] /\ bport'[u] = port'[u]
      <4>1. CASE u = v
        BY <2>2, <2>3, <3>1, <4>1
      <4>2. CASE u # v
        BY <3>1, <4>2 DEF VbdInv, OwnRing
      <4> QED BY <4>1, <4>2
    <3>2. ASSUME NEW u \in Vbd, nstate'[u] = Connected PROVE bstate'[u] = Connected
      BY <3>2 DEF VbdInv, OwnRing
    <3> QED BY <2>5, <3>1, <3>2 DEF OwnRing
  <2>7. Backends'
    BY <2>1, VbdTypes DEF VbdInv, Backends, Announced, frontVars, nodeVars, InitWait, Connected
  <2>8. Counts' /\ Grants' /\ Ports' /\ Nodes'
    BY <2>1 DEF VbdInv, Counts, Busy, Grants, Ports, Nodes, Announced, frontVars, nodeVars
  <2> QED BY <2>6, <2>7, <2>8 DEF VbdInv
<1> QED BY <1>1, <1>2 DEF Backend

(* Every step of the setup and of the backends keeps the invariant. *)
LEMMA VbdInvariant == VbdSpec => []VbdInv
<1>1. VbdInv /\ [VbdNext]_vbdVars => VbdInv'
  <2> SUFFICES ASSUME VbdInv, [VbdNext]_vbdVars PROVE VbdInv'
    OBVIOUS
  <2>1. CASE UNCHANGED vbdVars
    BY <2>1 DEF VbdInv, OwnRing, VbdTypeOK, Counts, Busy, Grants, Ports, Nodes, Announced, Backends,
                vbdVars, frontVars, nodeVars, backVars
  <2>2. CASE Frontend
    BY <2>2, GrantStep, ShareStep, WriteStep, ChannelStep, ConnectedStep DEF Frontend
  <2>3. CASE \E v \in Vbd : Backend(v)
    BY <2>3, BackendStep
  <2> QED BY <2>1, <2>2, <2>3 DEF VbdNext, Terminated
<1> QED BY <1>1, InitInv, PTL DEF VbdSpec

(* A connected backend has mapped the ring page and bound the event        *)
(* channel of its own drive, although itoa() reverses two digits, and a    *)
(* frontend is Connected only to a backend that is (xen_blk_setup).        *)
THEOREM RingsOwned == VbdSpec => []OwnRing
BY VbdInvariant, PTL DEF VbdInv
=============================================================================
