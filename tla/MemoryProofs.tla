---------------------------- MODULE MemoryProofs ----------------------------
(***************************************************************************)
(* The e820 map, for lists of any capacity and any addresses.  A change of *)
(* the list keeps its items up to some position and from another one on,   *)
(* with at most two new ones between (Pieced); what such a list is, follows*)
(* once for all from what the pieces are (PiecesKeep).                     *)
(***************************************************************************)
EXTENDS E820, FiniteSetTheorems, SequenceTheorems, TLAPS

(* The ranges of the list, and those that can be added. *)
Item == [start : Nat, end : Nat, type : Types \ {"HOLE"}]
Ranges == [start : Nat, end : Nat, type : Types]

(* One behind the other, and not to be merged. *)
Fit(e, f) == e.end < f.start \/ (e.end = f.start /\ e.type # f.type)

(* A list that is as it should be. *)
Good(list) ==
  /\ list \in Seq(Item)
  /\ \A x \in 1..Len(list) : list[x].start < list[x].end
  /\ \A x, y \in 1..Len(list) : x < y => Fit(list[x], list[y])

(* What it says of an address. *)
Within(e, a) == e.start <= a /\ a < e.end
Says(e, a, t) == Within(e, a) /\ e.type = t
Has(list, a, t) == \E x \in 1..Len(list) : Says(list[x], a, t)

(* It is as it should be, and says what was declared last.                 *)
MapInv ==
  /\ Good(e820_list) /\ Len(e820_list) <= MAX_E820
  /\ DOMAIN declared \subseteq Nat /\ \A a \in DOMAIN declared : declared[a] \in Types
  /\ dropped \in BOOLEAN
  /\ ~dropped => \A a \in DOMAIN declared, t \in Types \ {"HOLE"} :
                   Has(e820_list, a, t) <=> declared[a] = t


-----------------------------------------------------------------------------
(* Lists made of pieces.                                                   *)

(* new is list up to k, then mid, then list from j on. *)
Pieced(new, list, k, mid, j) ==
  /\ new \in Seq(Item) /\ Len(new) = (k - 1) + Len(mid) + (Len(list) - j + 1)
  /\ \A x \in 1..(k - 1) : new[x] = list[x]
  /\ \A x \in 1..Len(mid) : new[k - 1 + x] = mid[x]
  /\ \A x \in j..Len(list) : new[x - j + k + Len(mid)] = list[x]

(* Where the items of the new list come from. *)
LEMMA Sources ==
  ASSUME NEW list \in Seq(Item), NEW mid \in Seq(Item), NEW k \in Nat \ {0}, NEW j \in Nat,
         k <= j, j <= Len(list) + 1, NEW new, Pieced(new, list, k, mid, j), NEW z \in 1..Len(new)
  PROVE  \/ z < k /\ z \in 1..(k - 1) /\ new[z] = list[z]
         \/ /\ z >= k /\ z < k + Len(mid)
            /\ z - k + 1 \in 1..Len(mid) /\ new[z] = mid[z - k + 1]
         \/ /\ z >= k + Len(mid)
            /\ z - k - Len(mid) + j \in j..Len(list) /\ new[z] = list[z - k - Len(mid) + j]
<1>1. Len(list) \in Nat /\ Len(mid) \in Nat /\ Len(new) = (k - 1) + Len(mid) + (Len(list) - j + 1)
  BY DEF Pieced
<1>2. CASE z < k
  BY <1>1, <1>2 DEF Pieced
<1>3. CASE z >= k /\ z < k + Len(mid)
  <2> DEFINE x == z - k + 1
  <2>1. x \in 1..Len(mid) /\ k - 1 + x = z
    BY <1>1, <1>3
  <2> HIDE DEF x
  <2>2. new[z] = mid[x]
    BY <2>1 DEF Pieced
  <2> QED BY <1>3, <2>1, <2>2 DEF x
<1>4. CASE z >= k + Len(mid)
  <2> DEFINE x == z - k - Len(mid) + j
  <2>1. x \in j..Len(list) /\ x - j + k + Len(mid) = z
    BY <1>1, <1>4
  <2> HIDE DEF x
  <2>2. new[z] = list[x]
    BY <2>1 DEF Pieced
  <2> QED BY <1>4, <2>1, <2>2 DEF x
<1> QED BY <1>1, <1>2, <1>3, <1>4

(* The new pieces fit where they go. *)
Fits(list, k, mid, j) ==
  /\ \A x \in 1..(k - 1), y \in 1..Len(mid) : Fit(list[x], mid[y])
  /\ \A y \in 1..Len(mid), x \in j..Len(list) : Fit(mid[y], list[x])

(* The new list says what its pieces say. *)
SaysPieces(new, list, k, mid, j) ==
  \A a, t : Has(new, a, t) <=> \/ \E x \in 1..(k - 1) : Says(list[x], a, t)
                               \/ Has(mid, a, t)
                               \/ \E x \in j..Len(list) : Says(list[x], a, t)

(* Pieces that fit are a good list, and it says what they say.             *)
LEMMA PiecesKeep ==
  ASSUME NEW list, Good(list), NEW mid, Good(mid), NEW k \in Nat \ {0}, NEW j \in Nat,
         k <= j, j <= Len(list) + 1, NEW new, Pieced(new, list, k, mid, j), Fits(list, k, mid, j)
  PROVE  Good(new) /\ SaysPieces(new, list, k, mid, j)
<1>1. /\ list \in Seq(Item) /\ mid \in Seq(Item) /\ new \in Seq(Item)
      /\ Len(list) \in Nat /\ Len(mid) \in Nat /\ Len(new) = (k - 1) + Len(mid) + (Len(list) - j + 1)
  BY DEF Good, Pieced
<1> DEFINE First(z) == z < k /\ z \in 1..(k - 1) /\ z \in 1..Len(list) /\ new[z] = list[z]
           Second(z) == z >= k /\ z < k + Len(mid) /\ z - k + 1 \in 1..Len(mid) /\ new[z] = mid[z - k + 1]
           Third(z) == /\ z >= k + Len(mid) /\ z - k - Len(mid) + j \in j..Len(list)
                       /\ z - k - Len(mid) + j \in 1..Len(list)
                       /\ new[z] = list[z - k - Len(mid) + j]
<1>2. ASSUME NEW z \in 1..Len(new) PROVE First(z) \/ Second(z) \/ Third(z)
  <2>1. 1..(k - 1) \subseteq 1..Len(list) /\ j..Len(list) \subseteq 1..Len(list)
    BY <1>1
  <2> QED BY <1>1, <2>1, Sources
<1>3. \A z \in 1..Len(new) : new[z].start < new[z].end
  <2>1. SUFFICES ASSUME NEW z \in 1..Len(new) PROVE new[z].start < new[z].end
    OBVIOUS
  <2> QED BY <1>2 DEF Good
<1>4. ASSUME NEW y \in 1..Len(new), NEW z \in 1..Len(new), y < z PROVE Fit(new[y], new[z])
  <2>1. /\ First(y) \/ Second(y) \/ Third(y)
        /\ First(z) \/ Second(z) \/ Third(z)
    BY <1>2
  <2>2. CASE First(y) /\ First(z)
    BY <1>4, <2>2 DEF Good
  <2>3. CASE First(y) /\ Second(z)
    <3> DEFINE w == z - k + 1
    <3>1. w \in 1..Len(mid) /\ new[z] = mid[w]
      BY <2>3
    <3> HIDE DEF w
    <3> QED BY <2>3, <3>1 DEF Fits
  <2>4. CASE First(y) /\ Third(z)
    <3> DEFINE w == z - k - Len(mid) + j
    <3>1. w \in 1..Len(list) /\ new[z] = list[w] /\ y < w
      BY <1>1, <2>4
    <3> HIDE DEF w
    <3> QED BY <2>4, <3>1 DEF Good
  <2>5. CASE Second(y) /\ Second(z)
    <3> DEFINE v == y - k + 1
               w == z - k + 1
    <3>1. v \in 1..Len(mid) /\ w \in 1..Len(mid) /\ v < w /\ new[y] = mid[v] /\ new[z] = mid[w]
      BY <1>1, <1>4, <2>5
    <3> HIDE DEF v, w
    <3> QED BY <3>1 DEF Good
  <2>6. CASE Second(y) /\ Third(z)
    <3> DEFINE v == y - k + 1
               w == z - k - Len(mid) + j
    <3>1. v \in 1..Len(mid) /\ w \in j..Len(list) /\ new[y] = mid[v] /\ new[z] = list[w]
      BY <2>6
    <3> HIDE DEF v, w
    <3> QED BY <3>1 DEF Fits
  <2>7. CASE Third(y) /\ Third(z)
    <3> DEFINE v == y - k - Len(mid) + j
               w == z - k - Len(mid) + j
    <3>1. v \in 1..Len(list) /\ w \in 1..Len(list) /\ v < w /\ new[y] = list[v] /\ new[z] = list[w]
      BY <1>1, <1>4, <2>7
    <3> HIDE DEF v, w
    <3> QED BY <3>1 DEF Good
  <2>8. ~(Second(y) /\ First(z)) /\ ~(Third(y) /\ First(z)) /\ ~(Third(y) /\ Second(z))
    BY <1>1, <1>4
  <2> HIDE DEF First, Second, Third
  <2> QED BY <2>1, <2>2, <2>3, <2>4, <2>5, <2>6, <2>7, <2>8
<1>5. ASSUME NEW a, NEW t
      PROVE  Has(new, a, t) <=> \/ \E x \in 1..(k - 1) : Says(list[x], a, t)
                                \/ Has(mid, a, t)
                                \/ \E x \in j..Len(list) : Says(list[x], a, t)
  <2>1. ASSUME NEW z \in 1..Len(new), Says(new[z], a, t)
        PROVE  \/ \E x \in 1..(k - 1) : Says(list[x], a, t)
               \/ \E x \in 1..Len(mid) : Says(mid[x], a, t)
               \/ \E x \in j..Len(list) : Says(list[x], a, t)
    <3> HIDE DEF Says
    <3> QED BY <1>2, <2>1
  <2>2. ASSUME NEW x \in 1..(k - 1), Says(list[x], a, t) PROVE \E z \in 1..Len(new) : Says(new[z], a, t)
    <3>1. x \in 1..Len(new) /\ new[x] = list[x]
      BY <1>1 DEF Pieced
    <3> QED BY <2>2, <3>1
  <2>3. ASSUME NEW x \in 1..Len(mid), Says(mid[x], a, t) PROVE \E z \in 1..Len(new) : Says(new[z], a, t)
    <3>1. k - 1 + x \in 1..Len(new) /\ new[k - 1 + x] = mid[x]
      BY <1>1 DEF Pieced
    <3> QED BY <2>3, <3>1
  <2>4. ASSUME NEW x \in j..Len(list), Says(list[x], a, t) PROVE \E z \in 1..Len(new) : Says(new[z], a, t)
    <3> DEFINE z == x - j + k + Len(mid)
    <3>1. z \in 1..Len(new) /\ new[z] = list[x]
      BY <1>1 DEF Pieced
    <3> HIDE DEF z
    <3> QED BY <2>4, <3>1
  <2> QED BY <2>1, <2>2, <2>3, <2>4 DEF Has
<1> QED BY <1>1, <1>3, <1>4, <1>5 DEF Good, SaysPieces

(* The lists that the operations on sequences make of list are pieced.     *)
LEMMA Glued ==
  ASSUME NEW list \in Seq(Item), NEW mid \in Seq(Item), NEW k \in 1..(Len(list) + 1),
         NEW j \in k..(Len(list) + 1)
  PROVE  Pieced(SubSeq(list, 1, k - 1) \o mid \o SubSeq(list, j, Len(list)), list, k, mid, j)
<1> DEFINE left == SubSeq(list, 1, k - 1)
           right == SubSeq(list, j, Len(list))
<1>1. Len(list) \in Nat /\ Len(mid) \in Nat
  OBVIOUS
<1>2. left \in Seq(Item) /\ Len(left) = k - 1 /\ \A x \in 1..(k - 1) : left[x] = list[x]
  BY <1>1
<1>3. /\ right \in Seq(Item) /\ Len(right) = Len(list) - j + 1
      /\ \A x \in 1..Len(right) : right[x] = list[j + x - 1]
  BY <1>1
<1> HIDE DEF left, right
<1> DEFINE both == left \o mid
<1>5. both \in Seq(Item) /\ Len(both) = (k - 1) + Len(mid)
  BY SMTT(30), <1>1, <1>2
<1>6. /\ \A x \in 1..(k - 1) : both[x] = list[x]
      /\ \A x \in 1..Len(mid) : both[k - 1 + x] = mid[x]
  BY <1>1, <1>2
<1> HIDE DEF both
<1> DEFINE new == both \o right
<1>7. new \in Seq(Item) /\ Len(new) = Len(both) + Len(right)
  BY <1>3, <1>5, ConcatProperties
<1>8. /\ \A x \in 1..Len(both) : new[x] = both[x]
      /\ \A x \in 1..Len(right) : new[Len(both) + x] = right[x]
  <2>1. Len(both) \in Nat /\ Len(right) \in Nat
    BY <1>3, <1>5
  <2>2. \A x \in 1..(Len(both) + Len(right)) :
          new[x] = IF x <= Len(both) THEN both[x] ELSE right[x - Len(both)]
    BY SMTT(30), <1>3, <1>5, ConcatProperties
  <2> HIDE DEF new
  <2>3. ASSUME NEW x \in 1..Len(both) PROVE new[x] = both[x]
    BY <2>1, <2>2
  <2>4. ASSUME NEW x \in 1..Len(right) PROVE new[Len(both) + x] = right[x]
    <3>1. /\ Len(both) + x \in 1..(Len(both) + Len(right)) /\ ~(Len(both) + x <= Len(both))
          /\ (Len(both) + x) - Len(both) = x
      BY <2>1
    <3> QED BY <2>2, <3>1
  <2> QED BY <2>3, <2>4
<1> HIDE DEF new
<1>9. /\ \A x \in 1..(k - 1) : new[x] = list[x]
      /\ \A x \in 1..Len(mid) : new[k - 1 + x] = mid[x]
  <2>1. ASSUME NEW x \in 1..(k - 1) PROVE new[x] = list[x]
    <3>1. x \in 1..Len(both)
      BY <1>1, <1>5
    <3> QED BY <1>6, <1>8, <3>1
  <2>2. ASSUME NEW x \in 1..Len(mid) PROVE new[k - 1 + x] = mid[x]
    <3>1. k - 1 + x \in 1..Len(both)
      BY <1>1, <1>5
    <3> QED BY <1>6, <1>8, <3>1
  <2> QED BY <2>1, <2>2
<1>10. ASSUME NEW x \in j..Len(list) PROVE new[x - j + k + Len(mid)] = list[x]
  <2> DEFINE w == x - j + 1
  <2>1. w \in 1..Len(right) /\ x - j + k + Len(mid) = Len(both) + w /\ j + w - 1 = x
    BY <1>1, <1>3, <1>5
  <2> HIDE DEF w
  <2> QED BY <1>3, <1>8, <2>1
<1>11. Len(new) = (k - 1) + Len(mid) + (Len(list) - j + 1)
  BY <1>3, <1>5, <1>7
<1>12. Pieced(new, list, k, mid, j)
  BY <1>7, <1>9, <1>10, <1>11 DEF Pieced
<1> QED BY <1>12 DEF new, both, left, right

LEMMA Placed ==
  ASSUME NEW list \in Seq(Item), NEW e \in Item
  PROVE  /\ \A k \in 1..(Len(list) + 1) : Pieced(InsertAt(list, k, e), list, k, <<e>>, k)
         /\ \A k \in 1..Len(list) : Pieced([list EXCEPT ![k] = e], list, k, <<e>>, k + 1)
         /\ \A k \in 1..Len(list) : Pieced(RemoveAt(list, k), list, k, << >>, k + 1)
<1>1. Len(list) \in Nat /\ <<e>> \in Seq(Item) /\ << >> \in Seq(Item)
  OBVIOUS
<1>2. ASSUME NEW k \in 1..(Len(list) + 1) PROVE Pieced(InsertAt(list, k, e), list, k, <<e>>, k)
  <2>1. k \in k..(Len(list) + 1)
    BY <1>1
  <2> QED BY <1>1, <2>1, Glued DEF InsertAt
<1>3. ASSUME NEW k \in 1..Len(list)
      PROVE  Pieced([list EXCEPT ![k] = e], list, k, <<e>>, k + 1)
  BY <1>1 DEF Pieced
<1>4. ASSUME NEW k \in 1..Len(list) PROVE Pieced(RemoveAt(list, k), list, k, << >>, k + 1)
  <2>1. SubSeq(list, 1, k - 1) \in Seq(Item)
    BY <1>1
  <2>2. SubSeq(list, 1, k - 1) \o << >> = SubSeq(list, 1, k - 1)
    BY <2>1
  <2>3. k \in 1..(Len(list) + 1) /\ k + 1 \in k..(Len(list) + 1)
    BY <1>1
  <2> QED BY <1>1, <2>2, <2>3, Glued DEF RemoveAt
<1> QED BY <1>2, <1>3, <1>4

(* The least number principle, from the fact that the finite sets of       *)
(* numbers are well founded under inclusion.                               *)
LEMMA LeastNatural ==
  ASSUME NEW T \in SUBSET Nat, T # {}
  PROVE  \E m \in T : \A k \in T : m <= k
<1> DEFINE F == {0..k : k \in T}
           R == StrictSubsetOrdering(Nat)
<1>1. F \subseteq FiniteSubsetsOf(Nat)
  <2>1. ASSUME NEW k \in T PROVE IsFiniteSet(0..k) /\ 0..k \in SUBSET Nat
    BY FS_Interval
  <2> QED BY <2>1 DEF FiniteSubsetsOf
<1>2. IsWellFoundedOn(R, FiniteSubsetsOf(Nat))
  BY FS_StrictSubsetOrderingWellFounded
<1>3. \E x \in F : \A y \in F : <<y, x>> \notin R
  <2>1. F # {}
    OBVIOUS
  <2> HIDE DEF F, R
  <2> QED BY <1>1, <1>2, <2>1, WFMin
<1>4. PICK m \in T : \A k \in T : <<0..k, 0..m>> \notin R
  BY <1>3
<1>5. ASSUME NEW k \in T, k < m PROVE FALSE
  <2>1. 0..k \subseteq 0..m /\ 0..k # 0..m /\ 0..k \in SUBSET Nat /\ 0..m \in SUBSET Nat
    BY <1>5
  <2> QED BY <2>1, <1>4 DEF StrictSubsetOrdering
<1> QED BY <1>4, <1>5

-----------------------------------------------------------------------------
(* The steps of add_e820().                                                *)

LEMMA Single ==
  ASSUME NEW e \in Item, e.start < e.end
  PROVE  Good(<<e>>) /\ \A a, t : Has(<<e>>, a, t) <=> Says(e, a, t)
BY DEF Good, Has

LEMMA Nothing == Good(<< >>) /\ \A a, t : ~Has(<< >>, a, t)
BY DEF Good, Has

(* What Has says is in some item before k, or from k on. *)
LEMMA HasParts ==
  ASSUME NEW list \in Seq(Item), NEW k \in 1..(Len(list) + 1), NEW a, NEW t
  PROVE  Has(list, a, t) <=> \/ \E x \in 1..(k - 1) : Says(list[x], a, t)
                             \/ \E x \in k..Len(list) : Says(list[x], a, t)
<1>1. Len(list) \in Nat
  OBVIOUS
<1>2. /\ \A x \in 1..Len(list) : x \in 1..(k - 1) \/ x \in k..Len(list)
      /\ \A x \in 1..(k - 1) : x \in 1..Len(list)
      /\ \A x \in k..Len(list) : x \in 1..Len(list)
  BY <1>1
<1> QED BY <1>2 DEF Has

(* A range goes where it fits, if there is room. *)
LEMMA Inserted ==
  ASSUME NEW list, Good(list), Len(list) <= MAX_E820, NEW e \in Item, e.start < e.end,
         NEW k \in 1..(Len(list) + 1),
         \A x \in 1..(k - 1) : Fit(list[x], e),
         \A x \in k..Len(list) : Fit(e, list[x])
  PROVE  LET new == insert_e820(list, k, e)
         IN  /\ Good(new) /\ Len(new) <= MAX_E820
             /\ Len(list) < MAX_E820 =>
                  /\ Len(new) = Len(list) + 1
                  /\ \A x \in 1..Len(new) : \/ x < k /\ x \in 1..(k - 1) /\ new[x] = list[x]
                                            \/ x = k /\ new[x] = e
                                            \/ x > k /\ x - 1 \in k..Len(list) /\ new[x] = list[x - 1]
                  /\ \A a, t : Has(new, a, t) <=> Has(list, a, t) \/ Says(e, a, t)
<1>1. list \in Seq(Item) /\ Len(list) \in Nat /\ MAX_E820 \in Nat
  BY E820Assumption DEF Good
<1>2. CASE Len(list) >= MAX_E820
  BY <1>1, <1>2 DEF insert_e820
<1>3. CASE Len(list) < MAX_E820
  <2> DEFINE new == InsertAt(list, k, e)
  <2>1. new = insert_e820(list, k, e)
    BY <1>1, <1>3 DEF insert_e820
  <2>2. Pieced(new, list, k, <<e>>, k)
    BY <1>1, Placed
  <2> HIDE DEF new
  <2>3. Good(<<e>>) /\ \A a, t : Has(<<e>>, a, t) <=> Says(e, a, t)
    BY Single
  <2>4. Len(new) = Len(list) + 1
    BY <1>1, <2>2 DEF Pieced
  <2>5. k \in Nat \ {0} /\ k \in Nat /\ k <= k /\ k <= Len(list) + 1
    BY <1>1
  <2>6. Fits(list, k, <<e>>, k)
    BY DEF Fits
  <2>7. Good(new) /\ SaysPieces(new, list, k, <<e>>, k)
    BY <2>2, <2>3, <2>5, <2>6, PiecesKeep
  <2>8. \A a, t : Has(new, a, t) <=> Has(list, a, t) \/ Says(e, a, t)
    BY <1>1, <2>3, <2>7, HasParts DEF SaysPieces
  <2>9. ASSUME NEW x \in 1..Len(new)
        PROVE  \/ x < k /\ x \in 1..(k - 1) /\ new[x] = list[x]
               \/ x = k /\ new[x] = e
               \/ x > k /\ x - 1 \in k..Len(list) /\ new[x] = list[x - 1]
    <3>1. /\ \A y \in 1..(k - 1) : new[y] = list[y]
          /\ \A y \in 1..1 : new[k - 1 + y] = e
          /\ \A y \in k..Len(list) : new[y - k + k + 1] = list[y]
      BY <2>2 DEF Pieced
    <3>2. CASE x < k
      BY <1>1, <3>1, <3>2
    <3>3. CASE x = k
      <4>1. 1 \in 1..1 /\ k - 1 + 1 = x
        BY <3>3
      <4> QED BY <3>1, <3>3, <4>1
    <3>4. CASE x > k
      <4>1. x - 1 \in k..Len(list) /\ (x - 1) - k + k + 1 = x
        BY <1>1, <2>4, <3>4
      <4> QED BY <3>1, <3>4, <4>1
    <3> QED BY <3>2, <3>3, <3>4
  <2> QED BY <1>1, <1>3, <2>1, <2>4, <2>7, <2>8, <2>9 DEF new
<1> QED BY <1>1, <1>2, <1>3

(* The items that a range covers go, and with them nothing outside it. *)
LEMMA Covered ==
  ASSUME NEW list, Good(list), NEW r \in Ranges, NEW k \in 1..(Len(list) + 1),
         \A x \in k..Len(list) : r.start <= list[x].start
  PROVE  LET new == Cover(list, k, r)
         IN  /\ Good(new) /\ Len(new) <= Len(list) /\ k \in 1..(Len(new) + 1)
             /\ \A x \in 1..(k - 1) : new[x] = list[x]
             /\ \A x \in k..Len(new) : r.start <= new[x].start
             /\ k <= Len(new) => new[k].end > r.end
             /\ \A a \in Nat : \A t : ~Within(r, a) => (Has(new, a, t) <=> Has(list, a, t))
<1>1. list \in Seq(Item) /\ Len(list) \in Nat
  BY DEF Good
<1> DEFINE beyond == {x \in k..Len(list) : list[x].end > r.end} \cup {Len(list) + 1}
           next == Min(beyond)
           new == Cover(list, k, r)
<1>2. next \in beyond /\ \A x \in beyond : next <= x
  <2>1. beyond \subseteq Nat /\ beyond # {}
    BY <1>1
  <2> HIDE DEF beyond
  <2>2. \E y \in beyond : \A x \in beyond : y <= x
    BY <2>1, LeastNatural
  <2> QED BY <2>2 DEF Min
<1>3. next \in k..(Len(list) + 1) /\ \A x \in k..(next - 1) : list[x].end <= r.end
  <2>1. next \in k..(Len(list) + 1)
    BY <1>1, <1>2
  <2>2. ASSUME NEW x \in k..(next - 1) PROVE list[x].end <= r.end
    <3>1. x \notin beyond /\ x \in k..Len(list) /\ x \in 1..Len(list)
      BY <1>1, <1>2, <2>1
    <3>2. list[x] \in Item
      BY <1>1, <3>1
    <3> QED BY <3>1, <3>2 DEF Item, Ranges
  <2> QED BY <2>1, <2>2
<1>4. next <= Len(list) => list[next].end > r.end
  BY <1>1, <1>2
<1>5. new = SubSeq(list, 1, k - 1) \o SubSeq(list, next, Len(list))
  BY DEF Cover
<1> HIDE DEF next, new
<1>6. Pieced(new, list, k, << >>, next)
  <2>1. SubSeq(list, 1, k - 1) \in Seq(Item)
    BY <1>1
  <2>2. SubSeq(list, 1, k - 1) \o << >> = SubSeq(list, 1, k - 1)
    BY <2>1
  <2>3. << >> \in Seq(Item) /\ next \in k..(Len(list) + 1)
    BY <1>3
  <2> QED BY <1>1, <1>5, <2>2, <2>3, Glued
<1>7. /\ Good(new)
      /\ \A a, t : Has(new, a, t) <=> \/ \E x \in 1..(k - 1) : Says(list[x], a, t)
                                      \/ \E x \in next..Len(list) : Says(list[x], a, t)
  <2>1. k \in Nat \ {0} /\ next \in Nat /\ k <= next /\ next <= Len(list) + 1
    BY <1>1, <1>3
  <2>2. Fits(list, k, << >>, next)
    BY DEF Fits
  <2>3. Good(new) /\ SaysPieces(new, list, k, << >>, next)
    BY <1>6, <2>1, <2>2, Nothing, PiecesKeep
  <2> QED BY <2>3, Nothing DEF SaysPieces
<1>8. Len(new) = (k - 1) + (Len(list) - next + 1) /\ \A x \in 1..(k - 1) : new[x] = list[x]
  BY <1>1, <1>3, <1>6 DEF Pieced
<1>9. \A x \in k..Len(new) : x - k + next \in next..Len(list) /\ new[x] = list[x - k + next]
  <2> SUFFICES ASSUME NEW x \in k..Len(new)
               PROVE  x - k + next \in next..Len(list) /\ new[x] = list[x - k + next]
    OBVIOUS
  <2> DEFINE w == x - k + next
  <2>1. w \in next..Len(list) /\ w - next + k = x /\ Len(<< >>) = 0
    BY <1>1, <1>3, <1>8
  <2> HIDE DEF w
  <2>2. new[w - next + k + Len(<< >>)] = list[w]
    BY <1>6, <2>1 DEF Pieced
  <2> QED BY <1>3, <2>1, <2>2 DEF w
<1>10. ASSUME NEW a \in Nat, NEW t, ~Within(r, a) PROVE Has(new, a, t) <=> Has(list, a, t)
  <2>1. ASSUME NEW x \in k..Len(list), Says(list[x], a, t) PROVE x \in next..Len(list)
    <3>1. list[x] \in Item /\ r.start <= list[x].start
      BY <1>1
    <3>2. CASE list[x].end <= r.end
      BY <1>10, <2>1, <3>1, <3>2 DEF Says, Within, Item, Ranges
    <3>3. CASE ~(list[x].end <= r.end)
      BY <1>1, <1>3, <3>3
    <3> QED BY <3>2, <3>3
  <2>2. next..Len(list) \subseteq k..Len(list)
    BY <1>1, <1>3
  <2> QED BY <1>1, <1>7, <2>1, <2>2, HasParts
<1>11. \A x \in k..Len(new) : r.start <= new[x].start
  <2>1. next..Len(list) \subseteq k..Len(list)
    BY <1>1, <1>3
  <2> QED BY <1>9, <2>1
<1>12. k <= Len(new) => new[k].end > r.end
  <2>1. SUFFICES ASSUME k <= Len(new) PROVE new[k].end > r.end
    OBVIOUS
  <2>2. k \in k..Len(new) /\ k - k + next = next
    BY <1>3, <1>8, <2>1
  <2>3. next <= Len(list) /\ new[k] = list[next]
    BY <1>3, <1>9, <2>2
  <2> QED BY <1>4, <2>3
<1>13. Len(new) <= Len(list) /\ k \in 1..(Len(new) + 1)
  BY <1>1, <1>3, <1>8
<1> QED BY <1>7, <1>8, <1>10, <1>11, <1>12, <1>13 DEF new

(* The items of a good list, one by one. *)
LEMMA ItemFacts ==
  ASSUME NEW list, Good(list), NEW x \in 1..Len(list)
  PROVE  /\ list[x] \in Item /\ list[x].start \in Nat /\ list[x].end \in Nat
         /\ list[x].start < list[x].end /\ list[x].type \in Types \ {"HOLE"}
         /\ \A y \in 1..Len(list) : x < y => Fit(list[x], list[y])
<1>1. list[x] \in Item
  BY DEF Good
<1> QED BY <1>1 DEF Good, Item

(* Item k, which reaches beyond r, makes room for it: it gives up its      *)
(* start, or is taken out to become a part of the range.                   *)
Wide(list, k, r) ==
  IF k <= Len(list) /\ list[k].start <= r.end /\ list[k].type = r.type
  THEN [r EXCEPT !.end = list[k].end] ELSE r

Rest(list, k, r) ==
  IF k <= Len(list) /\ list[k].start <= r.end
  THEN IF list[k].type = r.type THEN RemoveAt(list, k) ELSE [list EXCEPT ![k].start = r.end]
  ELSE list

LEMMA Room ==
  ASSUME NEW list, Good(list), NEW r \in Ranges, r.start < r.end, NEW k \in 1..(Len(list) + 1),
         \A x \in k..Len(list) : r.start <= list[x].start,
         k <= Len(list) => list[k].end > r.end,
         NEW rest, rest = Rest(list, k, r), NEW e, e = Wide(list, k, r)
  PROVE  /\ Good(rest) /\ Len(rest) <= Len(list) /\ k \in 1..(Len(rest) + 1)
         /\ \A x \in 1..(k - 1) : rest[x] = list[x]
         /\ \A x \in k..Len(rest) : Fit(e, rest[x])
         /\ \A a \in Nat : \A t : ~Within(e, a) => (Has(rest, a, t) <=> Has(list, a, t))
         /\ e.start = r.start /\ e.type = r.type /\ e.end \in Nat /\ e.end >= r.end
         /\ \A a \in Nat : \A t : Within(e, a) /\ ~Within(r, a) => (Has(list, a, t) <=> t = r.type)
<1>1. list \in Seq(Item) /\ Len(list) \in Nat
  BY DEF Good
<1>2. r.start \in Nat /\ r.end \in Nat /\ r.type \in Types
  BY DEF Ranges
<1>3. CASE ~(k <= Len(list) /\ list[k].start <= r.end)
  <2>1. rest = list /\ e = r
    BY <1>3 DEF Wide, Rest
  <2>2. ASSUME NEW x \in k..Len(list) PROVE Fit(r, list[x])
    <3>1. k \in 1..Len(list) /\ x \in 1..Len(list)
      BY <1>1
    <3>2. list[k].start > r.end
      BY <1>2, <1>3, <3>1, ItemFacts
    <3>3. CASE x = k
      BY <3>2, <3>3 DEF Fit
    <3>4. CASE x # k
      <4>1. k < x /\ Fit(list[k], list[x])
        BY <1>1, <3>1, <3>4, ItemFacts
      <4>2. list[k].start < list[k].end /\ list[k].start \in Nat /\ list[k].end \in Nat /\ list[x].start \in Nat
        BY <3>1, ItemFacts
      <4> QED BY <1>2, <3>2, <4>1, <4>2 DEF Fit
    <3> QED BY <3>3, <3>4
  <2> QED BY <1>1, <1>2, <2>1, <2>2
<1>4. CASE k <= Len(list) /\ list[k].start <= r.end /\ list[k].type # r.type
  <2> DEFINE f == [list[k] EXCEPT !.start = r.end]
  <2>1. k \in 1..Len(list)
    BY <1>1, <1>4
  <2>2. /\ list[k] \in Item /\ list[k].start \in Nat /\ list[k].end \in Nat /\ list[k].end > r.end
        /\ r.start <= list[k].start
    BY <1>1, <2>1, ItemFacts
  <2>3. f \in Item /\ f.start = r.end /\ f.end = list[k].end /\ f.type = list[k].type
    BY <1>2, <2>2 DEF Item
  <2>4. rest = [list EXCEPT ![k] = f] /\ e = r
    BY <1>1, <1>4, <2>1 DEF Wide, Rest
  <2> HIDE DEF f
  <2>5. Pieced(rest, list, k, <<f>>, k + 1)
    BY <1>1, <2>1, <2>3, <2>4, Placed
  <2>6. Good(<<f>>) /\ \A a, t : Has(<<f>>, a, t) <=> Says(f, a, t)
    BY <2>2, <2>3, <1>2, Single
  <2>7. ASSUME NEW x \in 1..(k - 1) PROVE Fit(list[x], f)
    <3>1. x \in 1..Len(list) /\ x < k
      BY <1>1, <2>1
    <3>2. Fit(list[x], list[k]) /\ list[x].end \in Nat
      BY <2>1, <3>1, ItemFacts
    <3> QED BY <1>2, <1>4, <2>2, <2>3, <3>2 DEF Fit
  <2>8. ASSUME NEW x \in (k + 1)..Len(list) PROVE Fit(f, list[x]) /\ Fit(r, list[x])
    <3>1. x \in 1..Len(list) /\ k < x
      BY <1>1, <2>1
    <3>2. Fit(list[k], list[x]) /\ list[x].start \in Nat
      BY <2>1, <3>1, ItemFacts
    <3> QED BY <1>2, <2>2, <2>3, <3>2 DEF Fit
  <2>9. /\ Good(rest)
        /\ \A a, t : Has(rest, a, t) <=> \/ \E x \in 1..(k - 1) : Says(list[x], a, t)
                                         \/ Has(<<f>>, a, t)
                                         \/ \E x \in (k + 1)..Len(list) : Says(list[x], a, t)
    <3>1. k \in Nat \ {0} /\ k + 1 \in Nat /\ k <= k + 1 /\ k + 1 <= Len(list) + 1
      BY <1>1, <2>1
    <3>2. Fits(list, k, <<f>>, k + 1)
      BY <2>7, <2>8 DEF Fits
    <3>3. Good(rest) /\ SaysPieces(rest, list, k, <<f>>, k + 1)
      BY <2>5, <2>6, <3>1, <3>2, PiecesKeep
    <3> QED BY <3>3 DEF SaysPieces
  <2>10. /\ Len(rest) = Len(list) /\ rest[k] = f
         /\ \A x \in 1..(k - 1) : rest[x] = list[x]
         /\ \A x \in (k + 1)..Len(list) : rest[x] = list[x]
    BY <1>1, <2>1, <2>4
  <2>11. \A x \in k..Len(rest) : Fit(e, rest[x])
    <3>1. Fit(r, f)
      BY <1>4, <1>2, <2>3 DEF Fit
    <3>2. \A x \in k..Len(rest) : x = k \/ x \in (k + 1)..Len(list)
      BY <1>1, <2>10
    <3> QED BY <2>4, <2>8, <2>10, <3>1, <3>2
  <2>12. ASSUME NEW a \in Nat, NEW t, ~Within(r, a) PROVE Has(rest, a, t) <=> Has(list, a, t)
    <3>1. Says(f, a, t) <=> Says(list[k], a, t)
      BY <1>2, <1>4, <2>2, <2>3, <2>12 DEF Says, Within
    <3>2. (\E x \in k..Len(list) : Says(list[x], a, t))
            <=> Says(list[k], a, t) \/ \E x \in (k + 1)..Len(list) : Says(list[x], a, t)
      <4>1. \A x : x \in k..Len(list) <=> x = k \/ x \in (k + 1)..Len(list)
        BY <1>1, <2>1
      <4> QED BY <4>1
    <3> QED BY <1>1, <2>6, <2>9, <3>1, <3>2, HasParts
  <2>13. Len(rest) <= Len(list) /\ k \in 1..(Len(rest) + 1)
    BY <1>1, <2>10
  <2>14. e.start = r.start /\ e.type = r.type /\ e.end \in Nat /\ e.end >= r.end
    BY <1>2, <2>4
  <2> QED BY <2>4, <2>9, <2>10, <2>11, <2>12, <2>13, <2>14
<1>5. CASE k <= Len(list) /\ list[k].start <= r.end /\ list[k].type = r.type
  <2>1. k \in 1..Len(list)
    BY <1>1, <1>5
  <2>2. /\ list[k] \in Item /\ list[k].start \in Nat /\ list[k].end \in Nat /\ list[k].end > r.end
        /\ r.start <= list[k].start
    BY <1>1, <2>1, ItemFacts
  <2>3. rest = RemoveAt(list, k) /\ e = [r EXCEPT !.end = list[k].end]
    BY <1>5 DEF Wide, Rest
  <2>4. e.start = r.start /\ e.type = r.type /\ e.end = list[k].end
    BY <2>3 DEF Ranges
  <2>5. Pieced(rest, list, k, << >>, k + 1)
    BY <1>1, <2>1, <2>2, <2>3, Placed
  <2>6. /\ Good(rest)
        /\ \A a, t : Has(rest, a, t) <=> \/ \E x \in 1..(k - 1) : Says(list[x], a, t)
                                         \/ \E x \in (k + 1)..Len(list) : Says(list[x], a, t)
    <3>1. k \in Nat \ {0} /\ k + 1 \in Nat /\ k <= k + 1 /\ k + 1 <= Len(list) + 1
      BY <1>1, <2>1
    <3>2. Fits(list, k, << >>, k + 1)
      BY DEF Fits
    <3>3. Good(rest) /\ SaysPieces(rest, list, k, << >>, k + 1)
      BY <2>5, <3>1, <3>2, Nothing, PiecesKeep
    <3> QED BY <3>3, Nothing DEF SaysPieces
  <2>7. /\ Len(rest) = Len(list) - 1
        /\ \A x \in 1..(k - 1) : rest[x] = list[x]
        /\ \A x \in (k + 1)..Len(list) : rest[x - 1] = list[x]
    <3>1. /\ Len(rest) = (k - 1) + 0 + (Len(list) - (k + 1) + 1)
          /\ \A x \in (k + 1)..Len(list) : rest[x - (k + 1) + k + 0] = list[x]
          /\ \A x \in 1..(k - 1) : rest[x] = list[x]
      <4>1. Len(<< >>) = 0
        OBVIOUS
      <4> QED BY <2>5, <4>1 DEF Pieced
    <3>2. \A x \in (k + 1)..Len(list) : x - (k + 1) + k + 0 = x - 1
      BY <1>1
    <3>3. \A x \in (k + 1)..Len(list) : rest[x - 1] = list[x]
      BY <3>1, <3>2
    <3> QED BY SMTT(30), <1>1, <2>1, <3>1, <3>3
  <2>8. ASSUME NEW x \in k..Len(rest) PROVE Fit(e, rest[x])
    <3>1. x + 1 \in (k + 1)..Len(list) /\ x + 1 \in 1..Len(list) /\ k < x + 1 /\ (x + 1) - 1 = x
      BY <1>1, <2>1, <2>7
    <3>2. Fit(list[k], list[x + 1]) /\ rest[x] = list[x + 1]
      BY <2>1, <2>7, <3>1, ItemFacts
    <3> QED BY <1>5, <2>4, <3>2 DEF Fit
  <2>9. ASSUME NEW a \in Nat, NEW t
        PROVE  Has(list, a, t) <=> Has(rest, a, t) \/ Says(list[k], a, t)
    <3>1. \A x : x \in k..Len(list) <=> x = k \/ x \in (k + 1)..Len(list)
      BY <1>1, <2>1
    <3>2. (\E x \in k..Len(list) : Says(list[x], a, t))
            <=> Says(list[k], a, t) \/ \E x \in (k + 1)..Len(list) : Says(list[x], a, t)
      BY <3>1
    <3> QED BY <1>1, <2>6, <3>2, HasParts
  <2>10. ASSUME NEW a \in Nat, NEW t, ~Within(e, a) PROVE ~Says(list[k], a, t)
    BY <1>2, <2>2, <2>4, <2>10 DEF Says, Within
  <2>11. ASSUME NEW a \in Nat, NEW t, Within(e, a), ~Within(r, a)
         PROVE  Has(list, a, t) <=> t = r.type
    <3>1. Says(list[k], a, r.type) /\ (Says(list[k], a, t) => t = r.type)
      BY <1>2, <1>5, <2>2, <2>4, <2>11 DEF Says, Within
    <3>2. ~Has(rest, a, t)
      <4>1. ASSUME NEW x \in 1..Len(rest), Says(rest[x], a, t) PROVE FALSE
        <5>1. a >= r.end /\ a < list[k].end /\ a >= list[k].start
          BY <1>2, <1>5, <2>2, <2>4, <2>11 DEF Within
        <5>2. CASE x < k
          <6>1. x \in 1..(k - 1) /\ x \in 1..Len(list) /\ rest[x] = list[x]
            BY <1>1, <2>1, <2>7, <5>2
          <6>2. Fit(list[x], list[k]) /\ list[x].end \in Nat
            BY <2>1, <5>2, <6>1, ItemFacts
          <6> QED BY <2>2, <4>1, <5>1, <6>1, <6>2 DEF Says, Within, Fit
        <5>3. CASE x >= k
          <6>1. x \in k..Len(rest) /\ rest[x].start \in Nat
            BY <1>1, <2>1, <2>6, <5>3, ItemFacts
          <6>2. Fit(e, rest[x])
            BY <2>8, <6>1
          <6> QED BY <2>2, <2>4, <4>1, <5>1, <6>1, <6>2 DEF Says, Within, Fit
        <5> QED BY <1>1, <2>1, <2>7, <5>2, <5>3
      <4> QED BY <4>1 DEF Has
    <3> QED BY <2>9, <3>1, <3>2
  <2>12. Len(rest) <= Len(list) /\ k \in 1..(Len(rest) + 1)
    BY <1>1, <2>1, <2>7
  <2>13. e.start = r.start /\ e.type = r.type /\ e.end \in Nat /\ e.end >= r.end
    BY <1>2, <2>2, <2>4
  <2> QED BY <2>6, <2>7, <2>8, <2>9, <2>10, <2>11, <2>12, <2>13
<1> QED BY <1>3, <1>4, <1>5

(* A range replaces what the list says, where nothing before position k    *)
(* reaches into it.                                                        *)
LEMMA Laid ==
  ASSUME NEW list, Good(list), Len(list) <= MAX_E820, NEW r \in Ranges, r.start < r.end,
         NEW k \in 1..(Len(list) + 1),
         \A x \in 1..(k - 1) : Fit(list[x], r),
         \A x \in k..Len(list) : r.start <= list[x].start
  PROVE  LET new == Join(Cover(list, k, r), k, r)
         IN  /\ Good(new) /\ Len(new) <= MAX_E820
             /\ Len(list) < MAX_E820 =>
                  \A a \in Nat, t \in Types \ {"HOLE"} :
                    Has(new, a, t) <=> IF Within(r, a) THEN t = r.type ELSE Has(list, a, t)
<1> DEFINE c == Cover(list, k, r)
           rest == Rest(c, k, r)
           e == Wide(c, k, r)
           new == Join(c, k, r)
<1>1. r.start \in Nat /\ r.end \in Nat /\ r.type \in Types
  BY DEF Ranges
<1>2. /\ Good(c) /\ Len(c) <= Len(list) /\ k \in 1..(Len(c) + 1)
      /\ \A x \in 1..(k - 1) : c[x] = list[x]
      /\ \A x \in k..Len(c) : r.start <= c[x].start
      /\ k <= Len(c) => c[k].end > r.end
      /\ \A a \in Nat : \A t : ~Within(r, a) => (Has(c, a, t) <=> Has(list, a, t))
  BY Covered
<1>3. new = IF r.type = "HOLE" THEN rest ELSE insert_e820(rest, k, e)
  BY DEF Join, Rest, Wide
<1> HIDE DEF c, new
<1>4. /\ Good(rest) /\ Len(rest) <= Len(c) /\ k \in 1..(Len(rest) + 1)
      /\ \A x \in 1..(k - 1) : rest[x] = c[x]
      /\ \A x \in k..Len(rest) : Fit(e, rest[x])
      /\ \A a \in Nat : \A t : ~Within(e, a) => (Has(rest, a, t) <=> Has(c, a, t))
      /\ e.start = r.start /\ e.type = r.type /\ e.end \in Nat /\ e.end >= r.end
      /\ \A a \in Nat : \A t : Within(e, a) /\ ~Within(r, a) => (Has(c, a, t) <=> t = r.type)
  <2>1. rest = Rest(c, k, r) /\ e = Wide(c, k, r)
    OBVIOUS
  <2> HIDE DEF rest, e
  <2> QED BY SMTT(30), <1>2, <2>1, Room
<1>5. r.type # "HOLE" => e \in Item
  <2>1. CASE k <= Len(c) /\ c[k].start <= r.end /\ c[k].type = r.type
    <3>1. e = [r EXCEPT !.end = c[k].end]
      BY <2>1 DEF Wide
    <3> QED BY <1>4, <3>1 DEF Item, Ranges
  <2>2. CASE ~(k <= Len(c) /\ c[k].start <= r.end /\ c[k].type = r.type)
    <3>1. e = r
      BY <2>2 DEF Wide
    <3> QED BY <3>1 DEF Item, Ranges
  <2> QED BY <2>1, <2>2
<1> HIDE DEF rest, e
<1>6. Len(list) \in Nat /\ Len(c) \in Nat /\ Len(rest) \in Nat /\ MAX_E820 \in Nat
  BY <1>2, <1>4, E820Assumption DEF Good
<1>7. Len(rest) <= MAX_E820 /\ (Len(list) < MAX_E820 => Len(rest) < MAX_E820)
  BY <1>2, <1>4, <1>6
<1>8. \A x \in 1..(k - 1) : Fit(rest[x], e)
  BY <1>2, <1>4 DEF Fit
<1>9. ASSUME NEW a \in Nat, NEW t, Within(e, a) PROVE ~Has(rest, a, t)
  <2>1. ASSUME NEW x \in 1..Len(rest), Says(rest[x], a, t) PROVE FALSE
    <3>1. rest[x].start \in Nat /\ rest[x].end \in Nat
      BY <1>4, ItemFacts
    <3>2. CASE x < k
      <4>1. Fit(rest[x], e)
        BY <1>6, <1>8, <3>2
      <4> QED BY <1>1, <1>4, <1>9, <2>1, <3>1, <4>1 DEF Fit, Within, Says
    <3>3. CASE x >= k
      <4>1. Fit(e, rest[x])
        BY <1>4, <1>6, <3>3
      <4> QED BY <1>4, <1>9, <2>1, <3>1, <4>1 DEF Fit, Within, Says
    <3> QED BY <1>4, <3>2, <3>3
  <2> QED BY <2>1 DEF Has
<1>10. \A a \in Nat : Within(r, a) => Within(e, a)
  BY <1>1, <1>4 DEF Within
<1>11. CASE r.type = "HOLE"
  <2>1. new = rest
    BY <1>3, <1>11
  <2>2. ASSUME NEW a \in Nat, NEW t \in Types \ {"HOLE"}
        PROVE  Has(new, a, t) <=> IF Within(r, a) THEN t = r.type ELSE Has(list, a, t)
    <3>1. t # r.type
      BY <1>11
    <3>2. CASE Within(e, a)
      BY <1>2, <1>4, <1>9, <2>1, <3>1, <3>2
    <3>3. CASE ~Within(e, a)
      BY <1>2, <1>4, <1>10, <2>1, <3>3
    <3> QED BY <3>2, <3>3
  <2> QED BY <1>4, <1>7, <2>1, <2>2 DEF new, c
<1>12. CASE r.type # "HOLE"
  <2>1. new = insert_e820(rest, k, e)
    BY <1>3, <1>12
  <2>2. e.start < e.end
    BY <1>1, <1>4
  <2>3. /\ Good(new) /\ Len(new) <= MAX_E820
        /\ Len(rest) < MAX_E820 => \A a, t : Has(new, a, t) <=> Has(rest, a, t) \/ Says(e, a, t)
    BY <1>4, <1>5, <1>7, <1>8, <1>12, <2>1, <2>2, Inserted
  <2>4. ASSUME Len(list) < MAX_E820, NEW a \in Nat, NEW t \in Types \ {"HOLE"}
        PROVE  Has(new, a, t) <=> IF Within(r, a) THEN t = r.type ELSE Has(list, a, t)
    <3>1. Has(new, a, t) <=> Has(rest, a, t) \/ Says(e, a, t)
      BY <1>7, <2>3, <2>4
    <3>2. Says(e, a, t) <=> Within(e, a) /\ t = r.type
      BY <1>4 DEF Says
    <3>3. CASE Within(e, a)
      BY <1>2, <1>4, <1>9, <3>1, <3>2, <3>3
    <3>4. CASE ~Within(e, a)
      BY <1>2, <1>4, <1>10, <3>1, <3>2, <3>4
    <3> QED BY <3>3, <3>4
  <2> QED BY <2>3, <2>4 DEF new, c
<1> QED BY <1>11, <1>12

(* The item that add_e820() finds first. *)
LEMMA PositionIs ==
  ASSUME NEW list, Good(list), NEW start \in Nat
  PROVE  /\ Position(list, start) \in 1..(Len(list) + 1)
         /\ Position(list, start) <= Len(list) => start <= list[Position(list, start)].end
         /\ \A x \in 1..(Position(list, start) - 1) : x \in 1..Len(list) /\ list[x].end < start
<1> DEFINE reach == {x \in 1..Len(list) : start <= list[x].end} \cup {Len(list) + 1}
           i == Position(list, start)
<1>1. list \in Seq(Item) /\ Len(list) \in Nat
  BY DEF Good
<1>2. i \in reach /\ \A x \in reach : i <= x
  <2>1. reach \subseteq Nat /\ reach # {}
    BY <1>1
  <2>2. i = Min(reach)
    BY DEF Position
  <2> HIDE DEF reach, i
  <2>3. \E y \in reach : \A x \in reach : y <= x
    BY <2>1, LeastNatural
  <2> QED BY <2>2, <2>3 DEF Min
<1> HIDE DEF i
<1>3. i \in 1..(Len(list) + 1) /\ (i <= Len(list) => start <= list[i].end)
  BY <1>1, <1>2
<1>4. ASSUME NEW x \in 1..(i - 1) PROVE x \in 1..Len(list) /\ list[x].end < start
  <2>1. x \in 1..Len(list) /\ x \notin reach
    BY <1>1, <1>2, <1>3
  <2>2. list[x].end \in Nat
    BY <2>1, ItemFacts
  <2> QED BY <2>1, <2>2
<1> QED BY <1>3, <1>4 DEF i

(* An item that a range of another type cuts in two. *)
LEMMA Cut ==
  ASSUME NEW list, Good(list), Len(list) <= MAX_E820, NEW r \in Ranges, r.start < r.end,
         NEW i \in 1..Len(list), i = Position(list, r.start),
         list[i].start < r.start, r.start <= list[i].end, list[i].type # r.type
  PROVE  LET new == Split(list, r)
         IN  /\ Good(new) /\ Len(new) <= MAX_E820 /\ i + 1 \in 1..(Len(new) + 1)
             /\ \A x \in 1..i : Fit(new[x], r)
             /\ \A x \in (i + 1)..Len(new) : r.start <= new[x].start
             /\ Len(new) <= Len(list) + (IF list[i].end > r.end THEN 1 ELSE 0)
             /\ (list[i].end > r.end => Len(list) < MAX_E820)
                => \A a \in Nat : \A t : ~Within(r, a) => (Has(new, a, t) <=> Has(list, a, t))
<1> DEFINE f == [list[i] EXCEPT !.end = r.start]
           g == [list[i] EXCEPT !.start = r.end]
           cut == [list EXCEPT ![i].end = r.start]
           new == Split(list, r)
<1>1. list \in Seq(Item) /\ Len(list) \in Nat /\ MAX_E820 \in Nat
  BY E820Assumption DEF Good
<1>2. r.start \in Nat /\ r.end \in Nat /\ r.type \in Types
  BY DEF Ranges
<1>3. list[i] \in Item /\ list[i].start \in Nat /\ list[i].end \in Nat
  BY ItemFacts
<1>4. f \in Item /\ f.start = list[i].start /\ f.end = r.start /\ f.type = list[i].type
  BY <1>2, <1>3 DEF Item
<1>5. g \in Item /\ g.start = r.end /\ g.end = list[i].end /\ g.type = list[i].type
  BY <1>2, <1>3 DEF Item
<1>6. cut = [list EXCEPT ![i] = f] /\ Pieced(cut, list, i, <<f>>, i + 1)
  BY <1>1, <1>4, Placed
<1>7. Len(cut) = Len(list) /\ cut[i] = f /\ \A x \in 1..Len(list) : x # i => cut[x] = list[x]
  BY <1>1
<1>8. new = IF list[i].end > r.end THEN insert_e820(cut, i + 1, g) ELSE cut
  BY DEF Split
<1> HIDE DEF f, g, cut, new
<1>9. ASSUME NEW x \in 1..(i - 1)
      PROVE  x \in 1..Len(list) /\ Fit(list[x], f) /\ Fit(list[x], g) /\ Fit(list[x], r)
  <2>1. x \in 1..Len(list) /\ x < i
    BY <1>1
  <2>2. Fit(list[x], list[i]) /\ list[x].end \in Nat
    BY <2>1, ItemFacts
  <2> QED BY SMTT(30), <1>2, <1>3, <1>4, <1>5, <2>1, <2>2 DEF Fit
<1>10. ASSUME NEW x \in (i + 1)..Len(list)
       PROVE  /\ x \in 1..Len(list) /\ r.start <= list[x].start
              /\ Fit(f, list[x]) /\ (list[i].end > r.end => Fit(g, list[x]))
  <2>1. x \in 1..Len(list) /\ i < x
    BY <1>1
  <2>2. Fit(list[i], list[x]) /\ list[x].start \in Nat
    BY <2>1, ItemFacts
  <2> QED BY <1>2, <1>3, <1>4, <1>5, <2>1, <2>2 DEF Fit
<1>11. /\ Good(cut)
       /\ \A a, t : Has(cut, a, t) <=> \/ \E x \in 1..(i - 1) : Says(list[x], a, t)
                                       \/ Says(f, a, t)
                                       \/ \E x \in (i + 1)..Len(list) : Says(list[x], a, t)
  <2>1. Good(<<f>>) /\ \A a, t : Has(<<f>>, a, t) <=> Says(f, a, t)
    BY <1>4, Single
  <2>2. i \in Nat \ {0} /\ i <= i + 1 /\ i + 1 <= Len(list) + 1 /\ i + 1 \in Nat
    BY <1>1
  <2>3. Fits(list, i, <<f>>, i + 1)
    BY <1>9, <1>10 DEF Fits
  <2>4. Good(cut) /\ SaysPieces(cut, list, i, <<f>>, i + 1)
    BY <1>6, <2>1, <2>2, <2>3, PiecesKeep
  <2> QED BY <2>1, <2>4 DEF SaysPieces
<1>12. ASSUME NEW a, NEW t
       PROVE  Has(list, a, t) <=> \/ \E x \in 1..(i - 1) : Says(list[x], a, t)
                                  \/ Says(list[i], a, t)
                                  \/ \E x \in (i + 1)..Len(list) : Says(list[x], a, t)
  <2>1. \A x : x \in i..Len(list) <=> x = i \/ x \in (i + 1)..Len(list)
    BY <1>1
  <2>2. (\E x \in i..Len(list) : Says(list[x], a, t))
          <=> Says(list[i], a, t) \/ \E x \in (i + 1)..Len(list) : Says(list[x], a, t)
    BY <2>1
  <2>3. i \in 1..(Len(list) + 1)
    BY <1>1
  <2> QED BY <1>1, <2>2, <2>3, HasParts
<1>13. Fit(f, r)
  BY <1>4 DEF Fit
<1>14. CASE ~(list[i].end > r.end)
  <2>1. new = cut
    BY <1>8, <1>14
  <2>2. ASSUME NEW a \in Nat, NEW t, ~Within(r, a) PROVE Says(f, a, t) <=> Says(list[i], a, t)
    BY <1>2, <1>3, <1>4, <1>14, <2>2 DEF Says, Within
  <2>3. \A a \in Nat : \A t : ~Within(r, a) => (Has(new, a, t) <=> Has(list, a, t))
    BY <1>11, <1>12, <2>1, <2>2
  <2>4. ASSUME NEW x \in 1..i PROVE Fit(new[x], r)
    <3>1. CASE x = i
      BY <1>7, <1>13, <2>1, <3>1
    <3>2. CASE x # i
      <4>1. x \in 1..(i - 1) /\ x \in 1..Len(list)
        BY <1>1, <3>2
      <4> QED BY <1>7, <1>9, <2>1, <3>2, <4>1
    <3> QED BY <3>1, <3>2
  <2>5. ASSUME NEW x \in (i + 1)..Len(new) PROVE r.start <= new[x].start
    <3>1. x \in (i + 1)..Len(list) /\ x # i
      BY <1>1, <1>7, <2>1
    <3> QED BY <1>7, <1>10, <2>1, <3>1
  <2>6. i + 1 \in 1..(Len(new) + 1)
    BY <1>1, <1>7, <2>1
  <2> QED BY <1>7, <1>11, <1>14, <2>1, <2>3, <2>4, <2>5, <2>6, <1>1 DEF new
<1>15. CASE list[i].end > r.end
  <2>1. new = insert_e820(cut, i + 1, g)
    BY <1>8, <1>15
  <2>2. g.start < g.end /\ i + 1 \in 1..(Len(cut) + 1) /\ Len(cut) <= MAX_E820
    BY <1>1, <1>5, <1>7, <1>15
  <2>3. ASSUME NEW x \in 1..((i + 1) - 1) PROVE Fit(cut[x], g) /\ Fit(cut[x], r)
    <3>1. CASE x = i
      BY <1>2, <1>4, <1>5, <1>7, <1>13, <3>1 DEF Fit
    <3>2. CASE x # i
      <4>1. x \in 1..(i - 1) /\ x \in 1..Len(list)
        BY <1>1, <3>2
      <4> QED BY <1>7, <1>9, <3>2, <4>1
    <3> QED BY <3>1, <3>2
  <2>4. ASSUME NEW x \in (i + 1)..Len(cut) PROVE Fit(g, cut[x]) /\ r.start <= cut[x].start
    <3>1. x \in (i + 1)..Len(list) /\ x # i
      BY <1>1, <1>7
    <3> QED BY <1>7, <1>10, <1>15, <3>1
  <2> DEFINE k == i + 1
  <2>5. k \in 1..(Len(cut) + 1) /\ k - 1 = i
    BY <2>2
  <2>6. /\ \A x \in 1..(k - 1) : Fit(cut[x], g) /\ Fit(cut[x], r)
        /\ \A x \in k..Len(cut) : Fit(g, cut[x]) /\ r.start <= cut[x].start
        /\ new = insert_e820(cut, k, g)
    BY <2>1, <2>3, <2>4
  <2> HIDE DEF k
  <2>7. /\ Good(new) /\ Len(new) <= MAX_E820
        /\ Len(cut) < MAX_E820 =>
             /\ Len(new) = Len(cut) + 1
             /\ \A x \in 1..Len(new) : \/ x < k /\ x \in 1..(k - 1) /\ new[x] = cut[x]
                                       \/ x = k /\ new[x] = g
                                       \/ x > k /\ x - 1 \in k..Len(cut) /\ new[x] = cut[x - 1]
             /\ \A a, t : Has(new, a, t) <=> Has(cut, a, t) \/ Says(g, a, t)
    BY <1>5, <1>11, <2>2, <2>5, <2>6, Inserted
  <2>8. CASE Len(list) < MAX_E820
    <3>1. ASSUME NEW a \in Nat, NEW t, ~Within(r, a)
          PROVE  Says(f, a, t) \/ Says(g, a, t) <=> Says(list[i], a, t)
      BY <1>2, <1>3, <1>4, <1>5, <1>15, <3>1 DEF Says, Within
    <3>2. \A a \in Nat : \A t : ~Within(r, a) => (Has(new, a, t) <=> Has(list, a, t))
      BY <1>7, <1>11, <1>12, <2>7, <2>8, <3>1
    <3>3. ASSUME NEW x \in 1..i PROVE Fit(new[x], r)
      <4>1. x \in 1..Len(new) /\ x < k
        BY <1>1, <1>7, <2>5, <2>7, <2>8
      <4>2. new[x] = cut[x] /\ x \in 1..(k - 1)
        BY <1>7, <2>5, <2>7, <2>8, <4>1
      <4> QED BY <2>6, <4>2
    <3>4. ASSUME NEW x \in (i + 1)..Len(new) PROVE r.start <= new[x].start
      <4>1. x \in 1..Len(new) /\ x >= k
        BY <2>5
      <4>2. CASE x = k
        <5>1. new[x] = g
          BY <1>7, <2>5, <2>7, <2>8, <4>1, <4>2
        <5> QED BY <1>2, <1>5, <5>1
      <4>3. CASE x # k
        <5>1. x - 1 \in k..Len(cut) /\ new[x] = cut[x - 1]
          BY <1>7, <2>5, <2>7, <2>8, <4>1, <4>3
        <5> QED BY <2>6, <5>1
      <4> QED BY <4>2, <4>3
    <3>5. i + 1 \in 1..(Len(new) + 1) /\ Len(new) <= Len(list) + 1
      BY <1>1, <1>7, <2>7, <2>8
    <3> QED BY <1>15, <2>7, <3>2, <3>3, <3>4, <3>5 DEF new
  <2>9. CASE ~(Len(list) < MAX_E820)
    <3>1. new = cut
      BY <1>1, <1>7, <2>6, <2>9 DEF insert_e820
    <3>2. i + 1 \in 1..(Len(new) + 1) /\ Len(new) <= Len(list) + 1
      BY <1>1, <1>7, <3>1
    <3>3. /\ \A x \in 1..i : Fit(new[x], r)
          /\ \A x \in (i + 1)..Len(new) : r.start <= new[x].start
      BY <2>3, <2>4, <3>1
    <3> QED BY <1>15, <2>7, <2>9, <3>2, <3>3 DEF new
  <2> QED BY <2>8, <2>9
<1> QED BY <1>14, <1>15

(* add_e820() as a whole: the list stays as it should be, and if there is  *)
(* room for every piece, it says the type of the range within the range    *)
(* and what it said elsewhere.                                             *)
LEMMA AddKeeps ==
  ASSUME NEW list, Good(list), Len(list) <= MAX_E820, NEW r \in Ranges, r.start <= r.end
  PROVE  LET new == add_e820(list, r)
         IN  /\ Good(new) /\ Len(new) <= MAX_E820
             /\ ~Overflows(list, r) =>
                  \A a \in Nat, t \in Types \ {"HOLE"} :
                    Has(new, a, t) <=> IF Within(r, a) THEN t = r.type ELSE Has(list, a, t)
<1> DEFINE i == Position(list, r.start)
           e == list[i]
           new == add_e820(list, r)
<1>1. list \in Seq(Item) /\ Len(list) \in Nat /\ MAX_E820 \in Nat
  BY E820Assumption DEF Good
<1>2. r.start \in Nat /\ r.end \in Nat /\ r.type \in Types
  BY DEF Ranges
<1>3. /\ i \in 1..(Len(list) + 1) /\ (i <= Len(list) => r.start <= e.end)
      /\ \A x \in 1..(i - 1) : x \in 1..Len(list) /\ list[x].end < r.start
  BY <1>2, PositionIs
<1>4. CASE r.start = r.end
  <2>1. new = list
    BY <1>4 DEF add_e820
  <2>2. \A a \in Nat : ~Within(r, a)
    BY <1>2, <1>4 DEF Within
  <2> QED BY <2>1, <2>2
<1>5. ASSUME r.start # r.end, NEW x \in 1..(i - 1) PROVE Fit(list[x], r)
  BY <1>3 DEF Fit
<1>6. ASSUME i <= Len(list), NEW x \in i..Len(list)
      PROVE  e.start \in Nat /\ e.end \in Nat /\ list[x].start \in Nat /\ e.start <= list[x].start
  <2>1. i \in 1..Len(list) /\ x \in 1..Len(list)
    BY <1>1, <1>3, <1>6
  <2>2. e.start \in Nat /\ e.end \in Nat /\ e.start < e.end /\ list[x].start \in Nat
    BY <2>1, ItemFacts
  <2>3. CASE x = i
    BY <2>2, <2>3
  <2>4. CASE x # i
    <3>1. i < x
      BY <1>1, <1>3, <2>4
    <3>2. Fit(e, list[x])
      BY <2>1, <3>1, ItemFacts
    <3> QED BY <2>2, <3>2 DEF Fit
  <2> QED BY <2>3, <2>4
<1>7. CASE r.start # r.end /\ Before(list, r) /\ e.type # r.type
  <2> DEFINE split == Split(list, r)
             k == i + 1
  <2>1. r.start < r.end
    BY <1>2, <1>7
  <2>2. i \in 1..Len(list) /\ e.start < r.start /\ r.start <= e.end
    BY <1>1, <1>3, <1>7 DEF Before
  <2>3. new = Join(Cover(split, k, r), k, r)
    BY <1>7 DEF add_e820
  <2>4. /\ Good(split) /\ Len(split) <= MAX_E820 /\ i + 1 \in 1..(Len(split) + 1)
        /\ \A x \in 1..i : Fit(split[x], r)
        /\ \A x \in (i + 1)..Len(split) : r.start <= split[x].start
        /\ Len(split) <= Len(list) + (IF e.end > r.end THEN 1 ELSE 0)
        /\ (e.end > r.end => Len(list) < MAX_E820)
           => \A a \in Nat : \A t : ~Within(r, a) => (Has(split, a, t) <=> Has(list, a, t))
    BY <1>7, <2>1, <2>2, Cut
  <2> HIDE DEF split, new
  <2>5. /\ k \in 1..(Len(split) + 1)
        /\ \A x \in 1..(k - 1) : Fit(split[x], r)
        /\ \A x \in k..Len(split) : r.start <= split[x].start
    <3>1. k - 1 = i
      BY <2>2
    <3> QED BY <2>4, <3>1
  <2> HIDE DEF k
  <2>6. /\ Good(new) /\ Len(new) <= MAX_E820
        /\ Len(split) < MAX_E820 =>
             \A a \in Nat, t \in Types \ {"HOLE"} :
               Has(new, a, t) <=> IF Within(r, a) THEN t = r.type ELSE Has(split, a, t)
    BY <2>1, <2>3, <2>4, <2>5, Laid
  <2>7. ASSUME ~Overflows(list, r)
        PROVE  Len(split) < MAX_E820 /\ (e.end > r.end => Len(list) < MAX_E820)
    <3>1. Len(list) + (IF e.end > r.end THEN 2 ELSE 1) <= MAX_E820
      BY <1>1, <1>7, <2>7 DEF Overflows
    <3>2. Len(split) \in Nat
      BY <2>4 DEF Good
    <3> HIDE DEF e
    <3>3. CASE e.end > r.end
      BY <1>1, <2>4, <3>1, <3>2, <3>3
    <3>4. CASE ~(e.end > r.end)
      BY <1>1, <2>4, <3>1, <3>2, <3>4
    <3> QED BY <3>3, <3>4
  <2>8. ASSUME ~Overflows(list, r), NEW a \in Nat, NEW t \in Types \ {"HOLE"}
        PROVE  Has(new, a, t) <=> IF Within(r, a) THEN t = r.type ELSE Has(list, a, t)
    BY <2>4, <2>6, <2>7, <2>8
  <2> QED BY <2>6, <2>8 DEF new
<1>8. CASE r.start # r.end /\ Before(list, r) /\ e.type = r.type
  <2> DEFINE q == [r EXCEPT !.start = e.start]
  <2>1. i \in 1..Len(list) /\ e.start < r.start /\ r.start <= e.end
    BY <1>1, <1>3, <1>8 DEF Before
  <2>2. e.start \in Nat /\ e.end \in Nat /\ e.start < e.end
    BY <2>1, ItemFacts
  <2>3. /\ q \in Ranges /\ q.start = e.start /\ q.end = r.end /\ q.type = r.type
        /\ q.start < q.end
    BY <1>2, <1>8, <2>1, <2>2 DEF Ranges
  <2>4. new = Join(Cover(list, i, q), i, q)
    <3>1. new = Join(Cover(list, i, r), i, q)
      BY <1>8 DEF add_e820
    <3>2. Cover(list, i, r) = Cover(list, i, q)
      BY <2>3 DEF Cover
    <3> QED BY <3>1, <3>2
  <2> HIDE DEF q, new
  <2>5. ASSUME NEW x \in 1..(i - 1) PROVE Fit(list[x], q)
    <3>1. x \in 1..Len(list) /\ x < i
      BY <1>3, <2>1
    <3>2. Fit(list[x], e)
      BY <2>1, <3>1, ItemFacts
    <3> QED BY <1>8, <2>3, <3>2 DEF Fit
  <2>6. \A x \in i..Len(list) : q.start <= list[x].start
    BY <1>6, <2>1, <2>3
  <2>7. /\ Good(new) /\ Len(new) <= MAX_E820
        /\ Len(list) < MAX_E820 =>
             \A a \in Nat, t \in Types \ {"HOLE"} :
               Has(new, a, t) <=> IF Within(q, a) THEN t = q.type ELSE Has(list, a, t)
    <3> HIDE DEF i
    <3> QED BY <1>3, <2>3, <2>4, <2>5, <2>6, Laid
  <2>8. ASSUME ~Overflows(list, r) PROVE Len(list) < MAX_E820
    BY <1>1, <2>8 DEF Overflows
  <2>9. ASSUME NEW a \in Nat, NEW t, Within(q, a), ~Within(r, a)
        PROVE  Has(list, a, t) <=> t = r.type
    <3>1. Within(e, a)
      BY <1>2, <2>1, <2>2, <2>3, <2>9 DEF Within
    <3>2. Has(list, a, r.type)
      BY <1>8, <2>1, <3>1 DEF Has, Says
    <3>3. ASSUME NEW x \in 1..Len(list), Says(list[x], a, t) PROVE t = r.type
      <4>1. list[x].start \in Nat /\ list[x].end \in Nat
        BY ItemFacts
      <4>2. CASE x = i
        BY <1>8, <3>3, <4>2 DEF Says
      <4>3. CASE x < i
        <5>1. Fit(list[x], e)
          BY <2>1, <4>3, ItemFacts
        <5> QED BY <2>2, <3>1, <3>3, <4>1, <5>1 DEF Says, Within, Fit
      <4>4. CASE x > i
        <5>1. Fit(e, list[x])
          BY <2>1, <4>4, ItemFacts
        <5> QED BY <2>2, <3>1, <3>3, <4>1, <5>1 DEF Says, Within, Fit
      <4> QED BY <2>1, <4>2, <4>3, <4>4
    <3> QED BY <3>2, <3>3 DEF Has
  <2>10. \A a \in Nat : Within(r, a) => Within(q, a)
    BY <1>2, <2>1, <2>2, <2>3 DEF Within
  <2>11. ASSUME ~Overflows(list, r), NEW a \in Nat, NEW t \in Types \ {"HOLE"}
         PROVE  Has(new, a, t) <=> IF Within(r, a) THEN t = r.type ELSE Has(list, a, t)
    BY <2>3, <2>7, <2>8, <2>9, <2>10, <2>11
  <2> QED BY <2>7, <2>11 DEF new
<1>9. CASE r.start # r.end /\ ~Before(list, r)
  <2>1. new = Join(Cover(list, i, r), i, r)
    BY <1>9 DEF add_e820
  <2>2. r.start < r.end
    BY <1>2, <1>9
  <2>3. ASSUME NEW x \in i..Len(list) PROVE r.start <= list[x].start
    <3>1. i <= Len(list)
      BY <1>1, <1>3
    <3>2. e.start >= r.start
      BY <1>2, <1>6, <1>9, <3>1 DEF Before
    <3> QED BY <1>2, <1>6, <3>1, <3>2
  <2>4. \A x \in 1..(i - 1) : Fit(list[x], r)
    BY <1>5, <1>9
  <2> HIDE DEF new
  <2>5. /\ Good(new) /\ Len(new) <= MAX_E820
        /\ Len(list) < MAX_E820 =>
             \A a \in Nat, t \in Types \ {"HOLE"} :
               Has(new, a, t) <=> IF Within(r, a) THEN t = r.type ELSE Has(list, a, t)
    <3> HIDE DEF i
    <3> QED BY <1>3, <2>1, <2>2, <2>3, <2>4, Laid
  <2>6. ASSUME ~Overflows(list, r) PROVE Len(list) < MAX_E820
    BY <1>1, <2>6 DEF Overflows
  <2> QED BY <2>5, <2>6 DEF new
<1> QED BY <1>4, <1>7, <1>8, <1>9

-----------------------------------------------------------------------------
(* The invariant, and what it means for the map.                           *)

LEMMA MapInvInductive == E820Spec => []MapInv
<1>1. E820Init => MapInv
  <2> SUFFICES ASSUME E820Init PROVE MapInv
    OBVIOUS
  <2>1. Good(e820_list) /\ \A a, t : ~Has(e820_list, a, t)
    BY Nothing DEF E820Init
  <2>2. Len(e820_list) <= MAX_E820
    BY E820Assumption DEF E820Init
  <2>3. 0..(Top - 1) \subseteq Nat /\ "HOLE" \in Types
    BY E820Assumption DEF Types
  <2> QED BY <2>1, <2>2, <2>3 DEF E820Init, MapInv
<1>2. MapInv /\ [E820Next]_e820Vars => MapInv'
  <2> SUFFICES ASSUME MapInv, [E820Next]_e820Vars PROVE MapInv'
    OBVIOUS
  <2>1. CASE UNCHANGED e820Vars
    BY <2>1 DEF e820Vars, MapInv
  <2>2. ASSUME NEW start \in 0..Top, NEW end \in 0..Top, NEW type \in Types, start <= end,
               Add(Span(start, end, type))
        PROVE  MapInv'
    <3> DEFINE r == Span(start, end, type)
    <3>1. r \in Ranges /\ r.start <= r.end /\ r.type \in Types
      BY <2>2 DEF Ranges, Span
    <3> HIDE DEF r
    <3>2. /\ e820_list' = add_e820(e820_list, r)
          /\ declared' = [a \in DOMAIN declared |-> IF Within(r, a) THEN r.type ELSE declared[a]]
          /\ dropped' = (dropped \/ Overflows(e820_list, r))
      BY <2>2 DEF Add, Within, r
    <3>3. Good(e820_list) /\ Len(e820_list) <= MAX_E820
      BY DEF MapInv
    <3>4. /\ Good(e820_list') /\ Len(e820_list') <= MAX_E820
          /\ ~Overflows(e820_list, r) =>
               \A a \in Nat, t \in Types \ {"HOLE"} :
                 Has(e820_list', a, t) <=> IF Within(r, a) THEN t = r.type
                                           ELSE Has(e820_list, a, t)
      BY <3>1, <3>2, <3>3, AddKeeps
    <3>5. DOMAIN declared' \subseteq Nat /\ \A a \in DOMAIN declared' : declared'[a] \in Types
      BY <3>1, <3>2 DEF MapInv
    <3>6. dropped' \in BOOLEAN
      BY <3>2 DEF MapInv, Overflows
    <3>7. ASSUME ~dropped', NEW a \in DOMAIN declared', NEW t \in Types \ {"HOLE"}
          PROVE  Has(e820_list', a, t) <=> declared'[a] = t
      <4>1. ~dropped /\ ~Overflows(e820_list, r) /\ a \in DOMAIN declared /\ a \in Nat
        BY <3>2, <3>7 DEF MapInv
      <4>2. Has(e820_list, a, t) <=> declared[a] = t
        BY <4>1 DEF MapInv
      <4>3. declared'[a] = IF Within(r, a) THEN r.type ELSE declared[a]
        BY <3>2, <4>1
      <4> QED BY <3>4, <4>1, <4>2, <4>3
    <3>8. MapInv' <=> /\ Good(e820_list') /\ Len(e820_list') <= MAX_E820
                      /\ DOMAIN declared' \subseteq Nat
                      /\ \A a \in DOMAIN declared' : declared'[a] \in Types
                      /\ dropped' \in BOOLEAN
                      /\ ~dropped' => \A a \in DOMAIN declared', t \in Types \ {"HOLE"} :
                                        Has(e820_list', a, t) <=> declared'[a] = t
      BY DEF MapInv, Good, Has
    <3> QED BY <3>4, <3>5, <3>6, <3>7, <3>8
  <2> QED BY <2>1, <2>2 DEF E820Next
<1> QED BY <1>1, <1>2, PTL DEF E820Spec

(* What the table says of an address where no two of its items meet. *)
LEMMA TypeIs ==
  ASSUME NEW list, Good(list), NEW a \in Nat
  PROVE  /\ \A t : Has(list, a, t) => TypeAt(list, a) = t
         /\ (\A t \in Types \ {"HOLE"} : ~Has(list, a, t)) => TypeAt(list, a) = "HOLE"
<1>1. list \in Seq(Item)
  BY DEF Good
<1>2. ASSUME NEW x \in 1..Len(list), NEW y \in 1..Len(list), Within(list[x], a), Within(list[y], a)
      PROVE  x = y
  <2>1. /\ list[x].start \in Nat /\ list[x].end \in Nat
        /\ list[y].start \in Nat /\ list[y].end \in Nat
    BY ItemFacts
  <2>2. CASE x < y
    <3>1. Fit(list[x], list[y])
      BY <2>2, ItemFacts
    <3> QED BY <1>2, <2>1, <3>1 DEF Fit, Within
  <2>3. CASE y < x
    <3>1. Fit(list[y], list[x])
      BY <2>3, ItemFacts
    <3> QED BY <1>2, <2>1, <3>1 DEF Fit, Within
  <2> QED BY <2>2, <2>3
<1>3. ASSUME NEW t, Has(list, a, t) PROVE TypeAt(list, a) = t
  <2>1. PICK x \in 1..Len(list) : Says(list[x], a, t)
    BY <1>3 DEF Has
  <2>2. Within(list[x], a) /\ list[x].type = t
    BY <2>1 DEF Says
  <2>3. \A e : e \in ToSet(list) <=> \E y \in 1..Len(list) : e = list[y]
    BY <1>1 DEF ToSet
  <2>4. \A e \in ToSet(list) : Within(e, a) <=> e = list[x]
    BY <1>2, <2>2, <2>3
  <2>5. list[x] \in ToSet(list)
    BY <2>3
  <2>6. (CHOOSE e \in ToSet(list) : Within(e, a)) = list[x]
    BY <2>4, <2>5
  <2>7. TypeAt(list, a) = (CHOOSE e \in ToSet(list) : Within(e, a)).type
    BY <2>2 DEF TypeAt, Within
  <2> QED BY <2>2, <2>6, <2>7
<1>4. ASSUME \A t \in Types \ {"HOLE"} : ~Has(list, a, t) PROVE TypeAt(list, a) = "HOLE"
  <2>1. ASSUME NEW x \in 1..Len(list), Within(list[x], a) PROVE FALSE
    <3>1. list[x].type \in Types \ {"HOLE"} /\ Has(list, a, list[x].type)
      BY <2>1, ItemFacts DEF Has, Says
    <3> QED BY <1>4, <3>1
  <2> QED BY <2>1 DEF TypeAt, Within
<1> QED BY <1>3, <1>4

(* The list stays sorted, its ranges disjoint and never two that should be *)
(* one; and unless it was full when a change needed room, it says of every *)
(* address what add_e820() was told of it last.                            *)
THEOREM MapIsFaithful == E820Spec => []MapFaithful
<1>1. MapInv => MapFaithful
  <2> SUFFICES ASSUME MapInv PROVE MapFaithful
    OBVIOUS
  <2>1. Good(e820_list) /\ e820_list \in Seq(Item) /\ Len(e820_list) \in Nat
    BY DEF MapInv, Good
  <2>2. Sorted(e820_list)
    <3>1. ASSUME NEW x \in 1..(Len(e820_list) - 1) PROVE Fit(e820_list[x], e820_list[x + 1])
      <4>1. x \in 1..Len(e820_list) /\ x + 1 \in 1..Len(e820_list) /\ x < x + 1
        BY <2>1
      <4> QED BY <2>1, <4>1, ItemFacts
    <3>2. \A x \in 1..Len(e820_list) : e820_list[x].start < e820_list[x].end
      BY <2>1, ItemFacts
    <3> QED BY <3>1, <3>2 DEF Sorted, Fit
  <2>3. ASSUME ~dropped, NEW a \in DOMAIN declared PROVE TypeAt(e820_list, a) = declared[a]
    <3>1. a \in Nat /\ declared[a] \in Types
      BY DEF MapInv
    <3>2. \A t \in Types \ {"HOLE"} : Has(e820_list, a, t) <=> declared[a] = t
      BY <2>3 DEF MapInv
    <3>3. CASE declared[a] = "HOLE"
      BY <2>1, <3>1, <3>2, <3>3, TypeIs
    <3>4. CASE declared[a] # "HOLE"
      BY <2>1, <3>1, <3>2, <3>4, TypeIs
    <3> QED BY <3>3, <3>4
  <2>4. E820TypeOK
    BY DEF MapInv, Good, Item, E820TypeOK
  <2> QED BY <2>2, <2>3, <2>4 DEF MapFaithful
<1> QED BY <1>1, MapInvInductive, PTL
=============================================================================
