---------------------------- MODULE PipesProofs ----------------------------
(***************************************************************************)
(* The transfers of the controllers, for any number of descriptors: the    *)
(* few on the stack that a bulk transfer uses again and again, and the     *)
(* ring of an interrupt pipe.  Both are places k % m of a ring of m, of    *)
(* which the code and the controller have disjoint windows.                *)
(* And the lists of queue heads for any memory, any threads and any        *)
(* length of the frame list.  A list is a way through the links without    *)
(* repetition (Chain, ListedIn), which linking in and out extends and      *)
(* shortens by one node; the frames of a period are apart from those of    *)
(* longer ones (PeriodsApart).  Between two steps of a thread the          *)
(* controller walks on, maybe in what was linked out: what it can still    *)
(* come by is in no memory that is free or about to be freed (Ahead).      *)
(***************************************************************************)
EXTENDS UsbPipes, FiniteSetTheorems, TLAPS

(* The least number principle, from the fact that the finite sets of       *)
(* numbers are well founded under inclusion.                               *)
LEMMA LeastNatural ==
  ASSUME NEW T \in SUBSET Nat, T # {}
  PROVE  \E m \in T : \A k \in T : m <= k
<1> DEFINE F == {0..k : k \in T}
           R == StrictSubsetOrdering(Nat)
<1>1. F \subseteq FiniteSubsetsOf(Nat)
  <2>1. ASSUME NEW k \in T PROVE IsFiniteSet(0..k) /\ 0..k \in SUBSET Nat
    BY FS_Interval
  <2> QED BY <2>1 DEF FiniteSubsetsOf
<1>2. IsWellFoundedOn(R, FiniteSubsetsOf(Nat))
  BY FS_StrictSubsetOrderingWellFounded
<1>3. \E x \in F : \A y \in F : <<y, x>> \notin R
  <2>1. F # {}
    OBVIOUS
  <2> HIDE DEF F, R
  <2> QED BY <1>1, <1>2, <2>1, WFMin
<1>4. PICK m \in T : \A k \in T : <<0..k, 0..m>> \notin R
  BY <1>3
<1>5. ASSUME NEW k \in T, k < m PROVE FALSE
  <2>1. 0..k \subseteq 0..m /\ 0..k # 0..m /\ 0..k \in SUBSET Nat /\ 0..m \in SUBSET Nat
    BY <1>5
  <2> QED BY <2>1, <1>4 DEF StrictSubsetOrdering
<1> QED BY <1>4, <1>5

-----------------------------------------------------------------------------
(* Places of a ring.                                                       *)

USE PipesBounds DEF PipesBounds

(* A place and its round. *)
LEMMA Rounds ==
  ASSUME NEW m \in Nat \ {0}, NEW k \in Nat
  PROVE  k = (k \div m) * m + (k % m) /\ k \div m \in Int /\ k % m \in 0..(m - 1)
OBVIOUS

(* Whole rounds leave the place. *)
LEMMA RoundOff ==
  ASSUME NEW m \in Nat \ {0}, NEW q \in Int, NEW a \in 0..(m - 1)
  PROVE  (q * m + a) % m = a
OBVIOUS

(* The next place, and the same one a round later. *)
LEMMA NextPlace ==
  ASSUME NEW m \in Nat \ {0}, NEW k \in Nat
  PROVE  ((k % m) + 1) % m = (k + 1) % m /\ (k + m) % m = k % m
<1> DEFINE q == k \div m
           r == k % m
<1>1. k = q * m + r /\ q \in Int /\ r \in 0..(m - 1)
  BY Rounds
<1> HIDE DEF q, r
<1>2. (k + m) % m = r
  <2>1. k + m = (q + 1) * m + r
    BY <1>1
  <2> QED BY <1>1, <2>1, RoundOff
<1>3. CASE r + 1 < m
  <2>1. k + 1 = q * m + (r + 1) /\ r + 1 = 0 * m + (r + 1) /\ r + 1 \in 0..(m - 1)
    BY <1>1, <1>3
  <2>2. (q * m + (r + 1)) % m = r + 1 /\ (0 * m + (r + 1)) % m = r + 1
    BY <1>1, <2>1, RoundOff
  <2> QED BY <1>2, <2>1, <2>2 DEF r
<1>4. CASE ~(r + 1 < m)
  <2>1. k + 1 = (q + 1) * m + 0 /\ r + 1 = 1 * m + 0 /\ 0 \in 0..(m - 1)
    BY <1>1, <1>4
  <2>2. ((q + 1) * m + 0) % m = 0 /\ (1 * m + 0) % m = 0
    BY <1>1, <2>1, RoundOff
  <2> QED BY <1>2, <2>1, <2>2 DEF r
<1> QED BY <1>3, <1>4

(* Two within a round are at different places. *)
LEMMA OnePlace ==
  ASSUME NEW m \in Nat \ {0}, NEW j \in Nat, NEW k \in Nat, j <= k, k < j + m, j % m = k % m
  PROVE  j = k
<1> DEFINE p == j \div m
           q == k \div m
           r == j % m
<1>1. j = p * m + r /\ k = q * m + r /\ p \in Int /\ q \in Int /\ r \in 0..(m - 1)
  BY Rounds
<1> HIDE DEF p, q, r
<1>2. k - j = (q - p) * m
  BY <1>1
<1>3. q - p < 1
  <2>1. SUFFICES ASSUME q - p >= 1 PROVE FALSE
    BY <1>1
  <2>2. (q - p) * m >= m
    BY <1>1, <2>1
  <2> QED BY <1>2, <2>2
<1>4. q - p > -1
  <2>1. SUFFICES ASSUME q - p <= -1 PROVE FALSE
    BY <1>1
  <2>2. (q - p) * m <= -m
    BY <1>1, <2>1
  <2> QED BY <1>2, <2>2
<1> QED BY <1>1, <1>3, <1>4

-----------------------------------------------------------------------------
(* The interrupt pipe.                                                     *)

Places == 0..(RingTds - 1)

RingTypes ==
  ring \in [hw : Places, sw : Places, sent : Nat, polls : Nat, got : Nat, polling : BOOLEAN,
            active : [Places -> BOOLEAN], slot : [Places -> Nat]]

(* The reports whose descriptor the controller has back. *)
Returned == IF ring.polling THEN ring.polls - 1 ELSE ring.polls

(* Reports that were sent and not returned lie in the places from the one  *)
(* the code is at to the one the controller is at; the descriptors of all  *)
(* other places are the controller's.                                      *)
RingInv ==
  /\ RingTypes
  /\ Returned \in Nat /\ Returned <= ring.sent /\ (ring.polling => Returned < ring.sent)
  /\ ring.sent <= (IF kind = "ohci" THEN Returned + RingTds - 1 ELSE Returned + RingTds)
  /\ ring.hw = Mod(ring.sent)
  /\ ring.sw = Mod(IF kind = "ohci" THEN Returned + RingTds - 1 ELSE Returned)
  /\ \A k \in Returned..(ring.sent - 1) : ring.slot[Mod(k)] = k + 1
  /\ kind # "ohci" =>
       /\ \A k \in Returned..(ring.sent - 1) : ~ring.active[Mod(k)]
       /\ \A k \in ring.sent..(Returned + RingTds - 1) : ring.active[Mod(k)]
  /\ ring.got = ring.polls

(* Places of an interrupt pipe, by the lemmas above. *)
LEMMA ModIs ==
  ASSUME NEW k \in Nat
  PROVE  Mod(k) \in Places /\ Mod(Mod(k) + 1) = Mod(k + 1) /\ Mod(k + RingTds) = Mod(k)
<1>1. RingTds \in Nat \ {0}
  OBVIOUS
<1> QED BY ONLY <1>1, NextPlace, Rounds DEF Mod, Places

(* Within a round no two are at one place. *)
LEMMA ModApart ==
  ASSUME NEW j \in Nat, NEW k \in Nat, j < k, k < j + RingTds
  PROVE  Mod(j) # Mod(k)
<1>1. SUFFICES ASSUME j % RingTds = k % RingTds PROVE FALSE
  BY DEF Mod
<1>2. RingTds \in Nat \ {0} /\ j <= k
  OBVIOUS
<1>3. j = k
  BY ONLY <1>1, <1>2, j \in Nat, k \in Nat, k < j + RingTds, OnePlace
<1> QED BY <1>3

(* At first every descriptor is the controller's. *)
LEMMA RingInitInv == PipesInit => RingInv
<1> SUFFICES ASSUME PipesInit PROVE RingInv
  OBVIOUS
<1>1. ring = [hw |-> 0, sw |-> IF kind = "ohci" THEN RingTds - 1 ELSE 0, sent |-> 0, polls |-> 0,
              got |-> 0, polling |-> FALSE, active |-> [i \in Places |-> TRUE],
              slot |-> [i \in Places |-> 0]]
  BY DEF PipesInit, RingInit, Places
<1>2. RingTds - 1 \in Places /\ 0 \in Places
  BY DEF Places
<1>3. RingTypes
  BY <1>1, <1>2 DEF RingTypes
<1>4. Mod(0) = 0 /\ Mod(RingTds - 1) = RingTds - 1
  <2>1. 0 \in 0..(RingTds - 1) /\ RingTds - 1 \in 0..(RingTds - 1) /\ RingTds \in Nat \ {0}
    OBVIOUS
  <2>2. (0 * RingTds + 0) % RingTds = 0 /\ (0 * RingTds + (RingTds - 1)) % RingTds = RingTds - 1
    BY ONLY <2>1, RoundOff
  <2> QED BY <2>2 DEF Mod
<1>5. Returned = 0
  BY <1>1 DEF Returned
<1>6. \A k \in 0..(RingTds - 1) : ring.active[Mod(k)]
  BY <1>1, ModIs
<1>7. /\ ring.hw = 0 /\ ring.sent = 0 /\ ring.polls = 0 /\ ring.got = 0 /\ ring.polling = FALSE
      /\ ring.sw = IF kind = "ohci" THEN RingTds - 1 ELSE 0
  BY <1>1
<1> QED BY <1>3, <1>4, <1>5, <1>6, <1>7 DEF RingInv

(* The device sends a report. *)
LEMMA ReportStep == ASSUME RingInv, hw_report, kind' = kind PROVE RingInv'
<1> DEFINE here == ring.hw
<1>1. RingTypes
  BY DEF RingInv
<1>2. ring' = [ring EXCEPT !.sent = ring.sent + 1, !.slot = [ring.slot EXCEPT ![here] = ring.sent + 1],
                           !.hw = Mod(here + 1), !.active = [ring.active EXCEPT ![here] = FALSE]]
  BY <1>1 DEF hw_report, RingTypes
<1>3. /\ ring'.sent = ring.sent + 1 /\ ring'.hw = Mod(here + 1)
      /\ ring'.slot = [ring.slot EXCEPT ![here] = ring.sent + 1]
      /\ ring'.active = [ring.active EXCEPT ![here] = FALSE]
      /\ ring'.sw = ring.sw /\ ring'.polls = ring.polls /\ ring'.got = ring.got
      /\ ring'.polling = ring.polling
  BY <1>1, <1>2 DEF RingTypes
<1>4. /\ ring.sent \in Nat /\ here = Mod(ring.sent) /\ here \in Places
      /\ Mod(here + 1) = Mod(ring.sent + 1) /\ Mod(ring.sent + 1) \in Places
  BY <1>1, ModIs DEF RingInv, RingTypes
<1>5. Returned' = Returned /\ Returned \in Nat /\ Returned <= ring.sent
  BY <1>3 DEF Returned, RingInv
<1>6. RingTypes'
  <2>1. /\ [ring.slot EXCEPT ![here] = ring.sent + 1] \in [Places -> Nat]
        /\ [ring.active EXCEPT ![here] = FALSE] \in [Places -> BOOLEAN]
    BY <1>1, <1>4 DEF RingTypes
  <2> QED BY <1>1, <1>2, <1>4, <2>1 DEF RingTypes
<1>7. ring.sent < (IF kind = "ohci" THEN Returned + RingTds - 1 ELSE Returned + RingTds)
  <2>1. CASE kind = "ohci"
    BY <1>4, <2>1 DEF hw_report, RingInv
  <2>2. CASE kind # "ohci"
    <3>1. ring.active[here]
      BY <2>2 DEF hw_report
    <3>2. ASSUME ring.sent = Returned + RingTds PROVE FALSE
      <4>1. Mod(Returned) = Mod(ring.sent)
        BY <1>5, <3>2, ModIs
      <4>2. ~ring.active[Mod(Returned)]
        BY <1>5, <2>2, <3>2 DEF RingInv
      <4> QED BY <1>4, <3>1, <4>1, <4>2
    <3> QED BY <1>4, <1>5, <2>2, <3>2 DEF RingInv
  <2> QED BY <2>1, <2>2
<1>8. \A k \in Returned..(ring.sent - 1) : Mod(k) # here /\ Mod(k) \in Places /\ k \in Nat
  BY <1>4, <1>5, <1>7, ModApart, ModIs
<1>9. \A k \in (ring.sent + 1)..(Returned + RingTds - 1) : Mod(k) # here /\ Mod(k) \in Places
  BY <1>4, <1>5, ModApart, ModIs
<1> HIDE DEF here
<1>10. \A k \in Returned..ring.sent : ring'.slot[Mod(k)] = k + 1
  BY <1>1, <1>3, <1>4, <1>5, <1>8 DEF RingInv, RingTypes
<1>11. ASSUME kind # "ohci"
       PROVE  /\ \A k \in Returned..ring.sent : ~ring'.active[Mod(k)]
              /\ \A k \in (ring.sent + 1)..(Returned + RingTds - 1) : ring'.active[Mod(k)]
  <2>1. \A k \in Returned..ring.sent : ~ring'.active[Mod(k)]
    BY <1>1, <1>3, <1>4, <1>5, <1>8, <1>11 DEF RingInv, RingTypes
  <2>2. \A k \in (ring.sent + 1)..(Returned + RingTds - 1) : ring'.active[Mod(k)]
    BY <1>1, <1>3, <1>4, <1>5, <1>9, <1>11 DEF RingInv, RingTypes
  <2> QED BY <2>1, <2>2
<1> QED BY <1>3, <1>4, <1>5, <1>6, <1>7, <1>10, <1>11 DEF RingInv

(* The interrupt handler copies one. *)
LEMMA PollStep == ASSUME RingInv, poll_intr, kind' = kind PROVE RingInv'
<1> DEFINE pos == IF kind = "ohci" THEN TailNext ELSE ring.sw
<1>1. RingTypes /\ Returned \in Nat /\ Returned <= ring.sent /\ ring.sent \in Nat
  BY DEF RingInv, RingTypes
<1>2. /\ ~ring.polling /\ (IF kind = "ohci" THEN ring.hw # pos ELSE ~ring.active[pos])
      /\ ring' = [ring EXCEPT !.polling = TRUE, !.got = ring.slot[pos], !.polls = ring.polls + 1]
  BY <1>1 DEF poll_intr, RingTypes
<1>3. Returned = ring.polls
  BY <1>2 DEF Returned
<1>4. pos = Mod(Returned) /\ pos \in Places
  <2>1. CASE kind = "ohci"
    <3>1. Returned + RingTds - 1 \in Nat /\ (Returned + RingTds - 1) + 1 = Returned + RingTds
      BY <1>1
    <3>2. TailNext = Mod(Returned + RingTds)
      BY <2>1, <3>1, ModIs DEF TailNext, RingInv
    <3> QED BY <1>1, <2>1, <3>2, ModIs
  <2>2. CASE kind # "ohci"
    BY <1>1, <2>2, ModIs DEF RingInv
  <2> QED BY <2>1, <2>2
<1> HIDE DEF pos
<1>5. Returned < ring.sent
  <2>1. SUFFICES ASSUME Returned = ring.sent PROVE FALSE
    BY <1>1
  <2>2. CASE kind = "ohci"
    BY <1>2, <1>4, <2>1, <2>2 DEF RingInv
  <2>3. CASE kind # "ohci"
    <3>1. ring.active[Mod(ring.sent)]
      BY <1>1, <2>1, <2>3 DEF RingInv
    <3> QED BY <1>2, <1>4, <2>1, <2>3, <3>1
  <2> QED BY <2>2, <2>3
<1>6. ring.slot[pos] = ring.polls + 1
  BY <1>1, <1>3, <1>4, <1>5 DEF RingInv
<1>7. /\ ring'.sent = ring.sent /\ ring'.hw = ring.hw /\ ring'.slot = ring.slot
      /\ ring'.active = ring.active /\ ring'.sw = ring.sw /\ ring'.polls = ring.polls + 1
      /\ ring'.got = ring.slot[pos] /\ ring'.polling = TRUE
  BY <1>1, <1>2 DEF RingTypes
<1>8. Returned' = Returned
  BY <1>1, <1>3, <1>7 DEF Returned, RingTypes
<1>9. RingTypes'
  <2>1. ring.slot[pos] \in Nat /\ ring.polls + 1 \in Nat
    BY <1>1, <1>4 DEF RingTypes
  <2> QED BY <1>1, <1>2, <2>1 DEF RingTypes
<1> QED BY <1>5, <1>6, <1>7, <1>8, <1>9 DEF RingInv

(* And gives the descriptor back. *)
LEMMA ReturnStep == ASSUME RingInv, poll_intr_reenable, kind' = kind PROVE RingInv'
<1> DEFINE here == ring.sw
<1>1. RingTypes /\ Returned \in Nat /\ Returned < ring.sent /\ ring.sent \in Nat
  BY DEF RingInv, RingTypes, poll_intr_reenable
<1>2. /\ ring.polling
      /\ ring' = [ring EXCEPT !.polling = FALSE, !.sw = Mod(here + 1),
                              !.active = [ring.active EXCEPT ![here] = TRUE]]
  BY <1>1 DEF poll_intr_reenable, RingTypes
<1>3. /\ ring'.sent = ring.sent /\ ring'.hw = ring.hw /\ ring'.slot = ring.slot
      /\ ring'.active = [ring.active EXCEPT ![here] = TRUE] /\ ring'.sw = Mod(here + 1)
      /\ ring'.polls = ring.polls /\ ring'.got = ring.got /\ ring'.polling = FALSE
  BY <1>1, <1>2 DEF RingTypes
<1>4. Returned' = Returned + 1
  BY <1>1, <1>2, <1>3 DEF Returned, RingTypes
<1> DEFINE at == IF kind = "ohci" THEN Returned + RingTds - 1 ELSE Returned
<1>5. at \in Nat /\ here = Mod(at) /\ here \in Places
  BY <1>1 DEF RingInv, RingTypes
<1> HIDE DEF here, at
<1>6. Mod(here + 1) = Mod(at + 1) /\ Mod(here + 1) \in Places
  BY <1>5, ModIs
<1>7. RingTypes'
  <2>1. [ring.active EXCEPT ![here] = TRUE] \in [Places -> BOOLEAN]
    BY <1>1, <1>5 DEF RingTypes
  <2> DEFINE act == [ring.active EXCEPT ![here] = TRUE]
             to == Mod(here + 1)
  <2>2. ring' = [ring EXCEPT !.polling = FALSE, !.sw = to, !.active = act]
    BY <1>2
  <2>3. act \in [Places -> BOOLEAN] /\ to \in Places
    BY <1>6, <2>1
  <2> HIDE DEF act, to
  <2> QED BY <1>1, <2>2, <2>3 DEF RingTypes
<1>8. ring'.sw = Mod(IF kind = "ohci" THEN Returned' + RingTds - 1 ELSE Returned')
  BY <1>1, <1>3, <1>4, <1>6 DEF at
<1>9. ASSUME kind # "ohci"
      PROVE  /\ \A k \in (Returned + 1)..(ring.sent - 1) : ~ring'.active[Mod(k)]
             /\ \A k \in ring.sent..(Returned + RingTds) : ring'.active[Mod(k)]
  <2>1. here = Mod(Returned) /\ ring.sent <= Returned + RingTds
    BY <1>5, <1>9 DEF at, RingInv
  <2>2. \A k \in (Returned + 1)..(ring.sent - 1) : Mod(k) # here /\ Mod(k) \in Places
    BY <1>1, <2>1, ModApart, ModIs
  <2>3. \A k \in (Returned + 1)..(ring.sent - 1) : ~ring'.active[Mod(k)]
    BY <1>1, <1>3, <1>5, <1>9, <2>2 DEF RingInv, RingTypes
  <2>4. ring'.active[Mod(Returned + RingTds)]
    BY <1>1, <1>3, <1>5, <2>1, ModIs DEF RingTypes
  <2>5. \A k \in ring.sent..(Returned + RingTds - 1) : ring'.active[Mod(k)]
    BY <1>1, <1>3, <1>5, <1>9, ModIs DEF RingInv, RingTypes
  <2> QED BY <1>1, <2>3, <2>4, <2>5
<1> QED BY <1>1, <1>3, <1>4, <1>7, <1>8, <1>9 DEF RingInv

(* Every step of the controllers keeps the ring. *)
LEMMA RingStep == ASSUME RingInv, [PipesNext]_pipesVars PROVE RingInv'
<1>1. kind' = kind
  BY DEF PipesNext, pipesVars
<1>2. ring' = ring \/ RingNext
  BY DEF PipesNext, pipesVars
<1>3. CASE ring' = ring
  BY <1>1, <1>3 DEF RingInv, RingTypes, Returned
<1> QED BY <1>1, <1>2, <1>3, ReportStep, PollStep, ReturnStep DEF RingNext

-----------------------------------------------------------------------------
(* The bulk transfer.                                                      *)

Phases == {"idle", "fill", "sent", "failed"}
TdRecord == [active : BOOLEAN, end : BOOLEAN, packet : Nat, error : BOOLEAN]

BulkTypes ==
  bulk \in [phase : Phases, n : Nat, pos : Nat, drained : Nat, at : 0..StackTds, done : Nat,
            order : BOOLEAN, td : [1..StackTds -> TdRecord]]

Idles(d) == ~d.active /\ ~d.error

(* The packets that were handed over and not sent lie in the descriptors   *)
(* from the one the controller is at; the others are idle, and so are      *)
(* those that were waited for at the end.                                  *)
Window ==
  /\ bulk.done <= bulk.pos /\ bulk.pos <= bulk.n /\ bulk.pos <= bulk.done + StackTds
  /\ bulk.at = IF bulk.done = bulk.n THEN 0 ELSE Slot(bulk.done)
  /\ \A k \in bulk.done..(bulk.pos - 1) :
       /\ bulk.td[Slot(k)].active <=> ~bulk.td[Slot(k)].error
       /\ bulk.td[Slot(k)].packet = k + 1 /\ (bulk.td[Slot(k)].end <=> k + 1 = bulk.n)
  /\ \A k \in bulk.pos..(bulk.done + StackTds - 1) : Idles(bulk.td[Slot(k)])
  /\ bulk.drained > 0 => bulk.pos = bulk.n
  /\ bulk.drained <= StackTds
  /\ \A j \in 0..(bulk.drained - 1) : Idles(bulk.td[Slot(bulk.n + j)])

BulkInv ==
  /\ BulkTypes /\ bulk.order
  /\ bulk.phase = "fill" => Window
  /\ bulk.phase = "sent" => bulk.done = bulk.n /\ bulk.at = 0
  /\ bulk.phase = "failed" => bulk.at = 0

(* Places of the descriptors on the stack. *)
LEMMA SlotIs ==
  ASSUME NEW k \in Nat
  PROVE  Slot(k) \in 1..StackTds /\ Slot(Slot(k)) = Slot(k + 1) /\ Slot(k + StackTds) = Slot(k)
<1>1. StackTds \in Nat \ {0}
  OBVIOUS
<1>2. k % StackTds \in 0..(StackTds - 1)
  BY ONLY <1>1, k \in Nat, Rounds
<1>3. ((k % StackTds) + 1) % StackTds = (k + 1) % StackTds /\ (k + StackTds) % StackTds = k % StackTds
  BY ONLY <1>1, k \in Nat, NextPlace
<1> QED BY <1>2, <1>3 DEF Slot

(* Within a round no two packets share a descriptor. *)
LEMMA SlotApart ==
  ASSUME NEW j \in Nat, NEW k \in Nat, j < k, k < j + StackTds
  PROVE  Slot(j) # Slot(k)
<1>1. SUFFICES ASSUME j % StackTds = k % StackTds PROVE FALSE
  <2>1. j % StackTds \in Int /\ k % StackTds \in Int
    OBVIOUS
  <2> QED BY <2>1 DEF Slot
<1>2. StackTds \in Nat \ {0} /\ j <= k
  OBVIOUS
<1>3. j = k
  BY ONLY <1>1, <1>2, j \in Nat, k \in Nat, k < j + StackTds, OnePlace
<1> QED BY <1>3

(* At first there is no transfer. *)
LEMMA BulkInitInv == PipesInit => BulkInv
<1> SUFFICES ASSUME PipesInit PROVE BulkInv
  OBVIOUS
<1>1. bulk = [phase |-> "idle", n |-> 0, pos |-> 0, drained |-> 0, at |-> 0, done |-> 0,
              order |-> TRUE, td |-> [i \in 1..StackTds |-> Td]]
  BY DEF PipesInit, BulkInit
<1>2. Td \in TdRecord
  BY DEF Td, TdRecord
<1>3. BulkTypes
  BY <1>1, <1>2 DEF BulkTypes, Phases
<1> QED BY <1>1, <1>3 DEF BulkInv

(* A transfer begins with every descriptor idle. *)
LEMMA SendStep == ASSUME BulkInv, NEW n \in 1..MaxPackets, send_bulk(n) PROVE BulkInv'
<1>1. bulk' = [phase |-> "fill", n |-> n, pos |-> 0, drained |-> 0, at |-> 1, done |-> 0,
               order |-> TRUE, td |-> [i \in 1..StackTds |-> Td]]
  BY DEF send_bulk
<1>2. Td \in TdRecord /\ Idles(Td)
  BY DEF Td, TdRecord, Idles
<1>3. BulkTypes'
  <2>1. n \in Nat /\ 1 \in 0..StackTds
    OBVIOUS
  <2> QED BY <1>1, <1>2, <2>1 DEF BulkTypes, Phases
<1>4. Slot(0) = 1
  <2>1. StackTds \in Nat \ {0} /\ 0 \in 0..(StackTds - 1)
    OBVIOUS
  <2>2. (0 * StackTds + 0) % StackTds = 0
    BY ONLY <2>1, RoundOff
  <2> QED BY <2>2 DEF Slot
<1>5. \A k \in Nat : Idles(bulk'.td[Slot(k)])
  BY <1>1, <1>2, SlotIs
<1>6. Window'
  <2>1. /\ bulk'.done = 0 /\ bulk'.pos = 0 /\ bulk'.n = n /\ bulk'.drained = 0 /\ bulk'.at = 1
    BY <1>1
  <2> QED BY <1>4, <1>5, <2>1 DEF Window
<1> QED BY <1>1, <1>3, <1>6 DEF BulkInv

(* A packet is handed over in a descriptor that is idle. *)
LEMMA FillStep == ASSUME BulkInv, send_bulk_fill PROVE BulkInv'
<1> DEFINE i == Slot(bulk.pos)
           new == [active |-> TRUE, end |-> bulk.pos + 1 = bulk.n, packet |-> bulk.pos + 1, error |-> FALSE]
<1>1. BulkTypes /\ Window /\ bulk.phase = "fill" /\ bulk.pos < bulk.n /\ Idles(bulk.td[i])
  BY DEF BulkInv, send_bulk_fill, Idles
<1>2. bulk' = [bulk EXCEPT !.pos = bulk.pos + 1, !.td = [bulk.td EXCEPT ![i] = new]]
  BY <1>1 DEF send_bulk_fill, BulkTypes
<1>3. i \in 1..StackTds /\ i = Slot(bulk.pos) /\ bulk.pos \in Nat /\ bulk.done \in Nat /\ bulk.n \in Nat
      /\ bulk.drained \in Nat
  BY <1>1, SlotIs DEF BulkTypes
<1>4. new \in TdRecord
  BY <1>3 DEF TdRecord
<1>5. new.active /\ ~new.error /\ new.packet = bulk.pos + 1 /\ (new.end <=> bulk.pos + 1 = bulk.n)
  OBVIOUS
<1> HIDE DEF new
<1>6. /\ bulk'.phase = "fill" /\ bulk'.n = bulk.n /\ bulk'.pos = bulk.pos + 1
      /\ bulk'.drained = bulk.drained /\ bulk'.at = bulk.at /\ bulk'.done = bulk.done
      /\ bulk'.order = bulk.order /\ bulk'.td = [bulk.td EXCEPT ![i] = new]
  BY <1>1, <1>2 DEF BulkTypes
<1>7. BulkTypes'
  <2>1. [bulk.td EXCEPT ![i] = new] \in [1..StackTds -> TdRecord] /\ bulk.pos + 1 \in Nat
    BY <1>1, <1>3, <1>4 DEF BulkTypes
  <2> QED BY <1>1, <1>2, <2>1 DEF BulkTypes
<1>8. bulk.pos < bulk.done + StackTds
  <2>1. SUFFICES ASSUME bulk.pos = bulk.done + StackTds PROVE FALSE
    BY <1>1, <1>3 DEF Window
  <2>2. i = Slot(bulk.done)
    BY <1>3, <2>1, SlotIs
  <2>3. bulk.td[Slot(bulk.done)].active <=> ~bulk.td[Slot(bulk.done)].error
    BY <1>1, <1>3, <2>1 DEF Window
  <2> QED BY <1>1, <2>2, <2>3 DEF Idles
<1>9. \A k \in bulk.done..(bulk.pos - 1) : Slot(k) # i /\ Slot(k) \in 1..StackTds
  BY <1>3, <1>8, SlotApart, SlotIs
<1>10. \A k \in (bulk.pos + 1)..(bulk.done + StackTds - 1) : Slot(k) # i /\ Slot(k) \in 1..StackTds
  BY <1>1, <1>3, SlotApart, SlotIs DEF Window
<1> HIDE DEF i
<1>11. \A k \in bulk.done..bulk.pos :
         /\ bulk'.td[Slot(k)].active <=> ~bulk'.td[Slot(k)].error
         /\ bulk'.td[Slot(k)].packet = k + 1 /\ (bulk'.td[Slot(k)].end <=> k + 1 = bulk.n)
  <2>1. \A k \in bulk.done..(bulk.pos - 1) : bulk'.td[Slot(k)] = bulk.td[Slot(k)]
    BY <1>1, <1>6, <1>9 DEF BulkTypes
  <2>2. bulk'.td[Slot(bulk.pos)] = new
    BY <1>1, <1>3, <1>6 DEF BulkTypes
  <2> QED BY <1>1, <1>3, <1>5, <2>1, <2>2 DEF Window
<1>12. \A k \in (bulk.pos + 1)..(bulk.done + StackTds - 1) : Idles(bulk'.td[Slot(k)])
  <2>1. \A k \in (bulk.pos + 1)..(bulk.done + StackTds - 1) : bulk'.td[Slot(k)] = bulk.td[Slot(k)]
    BY <1>1, <1>6, <1>10 DEF BulkTypes
  <2> QED BY <1>1, <1>3, <2>1 DEF Window
<1>13. bulk.drained = 0
  BY <1>1, <1>3 DEF Window
<1>14. Window'
  BY <1>1, <1>3, <1>6, <1>8, <1>11, <1>12, <1>13 DEF Window
<1> QED BY <1>6, <1>7, <1>14 DEF BulkInv

(* When every descriptor was found idle behind the last packet, all the    *)
(* packets are sent.                                                       *)
LEMMA DrainStep == ASSUME BulkInv, send_bulk_drain PROVE BulkInv'
<1>1. BulkTypes /\ Window /\ bulk.phase = "fill" /\ bulk.pos = bulk.n /\ bulk.order
  BY DEF BulkInv, send_bulk_drain
<1>2. bulk.pos \in Nat /\ bulk.done \in Nat /\ bulk.n \in Nat /\ bulk.drained \in Nat
  BY <1>1 DEF BulkTypes
<1>3. CASE bulk.drained = StackTds
  <2>1. bulk' = [bulk EXCEPT !.phase = "sent"]
    BY <1>3 DEF send_bulk_drain, DrainCount
  <2>2. bulk.done = bulk.n
    <3>1. SUFFICES ASSUME bulk.done < bulk.n PROVE FALSE
      BY <1>1, <1>2 DEF Window
    <3> DEFINE j == bulk.done + StackTds - bulk.n
    <3>2. j \in 0..(StackTds - 1) /\ bulk.n + j = bulk.done + StackTds
      BY <1>1, <1>2, <3>1 DEF Window
    <3> HIDE DEF j
    <3>3. Idles(bulk.td[Slot(bulk.n + j)])
      BY <1>1, <1>3, <3>2 DEF Window
    <3>4. Slot(bulk.n + j) = Slot(bulk.done)
      BY <1>2, <3>2, SlotIs
    <3>5. bulk.td[Slot(bulk.done)].active <=> ~bulk.td[Slot(bulk.done)].error
      BY <1>1, <1>2, <3>1 DEF Window
    <3> QED BY <3>3, <3>4, <3>5 DEF Idles
  <2>3. bulk.at = 0
    BY <1>1, <2>2 DEF Window
  <2>4. BulkTypes'
    BY <1>1, <2>1 DEF BulkTypes, Phases
  <2>5. /\ bulk'.phase = "sent" /\ bulk'.done = bulk.done /\ bulk'.n = bulk.n /\ bulk'.at = bulk.at
        /\ bulk'.order = bulk.order
    BY <1>1, <2>1 DEF BulkTypes
  <2> QED BY <1>1, <2>2, <2>3, <2>4, <2>5 DEF BulkInv
<1>4. CASE bulk.drained # StackTds
  <2>1. /\ Idles(bulk.td[Slot(bulk.pos + bulk.drained)])
        /\ bulk' = [bulk EXCEPT !.drained = bulk.drained + 1]
    BY <1>1, <1>4 DEF send_bulk_drain, DrainCount, Idles, BulkTypes
  <2>2. BulkTypes'
    <3> DEFINE n == bulk.drained + 1
    <3>1. n \in Nat /\ bulk' = [bulk EXCEPT !.drained = n]
      BY <1>1, <2>1 DEF BulkTypes
    <3> HIDE DEF n
    <3> QED BY <1>1, <3>1 DEF BulkTypes
  <2>3. /\ bulk'.phase = "fill" /\ bulk'.n = bulk.n /\ bulk'.pos = bulk.pos
        /\ bulk'.drained = bulk.drained + 1 /\ bulk'.at = bulk.at /\ bulk'.done = bulk.done
        /\ bulk'.order = bulk.order /\ bulk'.td = bulk.td
    BY <1>1, <2>1 DEF BulkTypes
  <2>4. \A j \in 0..bulk.drained : Idles(bulk.td[Slot(bulk.n + j)])
    BY <1>1, <1>2, <2>1 DEF Window
  <2>5. Window'
    BY <1>1, <1>2, <1>4, <2>3, <2>4 DEF Window
  <2> QED BY <1>1, <2>2, <2>3, <2>5 DEF BulkInv
<1> QED BY <1>3, <1>4

(* It is given up, or its caller returns. *)
LEMMA EndStep == ASSUME BulkInv, send_bulk_fail \/ send_bulk_return PROVE BulkInv'
<1>1. BulkTypes /\ bulk.order
  BY DEF BulkInv
<1>2. CASE send_bulk_fail
  <2>1. bulk' = [bulk EXCEPT !.phase = "failed", !.at = 0]
    BY <1>2 DEF send_bulk_fail
  <2>2. BulkTypes' /\ bulk'.phase = "failed" /\ bulk'.at = 0 /\ bulk'.order = bulk.order
    <3>1. 0 \in 0..StackTds /\ "failed" \in Phases
      BY DEF Phases
    <3> QED BY <1>1, <2>1, <3>1 DEF BulkTypes
  <2> QED BY <1>1, <2>2 DEF BulkInv
<1>3. CASE send_bulk_return
  <2>1. bulk' = [bulk EXCEPT !.phase = "idle"]
    BY <1>3 DEF send_bulk_return
  <2>2. BulkTypes' /\ bulk'.phase = "idle" /\ bulk'.order = bulk.order
    BY <1>1, <2>1 DEF BulkTypes, Phases
  <2> QED BY <1>1, <2>2 DEF BulkInv
<1> QED BY <1>2, <1>3

(* The descriptors ahead of one within a round are others. *)
LEMMA SlotAhead ==
  ASSUME NEW d \in Nat, NEW k \in Int, d < k, k < d + StackTds
  PROVE  Slot(k) # Slot(d) /\ Slot(k) \in 1..StackTds
<1>1. k \in Nat
  OBVIOUS
<1> QED BY <1>1, SlotApart, SlotIs

(* The controller carries out the descriptor it is at, or stops there.     *)
LEMMA CarryStep == ASSUME BulkInv, hw_bulk PROVE BulkInv'
<1> DEFINE here == bulk.at
           old == bulk.td[here]
<1>1. BulkTypes /\ bulk.order /\ Window /\ bulk.phase = "fill" /\ here # 0 /\ old.active
  BY DEF BulkInv, BulkTypes, Phases, hw_bulk
<1>2. /\ bulk.pos \in Nat /\ bulk.done \in Nat /\ bulk.n \in Nat /\ bulk.drained \in Nat
      /\ here \in 1..StackTds /\ old \in TdRecord
  BY <1>1 DEF BulkTypes
<1>3. here = Slot(bulk.done) /\ bulk.done < bulk.n /\ bulk.done < bulk.pos
  <2>1. here = Slot(bulk.done) /\ bulk.done # bulk.n
    BY <1>1 DEF Window
  <2>2. ASSUME bulk.done = bulk.pos PROVE FALSE
    <3>1. Idles(bulk.td[Slot(bulk.done)])
      BY <1>1, <1>2, <2>2 DEF Window
    <3> QED BY <1>1, <2>1, <3>1 DEF Idles
  <2> QED BY <1>1, <1>2, <2>1, <2>2 DEF Window
<1>4. old.packet = bulk.done + 1 /\ (old.end <=> bulk.done + 1 = bulk.n) /\ ~old.error
  BY <1>1, <1>2, <1>3 DEF Window
<1>5. \A k \in (bulk.done + 1)..(bulk.pos - 1) : Slot(k) # here /\ Slot(k) \in 1..StackTds
  <2>1. bulk.pos <= bulk.done + StackTds
    BY <1>1 DEF Window
  <2>2. ASSUME NEW k \in (bulk.done + 1)..(bulk.pos - 1)
        PROVE  k \in Int /\ bulk.done < k /\ k < bulk.done + StackTds
    BY <1>2, <2>1
  <2> HIDE DEF here
  <2> QED BY <1>2, <1>3, <2>2, SlotAhead
<1>6. \A k \in bulk.pos..(bulk.done + StackTds - 1) : Slot(k) # here /\ Slot(k) \in 1..StackTds
  <2>1. ASSUME NEW k \in bulk.pos..(bulk.done + StackTds - 1)
        PROVE  k \in Int /\ bulk.done < k /\ k < bulk.done + StackTds
    BY <1>2, <1>3
  <2> HIDE DEF here
  <2> QED BY <1>2, <1>3, <2>1, SlotAhead
<1>7. \A j \in 0..(bulk.drained - 1) : Slot(bulk.n + j) # here /\ Slot(bulk.n + j) \in 1..StackTds
  BY <1>1, <1>2, SlotIs DEF Window, Idles
<1>8. ASSUME NEW new \in TdRecord, ~new.active,
             bulk'.td = [bulk.td EXCEPT ![here] = new]
      PROVE  /\ bulk'.td \in [1..StackTds -> TdRecord] /\ bulk'.td[here] = new
             /\ \A k \in (bulk.done + 1)..(bulk.pos - 1) : bulk'.td[Slot(k)] = bulk.td[Slot(k)]
             /\ \A k \in bulk.pos..(bulk.done + StackTds - 1) : Idles(bulk'.td[Slot(k)])
             /\ \A j \in 0..(bulk.drained - 1) : Idles(bulk'.td[Slot(bulk.n + j)])
  <2>1. bulk'.td \in [1..StackTds -> TdRecord] /\ bulk'.td[here] = new
    BY <1>1, <1>2, <1>8 DEF BulkTypes
  <2>2. \A i \in 1..StackTds : i # here => bulk'.td[i] = bulk.td[i]
    BY <1>1, <1>2, <1>8 DEF BulkTypes
  <2> HIDE DEF here
  <2> QED BY <1>1, <1>2, <1>5, <1>6, <1>7, <2>1, <2>2 DEF Window
<1>9. CASE bulk' = [bulk EXCEPT !.td[bulk.at].active = FALSE, !.done = @ + 1,
                                !.order = @ /\ old.packet = bulk.done + 1,
                                !.at = IF old.end THEN 0 ELSE Slot(bulk.at)]
  <2> DEFINE new == [old EXCEPT !.active = FALSE]
             to == IF old.end THEN 0 ELSE Slot(here)
  <2>1. /\ bulk'.phase = "fill" /\ bulk'.n = bulk.n /\ bulk'.pos = bulk.pos
        /\ bulk'.drained = bulk.drained /\ bulk'.at = to /\ bulk'.done = bulk.done + 1
        /\ bulk'.td = [bulk.td EXCEPT ![here] = new]
    BY <1>1, <1>9 DEF BulkTypes
  <2>2. bulk'.order = TRUE
    BY <1>1, <1>4, <1>9 DEF BulkTypes
  <2>3. new \in TdRecord /\ ~new.active /\ ~new.error
    BY <1>2, <1>4 DEF TdRecord
  <2>4. to = IF bulk.done + 1 = bulk.n THEN 0 ELSE Slot(bulk.done + 1)
    BY <1>2, <1>3, <1>4, SlotIs
  <2>5. to \in 0..StackTds
    BY <1>2, <2>4, SlotIs
  <2> HIDE DEF new, to
  <2>6. BulkTypes'
    <3> DEFINE tds == [bulk.td EXCEPT ![here] = new]
    <3>1. tds \in [1..StackTds -> TdRecord]
      BY <1>8, <2>1, <2>3
    <3>2. bulk' = [bulk EXCEPT !.td = tds, !.done = bulk.done + 1, !.order = TRUE, !.at = to]
      BY <1>1, <1>4, <1>9 DEF BulkTypes, new, to
    <3> HIDE DEF tds
    <3>3. bulk.done + 1 \in Nat
      BY <1>2
    <3> QED BY <1>1, <2>5, <3>1, <3>2, <3>3 DEF BulkTypes
  <2>7. Idles(bulk'.td[Slot(bulk.done + StackTds)])
    <3>1. Slot(bulk.done + StackTds) = here
      BY <1>2, <1>3, SlotIs
    <3>2. bulk'.td[here] = new
      BY <1>8, <2>1, <2>3
    <3> QED BY <2>3, <3>1, <3>2 DEF Idles
  <2>8. \A k \in bulk.pos..(bulk.done + StackTds) : Idles(bulk'.td[Slot(k)])
    <3>1. \A k \in bulk.pos..(bulk.done + StackTds - 1) : Idles(bulk'.td[Slot(k)])
      BY <1>8, <2>1, <2>3
    <3> QED BY <1>2, <2>7, <3>1
  <2>9. \A k \in (bulk.done + 1)..(bulk.pos - 1) :
          /\ bulk'.td[Slot(k)].active <=> ~bulk'.td[Slot(k)].error
          /\ bulk'.td[Slot(k)].packet = k + 1 /\ (bulk'.td[Slot(k)].end <=> k + 1 = bulk.n)
    <3>1. \A k \in (bulk.done + 1)..(bulk.pos - 1) :
            /\ bulk.td[Slot(k)].active <=> ~bulk.td[Slot(k)].error
            /\ bulk.td[Slot(k)].packet = k + 1 /\ (bulk.td[Slot(k)].end <=> k + 1 = bulk.n)
      BY <1>1, <1>2 DEF Window
    <3>2. \A k \in (bulk.done + 1)..(bulk.pos - 1) : bulk'.td[Slot(k)] = bulk.td[Slot(k)]
      BY <1>8, <2>1, <2>3
    <3> QED BY <3>1, <3>2
  <2>10. \A j \in 0..(bulk.drained - 1) : Idles(bulk'.td[Slot(bulk.n + j)])
    BY <1>8, <2>1, <2>3
  <2>11. Window'
    BY <1>1, <1>2, <1>3, <2>1, <2>4, <2>8, <2>9, <2>10 DEF Window
  <2> QED BY <2>1, <2>2, <2>6, <2>11 DEF BulkInv
<1>10. CASE bulk' = [bulk EXCEPT !.td[bulk.at] = [@ EXCEPT !.active = FALSE, !.error = TRUE]]
  <2> DEFINE new == [old EXCEPT !.active = FALSE, !.error = TRUE]
  <2>1. /\ bulk'.phase = "fill" /\ bulk'.n = bulk.n /\ bulk'.pos = bulk.pos
        /\ bulk'.drained = bulk.drained /\ bulk'.at = bulk.at /\ bulk'.done = bulk.done
        /\ bulk'.td = [bulk.td EXCEPT ![here] = new] /\ bulk'.order = bulk.order
    BY <1>1, <1>10 DEF BulkTypes
  <2>2. new \in TdRecord /\ ~new.active /\ new.error /\ new.packet = old.packet /\ new.end = old.end
    BY <1>2 DEF TdRecord
  <2> HIDE DEF new
  <2>3. BulkTypes'
    <3> DEFINE tds == [bulk.td EXCEPT ![here] = new]
    <3>1. tds \in [1..StackTds -> TdRecord]
      BY <1>8, <2>1, <2>2
    <3>2. bulk' = [bulk EXCEPT !.td = tds]
      BY <1>1, <1>10 DEF BulkTypes, new
    <3> HIDE DEF tds
    <3> QED BY <1>1, <3>1, <3>2 DEF BulkTypes
  <2>4. \A k \in bulk.done..(bulk.pos - 1) :
          /\ bulk'.td[Slot(k)].active <=> ~bulk'.td[Slot(k)].error
          /\ bulk'.td[Slot(k)].packet = k + 1 /\ (bulk'.td[Slot(k)].end <=> k + 1 = bulk.n)
    <3>1. /\ bulk'.td[Slot(bulk.done)].active <=> ~bulk'.td[Slot(bulk.done)].error
          /\ bulk'.td[Slot(bulk.done)].packet = bulk.done + 1
          /\ (bulk'.td[Slot(bulk.done)].end <=> bulk.done + 1 = bulk.n)
      BY <1>3, <1>4, <1>8, <2>1, <2>2
    <3>2. \A k \in (bulk.done + 1)..(bulk.pos - 1) : bulk'.td[Slot(k)] = bulk.td[Slot(k)]
      BY <1>8, <2>1, <2>2
    <3> QED BY <1>1, <1>2, <3>1, <3>2 DEF Window
  <2>5. /\ \A k \in bulk.pos..(bulk.done + StackTds - 1) : Idles(bulk'.td[Slot(k)])
        /\ \A j \in 0..(bulk.drained - 1) : Idles(bulk'.td[Slot(bulk.n + j)])
    BY <1>8, <2>1, <2>2
  <2>6. Window'
    BY <1>1, <2>1, <2>4, <2>5 DEF Window
  <2> QED BY <1>1, <2>1, <2>3, <2>6 DEF BulkInv
<1> QED BY <1>9, <1>10 DEF hw_bulk

(* Every step of the controllers keeps the transfer in order. *)
LEMMA BulkStep == ASSUME BulkInv, [PipesNext]_pipesVars PROVE BulkInv'
<1>1. bulk' = bulk \/ BulkNext
  BY DEF PipesNext, pipesVars
<1>2. CASE bulk' = bulk
  BY <1>2 DEF BulkInv, BulkTypes, Window
<1> QED BY <1>1, <1>2, SendStep, FillStep, DrainStep, EndStep, CarryStep DEF BulkNext

-----------------------------------------------------------------------------
(* A bulk transfer that is reported sent was sent whole and in order, and  *)
(* the reports of an interrupt pipe are polled one by one, however many    *)
(* descriptors there are and however the code and the controller take      *)
(* turns (uhci_send_bulk, ehci_send_bulk, uhci_, ehci_, ohci_poll_intr).   *)
THEOREM TransfersKeepOrder == PipesSpec => []TransfersInOrder
<1>1. PipesInit => RingInv /\ BulkInv
  BY RingInitInv, BulkInitInv
<1>2. RingInv /\ BulkInv /\ [PipesNext]_pipesVars => (RingInv /\ BulkInv)'
  BY RingStep, BulkStep
<1>3. RingInv /\ BulkInv => TransfersInOrder
  BY DEF RingInv, BulkInv, TransfersInOrder
<1> QED BY <1>1, <1>2, <1>3, PTL DEF PipesSpec

-----------------------------------------------------------------------------
(* Powers of two, as the numbers of the subsets of a set.                  *)
LEMMA Doubled ==
  ASSUME NEW n \in Nat
  PROVE  2 ^ n \in Nat /\ 2 ^ n >= 1 /\ 2 ^ (n + 1) = 2 * 2 ^ n
<1> DEFINE S == 1..n
           A == SUBSET S
           With == {T \cup {n + 1} : T \in A}
           f == [T \in A |-> T \cup {n + 1}]
<1>1. IsFiniteSet(S) /\ Cardinality(S) = n
  BY FS_Interval
<1>2. IsFiniteSet(A) /\ Cardinality(A) = 2 ^ n
  BY <1>1, FS_SUBSET
<1>3. f \in Bijection(A, With)
  <2>1. \A T \in A : n + 1 \notin T
    OBVIOUS
  <2>2. \A T, U \in A : T \cup {n + 1} = U \cup {n + 1} => T = U
    BY <2>1
  <2>3. \A T, U \in A : f[T] = f[U] => T = U
    BY <2>2
  <2>4. f \in [A -> With] /\ \A W \in With : \E T \in A : f[T] = W
    OBVIOUS
  <2> HIDE DEF f, A, With
  <2> QED BY <2>3, <2>4 DEF Bijection, Injection, Surjection, IsInjective
<1>4. IsFiniteSet(With) /\ Cardinality(With) = 2 ^ n
  <2> HIDE DEF f, A, With
  <2> QED BY <1>2, <1>3, FS_Bijection DEF ExistsBijection
<1>5. SUBSET (1..(n + 1)) = A \cup With
  <2>1. ASSUME NEW T \in SUBSET (1..(n + 1)) PROVE T \in A \cup With
    <3>1. CASE n + 1 \in T
      <4>1. T \ {n + 1} \in A /\ T = (T \ {n + 1}) \cup {n + 1}
        BY <3>1
      <4> QED BY <4>1
    <3>2. CASE n + 1 \notin T
      BY <3>2
    <3> QED BY <3>1, <3>2
  <2>2. ASSUME NEW T \in A PROVE T \in SUBSET (1..(n + 1)) /\ T \cup {n + 1} \in SUBSET (1..(n + 1))
    OBVIOUS
  <2>3. SUBSET (1..(n + 1)) \subseteq A \cup With
    <3> HIDE DEF A, With
    <3> QED BY <2>1
  <2>4. A \cup With \subseteq SUBSET (1..(n + 1))
    <3>1. ASSUME NEW W \in With PROVE W \in SUBSET (1..(n + 1))
      <4>1. PICK T \in A : W = T \cup {n + 1}
        OBVIOUS
      <4> QED BY <2>2, <4>1
    <3>2. \A T \in A : T \in SUBSET (1..(n + 1))
      BY <2>2
    <3> HIDE DEF A, With
    <3> QED BY <3>1, <3>2
  <2> HIDE DEF A, With
  <2> QED BY <2>3, <2>4, Zenon
<1>6. A \cap With = {}
  <2>1. \A T \in A : n + 1 \notin T
    OBVIOUS
  <2> QED BY <2>1
<1>7. Cardinality(A \cup With) = 2 ^ n + 2 ^ n
  <2>1. Cardinality(A) \in Nat /\ Cardinality({}) = 0
    BY <1>2, FS_CardinalityType, FS_EmptySet
  <2> HIDE DEF A, With
  <2>2. Cardinality(A \cup With) = Cardinality(A) + Cardinality(With) - Cardinality(A \cap With)
    BY <1>2, <1>4, FS_Union
  <2> QED BY <1>2, <1>4, <1>6, <2>1, <2>2
<1>8. 2 ^ n \in Nat
  BY <1>2, FS_CardinalityType
<1>9. 2 ^ (n + 1) = 2 * 2 ^ n
  <2>1. IsFiniteSet(1..(n + 1)) /\ Cardinality(1..(n + 1)) = n + 1
    BY FS_Interval
  <2>2. Cardinality(SUBSET (1..(n + 1))) = 2 ^ (n + 1)
    BY <2>1, FS_SUBSET
  <2> HIDE DEF A, With, f
  <2>3. Cardinality(A \cup With) = 2 ^ (n + 1)
    BY <1>5, <2>2, Zenon
  <2>4. 2 ^ (n + 1) = 2 ^ n + 2 ^ n
    BY <1>7, <2>3, Zenon
  <2> QED BY <1>8, <2>4
<1>10. 2 ^ n # 0
  <2>1. {} \in A
    OBVIOUS
  <2> HIDE DEF A
  <2> QED BY <1>2, <2>1, FS_EmptySet
<1> QED BY <1>8, <1>9, <1>10

(* A larger power is a multiple of a smaller one. *)
LEMMA Multiple ==
  ASSUME NEW m \in Nat, NEW n \in Nat, m <= n
  PROVE  \E q \in Nat : 2 ^ n = q * 2 ^ m /\ q >= 1
<1> DEFINE Bad == {k \in Nat : ~ \E q \in Nat : 2 ^ (m + k) = q * 2 ^ m /\ q >= 1}
<1>1. ASSUME Bad # {} PROVE FALSE
  <2>1. PICK k \in Bad : \A l \in Bad : k <= l
    <3>1. Bad \in SUBSET Nat
      OBVIOUS
    <3> HIDE DEF Bad
    <3> QED BY <1>1, <3>1, LeastNatural
  <2>2. k # 0
    <3>1. 2 ^ (m + 0) = 1 * 2 ^ m
      BY Doubled
    <3> QED BY <3>1
  <2>3. k - 1 \in Nat /\ k - 1 \notin Bad
    BY <2>1, <2>2
  <2>4. PICK q \in Nat : 2 ^ (m + (k - 1)) = q * 2 ^ m /\ q >= 1
    BY <2>3
  <2>5. 2 ^ (m + k) = 2 * 2 ^ (m + (k - 1))
    <3>1. m + (k - 1) \in Nat /\ (m + (k - 1)) + 1 = m + k
      BY <2>3
    <3> QED BY <3>1, Doubled
  <2>6. 2 ^ m \in Nat
    BY Doubled
  <2>7. 2 * q \in Nat /\ 2 * q >= 1 /\ 2 * (q * 2 ^ m) = (2 * q) * 2 ^ m
    BY <2>4, <2>6
  <2>8. 2 ^ (m + k) = (2 * q) * 2 ^ m
    BY <2>4, <2>5, <2>7
  <2> QED BY <2>1, <2>7, <2>8
<1>2. n - m \in Nat /\ m + (n - m) = n
  OBVIOUS
<1>3. n - m \notin Bad
  BY <1>1
<1> QED BY <1>2, <1>3

-----------------------------------------------------------------------------
(* Frames of a period.                                                     *)

(* Every 2 ^ e frames: those the frame list is changed at. *)
LEMMA Period ==
  ASSUME NEW e \in Nat \ {0}
  PROVE  /\ StartPos(e) \in Nat \ {0} /\ 2 ^ e = 2 * StartPos(e)
         /\ \A k \in Nat : (k >= StartPos(e) /\ (k - StartPos(e)) % (2 ^ e) = 0) <=> k % (2 ^ e) = StartPos(e)
<1>1. PICK s, m : s = StartPos(e) /\ m = 2 ^ e
  OBVIOUS
<1>2. s \in Nat \ {0} /\ m = 2 * s
  <2>1. e - 1 \in Nat /\ (e - 1) + 1 = e
    OBVIOUS
  <2>2. 2 ^ (e - 1) \in Nat /\ 2 ^ (e - 1) >= 1 /\ 2 ^ ((e - 1) + 1) = 2 * 2 ^ (e - 1)
    BY <2>1, Doubled
  <2>3. 2 ^ e = 2 * 2 ^ (e - 1)
    BY <2>1, <2>2
  <2> QED BY <1>1, <2>2, <2>3 DEF StartPos
<1>3. ASSUME NEW k \in Nat PROVE (k >= s /\ (k - s) % m = 0) <=> k % m = s
  <2>1. m \in Nat \ {0} /\ s \in 0..(m - 1)
    BY <1>2
  <2>2. ASSUME k >= s, (k - s) % m = 0 PROVE k % m = s
    <3>1. PICK q \in Int : k - s = q * m + 0
      <4>1. k - s \in Nat
        BY <1>2, <2>2
      <4> QED BY <2>1, <2>2, <4>1, Rounds
    <3>2. k = q * m + s
      BY <1>2, <3>1
    <3> QED BY <2>1, <3>2, RoundOff
  <2>3. ASSUME k % m = s PROVE k >= s /\ (k - s) % m = 0
    <3>1. PICK q \in Int : q = k \div m /\ k = q * m + s
      BY <2>1, <2>3, Rounds
    <3>2. q >= 0
      BY <1>2, <3>1
    <3>3. q * m \in Nat /\ k - s = q * m + 0
      BY <1>2, <3>1, <3>2
    <3>4. (q * m + 0) % m = 0
      <4>1. 0 \in 0..(m - 1)
        BY <2>1
      <4> QED BY <2>1, <4>1, RoundOff
    <3> QED BY <1>2, <3>3, <3>4
  <2> QED BY <2>2, <2>3
<1> QED BY <1>1, <1>2, <1>3

(* The frames of a period are no frames of a longer one. *)
LEMMA PeriodsApart ==
  ASSUME NEW d \in Nat \ {0}, NEW e \in Nat \ {0}, d < e, NEW k \in Nat,
         k % (2 ^ e) = StartPos(e)
  PROVE  k % (2 ^ d) # StartPos(d)
<1>1. PICK s, m, r, n : s = StartPos(e) /\ m = 2 ^ e /\ r = StartPos(d) /\ n = 2 ^ d
  OBVIOUS
<1>2. s \in Nat \ {0} /\ m = 2 * s /\ r \in Nat \ {0} /\ n = 2 * r
  BY <1>1, Period
<1>3. PICK p \in Nat : s = p * n
  <2>1. e - 1 \in Nat /\ d <= e - 1
    OBVIOUS
  <2>2. \E p \in Nat : 2 ^ (e - 1) = p * 2 ^ d /\ p >= 1
    BY <2>1, Multiple
  <2> QED BY <1>1, <2>2 DEF StartPos
<1>4. PICK q \in Int : k = q * m + s
  <2>1. k % m = s /\ m \in Nat \ {0}
    BY <1>1, <1>2
  <2> QED BY <2>1, Rounds
<1>5. k = (2 * q + 1) * s
  BY <1>2, <1>4
<1>6. PICK w \in Int : w = (2 * q + 1) * p /\ k = w * n + 0
  <2>1. n \in Int /\ p \in Int /\ 2 * q + 1 \in Int /\ (2 * q + 1) * p \in Int
    BY <1>2
  <2>2. (2 * q + 1) * (p * n) = ((2 * q + 1) * p) * n
    BY <2>1
  <2> QED BY <1>3, <1>5, <2>1, <2>2
<1>7. k % n = 0
  <2>1. n \in Nat \ {0} /\ 0 \in 0..(n - 1)
    BY <1>2
  <2> QED BY <1>6, <2>1, RoundOff
<1> QED BY <1>1, <1>2, <1>7

(* There is a frame.                                                       *)
LEMMA Frames == FrameCount \in Nat \ {0}
BY Doubled DEF FrameCount

(* The first frame of a period is in the frame list.  *)
LEMMA FirstFrame ==
  ASSUME NEW e \in 1..MaxExp
  PROVE  StartPos(e) \in 1..(FrameCount - 1) /\ StartPos(e) % (2 ^ e) = StartPos(e)
<1>1. PICK s, m : s = StartPos(e) /\ m = 2 ^ e
  OBVIOUS
<1>2. s \in Nat \ {0} /\ m = 2 * s
  BY <1>1, Period
<1>3. PICK q \in Nat : FrameCount = q * m /\ q >= 1
  <2>1. e \in Nat /\ MaxExp \in Nat /\ e <= MaxExp
    OBVIOUS
  <2>2. \E q \in Nat : 2 ^ MaxExp = q * 2 ^ e /\ q >= 1
    BY <2>1, Multiple
  <2> QED BY <1>1, <2>2 DEF FrameCount
<1>4. q * m >= m
  BY <1>2, <1>3
<1>5. s < FrameCount /\ s >= 1 /\ FrameCount \in Nat
  BY <1>2, <1>3, <1>4, Frames
<1>6. (0 * m + s) % m = s
  BY <1>2, RoundOff
<1> QED BY <1>1, <1>2, <1>5, <1>6

-----------------------------------------------------------------------------
(* Ways through the links.                                                 *)

(* A way s from h on, without a node twice, that ends or comes back to h.  *)
Chain(nx, h, s, e) ==
  /\ s \in Seq(Node) /\ s # <<>> /\ s[1] = h
  /\ \A i, j \in 1..Len(s) : s[i] = s[j] => i = j
  /\ \A i \in 1..(Len(s) - 1) : nx[s[i]] = s[i + 1]
  /\ nx[s[Len(s)]] = e /\ e \in {"end", h}

(* There are finitely many queue heads, and the end is none.               *)
LEMMA Nodes == IsFiniteSet(Node) /\ "end" \notin Node /\ Qh \subseteq Node
<1>1. IsFiniteSet({"intr", "term", "async", "control"})
  <2>1. IsFiniteSet({}) /\ IsFiniteSet({} \cup {"intr"})
    BY FS_EmptySet, FS_AddElement
  <2>2. IsFiniteSet(({} \cup {"intr"}) \cup {"term"})
    BY <2>1, FS_AddElement
  <2>3. IsFiniteSet((({} \cup {"intr"}) \cup {"term"}) \cup {"async"})
    BY <2>2, FS_AddElement
  <2>4. IsFiniteSet(((({} \cup {"intr"}) \cup {"term"}) \cup {"async"}) \cup {"control"})
    BY <2>3, FS_AddElement
  <2>5. ((({} \cup {"intr"}) \cup {"term"}) \cup {"async"}) \cup {"control"} = {"intr", "term", "async", "control"}
    OBVIOUS
  <2> QED BY <2>4, <2>5
<1>2. IsFiniteSet(Node)
  BY <1>1, PipesNodes, FS_Union DEF PipesNodes, Node
<1> QED BY <1>2, PipesNodes DEF PipesNodes, Node

(* Path with the links as a parameter. *)
PathOf(nx, n) ==
  LET f[k \in 0..Cardinality(Node)] ==
        IF k = 0 THEN <<n>>
        ELSE LET p == f[k - 1]
                 m == nx[p[Len(p)]]
             IN  IF m = "end" \/ \E i \in 1..Len(p) : p[i] = m THEN p ELSE Append(p, m)
  IN  f[Cardinality(Node)]

(* The way through the links there are, and through the next ones.         *)
LEMMA PathNow == \A n : Path(n) = PathOf(next, n) /\ Path(n)' = PathOf(next', n)
BY DEF Path, PathOf

(* A chain is no longer than there are nodes. *)
LEMMA ChainFits ==
  ASSUME NEW nx, NEW h, NEW s, NEW e, Chain(nx, h, s, e)
  PROVE  Len(s) \in 1..Cardinality(Node) /\ Cardinality(Node) \in Nat /\ s \in [1..Len(s) -> Node]
<1>1. s \in [1..Len(s) -> Node] /\ Len(s) \in Nat \ {0}
  BY DEF Chain
<1>2. \A i, j \in 1..Len(s) : s[i] = s[j] => i = j
  BY DEF Chain
<1>3. s \in Injection(1..Len(s), Node)
  BY <1>1, <1>2 DEF Injection, IsInjective
<1>4. Cardinality(1..Len(s)) <= Cardinality(Node)
  BY <1>3, Nodes, FS_Injection
<1>5. Cardinality(1..Len(s)) = Len(s) /\ Cardinality(Node) \in Nat
  BY <1>1, Nodes, FS_Interval, FS_CardinalityType
<1> QED BY <1>1, <1>4, <1>5

(* A chain is the path from its head, which is computed link by link. *)
LEMMA PathIs ==
  ASSUME NEW nx, NEW h, NEW s, NEW e, Chain(nx, h, s, e)
  PROVE  PathOf(nx, h) = s
<1> DEFINE N == Cardinality(Node)
           L == Len(s)
           Upto(k) == IF k < L THEN k + 1 ELSE L
           Pre(k) == [i \in 1..Upto(k) |-> s[i]]
           Ext(p) == LET m == nx[p[Len(p)]]
                     IN  IF m = "end" \/ \E i \in 1..Len(p) : p[i] = m THEN p ELSE Append(p, m)
           Body(f) == [k \in 0..N |-> IF k = 0 THEN <<h>> ELSE Ext(f[k - 1])]
<1>1. N \in Nat /\ L \in 1..N /\ s \in [1..L -> Node]
  BY ChainFits
<1> HIDE DEF N, L
<1>2. \A k \in Nat : Pre(k) \in Seq(Node) /\ Len(Pre(k)) = Upto(k) /\ Upto(k) \in 1..L
  BY <1>1
<1>3. Pre(0) = <<h>>
  <2>1. Upto(0) = 1 /\ s[1] = h
    BY <1>1 DEF Chain, L
  <2>2. Len(Pre(0)) = 1 /\ Pre(0)[1] = h /\ Pre(0) \in Seq(Node)
    BY <1>2, <2>1
  <2> HIDE DEF Pre
  <2> QED BY <2>2
<1>4. \A k \in 1..N : Ext(Pre(k - 1)) = Pre(k)
  <2>1. SUFFICES ASSUME NEW k \in 1..N PROVE Ext(Pre(k - 1)) = Pre(k)
    OBVIOUS
  <2> DEFINE p == Pre(k - 1)
             u == Upto(k - 1)
             m == nx[p[Len(p)]]
  <2>2. /\ k - 1 \in Nat /\ p \in Seq(Node) /\ Len(p) = u /\ u \in 1..L
        /\ \A i \in 1..u : p[i] = s[i]
    BY <1>2
  <2>3. m = nx[s[u]]
    BY <2>2
  <2>4. CASE u = L
    <3>1. m = e /\ e \in {"end", h}
      BY <2>3, <2>4 DEF Chain, L
    <3>2. p[1] = h /\ 1 \in 1..Len(p)
      <4>1. s[1] = h /\ 1 \in 1..u
        BY <2>2 DEF Chain
      <4> QED BY <2>2, <4>1
    <3>3. Ext(p) = p
      <4> HIDE DEF p
      <4> QED BY <3>1, <3>2
    <3>4. Upto(k) = Upto(k - 1)
      BY <1>1, <2>4
    <3> QED BY <3>3, <3>4
  <2>5. CASE u # L
    <3>1. u = k /\ u \in 1..(L - 1) /\ Upto(k) = k + 1
      BY <1>1, <2>5
    <3>2. m = s[u + 1]
      <4>1. \A i \in 1..(L - 1) : nx[s[i]] = s[i + 1]
        BY DEF Chain, L
      <4> HIDE DEF u, m
      <4> QED BY <2>3, <3>1, <4>1
    <3>3. m \in Node /\ m # "end"
      <4>1. u + 1 \in 1..L
        BY <1>1, <3>1
      <4> HIDE DEF u, m
      <4> QED BY <1>1, <3>2, <4>1, Nodes
    <3>4. \A i \in 1..Len(p) : p[i] # m
      <4>1. \A i, j \in 1..L : s[i] = s[j] => i = j
        BY DEF Chain, L
      <4> HIDE DEF p, u, m
      <4> QED BY <1>1, <2>2, <3>1, <3>2, <4>1
    <3>5. Ext(p) = Append(p, m)
      BY <3>3, <3>4
    <3>6. Append(p, m) = Pre(k)
      <4>1. /\ Append(p, m) \in Seq(Node) /\ Len(Append(p, m)) = k + 1
            /\ \A i \in 1..(k + 1) : Append(p, m)[i] = s[i]
        <5> HIDE DEF p, m, u
        <5> QED BY <2>2, <3>1, <3>2, <3>3
      <4>2. Pre(k) \in Seq(Node) /\ Len(Pre(k)) = k + 1 /\ \A i \in 1..(k + 1) : Pre(k)[i] = s[i]
        BY <1>2, <3>1
      <4> HIDE DEF p, m, Pre
      <4> QED BY <4>1, <4>2
    <3> QED BY <3>5, <3>6
  <2> QED BY <2>4, <2>5
<1> HIDE DEF Pre, Ext
<1>5. Body([k \in 0..N |-> Pre(k)]) = [k \in 0..N |-> Pre(k)]
  <2>1. \A k \in 0..N : k # 0 => k \in 1..N /\ k - 1 \in 0..N
    BY <1>1
  <2> QED BY <1>3, <1>4, <2>1
<1>6. ASSUME NEW f, f = Body(f) PROVE f = [k \in 0..N |-> Pre(k)]
  <2> DEFINE Bad == {k \in 0..N : f[k] # Pre(k)}
  <2>1. ASSUME Bad # {} PROVE FALSE
    <3>1. PICK m \in Bad : \A k \in Bad : m <= k
      <4>1. Bad \in SUBSET Nat
        BY <1>1
      <4> HIDE DEF Bad
      <4> QED BY <2>1, <4>1, LeastNatural
    <3>2. f[m] = IF m = 0 THEN <<h>> ELSE Ext(f[m - 1])
      BY <1>6
    <3>3. m # 0
      BY <1>3, <3>1, <3>2
    <3>4. m - 1 \in 0..N /\ m - 1 \notin Bad /\ m \in 1..N
      BY <1>1, <3>1, <3>3
    <3> QED BY <1>4, <3>1, <3>2, <3>3, <3>4
  <2>2. \A k \in 0..N : f[k] = Pre(k)
    BY <2>1
  <2>3. f = [k \in 0..N |-> f[k]]
    BY <1>6
  <2> QED BY <2>2, <2>3
<1>7. PathOf(nx, h) = (CHOOSE f : f = Body(f))[N]
  BY DEF PathOf, Ext, N
<1> HIDE DEF Body
<1>8. (CHOOSE f : f = Body(f)) = [k \in 0..N |-> Pre(k)]
  BY <1>5, <1>6
<1>9. PathOf(nx, h) = Pre(N)
  <2>1. N \in 0..N
    BY <1>1
  <2>2. [k \in 0..N |-> Pre(k)][N] = Pre(N)
    BY <2>1, Zenon
  <2> QED BY <1>7, <1>8, <2>2, Zenon
<1>10. Pre(N) = s
  <2>1. Upto(N) = L
    BY <1>1
  <2> QED BY <1>1, <2>1 DEF Pre
<1> QED BY <1>9, <1>10

(* What is come by on a way.                                               *)
Members(s) == {s[i] : i \in 1..Len(s)}

(* A chain of n nodes, without Seq. *)
Linkage(nx, h, s, e, n) ==
  /\ n \in Nat \ {0} /\ s \in [1..n -> Node] /\ s[1] = h
  /\ \A i, j \in 1..n : s[i] = s[j] => i = j
  /\ \A i \in 1..(n - 1) : nx[s[i]] = s[i + 1]
  /\ nx[s[n]] = e /\ e \in {"end", h}

(* A way is a chain, and a chain a way.                                    *)
LEMMA ChainIs ==
  ASSUME NEW nx, NEW h, NEW s, NEW e, Chain(nx, h, s, e)
  PROVE  Linkage(nx, h, s, e, Len(s)) /\ Members(s) = {s[i] : i \in 1..Len(s)}
BY DEF Chain, Members, Linkage

(* ... given by its length.                                                *)
LEMMA IsChain ==
  ASSUME NEW nx, NEW h, NEW s, NEW e, NEW n, Linkage(nx, h, s, e, n)
  PROVE  Chain(nx, h, s, e) /\ Members(s) = {s[i] : i \in 1..n}
<1>1. s \in Seq(Node) /\ Len(s) = n /\ s # <<>>
  BY DEF Linkage
<1> QED BY <1>1 DEF Chain, Members, Linkage

(* The positions of a chain. *)
LEMMA ChainPositions ==
  ASSUME NEW nx, NEW h, NEW s, NEW e, Chain(nx, h, s, e)
  PROVE  \E n \in Nat \ {0} :
           /\ s \in [1..n -> Node] /\ s[1] = h /\ Members(s) = {s[i] : i \in 1..n}
           /\ \A i, j \in 1..n : s[i] = s[j] => i = j
           /\ \A i \in 1..(n - 1) : nx[s[i]] = s[i + 1]
           /\ nx[s[n]] = e /\ e \in {"end", h}
<1>1. Linkage(nx, h, s, e, Len(s)) /\ Members(s) = {s[i] : i \in 1..Len(s)}
  BY ChainIs
<1> QED BY <1>1 DEF Linkage

(* Links that are not on the way may change.                               *)
LEMMA ChainSame ==
  ASSUME NEW nx, NEW new, NEW h, NEW s, NEW e, Chain(nx, h, s, e), \A n \in Members(s) : new[n] = nx[n]
  PROVE  Chain(new, h, s, e)
<1>1. PICK n \in Nat \ {0} :
        /\ s \in [1..n -> Node] /\ s[1] = h /\ Members(s) = {s[i] : i \in 1..n}
        /\ \A i, j \in 1..n : s[i] = s[j] => i = j
        /\ \A i \in 1..(n - 1) : nx[s[i]] = s[i + 1]
        /\ nx[s[n]] = e /\ e \in {"end", h}
  BY ChainPositions
<1>2. \A i \in 1..n : new[s[i]] = nx[s[i]]
  BY <1>1
<1>3. (\A i \in 1..(n - 1) : new[s[i]] = s[i + 1]) /\ new[s[n]] = e
  BY <1>1, <1>2
<1>4. Linkage(new, h, s, e, n)
  BY <1>1, <1>3 DEF Linkage
<1> QED BY <1>4, IsChain

(* A node that is linked in behind another is on the way, once.            *)
LEMMA ChainInsert ==
  ASSUME NEW nx, NEW new, NEW h, NEW s, NEW e, Chain(nx, h, s, e),
         NEW a \in Members(s), NEW q \in Node \ Members(s),
         new[q] = nx[a], new[a] = q, \A n \in Members(s) \ {a} : new[n] = nx[n]
  PROVE  \E t : Chain(new, h, t, e) /\ Members(t) = Members(s) \cup {q}
<1>1. PICK n \in Nat \ {0} :
        /\ s \in [1..n -> Node] /\ s[1] = h /\ Members(s) = {s[i] : i \in 1..n}
        /\ \A i, j \in 1..n : s[i] = s[j] => i = j
        /\ \A i \in 1..(n - 1) : nx[s[i]] = s[i + 1]
        /\ nx[s[n]] = e /\ e \in {"end", h}
  BY ChainPositions
<1>2. PICK k \in 1..n : s[k] = a
  BY <1>1
<1>3. \A i \in 1..n : s[i] # q
  BY <1>1
<1>4. PICK t : t = [i \in 1..(n + 1) |-> IF i <= k THEN s[i] ELSE IF i = k + 1 THEN q ELSE s[i - 1]]
  OBVIOUS
<1>5. /\ t \in [1..(n + 1) -> Node]
      /\ \A i \in 1..k : t[i] = s[i]
      /\ t[k + 1] = q
      /\ \A i \in (k + 1)..n : t[i + 1] = s[i]
  <2>1. ASSUME NEW i \in 1..(n + 1)
        PROVE  (IF i <= k THEN s[i] ELSE IF i = k + 1 THEN q ELSE s[i - 1]) \in Node
    <3>1. i > k /\ i # k + 1 => i - 1 \in 1..n
      BY <1>2
    <3> QED BY <1>1, <3>1
  <2>2. \A i \in (k + 1)..n : i + 1 \in 1..(n + 1) /\ ~(i + 1 <= k) /\ i + 1 # k + 1 /\ (i + 1) - 1 = i
    BY <1>2
  <2>3. k + 1 \in 1..(n + 1) /\ ~(k + 1 <= k) /\ \A i \in 1..k : i \in 1..(n + 1) /\ i <= k
    BY <1>2
  <2> QED BY <1>4, <2>1, <2>2, <2>3
<1>6. \A j \in 1..(n + 1) : j \in 1..k \/ j = k + 1 \/ (j - 1 \in (k + 1)..n /\ (j - 1) + 1 = j)
  BY <1>2
<1>7. ASSUME NEW i \in 1..(n + 1), NEW j \in 1..(n + 1), t[i] = t[j] PROVE i = j
  <2> DEFINE Where(x) == IF x <= k THEN x ELSE x - 1
  <2>1. \A x \in 1..(n + 1) : x # k + 1 => Where(x) \in 1..n /\ t[x] = s[Where(x)] /\ t[x] # q
    <3>1. ASSUME NEW x \in 1..(n + 1), x # k + 1 PROVE Where(x) \in 1..n /\ t[x] = s[Where(x)]
      <4>1. CASE x \in 1..k
        BY <1>2, <1>5, <4>1
      <4>2. CASE x - 1 \in (k + 1)..n /\ (x - 1) + 1 = x
        BY <1>2, <1>5, <4>2
      <4> QED BY <1>6, <3>1, <4>1, <4>2
    <3> HIDE DEF Where
    <3> QED BY <1>3, <3>1
  <2>2. \A x, y \in 1..(n + 1) : x # k + 1 /\ y # k + 1 /\ Where(x) = Where(y) => x = y
    BY <1>2
  <2> HIDE DEF Where
  <2>3. CASE i = k + 1 \/ j = k + 1
    BY <1>5, <1>7, <2>1, <2>3
  <2>4. CASE i # k + 1 /\ j # k + 1
    <3>1. s[Where(i)] = s[Where(j)] /\ Where(i) \in 1..n /\ Where(j) \in 1..n
      BY <1>7, <2>1, <2>4
    <3> QED BY <1>1, <2>2, <2>4, <3>1
  <2> QED BY <2>3, <2>4
<1>8. ASSUME NEW i \in 1..n PROVE new[t[i]] = t[i + 1]
  <2>1. CASE i < k
    <3>1. i \in 1..k /\ i + 1 \in 1..k /\ i \in 1..(n - 1) /\ i \in 1..n /\ i # k
      BY <1>2, <2>1
    <3>2. s[i] # a /\ s[i] \in Members(s)
      BY <1>1, <1>2, <3>1
    <3>3. t[i] = s[i] /\ t[i + 1] = s[i + 1] /\ nx[s[i]] = s[i + 1]
      BY <1>1, <1>5, <3>1
    <3> QED BY <3>2, <3>3
  <2>2. CASE i = k
    BY <1>2, <1>5, <2>2
  <2>3. CASE i = k + 1
    <3>1. nx[a] = s[k + 1] /\ k + 1 \in (k + 1)..n
      BY <1>1, <1>2, <2>3
    <3> QED BY <1>5, <2>3, <3>1
  <2>4. CASE i > k + 1
    <3>1. i - 1 \in (k + 1)..n /\ (i - 1) + 1 = i /\ i \in (k + 1)..n /\ i - 1 \in 1..(n - 1) /\ i - 1 # k /\ i - 1 \in 1..n
      BY <1>2, <2>4
    <3>2. s[i - 1] # a /\ s[i - 1] \in Members(s) /\ nx[s[i - 1]] = s[i]
      BY <1>1, <1>2, <3>1
    <3>3. t[i] = s[i - 1] /\ t[i + 1] = s[i]
      BY <1>5, <3>1
    <3> QED BY <3>2, <3>3
  <2> QED BY <1>2, <2>1, <2>2, <2>3, <2>4
<1>9. new[t[n + 1]] = e
  <2>1. CASE k = n
    <3>1. t[n + 1] = q /\ nx[a] = e
      BY <1>1, <1>2, <1>5, <2>1
    <3> QED BY <3>1
  <2>2. CASE k # n
    <3>1. n \in (k + 1)..n /\ n \in 1..n
      BY <1>2, <2>2
    <3>2. t[n + 1] = s[n] /\ s[n] # a /\ s[n] \in Members(s)
      BY <1>1, <1>2, <1>5, <2>2, <3>1
    <3> QED BY <1>1, <3>2
  <2> QED BY <2>1, <2>2
<1>10. t[1] = h
  BY <1>1, <1>2, <1>5
<1>11. Linkage(new, h, t, e, n + 1)
  <2>1. (n + 1) - 1 = n /\ n + 1 \in Nat \ {0}
    OBVIOUS
  <2> QED BY <1>1, <1>5, <1>7, <1>8, <1>9, <1>10, <2>1 DEF Linkage
<1>12. {t[i] : i \in 1..(n + 1)} = Members(s) \cup {q}
  <2>1. ASSUME NEW i \in 1..(n + 1) PROVE t[i] \in Members(s) \cup {q}
    <3>1. CASE i \in 1..k
      BY <1>1, <1>2, <1>5, <3>1
    <3>2. CASE i = k + 1
      BY <1>5, <3>2
    <3>3. CASE i - 1 \in (k + 1)..n /\ (i - 1) + 1 = i
      BY <1>1, <1>2, <1>5, <3>3
    <3> QED BY <1>6, <3>1, <3>2, <3>3
  <2>2. ASSUME NEW i \in 1..n PROVE \E j \in 1..(n + 1) : t[j] = s[i]
    <3>1. CASE i \in 1..k
      BY <1>2, <1>5, <3>1
    <3>2. CASE i \in (k + 1)..n
      <4>1. i + 1 \in 1..(n + 1)
        BY <1>2
      <4> QED BY <1>5, <3>2, <4>1
    <3> QED BY <1>2, <3>1, <3>2
  <2>3. q \in {t[i] : i \in 1..(n + 1)}
    <3>1. k + 1 \in 1..(n + 1)
      BY <1>2
    <3> QED BY <1>5, <3>1
  <2> QED BY <1>1, <2>1, <2>2, <2>3
<1> QED BY <1>11, <1>12, IsChain

(* A node that is linked out is not, and the others are.                   *)
LEMMA ChainRemove ==
  ASSUME NEW nx, NEW new, NEW h, NEW s, NEW e, Chain(nx, h, s, e),
         NEW a \in Members(s), NEW q \in Members(s), q # h, q # "end", nx[a] = q,
         new[a] = nx[q], \A n \in Members(s) \ {a, q} : new[n] = nx[n]
  PROVE  \E t : Chain(new, h, t, e) /\ Members(t) = Members(s) \ {q}
<1>1. PICK n \in Nat \ {0} :
        /\ s \in [1..n -> Node] /\ s[1] = h /\ Members(s) = {s[i] : i \in 1..n}
        /\ \A i, j \in 1..n : s[i] = s[j] => i = j
        /\ \A i \in 1..(n - 1) : nx[s[i]] = s[i + 1]
        /\ nx[s[n]] = e /\ e \in {"end", h}
  BY ChainPositions
<1>2. PICK k \in 1..(n - 1) : s[k] = a /\ s[k + 1] = q
  <2>1. PICK k \in 1..n : s[k] = a
    BY <1>1
  <2>2. k # n
    BY <1>1, <2>1
  <2>3. k \in 1..(n - 1)
    BY <2>2
  <2>4. s[k + 1] = q
    BY <1>1, <2>1, <2>3
  <2> QED BY <2>1, <2>3, <2>4
<1>3. k + 1 \in 2..n /\ n - 1 \in Nat \ {0}
  BY <1>2
<1>4. PICK t : t = [i \in 1..(n - 1) |-> IF i <= k THEN s[i] ELSE s[i + 1]]
  OBVIOUS
<1> DEFINE Where(i) == IF i <= k THEN i ELSE i + 1
<1>5. \A i \in 1..(n - 1) : Where(i) \in 1..n /\ Where(i) # k + 1 /\ t[i] = s[Where(i)]
  BY <1>2, <1>4
<1>6. t \in [1..(n - 1) -> Node]
  <2>1. \A i \in 1..(n - 1) : (IF i <= k THEN s[i] ELSE s[i + 1]) \in Node
    BY <1>1
  <2> QED BY <1>4, <2>1
<1>7. ASSUME NEW i \in 1..(n - 1), NEW j \in 1..(n - 1), t[i] = t[j] PROVE i = j
  <2>1. Where(i) = Where(j)
    BY <1>1, <1>5, <1>7
  <2> QED BY <1>2, <2>1
<1>8. ASSUME NEW i \in 1..((n - 1) - 1) PROVE new[t[i]] = t[i + 1]
  <2>1. i \in 1..(n - 1) /\ i + 1 \in 1..(n - 1)
    OBVIOUS
  <2>2. CASE i = k
    <3>1. t[i] = a /\ t[i + 1] = s[k + 2]
      <4>1. Where(i) = k /\ Where(i + 1) = k + 2
        BY <1>2, <2>1, <2>2
      <4> QED BY <1>2, <1>5, <2>1, <4>1
    <3>2. k + 1 \in 1..(n - 1) /\ (k + 1) + 1 = k + 2
      BY <1>2, <2>2
    <3>3. nx[q] = s[k + 2]
      BY <1>1, <1>2, <3>2
    <3> QED BY <3>1, <3>3
  <2>3. CASE i # k
    <3>1. Where(i) # k /\ Where(i + 1) = Where(i) + 1 /\ Where(i) \in 1..(n - 1)
      BY <1>2, <2>1, <2>3
    <3>2. t[i] = s[Where(i)] /\ t[i + 1] = s[Where(i) + 1] /\ Where(i) \in 1..n /\ Where(i) # k + 1
      BY <1>5, <2>1, <3>1
    <3> HIDE DEF Where
    <3>3. t[i] # a /\ t[i] # q /\ t[i] \in Members(s)
      BY <1>1, <1>2, <1>3, <3>1, <3>2
    <3>4. nx[t[i]] = t[i + 1]
      BY <1>1, <3>1, <3>2
    <3> QED BY <3>3, <3>4
  <2> QED BY <2>2, <2>3
<1>9. new[t[n - 1]] = e
  <2>1. n - 1 \in 1..(n - 1)
    BY <1>3
  <2>2. CASE k = n - 1
    <3>1. t[n - 1] = a /\ nx[q] = e
      <4>1. Where(n - 1) = k /\ k + 1 = n
        BY <1>3, <2>2
      <4> QED BY <1>1, <1>2, <1>5, <2>1, <4>1
    <3> QED BY <3>1
  <2>3. CASE k # n - 1
    <3>1. Where(n - 1) = n /\ n # k /\ n # k + 1
      BY <1>2, <1>3, <2>3
    <3>2. t[n - 1] = s[n]
      BY <1>5, <2>1, <3>1
    <3> HIDE DEF Where
    <3>3. s[n] # a /\ s[n] # q /\ s[n] \in Members(s)
      <4>1. n \in 1..n /\ k \in 1..n /\ k + 1 \in 1..n
        BY <1>2, <1>3
      <4> QED BY <1>1, <1>2, <3>1, <4>1
    <3> QED BY <1>1, <3>2, <3>3
  <2> QED BY <2>2, <2>3
<1>10. t[1] = h
  <2>1. Where(1) = 1 /\ 1 \in 1..(n - 1)
    BY <1>2, <1>3
  <2> QED BY <1>1, <1>5, <2>1
<1>11. Linkage(new, h, t, e, n - 1)
  BY <1>1, <1>3, <1>6, <1>7, <1>8, <1>9, <1>10 DEF Linkage
<1>12. {t[i] : i \in 1..(n - 1)} = Members(s) \ {q}
  <2>1. ASSUME NEW i \in 1..(n - 1) PROVE t[i] \in Members(s) \ {q}
    <3>1. Where(i) \in 1..n /\ Where(i) # k + 1 /\ t[i] = s[Where(i)]
      BY <1>5
    <3> HIDE DEF Where
    <3> QED BY <1>1, <1>2, <1>3, <3>1
  <2>2. ASSUME NEW x \in Members(s), x # q PROVE \E j \in 1..(n - 1) : t[j] = x
    <3>1. PICK i \in 1..n : s[i] = x
      BY <1>1
    <3>2. i # k + 1
      BY <1>2, <2>2, <3>1
    <3>3. PICK j : j = IF i <= k THEN i ELSE i - 1
      OBVIOUS
    <3>4. j \in 1..(n - 1) /\ Where(j) = i
      BY <1>2, <3>2, <3>3
    <3> HIDE DEF Where
    <3> QED BY <1>5, <3>1, <3>4
  <2> QED BY <2>1, <2>2
<1> QED BY <1>11, <1>12, IsChain

(* A node that leads to the head of a way begins one.                      *)
LEMMA ChainPrepend ==
  ASSUME NEW nx, NEW new, NEW h, NEW s, Chain(nx, h, s, "end"), NEW q \in Node \ Members(s),
         new[q] = h, \A n \in Members(s) : new[n] = nx[n]
  PROVE  \E t : Chain(new, q, t, "end") /\ Members(t) = Members(s) \cup {q}
<1>1. PICK n \in Nat \ {0} :
        /\ s \in [1..n -> Node] /\ s[1] = h /\ Members(s) = {s[i] : i \in 1..n}
        /\ \A i, j \in 1..n : s[i] = s[j] => i = j
        /\ \A i \in 1..(n - 1) : nx[s[i]] = s[i + 1]
        /\ nx[s[n]] = "end"
  <2>1. \E m \in Nat \ {0} :
          /\ s \in [1..m -> Node] /\ s[1] = h /\ Members(s) = {s[i] : i \in 1..m}
          /\ \A i, j \in 1..m : s[i] = s[j] => i = j
          /\ \A i \in 1..(m - 1) : nx[s[i]] = s[i + 1]
          /\ nx[s[m]] = "end" /\ "end" \in {"end", h}
    BY ChainPositions
  <2> QED BY <2>1
<1>2. \A i \in 1..n : s[i] # q
  BY <1>1
<1>3. PICK t : t = [i \in 1..(n + 1) |-> IF i = 1 THEN q ELSE s[i - 1]]
  OBVIOUS
<1>4. t \in [1..(n + 1) -> Node] /\ t[1] = q /\ \A i \in 1..n : t[i + 1] = s[i]
  <2>1. \A i \in 1..(n + 1) : (IF i = 1 THEN q ELSE s[i - 1]) \in Node
    BY <1>1
  <2>2. \A i \in 1..n : i + 1 \in 1..(n + 1) /\ i + 1 # 1 /\ (i + 1) - 1 = i
    OBVIOUS
  <2> QED BY <1>3, <2>1, <2>2
<1>5. \A i \in 1..(n + 1) : i = 1 \/ (i - 1 \in 1..n /\ (i - 1) + 1 = i)
  OBVIOUS
<1>6. ASSUME NEW i \in 1..(n + 1), NEW j \in 1..(n + 1), t[i] = t[j] PROVE i = j
  <2>1. CASE i = 1 \/ j = 1
    <3>1. ASSUME NEW x \in 1..(n + 1), x # 1 PROVE t[x] # q
      <4>1. x - 1 \in 1..n /\ (x - 1) + 1 = x
        BY <1>5, <3>1
      <4>2. t[x] = s[x - 1]
        BY <1>4, <4>1
      <4> QED BY <1>2, <4>1, <4>2
    <3> QED BY <1>4, <1>6, <2>1, <3>1
  <2>2. CASE i # 1 /\ j # 1
    <3>1. i - 1 \in 1..n /\ j - 1 \in 1..n /\ t[i] = s[i - 1] /\ t[j] = s[j - 1]
      BY <1>4, <1>5, <2>2
    <3>2. i - 1 = j - 1
      BY <1>1, <1>6, <3>1
    <3> QED BY <3>2
  <2> QED BY <2>1, <2>2
<1>7. ASSUME NEW i \in 1..n PROVE new[t[i]] = t[i + 1]
  <2>1. CASE i = 1
    BY <1>1, <1>4, <2>1
  <2>2. CASE i # 1
    <3>1. i - 1 \in 1..(n - 1) /\ (i - 1) + 1 = i /\ i - 1 \in 1..n
      BY <2>2
    <3>2. t[i] = s[i - 1] /\ t[i + 1] = s[i] /\ nx[s[i - 1]] = s[i] /\ s[i - 1] \in Members(s)
      BY <1>1, <1>4, <3>1
    <3> QED BY <3>2
  <2> QED BY <2>1, <2>2
<1>8. new[t[n + 1]] = "end"
  <2>1. n \in 1..n
    OBVIOUS
  <2> QED BY <1>1, <1>4, <2>1
<1>9. Linkage(new, q, t, "end", n + 1)
  <2>1. (n + 1) - 1 = n /\ n + 1 \in Nat \ {0}
    OBVIOUS
  <2> QED BY <1>4, <1>6, <1>7, <1>8, <2>1 DEF Linkage
<1>10. {t[i] : i \in 1..(n + 1)} = Members(s) \cup {q}
  <2>1. ASSUME NEW i \in 1..(n + 1) PROVE t[i] \in Members(s) \cup {q}
    BY <1>1, <1>4, <1>5
  <2>2. \A i \in 1..n : i + 1 \in 1..(n + 1)
    OBVIOUS
  <2>3. 1 \in 1..(n + 1)
    OBVIOUS
  <2> QED BY <1>1, <1>4, <2>1, <2>2, <2>3
<1> QED BY <1>9, <1>10, IsChain

-----------------------------------------------------------------------------
(* Lists: the nodes c are what is come by from h on, before e. *)
ListedIn(nx, h, c, e) == Chain(nx, h, PathOf(nx, h), e) /\ Members(PathOf(nx, h)) = c

(* A way without repetition is the one the controller goes.                *)
LEMMA ListedAs ==
  ASSUME NEW nx, NEW h, NEW s, NEW e, Chain(nx, h, s, e)
  PROVE  ListedIn(nx, h, Members(s), e)
BY PathIs DEF ListedIn

(* So are lists where no link of theirs changes ...                        *)
LEMMA SameList ==
  ASSUME NEW nx, NEW new, NEW h, NEW c, NEW e, ListedIn(nx, h, c, e), \A n \in c : new[n] = nx[n]
  PROVE  ListedIn(new, h, c, e)
<1> DEFINE s == PathOf(nx, h)
<1>1. Chain(nx, h, s, e) /\ Members(s) = c
  BY DEF ListedIn
<1> HIDE DEF s
<1>2. Chain(new, h, s, e)
  BY <1>1, ChainSame
<1> QED BY <1>1, <1>2, ListedAs

(* ... a queue head is linked in ...                                       *)
LEMMA InsertList ==
  ASSUME NEW nx, NEW new, NEW h, NEW c, NEW e, ListedIn(nx, h, c, e),
         NEW a \in c, NEW q \in Node \ c,
         new[q] = nx[a], new[a] = q, \A n \in c \ {a} : new[n] = nx[n]
  PROVE  ListedIn(new, h, c \cup {q}, e)
<1> DEFINE s == PathOf(nx, h)
<1>1. Chain(nx, h, s, e) /\ Members(s) = c
  BY DEF ListedIn
<1> HIDE DEF s
<1>2. PICK t : Chain(new, h, t, e) /\ Members(t) = c \cup {q}
  <2>1. a \in Members(s) /\ q \in Node \ Members(s) /\ \A n \in Members(s) \ {a} : new[n] = nx[n]
    BY <1>1
  <2>2. \E t : Chain(new, h, t, e) /\ Members(t) = Members(s) \cup {q}
    BY <1>1, <2>1, ChainInsert
  <2> QED BY <1>1, <2>2
<1> QED BY <1>2, ListedAs

(* ... or linked out ...                                                   *)
LEMMA RemoveList ==
  ASSUME NEW nx, NEW new, NEW h, NEW c, NEW e, ListedIn(nx, h, c, e),
         NEW a \in c, NEW q \in c, q # h, q # "end", nx[a] = q,
         new[a] = nx[q], \A n \in c \ {a, q} : new[n] = nx[n]
  PROVE  ListedIn(new, h, c \ {q}, e)
<1> DEFINE s == PathOf(nx, h)
<1>1. Chain(nx, h, s, e) /\ Members(s) = c
  BY DEF ListedIn
<1> HIDE DEF s
<1>2. PICK t : Chain(new, h, t, e) /\ Members(t) = c \ {q}
  <2>1. a \in Members(s) /\ q \in Members(s) /\ \A n \in Members(s) \ {a, q} : new[n] = nx[n]
    BY <1>1
  <2>2. \E t : Chain(new, h, t, e) /\ Members(t) = Members(s) \ {q}
    BY <1>1, <2>1, ChainRemove
  <2> QED BY <1>1, <2>2
<1> QED BY <1>2, ListedAs

(* ... or put before the list.                                             *)
LEMMA PrependList ==
  ASSUME NEW nx, NEW new, NEW h, NEW c, ListedIn(nx, h, c, "end"), NEW q \in Node \ c,
         new[q] = h, \A n \in c : new[n] = nx[n]
  PROVE  ListedIn(new, q, c \cup {q}, "end")
<1> DEFINE s == PathOf(nx, h)
<1>1. Chain(nx, h, s, "end") /\ Members(s) = c
  BY DEF ListedIn
<1> HIDE DEF s
<1>2. PICK t : Chain(new, q, t, "end") /\ Members(t) = c \cup {q}
  <2>1. q \in Node \ Members(s) /\ \A n \in Members(s) : new[n] = nx[n]
    BY <1>1
  <2>2. \E t : Chain(new, q, t, "end") /\ Members(t) = Members(s) \cup {q}
    BY <1>1, <2>1, ChainPrepend
  <2> QED BY <1>1, <2>2
<1> QED BY <1>2, ListedAs

(* The links of a list lead to its nodes, and to each but the first. *)
LEMMA ListLinks ==
  ASSUME NEW nx, NEW h, NEW c, NEW e, ListedIn(nx, h, c, e)
  PROVE  /\ h \in c /\ c \subseteq Node
         /\ \A n \in c : nx[n] \in c \cup {e}
         /\ \A n \in c : n # h => \E a \in c : nx[a] = n
         /\ e \in {"end", h}
<1> DEFINE s == PathOf(nx, h)
<1>1. Chain(nx, h, s, e) /\ Members(s) = c
  BY DEF ListedIn
<1> HIDE DEF s
<1>2. PICK n \in Nat \ {0} :
        /\ s \in [1..n -> Node] /\ s[1] = h /\ c = {s[i] : i \in 1..n}
        /\ \A i \in 1..(n - 1) : nx[s[i]] = s[i + 1]
        /\ nx[s[n]] = e /\ e \in {"end", h}
  <2>1. Linkage(nx, h, s, e, Len(s)) /\ Members(s) = {s[i] : i \in 1..Len(s)}
    BY <1>1, ChainIs
  <2> QED BY <1>1, <2>1 DEF Linkage
<1>3. h \in c /\ c \subseteq Node
  BY <1>2
<1>4. ASSUME NEW i \in 1..n PROVE nx[s[i]] \in c \cup {e}
  <2>1. CASE i = n
    BY <1>2, <2>1
  <2>2. CASE i # n
    <3>1. i \in 1..(n - 1) /\ i + 1 \in 1..n
      BY <2>2
    <3> QED BY <1>2, <3>1
  <2> QED BY <2>1, <2>2
<1>5. ASSUME NEW i \in 1..n, s[i] # h PROVE \E a \in c : nx[a] = s[i]
  <2>1. i # 1
    BY <1>2, <1>5
  <2>2. i - 1 \in 1..(n - 1) /\ (i - 1) + 1 = i /\ i - 1 \in 1..n
    BY <1>2, <2>1
  <2>3. nx[s[i - 1]] = s[i] /\ s[i - 1] \in c
    BY <1>2, <2>2
  <2> QED BY <2>3
<1>6. \A n1 \in c : nx[n1] \in c \cup {e}
  <2> TAKE n1 \in c
  <2>1. PICK i \in 1..n : s[i] = n1
    BY <1>2
  <2> QED BY <2>1, <1>4
<1>7. \A n1 \in c : n1 # h => \E a \in c : nx[a] = n1
  <2> TAKE n1 \in c
  <2> HAVE n1 # h
  <2>1. PICK i \in 1..n : s[i] = n1
    BY <1>2
  <2> QED BY <2>1, <1>5
<1>8. e \in {"end", h}
  BY <1>2
<1> QED BY <1>3, <1>6, <1>7, <1>8

(* No link of a list that ends leads to its head, and none to where it is. *)
LEMMA LinksApart ==
  ASSUME NEW nx, NEW h, NEW c, NEW e, ListedIn(nx, h, c, e), NEW n \in c
  PROVE  (e = "end" => nx[n] # h) /\ (n # h => nx[n] # n)
<1> DEFINE s == PathOf(nx, h)
<1>1. Chain(nx, h, s, e) /\ Members(s) = c
  BY DEF ListedIn
<1> HIDE DEF s
<1>2. PICK m \in Nat \ {0} :
        /\ s \in [1..m -> Node] /\ s[1] = h /\ c = {s[i] : i \in 1..m}
        /\ \A i, j \in 1..m : s[i] = s[j] => i = j
        /\ \A i \in 1..(m - 1) : nx[s[i]] = s[i + 1]
        /\ nx[s[m]] = e /\ e \in {"end", h}
  <2>1. Linkage(nx, h, s, e, Len(s)) /\ Members(s) = {s[i] : i \in 1..Len(s)}
    BY <1>1, ChainIs
  <2> QED BY <1>1, <2>1 DEF Linkage
<1>3. PICK i \in 1..m : n = s[i]
  BY <1>2
<1>4. CASE i = m
  BY <1>2, <1>3, <1>4, Nodes
<1>5. CASE i # m
  <2>1. i \in 1..(m - 1) /\ i + 1 \in 1..m /\ i + 1 # 1 /\ 1 \in 1..m
    BY <1>5
  <2>2. s[i + 1] # s[1] /\ s[i + 1] # s[i]
    BY <1>2, <2>1
  <2> QED BY <1>2, <1>3, <2>1, <2>2
<1> QED BY <1>4, <1>5

(* A list whose links never go down in rank has its nodes in the order of  *)
(* their ranks.                                                            *)
LEMMA InRankOrder ==
  ASSUME NEW nx, NEW h, NEW c, ListedIn(nx, h, c, "end"),
         NEW rank \in [c -> Nat], \A n \in c : nx[n] # "end" => rank[n] <= rank[nx[n]],
         NEW p \in c, NEW q \in c, rank[p] < rank[q]
  PROVE  \E i, j \in 1..Len(PathOf(nx, h)) :
           i < j /\ PathOf(nx, h)[i] = p /\ PathOf(nx, h)[j] = q
<1> DEFINE s == PathOf(nx, h)
<1>1. Chain(nx, h, s, "end") /\ Members(s) = c
  BY DEF ListedIn
<1>2. Linkage(nx, h, s, "end", Len(s)) /\ Members(s) = {s[i] : i \in 1..Len(s)}
  BY <1>1, ChainIs
<1> HIDE DEF s
<1>3. PICK n \in Nat \ {0} :
        /\ n = Len(s) /\ s \in [1..n -> Node] /\ c = {s[i] : i \in 1..n}
        /\ \A i \in 1..(n - 1) : nx[s[i]] = s[i + 1]
  BY <1>1, <1>2 DEF Linkage
<1>4. PICK i \in 1..n, j \in 1..n : s[i] = p /\ s[j] = q
  BY <1>3
<1>5. ASSUME j <= i PROVE FALSE
  <2> DEFINE Bad == {k \in Nat : j + k <= n /\ rank[s[j + k]] < rank[q]}
  <2>1. i - j \in Bad
    BY <1>4, <1>5
  <2>2. PICK k \in Bad : \A l \in Bad : k <= l
    <3>1. Bad \in SUBSET Nat /\ Bad # {}
      BY <2>1
    <3> HIDE DEF Bad
    <3> QED BY <3>1, LeastNatural
  <2>3. k \in Nat /\ j + k <= n /\ rank[s[j + k]] < rank[q] /\ \A l \in Bad : k <= l
    BY <2>2
  <2> HIDE DEF Bad
  <2>4. k # 0
    <3>1. rank[q] \in Nat /\ ~(rank[q] < rank[q])
      OBVIOUS
    <3>2. SUFFICES ASSUME k = 0 PROVE FALSE
      OBVIOUS
    <3>3. j + k = j
      BY <3>2
    <3> QED BY <1>4, <2>3, <3>1, <3>3
  <2>5. k - 1 \in Nat /\ k - 1 \notin Bad /\ j + (k - 1) \in 1..(n - 1) /\ (j + (k - 1)) + 1 = j + k
    <3>1. k - 1 \in Nat /\ ~(k <= k - 1)
      BY <2>3, <2>4
    <3>2. j + (k - 1) \in 1..(n - 1) /\ (j + (k - 1)) + 1 = j + k
      BY <2>3, <2>4
    <3> QED BY <2>3, <3>1, <3>2
  <2> DEFINE a == s[j + (k - 1)]
             b == s[j + k]
  <2>6. a \in c /\ b \in c /\ nx[a] = b /\ b \in Node
    <3>1. PICK m \in 1..(n - 1) : m = j + (k - 1) /\ m + 1 = j + k
      BY <2>5
    <3>2. m \in 1..n /\ m + 1 \in 1..n
      OBVIOUS
    <3>3. nx[s[m]] = s[m + 1] /\ s[m] \in c /\ s[m + 1] \in c /\ s[m + 1] \in Node
      BY <1>3, <3>2
    <3> QED BY <3>1, <3>3
  <2>7. rank[a] <= rank[b] /\ rank[a] \in Nat /\ rank[b] \in Nat /\ rank[q] \in Nat
    <3>1. b # "end"
      BY <2>6, Nodes
    <3> HIDE DEF a, b
    <3> QED BY <2>6, <3>1
  <2>8. ~(rank[a] < rank[q]) /\ rank[b] < rank[q]
    BY <2>3, <2>5 DEF Bad
  <2> HIDE DEF a, b
  <2> QED BY <2>7, <2>8
<1>6. i < j
  BY <1>5
<1> QED BY <1>3, <1>4, <1>6 DEF s

-----------------------------------------------------------------------------
(* The lists.                                                              *)

(* Types of the memory, the links, the controller and the threads.         *)
PipeTypes == [use : {"free", "control", "bulk", "intr"}, exp : 0..MaxExp, el : {"td", "term"},
              skip : BOOLEAN, tds : BOOLEAN, late : BOOLEAN]
Waits == {"tick", "bell", "bellcmd", "rung"}
Frame == 0..(FrameCount - 1)
ListTypes ==
  /\ kind \in {"uhci", "ehci", "ohci"}
  /\ qh \in [Qh -> PipeTypes]
  /\ next \in [Node -> Node \cup {"end"}]
  /\ frames \in [Frame -> Node]
  /\ last \in [control : Node, bulk : Node]
  /\ hw \in [pos : Node \cup {"end"}, hold : BOOLEAN, on : BOOLEAN, cle : BOOLEAN, iaad : BOOLEAN,
             iaa : BOOLEAN]
  /\ th \in [Thread -> [pc : {"idle", "open", "wait"} \cup Waits, q : Qh \cup {"none"}, moved : BOOLEAN,
                        saved : BOOLEAN, what : {"tds", "pipe"}]]

(* Each thread that has one has its own control pipe.                      *)
Owners ==
  /\ \A t \in Thread : th[t].pc # "idle" => th[t].q \in Pipes("control")
  /\ \A t, u \in Thread : th[t].pc # "idle" /\ th[u].pc # "idle" /\ th[t].q = th[u].q => t = u
  /\ \A t \in Thread : th[t].pc \in Waits => (th[t].pc = "tick" <=> kind # "ehci")

(* What the controller comes by from each frame, and from the head of the  *)
(* list of control pipes.                                                  *)
InPeriod(e, k) == k % (2 ^ e) = StartPos(e)
InList == (Pipes("control") \cup Pipes("bulk")) \ Unlinking
Periodic(k) ==
  {"intr"} \cup {q \in Pipes("intr") : Due(q, k)} \cup (IF kind = "uhci" THEN {"term"} \cup InList ELSE {})
HeadEnd == IF kind = "ehci" THEN "async" ELSE "end"
Lists ==
  /\ frames[0] = "intr"
  /\ \A k \in Frame : frames[k] \in {"intr"} \cup Pipes("intr")
  /\ \A k \in Frame : ListedIn(next, frames[k], Periodic(k), "end")
  /\ kind # "uhci" => ListedIn(next, ListHead, {ListHead} \cup InList, HeadEnd)

(* uhci: interrupt pipes, control pipes and bulk pipes follow each other.  *)
Rank(pipes, n) ==
  CASE n = "intr" -> 0 [] n = "term" -> 4
    [] n \in Qh -> (CASE pipes[n].use = "intr" -> 1 [] pipes[n].use = "control" -> 2 [] OTHER -> 3)
LastOf(n, r) == n \in Periodic(0) /\ Rank(qh, n) <= r /\ next[n] # "end" /\ Rank(qh, next[n]) > r
Climbing ==
  \A n \in Periodic(0) :
    IF next[n] = "end" THEN n = "term" ELSE Rank(qh, n) <= Rank(qh, next[n])
Ranked ==
  kind = "uhci" =>
    /\ Climbing
    /\ LastOf(last.control, 1) /\ LastOf(last.bulk, 2)

(* What is not a pipe has a name of its own.                               *)
LEMMA Names ==
  /\ "intr" \notin Qh /\ "term" \notin Qh /\ "async" \notin Qh /\ "control" \notin Qh /\ "end" \notin Qh
  /\ "none" \notin Qh /\ "intr" \in Node /\ "term" \in Node /\ "async" \in Node /\ "control" \in Node
  /\ Qh \subseteq Node
BY PipesNodes DEF PipesNodes, Node

(* The sets of pipes. *)
LEMMA PipeSets ==
  ASSUME ListTypes, Owners
  PROVE  /\ Unlinking \subseteq Pipes("control") /\ InList \subseteq Qh
         /\ \A k \in Frame : Periodic(k) \subseteq Node /\ Periodic(k) \cap Free = {}
BY Names DEF Unlinking, Owners, Pipes, InList, Periodic, Free, ListTypes, Waits

(* A queue head is linked behind another one. *)
LEMMA Linking ==
  ASSUME NEW nx \in [Node -> Node \cup {"end"}], NEW a \in Node, NEW q \in Node, a # q,
         NEW new, new = [nx EXCEPT ![q] = nx[a], ![a] = q],
         NEW h, NEW c, NEW e, ListedIn(nx, h, c, e), q \notin c
  PROVE  ListedIn(new, h, IF a \in c THEN c \cup {q} ELSE c, e)
<1>1. new[q] = nx[a] /\ new[a] = q /\ \A n \in Node \ {a, q} : new[n] = nx[n]
  OBVIOUS
<1>2. c \subseteq Node
  BY ListLinks
<1>3. CASE a \in c
  <2>1. \A n \in c \ {a} : new[n] = nx[n]
    BY <1>1, <1>2
  <2>2. q \in Node \ c
    OBVIOUS
  <2>3. ListedIn(new, h, c \cup {q}, e)
    <3>1. new[q] = nx[a] /\ new[a] = q
      BY <1>1
    <3> QED BY ONLY ListedIn(nx, h, c, e), <1>3, <2>1, <2>2, <3>1, InsertList
  <2> QED BY <1>3, <2>3
<1>4. CASE a \notin c
  <2>1. \A n \in c : new[n] = nx[n]
    BY <1>1, <1>2, <1>4
  <2>2. ListedIn(new, h, c, e)
    BY <2>1, SameList
  <2> QED BY <1>4, <2>2
<1> QED BY <1>3, <1>4

(* An interrupt pipe of every frame is one of frame 0, no other is.  *)
LEMMA FrameZero ==
  ASSUME ListTypes
  PROVE  /\ 0 \in Frame /\ Frame \subseteq Nat
         /\ \A q \in Qh : Due(q, 0) <=> qh[q].exp = 0
         /\ \A k \in Frame : Periodic(0) \subseteq Periodic(k)
<1>1. 0 \in Frame /\ Frame \subseteq Nat
  BY Frames DEF Frame
<1>2. ASSUME NEW q \in Qh PROVE Due(q, 0) <=> qh[q].exp = 0
  <2>1. SUFFICES ASSUME qh[q].exp # 0 PROVE ~(0 % (2 ^ qh[q].exp) = StartPos(qh[q].exp))
    BY DEF Due
  <2>2. qh[q].exp \in Nat \ {0}
    BY <2>1 DEF ListTypes, PipeTypes
  <2>3. StartPos(qh[q].exp) \in Nat \ {0}
        /\ ((0 >= StartPos(qh[q].exp) /\ (0 - StartPos(qh[q].exp)) % (2 ^ qh[q].exp) = 0)
              <=> 0 % (2 ^ qh[q].exp) = StartPos(qh[q].exp))
    BY <2>2, Period
  <2> QED BY <2>3
<1>3. \A k \in Frame : Periodic(0) \subseteq Periodic(k)
  BY <1>2 DEF Periodic, Due, Pipes
<1> QED BY <1>1, <1>2, <1>3

(* What a new pipe does to the sets of pipes. *)
LEMMA NewPipes ==
  ASSUME ListTypes, Owners, NEW q \in Free, NEW use \in {"control", "bulk", "intr"}, NEW exp \in 0..MaxExp,
         qh' = [qh EXCEPT ![q] = NewPipe(use, exp)], kind' = kind, Unlinking' = Unlinking
  PROVE  /\ q \in Qh /\ \A k \in Frame : q \notin Periodic(k)
         /\ q \notin InList /\ Pipes("intr") \subseteq Pipes("intr")' /\ (use = "intr" => q \in Pipes("intr")')
         /\ qh'[q] = NewPipe(use, exp) /\ \A p \in Qh : p # q => qh'[p] = qh[p]
         /\ InList' = IF use = "intr" THEN InList ELSE InList \cup {q}
         /\ \A k \in Frame : Periodic(k)' =
              IF (use = "intr" /\ (exp = 0 \/ InPeriod(exp, k))) \/ (use # "intr" /\ kind = "uhci")
              THEN Periodic(k) \cup {q} ELSE Periodic(k)
         /\ \A n \in Node \ {q} : Rank(qh', n) = Rank(qh, n)
         /\ Rank(qh', q) = CASE use = "intr" -> 1 [] use = "control" -> 2 [] use = "bulk" -> 3
<1>1. /\ q \in Qh /\ qh[q].use = "free" /\ qh \in [Qh -> PipeTypes]
      /\ qh'[q] = NewPipe(use, exp) /\ \A p \in Qh : p # q => qh'[p] = qh[p]
  BY DEF Free, ListTypes
<1>2. q \notin Unlinking
  BY <1>1, PipeSets DEF Pipes
<1>3. /\ Pipes("intr")' = IF use = "intr" THEN Pipes("intr") \cup {q} ELSE Pipes("intr")
      /\ Pipes("control")' \cup Pipes("bulk")' =
           IF use = "intr" THEN Pipes("control") \cup Pipes("bulk") ELSE (Pipes("control") \cup Pipes("bulk")) \cup {q}
  BY <1>1 DEF Pipes, NewPipe
<1>4. InList' = IF use = "intr" THEN InList ELSE InList \cup {q}
  BY <1>2, <1>3 DEF InList
<1>5. q \notin InList /\ q # "intr" /\ q # "term" /\ q \notin Pipes("intr")
  BY <1>1, Names DEF InList, Pipes
<1>6. ASSUME NEW k \in Frame PROVE q \notin Periodic(k)
  BY <1>5 DEF Periodic
<1>7. ASSUME NEW k \in Frame
      PROVE  Periodic(k)' =
               IF (use = "intr" /\ (exp = 0 \/ InPeriod(exp, k))) \/ (use # "intr" /\ kind = "uhci")
               THEN Periodic(k) \cup {q} ELSE Periodic(k)
  <2>1. \A p \in Pipes("intr") : p # q /\ Due(p, k)' = Due(p, k)
    BY <1>1, <1>5 DEF Due, Pipes
  <2>2. Due(q, k)' <=> (exp = 0 \/ InPeriod(exp, k))
    BY <1>1 DEF Due, NewPipe, InPeriod
  <2> DEFINE D == {p \in Pipes("intr") : Due(p, k)}
  <2>3. D' = IF use = "intr" /\ (exp = 0 \/ InPeriod(exp, k)) THEN D \cup {q} ELSE D
    BY <1>3, <2>1, <2>2, Zenon
  <2>4. Periodic(k) = {"intr"} \cup D \cup (IF kind = "uhci" THEN {"term"} \cup InList ELSE {})
    BY DEF Periodic
  <2>5. Periodic(k)' = {"intr"} \cup D' \cup (IF kind = "uhci" THEN {"term"} \cup InList' ELSE {})
    BY DEF Periodic
  <2> HIDE DEF D
  <2> QED BY <1>4, <2>3, <2>4, <2>5
<1>8. \A n \in Node \ {q} : Rank(qh', n) = Rank(qh, n)
  BY <1>1 DEF Rank
<1>9. Rank(qh', q) = CASE use = "intr" -> 1 [] use = "control" -> 2 [] use = "bulk" -> 3
  BY <1>1, <1>5 DEF Rank, NewPipe
<1>10. Pipes("intr") \subseteq Pipes("intr")' /\ (use = "intr" => q \in Pipes("intr")')
  BY <1>3
<1> QED BY <1>1, <1>4, <1>5, <1>6, <1>7, <1>8, <1>9, <1>10

(* Lists with a queue head more. *)
LEMMA InsertsLists ==
  ASSUME ListTypes, Lists, NEW a \in Node, NEW q \in Free, a # q, next' = Linked(a, q), frames' = frames, kind' = kind,
         Pipes("intr") \subseteq Pipes("intr")',
         \A k \in Frame : q \notin Periodic(k), q \notin InList,
         \A k \in Frame : Periodic(k)' = (IF a \in Periodic(k) THEN Periodic(k) \cup {q} ELSE Periodic(k)),
         kind # "uhci" => InList' = (IF a \in {ListHead} \cup InList THEN InList \cup {q} ELSE InList)
  PROVE  Lists'
<1>1. q \in Node /\ next \in [Node -> Node \cup {"end"}] /\ next' = [next EXCEPT ![q] = next[a], ![a] = q]
  BY Names DEF Free, ListTypes, Linked
<1>2. ASSUME NEW k \in Frame PROVE ListedIn(next', frames[k], Periodic(k)', "end")
  <2>1. ListedIn(next, frames[k], Periodic(k), "end") /\ q \notin Periodic(k)
    BY DEF Lists
  <2>2. ListedIn(next', frames[k], IF a \in Periodic(k) THEN Periodic(k) \cup {q} ELSE Periodic(k), "end")
    BY <1>1, <2>1, Linking
  <2> QED BY <2>2
<1>3. ASSUME kind # "uhci" PROVE ListedIn(next', ListHead, {ListHead} \cup InList', HeadEnd)
  <2>1. q # ListHead
    BY Names, <1>3 DEF ListHead, Free, ListTypes
  <2>2. ListedIn(next, ListHead, {ListHead} \cup InList, HeadEnd) /\ q \notin {ListHead} \cup InList
    BY <1>3, <2>1 DEF Lists
  <2> DEFINE c == {ListHead} \cup InList
  <2>3. ListedIn(next', ListHead, IF a \in c THEN c \cup {q} ELSE c, HeadEnd)
    <3> HIDE DEF c
    <3>1. ListedIn(next, ListHead, c, HeadEnd) /\ q \notin c
      BY <2>2 DEF c
    <3> QED BY <1>1, <3>1, Linking
  <2>4. {ListHead} \cup InList' = IF a \in c THEN c \cup {q} ELSE c
    BY <1>3
  <2> HIDE DEF c
  <2> QED BY <2>3, <2>4
<1>4. ListHead' = ListHead /\ HeadEnd' = HeadEnd /\ Frame' = Frame
  BY DEF ListHead, HeadEnd, Frame
<1>5. \A k \in Frame : frames[k] \in {"intr"} \cup Pipes("intr")'
  BY DEF Lists
<1> QED BY <1>2, <1>3, <1>4, <1>5 DEF Lists

(* The ranks of what uhci comes by. *)
LEMMA Ranks ==
  ASSUME ListTypes, Lists
  PROVE  /\ \A n \in Periodic(0) : Rank(qh, n) \in 0..4 /\ (Rank(qh, n) = 0 <=> n = "intr")
         /\ \A n \in Periodic(0) : next[n] \in Periodic(0) \cup {"end"}
         /\ "intr" \in Periodic(0) /\ Periodic(0) \subseteq Node
<1>1. ListedIn(next, "intr", Periodic(0), "end")
  BY FrameZero DEF Lists
<1>2. Periodic(0) \subseteq Node /\ \A n \in Periodic(0) : next[n] \in Periodic(0) \cup {"end"}
  BY <1>1, ListLinks
<1>3. "intr" \in Periodic(0)
  BY DEF Periodic
<1>4. ASSUME NEW n \in Periodic(0) PROVE Rank(qh, n) \in 0..4 /\ (Rank(qh, n) = 0 <=> n = "intr")
  <2>1. n \in {"intr", "term"} \cup Qh
    BY <1>4, Names DEF Periodic, Pipes, InList
  <2> QED BY <2>1, Names DEF Rank
<1> QED BY <1>2, <1>3, <1>4

(* A queue head between those of lower and of higher rank. *)
LEMMA RankInsert ==
  ASSUME ListTypes, Lists, Ranked, kind = "uhci", NEW a \in Periodic(0), NEW q \in Node \ Periodic(0),
         next' = Linked(a, q), Periodic(0)' = Periodic(0) \cup {q},
         \A n \in Node \ {q} : Rank(qh', n) = Rank(qh, n),
         Rank(qh', q) \in 0..4, Rank(qh, a) <= Rank(qh', q), next[a] # "end", Rank(qh', q) <= Rank(qh, next[a])
  PROVE  /\ Climbing'
         /\ \A n, r : LastOf(n, r) /\ n # a => LastOf(n, r)'
         /\ next'[a] = q /\ next'[q] = next[a]
<1>1. /\ a \in Node /\ Periodic(0) \subseteq Node
      /\ \A n \in Periodic(0) : Rank(qh, n) \in 0..4 /\ next[n] \in Periodic(0) \cup {"end"}
  BY Ranks
<1>2. next'[a] = q /\ next'[q] = next[a] /\ \A n \in Periodic(0) \ {a} : next'[n] = next[n]
  BY <1>1 DEF ListTypes, Linked
<1>3. "end" \notin Node
  BY Nodes
<1>4. \A n \in Periodic(0) : Rank(qh', n) = Rank(qh, n) /\ (next[n] # "end" => Rank(qh', next[n]) = Rank(qh, next[n]))
  BY <1>1
<1>5. ASSUME NEW n \in Periodic(0)'
      PROVE  IF next'[n] = "end" THEN n = "term" ELSE Rank(qh', n) <= Rank(qh', next'[n])
  <2>1. CASE n = a
    BY <1>1, <1>2, <1>3, <1>4, <2>1
  <2>2. CASE n = q
    <3>1. next'[n] = next[a] /\ next[a] # "end"
      BY <1>2, <2>2
    <3>2. Rank(qh', next[a]) = Rank(qh, next[a])
      BY <1>4, <3>1
    <3> QED BY <2>2, <3>1, <3>2
  <2>3. CASE n # a /\ n # q
    <3>1. n \in Periodic(0) /\ next'[n] = next[n]
      BY <1>2, <2>3
    <3>2. IF next[n] = "end" THEN n = "term" ELSE Rank(qh, n) <= Rank(qh, next[n])
      BY <3>1 DEF Ranked, Climbing
    <3> QED BY <1>4, <3>1, <3>2
  <2> QED BY <2>1, <2>2, <2>3
<1>6. ASSUME NEW n, NEW r, LastOf(n, r), n # a PROVE LastOf(n, r)'
  <2>1. n \in Periodic(0) /\ next'[n] = next[n] /\ next[n] # "end"
    BY <1>2, <1>6 DEF LastOf
  <2>2. Rank(qh', n) = Rank(qh, n) /\ Rank(qh', next'[n]) = Rank(qh, next[n])
    BY <1>4, <2>1
  <2> QED BY <1>6, <2>1, <2>2 DEF LastOf
<1>7. Climbing'
  BY <1>5 DEF Climbing
<1> QED BY <1>2, <1>6, <1>7

(* Threads that are not waiting are not unlinking. *)
LEMMA SameUnlinking ==
  ASSUME NEW t \in Thread, \A u \in Thread \ {t} : th'[u] = th[u],
         th[t].pc \notin Waits, th'[t].pc \notin Waits
  PROVE  Unlinking' = Unlinking
<1>1. {u \in Thread : th'[u].pc \in Waits /\ th'[u].what = "pipe"}
        = {u \in Thread : th[u].pc \in Waits /\ th[u].what = "pipe"}
  OBVIOUS
<1>2. \A u \in Thread : th[u].pc \in Waits => th'[u].q = th[u].q
  OBVIOUS
<1>3. /\ Unlinking = {th[u].q : u \in {u \in Thread : th[u].pc \in Waits /\ th[u].what = "pipe"}}
      /\ Unlinking' = {th'[u].q : u \in {u \in Thread : th'[u].pc \in Waits /\ th'[u].what = "pipe"}}
  BY DEF Unlinking, Waits
<1> QED BY <1>1, <1>2, <1>3

(* alloc_control_pipe() keeps the lists. *)
LEMMA ControlLists ==
  ASSUME ListTypes, Owners, Lists, Ranked, NEW t \in Thread, alloc_control_pipe(t), kind' = kind
  PROVE  Lists' /\ Ranked'
<1>1. PICK q, a :
      /\ q \in Free
      /\ a = ControlAt
      /\ qh' = [qh EXCEPT ![q] = NewPipe("control", 0)] /\ next' = Linked(a, q) /\ frames' = frames
      /\ last' = IF kind = "uhci" /\ last.bulk = last.control THEN [last EXCEPT !.bulk = q] ELSE last
      /\ th' = [th EXCEPT ![t] = [@ EXCEPT !.pc = "open", !.q = q]] /\ th[t].pc = "idle"
  BY DEF alloc_control_pipe, Malloc
<1>2. Unlinking' = Unlinking
  <2>1. (\A u \in Thread \ {t} : th'[u] = th[u]) /\ th'[t].pc = "open" /\ th[t].pc = "idle"
    BY <1>1 DEF ListTypes
  <2> QED BY <2>1, SameUnlinking DEF Waits
<1>3. /\ q \in Qh /\ q \in Node /\ \A k \in Frame : q \notin Periodic(k)
      /\ q \notin InList /\ Pipes("intr") \subseteq Pipes("intr")' /\ InList' = InList \cup {q}
      /\ \A k \in Frame : Periodic(k)' = IF kind = "uhci" THEN Periodic(k) \cup {q} ELSE Periodic(k)
      /\ \A n \in Node \ {q} : Rank(qh', n) = Rank(qh, n)
      /\ Rank(qh', q) = 2
  <2>1. 0 \in 0..MaxExp /\ "control" \in {"control", "bulk", "intr"} /\ q \in Free
    BY <1>1
  <2> HIDE DEF Free
  <2>2. q \in Qh
    BY <2>1 DEF Free
  <2> QED BY <1>1, <1>2, <2>1, <2>2, NewPipes, Names
<1>4. CASE kind = "uhci"
  <2>1. a = last.control /\ a \in Periodic(0) /\ Rank(qh, a) <= 1 /\ next[a] # "end" /\ Rank(qh, next[a]) > 1
    BY <1>1, <1>4 DEF Ranked, LastOf, ControlAt
  <2>2. 0 \in Frame /\ \A k \in Frame : Periodic(0) \subseteq Periodic(k)
    BY FrameZero
  <2>3. a \in Node /\ a # q /\ q \in Node \ Periodic(0) /\ next[a] \in Node /\ next[a] # q
    BY <1>3, <2>1, <2>2, Ranks
  <2>4. Lists'
    <3>1. \A k \in Frame : Periodic(k)' = (IF a \in Periodic(k) THEN Periodic(k) \cup {q} ELSE Periodic(k))
      BY <1>3, <1>4, <2>1, <2>2
    <3> QED BY <1>1, <1>3, <1>4, <2>3, <3>1, InsertsLists
  <2>5. Rank(qh, a) \in 0..4 /\ Rank(qh, next[a]) \in 0..4
    BY <2>1, Ranks
  <2>6. /\ Climbing'
        /\ \A n, r : LastOf(n, r) /\ n # a => LastOf(n, r)'
        /\ next'[a] = q /\ next'[q] = next[a] /\ Periodic(0)' = Periodic(0) \cup {q}
    <3>1. Periodic(0)' = Periodic(0) \cup {q}
      BY <1>3, <1>4, <2>2
    <3>2. Rank(qh', q) \in 0..4 /\ Rank(qh, a) <= Rank(qh', q) /\ next[a] # "end" /\ Rank(qh', q) <= Rank(qh, next[a])
      BY <1>3, <2>1, <2>5
    <3> QED BY <1>1, <1>3, <1>4, <2>1, <2>3, <3>1, <3>2, RankInsert
  <2>7. LastOf(a, 1)'
    BY <1>3, <2>1, <2>3, <2>6, Nodes DEF LastOf
  <2>8. last'.control = a /\ (last.bulk = a => last'.bulk = q) /\ (last.bulk # a => last'.bulk = last.bulk)
    BY <1>1, <1>4, <2>1 DEF ListTypes
  <2>9. LastOf(last.bulk, 2)'
    <3>1. LastOf(last.bulk, 2)
      BY <1>4 DEF Ranked
    <3>2. CASE last.bulk # a
      <4>1. LastOf(last.bulk, 2)' <=> (\E n : n = last'.bulk /\ LastOf(n, 2)')
        BY DEF LastOf
      <4> QED BY <2>6, <2>8, <3>1, <3>2, <4>1
    <3>3. CASE last.bulk = a
      <4>1. Rank(qh', next'[q]) > 2 /\ next'[q] # "end"
        BY <1>3, <2>1, <2>3, <2>6, <3>1, <3>3 DEF LastOf
      <4> QED BY <1>3, <2>6, <2>8, <3>3, <4>1 DEF LastOf
    <3> QED BY <3>2, <3>3
  <2>10. LastOf(last.control, 1)'
    BY <2>7, <2>8 DEF LastOf
  <2> QED BY <2>4, <2>6, <2>9, <2>10 DEF Ranked
<1>5. CASE kind # "uhci"
  <2>1. a = ListHead /\ a \in {"async", "control"}
    BY <1>1, <1>5 DEF ControlAt, ListHead, ListTypes
  <2>2. a \in Node /\ a # q /\ \A k \in Frame : a \notin Periodic(k)
    BY <1>3, <1>5, <2>1, Names DEF Periodic, Pipes
  <2>3. Lists'
    <3>1. \A k \in Frame : Periodic(k)' = (IF a \in Periodic(k) THEN Periodic(k) \cup {q} ELSE Periodic(k))
      BY <1>3, <1>5, <2>2
    <3>2. InList' = (IF a \in {ListHead} \cup InList THEN InList \cup {q} ELSE InList)
      BY <1>3, <2>1
    <3> QED BY <1>1, <1>3, <2>2, <3>1, <3>2, InsertsLists
  <2>4. Ranked'
    BY <1>5 DEF Ranked
  <2> QED BY <2>3, <2>4
<1> QED BY <1>4, <1>5

(* alloc_bulk_pipe() keeps the lists. *)
LEMMA BulkLists ==
  ASSUME ListTypes, Owners, Lists, Ranked, NEW t \in Thread, alloc_bulk_pipe(t), kind' = kind
  PROVE  Lists' /\ Ranked'
<1>1. PICK q, a :
      /\ q \in Free
      /\ a = BulkAt
      /\ qh' = [qh EXCEPT ![q] = NewPipe("bulk", 0)] /\ next' = Linked(a, q) /\ frames' = frames
      /\ last' = last /\ th' = th /\ kind # "ohci"
  BY DEF alloc_bulk_pipe, Malloc
<1>2. Unlinking' = Unlinking
  BY <1>1 DEF Unlinking
<1>3. /\ q \in Qh /\ q \in Node /\ \A k \in Frame : q \notin Periodic(k)
      /\ q \notin InList /\ Pipes("intr") \subseteq Pipes("intr")' /\ InList' = InList \cup {q}
      /\ \A k \in Frame : Periodic(k)' = IF kind = "uhci" THEN Periodic(k) \cup {q} ELSE Periodic(k)
      /\ \A n \in Node \ {q} : Rank(qh', n) = Rank(qh, n)
      /\ Rank(qh', q) = 3
  <2>1. 0 \in 0..MaxExp /\ "bulk" \in {"control", "bulk", "intr"} /\ q \in Free
    BY <1>1
  <2> HIDE DEF Free
  <2>2. q \in Qh
    BY <2>1 DEF Free
  <2> QED BY <1>1, <1>2, <2>1, <2>2, NewPipes, Names
<1>4. CASE kind = "uhci"
  <2>1. a = last.bulk /\ a \in Periodic(0) /\ Rank(qh, a) <= 2 /\ next[a] # "end" /\ Rank(qh, next[a]) > 2
    BY <1>1, <1>4 DEF Ranked, LastOf, BulkAt
  <2>2. 0 \in Frame /\ \A k \in Frame : Periodic(0) \subseteq Periodic(k)
    BY FrameZero
  <2>3. a \in Node /\ a # q /\ q \in Node \ Periodic(0) /\ next[a] \in Node /\ next[a] # q
    BY <1>3, <2>1, <2>2, Ranks
  <2>4. Lists'
    <3>1. \A k \in Frame : Periodic(k)' = (IF a \in Periodic(k) THEN Periodic(k) \cup {q} ELSE Periodic(k))
      BY <1>3, <1>4, <2>1, <2>2
    <3> QED BY <1>1, <1>3, <1>4, <2>3, <3>1, InsertsLists
  <2>5. Rank(qh, a) \in 0..4 /\ Rank(qh, next[a]) \in 0..4
    BY <2>1, Ranks
  <2>6. /\ Climbing'
        /\ \A n, r : LastOf(n, r) /\ n # a => LastOf(n, r)'
        /\ next'[a] = q /\ next'[q] = next[a] /\ Periodic(0)' = Periodic(0) \cup {q}
    <3>1. Periodic(0)' = Periodic(0) \cup {q}
      BY <1>3, <1>4, <2>2
    <3>2. Rank(qh', q) \in 0..4 /\ Rank(qh, a) <= Rank(qh', q) /\ next[a] # "end" /\ Rank(qh', q) <= Rank(qh, next[a])
      BY <1>3, <2>1, <2>5
    <3> QED BY <1>1, <1>3, <1>4, <2>1, <2>3, <3>1, <3>2, RankInsert
  <2>7. LastOf(last.bulk, 2)'
    <3>1. /\ a \in Periodic(0)' /\ Rank(qh', a) = Rank(qh, a) /\ next'[a] = q /\ q # "end"
          /\ last'.bulk = a
      BY <1>1, <1>3, <2>1, <2>3, <2>6, Nodes
    <3> QED BY <1>3, <2>1, <2>5, <3>1 DEF LastOf
  <2>8. LastOf(last.control, 1)'
    <3>1. LastOf(last.control, 1)
      BY <1>4 DEF Ranked
    <3>2. CASE last.control # a
      <4>1. LastOf(last.control, 1)' <=> (\E n : n = last'.control /\ LastOf(n, 1)')
        BY DEF LastOf
      <4> QED BY <1>1, <2>6, <3>1, <3>2, <4>1
    <3>3. CASE last.control = a
      <4>1. Rank(qh, a) <= 1
        BY <3>1, <3>3 DEF LastOf
      <4>2. /\ a \in Periodic(0)' /\ Rank(qh', a) = Rank(qh, a) /\ next'[a] = q /\ q # "end"
            /\ last'.control = a
        BY <1>1, <1>3, <2>1, <2>3, <2>6, <3>3, Nodes
      <4> QED BY <1>3, <2>5, <4>1, <4>2 DEF LastOf
    <3> QED BY <3>2, <3>3
  <2> QED BY <2>4, <2>6, <2>7, <2>8 DEF Ranked
<1>5. CASE kind # "uhci"
  <2>1. a = ListHead /\ a = "async"
    BY <1>1, <1>5 DEF ControlAt, BulkAt, ListHead, ListTypes
  <2>2. a \in Node /\ a # q /\ \A k \in Frame : a \notin Periodic(k)
    BY <1>3, <1>5, <2>1, Names DEF Periodic, Pipes
  <2>3. Lists'
    <3>1. \A k \in Frame : Periodic(k)' = (IF a \in Periodic(k) THEN Periodic(k) \cup {q} ELSE Periodic(k))
      BY <1>3, <1>5, <2>2
    <3>2. InList' = (IF a \in {ListHead} \cup InList THEN InList \cup {q} ELSE InList)
      BY <1>3, <2>1
    <3> QED BY <1>1, <1>3, <2>2, <3>1, <3>2, InsertsLists
  <2>4. Ranked'
    BY <1>5 DEF Ranked
  <2> QED BY <2>3, <2>4
<1> QED BY <1>4, <1>5

(* alloc_intr_pipe() keeps the lists: an interrupt pipe of every frame. *)
LEMMA EveryFrameLists ==
  ASSUME ListTypes, Owners, Lists, Ranked, NEW t \in Thread, alloc_intr_pipe(t, 0), kind' = kind
  PROVE  Lists' /\ Ranked'
<1>1. PICK q, a :
      /\ q \in Free
      /\ a = "intr"
      /\ qh' = [qh EXCEPT ![q] = NewPipe("intr", 0)] /\ next' = Linked(a, q) /\ frames' = frames
      /\ last' = [control |-> IF last.control = a THEN q ELSE last.control,
                  bulk |-> IF last.bulk = a THEN q ELSE last.bulk]
      /\ th' = th
  BY DEF alloc_intr_pipe, Malloc
<1>2. Unlinking' = Unlinking
  BY <1>1 DEF Unlinking
<1>3. /\ q \in Qh /\ q \in Node /\ \A k \in Frame : q \notin Periodic(k)
      /\ q \notin InList /\ Pipes("intr") \subseteq Pipes("intr")' /\ InList' = InList
      /\ \A k \in Frame : Periodic(k)' = Periodic(k) \cup {q}
      /\ \A n \in Node \ {q} : Rank(qh', n) = Rank(qh, n)
      /\ Rank(qh', q) = 1
  <2>1. 0 \in 0..MaxExp /\ "intr" \in {"control", "bulk", "intr"} /\ q \in Free
    BY <1>1
  <2> HIDE DEF Free
  <2>2. q \in Qh
    BY <2>1 DEF Free
  <2> QED BY <1>1, <1>2, <2>1, <2>2, NewPipes, Names
<1>4. 0 \in Frame /\ a \in Node /\ a # q /\ \A k \in Frame : a \in Periodic(k)
  BY <1>1, <1>3, Names, FrameZero DEF Periodic
<1>5. Lists'
  <2>1. \A k \in Frame : Periodic(k)' = (IF a \in Periodic(k) THEN Periodic(k) \cup {q} ELSE Periodic(k))
    BY <1>3, <1>4
  <2>2. kind # "uhci" => InList' = (IF a \in {ListHead} \cup InList THEN InList \cup {q} ELSE InList)
    BY <1>1, <1>3, Names DEF ListHead, InList, Pipes, ListTypes
  <2> QED BY <1>1, <1>3, <1>4, <2>1, <2>2, InsertsLists
<1>6. CASE kind = "uhci"
  <2>1. /\ Rank(qh, a) = 0 /\ a \in Periodic(0) /\ q \in Node \ Periodic(0)
        /\ next[a] # "end" /\ Rank(qh, next[a]) \in 1..4
    <3>1. ListedIn(next, a, Periodic(0), "end")
      BY <1>1, <1>4 DEF Lists
    <3>2. next[a] # a
      BY <1>4, <3>1, LinksApart
    <3>3. next[a] # "end"
      BY <1>1, <1>4, <1>6 DEF Ranked, Climbing
    <3>4. Rank(qh, a) = 0 /\ Rank(qh, next[a]) \in 0..4 /\ Rank(qh, next[a]) # 0
      BY <1>1, <1>4, <3>2, <3>3, Ranks
    <3> QED BY <1>3, <1>4, <3>3, <3>4
  <2>2. /\ Climbing'
        /\ \A n, r : LastOf(n, r) /\ n # a => LastOf(n, r)'
        /\ next'[a] = q /\ next'[q] = next[a] /\ Periodic(0)' = Periodic(0) \cup {q}
    <3>1. Periodic(0)' = Periodic(0) \cup {q}
      BY <1>3, <1>4
    <3>2. Rank(qh', q) \in 0..4 /\ Rank(qh, a) <= Rank(qh', q) /\ next[a] # "end" /\ Rank(qh', q) <= Rank(qh, next[a])
      BY <1>3, <2>1
    <3>3. /\ \A n \in Node \ {q} : Rank(qh', n) = Rank(qh, n)
          /\ a \in Periodic(0) /\ q \in Node \ Periodic(0) /\ next' = Linked(a, q) /\ kind = "uhci"
      BY <1>1, <1>3, <1>6, <2>1
    <3>4. ListTypes /\ Lists /\ Ranked
      OBVIOUS
    <3> QED BY ONLY ZenonT(60), <3>1, <3>2, <3>3, <3>4, RankInsert
  <2>3. ASSUME NEW r \in {1, 2}, LastOf(a, r) PROVE LastOf(q, r)'
    <3>1. next[a] \in Periodic(0) /\ next[a] # "end" /\ Rank(qh, next[a]) > r
      BY <2>1, <2>3, Ranks DEF LastOf
    <3>2. Rank(qh', next[a]) = Rank(qh, next[a])
      BY <1>3, <2>1, <3>1, Ranks
    <3>3. q \in Periodic(0)' /\ Rank(qh', q) <= r
      BY <1>3, <2>2
    <3> QED BY <2>2, <3>1, <3>2, <3>3 DEF LastOf
  <2>4. LastOf(last.control, 1)'
    <3>1. LastOf(last.control, 1) /\ last'.control = IF last.control = a THEN q ELSE last.control
      BY <1>1, <1>6 DEF Ranked
    <3>2. LastOf(last.control, 1)' <=> (\E n : n = last'.control /\ LastOf(n, 1)')
      BY DEF LastOf
    <3>3. CASE last.control = a
      BY <2>3, <3>1, <3>2, <3>3 DEF LastOf
    <3>4. CASE last.control # a
      BY <2>2, <3>1, <3>2, <3>4
    <3> QED BY <3>3, <3>4
  <2>5. LastOf(last.bulk, 2)'
    <3>1. LastOf(last.bulk, 2) /\ last'.bulk = IF last.bulk = a THEN q ELSE last.bulk
      BY <1>1, <1>6 DEF Ranked
    <3>2. LastOf(last.bulk, 2)' <=> (\E n : n = last'.bulk /\ LastOf(n, 2)')
      BY DEF LastOf
    <3>3. CASE last.bulk = a
      BY <2>3, <3>1, <3>2, <3>3 DEF LastOf
    <3>4. CASE last.bulk # a
      BY <2>2, <3>1, <3>2, <3>4
    <3> QED BY <3>3, <3>4
  <2> QED BY <1>5, <2>2, <2>4, <2>5 DEF Ranked
<1>7. CASE kind # "uhci"
  BY <1>5, <1>7 DEF Ranked
<1> QED BY <1>6, <1>7

(* The frames of one period have the same pipes: those of that period and those of every frame. *)
LEMMA PeriodAlone ==
  ASSUME ListTypes, NEW e \in Nat \ {0}, NEW k \in Frame, k % (2 ^ e) = StartPos(e), NEW p \in Qh
  PROVE  Due(p, k) <=> qh[p].exp \in {0, e}
<1>1. qh[p].exp \in Nat /\ k \in Nat
  BY FrameZero DEF ListTypes, PipeTypes
<1> DEFINE d == qh[p].exp
<1>2. Due(p, k) <=> (d = 0 \/ k % (2 ^ d) = StartPos(d))
  BY DEF Due
<1> HIDE DEF d
<1>3. d \in Nat
  BY <1>1 DEF d
<1>4. ASSUME d # 0, d < e PROVE k % (2 ^ d) # StartPos(d)
  BY <1>1, <1>3, <1>4, PeriodsApart
<1>5. ASSUME d # 0, e < d PROVE k % (2 ^ d) # StartPos(d)
  BY <1>1, <1>3, <1>5, PeriodsApart
<1>6. d = 0 \/ d = e \/ (d # 0 /\ d < e) \/ (d # 0 /\ e < d)
  BY <1>3
<1>7. d = 0 \/ k % (2 ^ d) = StartPos(d) <=> d \in {0, e}
  BY <1>4, <1>5, <1>6
<1> QED BY <1>2, <1>7 DEF d

(* The frame list with a queue head for a period. *)
LEMMA PeriodFrames ==
  ASSUME ListTypes, NEW e \in 1..MaxExp, NEW q \in Qh, frames' = InFrames(q, e)
  PROVE  /\ e \in Nat \ {0} /\ StartPos(e) \in Frame /\ StartPos(e) % (2 ^ e) = StartPos(e)
         /\ \A k \in Frame : frames'[k] = IF k % (2 ^ e) = StartPos(e) THEN q ELSE frames[k]
         /\ 0 \in Frame /\ 0 % (2 ^ e) # StartPos(e)
<1>1. e \in Nat \ {0}
  OBVIOUS
<1>2. StartPos(e) \in Frame /\ StartPos(e) % (2 ^ e) = StartPos(e)
  BY FirstFrame DEF Frame
<1>3. \A k \in Frame : (k >= StartPos(e) /\ (k - StartPos(e)) % (2 ^ e) = 0) <=> k % (2 ^ e) = StartPos(e)
  BY <1>1, FrameZero, Period
<1>4. \A k \in Frame : frames'[k] = IF k % (2 ^ e) = StartPos(e) THEN q ELSE frames[k]
  BY <1>3 DEF InFrames, ListTypes
<1>5. 0 \in Frame /\ 0 % (2 ^ e) # StartPos(e)
  <2>1. 0 \in Frame /\ StartPos(e) \in Nat \ {0}
    BY <1>1, FrameZero, Period
  <2> QED BY <1>3, <2>1
<1> QED BY <1>1, <1>2, <1>4, <1>5

(* alloc_intr_pipe() keeps the lists: an interrupt pipe of some frames. *)
LEMMA PeriodLists ==
  ASSUME ListTypes, Owners, Lists, Ranked, NEW t \in Thread, NEW e \in 1..MaxExp, alloc_intr_pipe(t, e), kind' = kind
  PROVE  Lists' /\ Ranked'
<1>1. PICK q, h :
      /\ q \in Free
      /\ h = frames[StartPos(e)]
      /\ qh' = [qh EXCEPT ![q] = NewPipe("intr", e)] /\ next' = [next EXCEPT ![q] = h]
      /\ frames' = InFrames(q, e) /\ last' = last /\ th' = th
  <2>1. e # 0 /\ Malloc \in Free
    BY DEF alloc_intr_pipe, Malloc
  <2> QED BY <2>1 DEF alloc_intr_pipe
<1>2. Unlinking' = Unlinking
  BY <1>1 DEF Unlinking
<1>3. /\ q \in Qh /\ q \in Node /\ \A k \in Frame : q \notin Periodic(k)
      /\ q \notin InList /\ Pipes("intr") \subseteq Pipes("intr")' /\ q \in Pipes("intr")' /\ InList' = InList
      /\ \A k \in Frame : Periodic(k)' =
           IF InPeriod(e, k) THEN Periodic(k) \cup {q} ELSE Periodic(k)
      /\ \A n \in Node \ {q} : Rank(qh', n) = Rank(qh, n)
  <2>1. e \in 0..MaxExp /\ "intr" \in {"control", "bulk", "intr"} /\ q \in Free
    BY <1>1
  <2> HIDE DEF Free
  <2>2. q \in Qh /\ q \in Node
    BY <2>1, Names DEF Free
  <2>3. /\ \A k \in Frame : q \notin Periodic(k)
        /\ q \notin InList /\ InList' = InList
        /\ Pipes("intr") \subseteq Pipes("intr")' /\ q \in Pipes("intr")'
        /\ \A n \in Node \ {q} : Rank(qh', n) = Rank(qh, n)
    BY <1>1, <1>2, <2>1, NewPipes
  <2>4. \A k \in Frame : Periodic(k)' =
          IF e = 0 \/ InPeriod(e, k) THEN Periodic(k) \cup {q} ELSE Periodic(k)
    BY <1>1, <1>2, <2>1, NewPipes
  <2>5. e # 0
    OBVIOUS
  <2> QED BY <2>2, <2>3, <2>4, <2>5
<1>4. /\ e \in Nat \ {0} /\ StartPos(e) \in Frame /\ InPeriod(e, StartPos(e))
      /\ \A k \in Frame : frames'[k] = IF InPeriod(e, k) THEN q ELSE frames[k]
      /\ 0 \in Frame /\ ~InPeriod(e, 0)
  BY <1>1, <1>3, PeriodFrames DEF InPeriod
<1>5. next'[q] = h /\ \A n \in Node \ {q} : next'[n] = next[n]
  BY <1>1, <1>3 DEF ListTypes
<1>6. \A k \in Frame : Periodic(k) \subseteq Node
  BY PipeSets
<1>7. ASSUME NEW k \in Frame PROVE ListedIn(next', frames'[k], Periodic(k)', "end")
  <2>1. CASE InPeriod(e, k)
    <3>1. Periodic(k) = Periodic(StartPos(e))
      <4>1. \A p \in Qh : Due(p, k) <=> Due(p, StartPos(e))
        BY <1>4, <2>1, PeriodAlone DEF InPeriod
      <4> QED BY <4>1 DEF Periodic, Pipes
    <3>2. ListedIn(next, h, Periodic(k), "end")
      BY <1>1, <1>4, <3>1 DEF Lists
    <3>3. ListedIn(next', q, Periodic(k) \cup {q}, "end")
      BY <1>3, <1>5, <1>6, <3>2, PrependList
    <3> QED BY <1>3, <1>4, <2>1, <3>3
  <2>2. CASE ~InPeriod(e, k)
    <3>1. frames'[k] = frames[k] /\ Periodic(k)' = Periodic(k)
      BY <1>3, <1>4, <2>2
    <3>2. ListedIn(next, frames[k], Periodic(k), "end") /\ \A n \in Periodic(k) : next'[n] = next[n]
      BY <1>3, <1>5, <1>6 DEF Lists
    <3>3. ListedIn(next', frames[k], Periodic(k), "end")
      BY <3>2, SameList
    <3> QED BY <3>1, <3>3
  <2> QED BY <2>1, <2>2
<1>8. ASSUME kind # "uhci" PROVE ListedIn(next', ListHead, {ListHead} \cup InList', HeadEnd)
  <2>1. ListedIn(next, ListHead, {ListHead} \cup InList, HeadEnd)
    BY <1>8 DEF Lists
  <2>2. q # ListHead /\ ListHead \in Node /\ InList \subseteq Node
    BY <1>3, Names, PipeSets DEF ListHead, ListTypes
  <2> DEFINE c == {ListHead} \cup InList
  <2>3. \A n \in c : next'[n] = next[n]
    BY <1>3, <1>5, <2>2
  <2>4. ListedIn(next, ListHead, c, HeadEnd)
    BY <2>1
  <2> HIDE DEF c
  <2>5. ListedIn(next', ListHead, c, HeadEnd)
    BY <2>3, <2>4, SameList
  <2> QED BY <1>3, <2>5 DEF c
<1>9. Lists'
  <2>1. ListHead' = ListHead /\ HeadEnd' = HeadEnd /\ Frame' = Frame
    BY DEF ListHead, HeadEnd, Frame
  <2>2. frames'[0] = "intr"
    BY <1>4 DEF Lists
  <2>3. \A k \in Frame : frames'[k] \in {"intr"} \cup Pipes("intr")'
    BY <1>3, <1>4 DEF Lists
  <2> QED BY <1>7, <1>8, <2>1, <2>2, <2>3 DEF Lists
<1>10. ASSUME kind = "uhci" PROVE Climbing' /\ LastOf(last.control, 1)' /\ LastOf(last.bulk, 2)'
  <2>1. Periodic(0)' = Periodic(0) /\ q \notin Periodic(0) /\ Periodic(0) \subseteq Node
    BY <1>3, <1>4, <1>6
  <2>2. \A n \in Periodic(0) : next'[n] = next[n] /\ Rank(qh', n) = Rank(qh, n)
    BY <1>3, <1>5, <2>1
  <2>3. \A n \in Periodic(0) : next[n] # "end" => next[n] \in Periodic(0)
    BY Ranks
  <2>4. Climbing'
    BY <1>10, <2>1, <2>2, <2>3 DEF Ranked, Climbing
  <2>5. \A n, r : LastOf(n, r) => LastOf(n, r)'
    BY <2>1, <2>2, <2>3 DEF LastOf
  <2>6. \A n : (n = last'.control => (LastOf(last.control, 1)' <=> LastOf(n, 1)'))
            /\ (n = last'.bulk => (LastOf(last.bulk, 2)' <=> LastOf(n, 2)'))
    BY DEF LastOf
  <2> QED BY <1>1, <1>10, <2>4, <2>5, <2>6 DEF Ranked
<1> QED BY <1>9, <1>10 DEF Ranked

(* The list that a control pipe is taken out of, and what is before the    *)
(* pipe in it.                                                             *)
HeadList == IF kind = "uhci" THEN Periodic(0) ELSE {ListHead} \cup InList
(* The queue head that leads to a pipe in the list.                        *)
LEMMA PredIs ==
  ASSUME ListTypes, Lists, NEW q \in HeadList, q # ListHead
  PROVE  Pred(q) \in HeadList /\ next[Pred(q)] = q /\ OnPath(ListHead) = HeadList /\ Pred(q) # q
<1>1. PICK e : ListedIn(next, ListHead, HeadList, e)
  <2>1. CASE kind = "uhci"
    BY <2>1, FrameZero DEF Lists, HeadList, ListHead
  <2>2. CASE kind # "uhci"
    BY <2>2 DEF Lists, HeadList
  <2> QED BY <2>1, <2>2
<1>2. OnPath(ListHead) = HeadList
  BY <1>1, PathNow DEF OnPath, ListedIn, Members
<1>3. \E n \in HeadList : next[n] = q
  BY <1>1, ListLinks
<1>4. Pred(q) \in HeadList /\ next[Pred(q)] = q
  BY <1>2, <1>3 DEF Pred
<1>5. Pred(q) # q
  BY <1>1, <1>4, LinksApart
<1> QED BY <1>2, <1>4, <1>5

(* What free_pipe() does to the sets of pipes. *)
LEMMA OldPipe ==
  ASSUME ListTypes, Owners, NEW t \in Thread, free_pipe(t), kind' = kind, NEW q, q = th[t].q
  PROVE  /\ q \in Qh /\ qh[q].use = "control" /\ q \in InList /\ q \in HeadList /\ q # ListHead
         /\ Unlinking' = Unlinking \cup {q} /\ InList' = InList \ {q}
         /\ \A k \in Frame : Periodic(k)' = Periodic(k) \ {q}
<1>1. th[t].pc = "open" /\ qh' = qh /\ th' = [Wait(t, "pipe") EXCEPT ![t].saved = Stops]
  BY DEF free_pipe
<1>2. q \in Pipes("control") /\ q \in Qh /\ qh[q].use = "control"
  BY <1>1 DEF Owners, Pipes
<1>3. /\ th'[t].pc \in Waits /\ th'[t].what = "pipe" /\ th'[t].q = q
      /\ \A u \in Thread \ {t} : th'[u] = th[u]
  BY <1>1 DEF Wait, Waits, ListTypes
<1>4. /\ Unlinking = {th[u].q : u \in {u \in Thread : th[u].pc \in Waits /\ th[u].what = "pipe"}}
      /\ Unlinking' = {th'[u].q : u \in {u \in Thread : th'[u].pc \in Waits /\ th'[u].what = "pipe"}}
  BY DEF Unlinking, Waits
<1>5. th[t].pc \notin Waits
  BY <1>1 DEF Waits
<1>6. Unlinking' = Unlinking \cup {q}
  BY <1>3, <1>4, <1>5
<1>7. q \notin Unlinking
  <2>1. \A u \in Thread : th[u].pc \in Waits => th[u].q # q
    BY <1>1, <1>5 DEF Owners, Waits
  <2> QED BY <1>4, <2>1
<1>8. InList' = InList \ {q} /\ q \in InList
  BY <1>1, <1>2, <1>6, <1>7 DEF InList, Pipes
<1>9. q # "intr" /\ q # "term" /\ q # ListHead
  BY <1>2, Names DEF ListHead, ListTypes
<1>10. q \in HeadList
  BY <1>8 DEF HeadList, Periodic
<1>11. ASSUME NEW k \in Frame PROVE Periodic(k)' = Periodic(k) \ {q}
  <2>1. q \notin Pipes("intr") /\ Pipes("intr")' = Pipes("intr") /\ \A p \in Qh : Due(p, k)' = Due(p, k)
    BY <1>1, <1>2 DEF Pipes, Due
  <2>2. {p \in Pipes("intr") : Due(p, k)}' = {p \in Pipes("intr") : Due(p, k)} \ {q}
    BY <2>1 DEF Pipes
  <2> QED BY <1>8, <1>9, <2>2 DEF Periodic
<1> QED BY <1>2, <1>6, <1>8, <1>9, <1>10, <1>11

(* free_pipe() keeps the lists. *)
LEMMA FreeLists ==
  ASSUME ListTypes, Owners, Lists, Ranked, NEW t \in Thread, free_pipe(t), kind' = kind
  PROVE  Lists' /\ Ranked'
<1>1. PICK q, a :
      /\ q = th[t].q /\ a = Pred(q)
      /\ next' = [next EXCEPT ![a] = next[q]] /\ frames' = frames /\ qh' = qh
      /\ last' = IF kind = "uhci" THEN MovedBack(q) ELSE last
  BY DEF free_pipe, Unlinked
<1>2. /\ q \in Qh /\ qh[q].use = "control" /\ q \in InList /\ q \in HeadList /\ q # ListHead
      /\ InList' = InList \ {q}
      /\ \A k \in Frame : Periodic(k)' = Periodic(k) \ {q}
  BY <1>1, OldPipe
<1>3. a \in HeadList /\ next[a] = q /\ a # q
  BY <1>1, <1>2, PredIs
<1>4. /\ 0 \in Frame /\ \A k \in Frame : Periodic(0) \subseteq Periodic(k) /\ Periodic(k) \subseteq Node
      /\ InList \subseteq Node /\ ListHead \in Node
  BY FrameZero, PipeSets, Names DEF ListHead, ListTypes
<1>5. a \in Node /\ q \in Node /\ q # "end"
  BY <1>2, <1>3, <1>4, Names DEF HeadList
<1>6. next'[a] = next[q] /\ \A n \in Node \ {a} : next'[n] = next[n]
  BY <1>1, <1>5 DEF ListTypes
<1>7. ASSUME NEW k \in Frame PROVE ListedIn(next', frames'[k], Periodic(k)', "end")
  <2>1. ListedIn(next, frames[k], Periodic(k), "end")
    BY DEF Lists
  <2>2. CASE kind = "uhci"
    <3>1. a \in Periodic(k) /\ q \in Periodic(k)
      BY <1>2, <1>3, <1>4, <2>2 DEF HeadList
    <3>2. q # frames[k]
      BY <1>2, Names DEF Lists, Pipes
    <3>3. \A n \in Periodic(k) \ {a, q} : next'[n] = next[n]
      BY <1>4, <1>6
    <3>4. ListedIn(next', frames[k], Periodic(k) \ {q}, "end")
      BY <1>3, <1>5, <1>6, <2>1, <3>1, <3>2, <3>3, RemoveList
    <3> QED BY <1>1, <1>2, <3>4
  <2>3. CASE kind # "uhci"
    <3>1. Periodic(k) = {"intr"} \cup {p \in Pipes("intr") : Due(p, k)}
      BY <2>3 DEF Periodic
    <3>2. a \notin Periodic(k) /\ q \notin Periodic(k)
      <4>1. ListHead \in {"async", "control"} /\ a \in {ListHead} \cup InList
        BY <1>3, <2>3 DEF HeadList, ListHead, ListTypes
      <4>2. ListHead \notin Periodic(k) /\ InList \cap Periodic(k) = {}
        BY <3>1, <4>1, Names DEF InList, Pipes
      <4> QED BY <1>2, <4>1, <4>2
    <3>3. Periodic(k)' = Periodic(k) /\ \A n \in Periodic(k) : next'[n] = next[n]
      BY <1>2, <1>4, <1>6, <3>2
    <3> QED BY ZenonT(60), <1>1, <2>1, <3>3, SameList
  <2> QED BY <2>2, <2>3
<1>8. ASSUME kind # "uhci" PROVE ListedIn(next', ListHead, {ListHead} \cup InList', HeadEnd)
  <2> DEFINE c == {ListHead} \cup InList
  <2>1. ListedIn(next, ListHead, c, HeadEnd)
    BY <1>8 DEF Lists
  <2>2. a \in c /\ q \in c /\ {ListHead} \cup InList' = c \ {q} /\ c \subseteq Node
    BY <1>2, <1>3, <1>4, <1>8 DEF HeadList
  <2> HIDE DEF c
  <2> QED BY <1>2, <1>3, <1>5, <1>6, <2>1, <2>2, RemoveList
<1>9. Lists'
  <2>1. ListHead' = ListHead /\ HeadEnd' = HeadEnd /\ Frame' = Frame /\ Pipes("intr")' = Pipes("intr")
    BY <1>1 DEF ListHead, HeadEnd, Frame, Pipes
  <2> QED BY <1>1, <1>7, <1>8, <2>1 DEF Lists
<1>10. ASSUME kind = "uhci" PROVE Climbing' /\ LastOf(last.control, 1)' /\ LastOf(last.bulk, 2)'
  <2>1. /\ Periodic(0)' = Periodic(0) \ {q} /\ a \in Periodic(0) \ {q} /\ q \in Periodic(0)
        /\ \A n \in Periodic(0) : Rank(qh, n) \in 0..4
        /\ \A n \in Periodic(0) : next[n] \in Periodic(0) \cup {"end"}
        /\ \A n \in Periodic(0) \ {a} : next'[n] = next[n]
    BY <1>2, <1>3, <1>4, <1>6, <1>10, Ranks DEF HeadList
  <2>2. Rank(qh, q) = 2 /\ q # "term" /\ \A n : Rank(qh', n) = Rank(qh, n)
    BY <1>1, <1>2, Names DEF Rank
  <2>3. next[q] # "end" /\ next[q] \in Periodic(0) /\ Rank(qh, next[q]) >= 2 /\ Rank(qh, a) <= 2
    <3>1. \A n \in Periodic(0) : IF next[n] = "end" THEN n = "term" ELSE Rank(qh, n) <= Rank(qh, next[n])
      BY <1>10 DEF Ranked, Climbing
    <3>2. next[q] # "end" /\ Rank(qh, q) <= Rank(qh, next[q])
      BY <2>1, <2>2, <3>1
    <3>3. Rank(qh, a) <= Rank(qh, q)
      BY <1>3, <1>5, <2>1, <3>1
    <3> QED BY <2>1, <2>2, <3>2, <3>3
  <2>4. ASSUME NEW n \in Periodic(0)'
        PROVE  IF next'[n] = "end" THEN n = "term" ELSE Rank(qh', n) <= Rank(qh', next'[n])
    <3>1. CASE n = a
      <4>1. next'[n] = next[q] /\ Rank(qh, n) <= Rank(qh, next[q])
        BY <1>6, <2>1, <2>3, <3>1
      <4> QED BY <2>2, <2>3, <4>1
    <3>2. CASE n # a
      <4>1. next'[n] = next[n] /\ n \in Periodic(0)
        BY <2>1, <3>2
      <4> QED BY <1>10, <2>2, <4>1 DEF Ranked, Climbing
    <3> QED BY <3>1, <3>2
  <2>5. Climbing'
    BY <2>4 DEF Climbing
  <2>6. ASSUME NEW n, NEW r \in {1, 2}, n # q, LastOf(n, r) PROVE LastOf(n, r)'
    <3>1. n \in Periodic(0)' /\ Rank(qh', n) <= r
      BY <2>1, <2>2, <2>6 DEF LastOf
    <3>2. CASE n # a
      <4>1. next'[n] = next[n]
        BY <2>1, <3>1, <3>2
      <4> QED BY <2>2, <2>6, <3>1, <4>1 DEF LastOf
    <3>3. CASE n = a
      <4>1. r = 1
        BY <1>3, <2>2, <2>6, <3>3 DEF LastOf
      <4>2. next'[n] = next[q] /\ next'[n] # "end" /\ Rank(qh', next'[n]) > r
        BY <1>6, <2>1, <2>2, <2>3, <3>3, <4>1
      <4> QED BY <3>1, <4>2 DEF LastOf
    <3> QED BY <3>2, <3>3
  <2>7. last'.control = (IF last.control = q THEN a ELSE last.control)
          /\ last'.bulk = (IF last.bulk = q THEN a ELSE last.bulk)
    BY <1>1, <1>10 DEF MovedBack
  <2>8. LastOf(last.control, 1) /\ LastOf(last.bulk, 2)
    BY <1>10 DEF Ranked
  <2>9. \A n : (n = last'.control => (LastOf(last.control, 1)' <=> LastOf(n, 1)'))
            /\ (n = last'.bulk => (LastOf(last.bulk, 2)' <=> LastOf(n, 2)'))
    BY DEF LastOf
  <2>10. LastOf(last.control, 1)'
    <3>1. last.control # q
      BY <2>2, <2>8 DEF LastOf
    <3> QED BY <2>6, <2>7, <2>8, <2>9, <3>1
  <2>11. LastOf(last.bulk, 2)'
    <3>1. CASE last.bulk # q
      BY <2>6, <2>7, <2>8, <2>9, <3>1
    <3>2. CASE last.bulk = q
      <4>1. next'[a] = next[q] /\ next'[a] # "end" /\ Rank(qh', next'[a]) > 2
        <5>1. Rank(qh, next[q]) > 2
          BY <2>8, <3>2 DEF LastOf
        <5> QED BY <1>6, <2>2, <2>3, <5>1
      <4>2. LastOf(a, 2)'
        BY <2>1, <2>2, <2>3, <4>1 DEF LastOf
      <4> QED BY <2>7, <2>9, <3>2, <4>2
    <3> QED BY <3>1, <3>2
  <2> QED BY <2>5, <2>10, <2>11
<1> QED BY <1>9, <1>10 DEF Ranked

(* The types by name.                                                      *)
HwTypes == [pos : Node \cup {"end"}, hold : BOOLEAN, on : BOOLEAN, cle : BOOLEAN, iaad : BOOLEAN,
            iaa : BOOLEAN]
ThreadTypes == [pc : {"idle", "open", "wait"} \cup Waits, q : Qh \cup {"none"}, moved : BOOLEAN,
                saved : BOOLEAN, what : {"tds", "pipe"}]

(* A pipe changed in a part is a pipe. *)
LEMMA PipeParts ==
  /\ \A use \in {"free", "control", "bulk", "intr"}, exp \in 0..MaxExp : NewPipe(use, exp) \in PipeTypes
  /\ \A use \in {"free", "control", "bulk", "intr"} : NewPipe(use, 0) \in PipeTypes
  /\ \A r \in PipeTypes, e \in {"td", "term"}, s, d, l \in BOOLEAN :
       [r EXCEPT !.el = e, !.skip = s, !.tds = d, !.late = l] \in PipeTypes
  /\ \A r \in PipeTypes, e \in {"td", "term"}, s, d, l \in BOOLEAN :
       /\ [r EXCEPT !.skip = s, !.tds = d] \in PipeTypes
       /\ [r EXCEPT !.skip = s, !.late = l, !.el = e] \in PipeTypes
       /\ [r EXCEPT !.tds = d] \in PipeTypes /\ [r EXCEPT !.el = e] \in PipeTypes
<1>1. ASSUME NEW use \in {"free", "control", "bulk", "intr"}, NEW exp \in 0..MaxExp
      PROVE  NewPipe(use, exp) \in PipeTypes
  BY DEF PipeTypes, NewPipe
<1>2. ASSUME NEW r \in PipeTypes, NEW e \in {"td", "term"}, NEW s \in BOOLEAN, NEW d \in BOOLEAN, NEW l \in BOOLEAN
      PROVE  /\ [r EXCEPT !.el = e, !.skip = s, !.tds = d, !.late = l] \in PipeTypes
             /\ [r EXCEPT !.skip = s, !.tds = d] \in PipeTypes
             /\ [r EXCEPT !.skip = s, !.late = l, !.el = e] \in PipeTypes
             /\ [r EXCEPT !.tds = d] \in PipeTypes /\ [r EXCEPT !.el = e] \in PipeTypes
  BY DEF PipeTypes
<1>3. 0 \in 0..MaxExp
  OBVIOUS
<1> QED BY ZenonT(60), <1>1, <1>2, <1>3

(* The types of what the calls of the threads change. *)
LEMMA CallTypes ==
  ASSUME ListTypes, Owners, Lists, kind' = kind, NEW t \in Thread,
         \/ alloc_control_pipe(t) \/ alloc_bulk_pipe(t)
         \/ \E e \in 0..MaxExp : alloc_intr_pipe(t, e)
         \/ free_pipe(t)
         \/ control(t) \/ control_done(t) \/ control_timeout(t)
         \/ waittick(t) \/ ehci_waittick(t)
  PROVE  ListTypes'
<1>1. /\ kind' \in {"uhci", "ehci", "ohci"} /\ Frame' = Frame
      /\ qh \in [Qh -> PipeTypes] /\ next \in [Node -> Node \cup {"end"}] /\ frames \in [Frame -> Node]
      /\ last \in [control : Node, bulk : Node] /\ hw \in HwTypes /\ th \in [Thread -> ThreadTypes]
      /\ "intr" \in Node /\ Qh \subseteq Node
  BY Names DEF ListTypes, HwTypes, ThreadTypes, Frame
<1>2. SUFFICES /\ qh' \in [Qh -> PipeTypes] /\ next' \in [Node -> Node \cup {"end"}] /\ frames' \in [Frame -> Node]
               /\ last' \in [control : Node, bulk : Node] /\ hw' \in HwTypes /\ th' \in [Thread -> ThreadTypes]
  BY <1>1 DEF ListTypes, HwTypes, ThreadTypes, Frame
<1>3. ASSUME NEW w \in {"tds", "pipe"} PROVE Wait(t, w) \in [Thread -> ThreadTypes]
  <2> DEFINE r == [th[t] EXCEPT !.pc = IF kind = "ehci" THEN "bell" ELSE "tick",
                                !.moved = FALSE, !.saved = FALSE, !.what = w]
  <2>1. r \in ThreadTypes
    <3>1. th[t] \in ThreadTypes
      BY <1>1
    <3> QED BY <3>1 DEF ThreadTypes, Waits
  <2>2. Wait(t, w) = [th EXCEPT ![t] = r]
    BY DEF Wait
  <2> HIDE DEF r
  <2> QED BY <1>1, <2>1, <2>2
<1>4. Idle \in ThreadTypes
  BY DEF Idle, ThreadTypes
<1>5. CASE alloc_control_pipe(t)
  <2>1. PICK q, a :
          /\ q \in Free
          /\ qh' = [qh EXCEPT ![q] = NewPipe("control", 0)] /\ next' = [next EXCEPT ![q] = next[a], ![a] = q]
          /\ last' = IF kind = "uhci" /\ last.bulk = last.control THEN [last EXCEPT !.bulk = q] ELSE last
          /\ th' = [th EXCEPT ![t] = [@ EXCEPT !.pc = "open", !.q = q]]
          /\ frames' = frames /\ hw' = hw /\ a = ControlAt
    BY <1>5 DEF alloc_control_pipe, Malloc, Linked
  <2>2. q \in Qh /\ a \in Node
    BY <1>1, <2>1, Names DEF Free, ControlAt, ListTypes
  <2>3. qh' \in [Qh -> PipeTypes]
    <3>1. NewPipe("control", 0) \in PipeTypes
      BY PipeParts
    <3> QED BY <1>1, <2>1, <3>1
  <2>4. th' \in [Thread -> ThreadTypes]
    <3>1. [th[t] EXCEPT !.pc = "open", !.q = q] \in ThreadTypes
      <4>1. th[t] \in ThreadTypes
        BY <1>1
      <4> QED BY <2>2, <4>1 DEF ThreadTypes
    <3> QED BY <1>1, <2>1, <3>1
  <2>5. next' \in [Node -> Node \cup {"end"}] /\ last' \in [control : Node, bulk : Node]
    BY <1>1, <2>1, <2>2
  <2> QED BY <1>1, <2>1, <2>3, <2>4, <2>5
<1>6. CASE alloc_bulk_pipe(t)
  <2>1. PICK q, a :
          /\ q \in Free
          /\ qh' = [qh EXCEPT ![q] = NewPipe("bulk", 0)] /\ next' = [next EXCEPT ![q] = next[a], ![a] = q]
          /\ last' = last /\ th' = th /\ frames' = frames /\ hw' = hw /\ a = BulkAt
    BY <1>6 DEF alloc_bulk_pipe, Malloc, Linked
  <2>2. q \in Qh /\ a \in Node
    BY <1>1, <2>1, Names DEF Free, BulkAt, ControlAt, ListTypes
  <2>3. qh' \in [Qh -> PipeTypes]
    <3>1. NewPipe("bulk", 0) \in PipeTypes
      BY PipeParts
    <3> QED BY <1>1, <2>1, <3>1
  <2>4. next' \in [Node -> Node \cup {"end"}]
    BY <1>1, <2>1, <2>2
  <2> QED BY <1>1, <2>1, <2>3, <2>4
<1>7. ASSUME NEW e \in 0..MaxExp, alloc_intr_pipe(t, e)
      PROVE  /\ qh' \in [Qh -> PipeTypes] /\ next' \in [Node -> Node \cup {"end"}] /\ frames' \in [Frame -> Node]
             /\ last' \in [control : Node, bulk : Node] /\ hw' \in HwTypes /\ th' \in [Thread -> ThreadTypes]
  <2>1. PICK q \in Free :
          /\ qh' = [qh EXCEPT ![q] = NewPipe("intr", e)] /\ hw' = hw /\ th' = th
          /\ \/ /\ next' = [next EXCEPT ![q] = next["intr"], !["intr"] = q] /\ frames' = frames
                /\ last' = [control |-> IF last.control = "intr" THEN q ELSE last.control,
                            bulk |-> IF last.bulk = "intr" THEN q ELSE last.bulk]
             \/ /\ e # 0 /\ next' = [next EXCEPT ![q] = frames[StartPos(e)]]
                /\ frames' = InFrames(q, e) /\ last' = last
    BY <1>7 DEF alloc_intr_pipe, Malloc, Linked
  <2>2. q \in Qh /\ DOMAIN frames = Frame
    BY <1>1 DEF Free
  <2>3. qh' \in [Qh -> PipeTypes]
    BY <1>1, <2>1, <2>2, PipeParts
  <2>4. CASE /\ next' = [next EXCEPT ![q] = next["intr"], !["intr"] = q] /\ frames' = frames
             /\ last' = [control |-> IF last.control = "intr" THEN q ELSE last.control,
                         bulk |-> IF last.bulk = "intr" THEN q ELSE last.bulk]
    BY <1>1, <2>1, <2>2, <2>3, <2>4
  <2>5. CASE /\ e # 0 /\ next' = [next EXCEPT ![q] = frames[StartPos(e)]]
             /\ frames' = InFrames(q, e) /\ last' = last
    <3>1. StartPos(e) \in Frame
      <4>1. e \in 1..MaxExp
        BY <2>5
      <4> QED BY <4>1, FirstFrame DEF Frame
    <3>2. next' \in [Node -> Node \cup {"end"}]
      BY <1>1, <2>2, <2>5, <3>1
    <3>3. frames' \in [Frame -> Node]
      BY <1>1, <2>2, <2>5 DEF InFrames
    <3> QED BY <1>1, <2>1, <2>3, <2>5, <3>2, <3>3
  <2> QED BY <2>1, <2>4, <2>5
<1>8. CASE free_pipe(t)
  <2>1. PICK q, a :
          /\ q = th[t].q /\ a = Pred(q) /\ next' = [next EXCEPT ![a] = next[q]]
          /\ last' = IF kind = "uhci" THEN MovedBack(q) ELSE last
          /\ hw' = IF Stops THEN [hw EXCEPT !.cle = FALSE] ELSE hw
          /\ th' = [Wait(t, "pipe") EXCEPT ![t].saved = Stops] /\ qh' = qh /\ frames' = frames
    BY <1>8 DEF free_pipe, Unlinked
  <2>2. q \in Qh /\ a \in Node
    <3>1. q \in Qh /\ q \in HeadList /\ q # ListHead
      BY <1>8, <2>1, OldPipe
    <3>2. a \in HeadList
      BY <2>1, <3>1, PredIs
    <3>3. HeadList \subseteq Node
      BY PipeSets, FrameZero, Names DEF HeadList, ListHead, ListTypes
    <3> QED BY <3>1, <3>2, <3>3
  <2>3. next' \in [Node -> Node \cup {"end"}]
    BY <1>1, <2>1, <2>2
  <2>4. last' \in [control : Node, bulk : Node]
    BY <1>1, <2>1, <2>2 DEF MovedBack
  <2>5. hw' \in HwTypes
    BY <1>1, <2>1 DEF HwTypes
  <2>6. th' \in [Thread -> ThreadTypes]
    <3>1. Wait(t, "pipe") \in [Thread -> ThreadTypes] /\ Stops \in BOOLEAN
      BY <1>1, <1>3 DEF Stops, HwTypes
    <3>2. [Wait(t, "pipe")[t] EXCEPT !.saved = Stops] \in ThreadTypes
      BY <3>1 DEF ThreadTypes
    <3> QED BY <2>1, <3>1, <3>2
  <2> QED BY <1>1, <2>1, <2>3, <2>4, <2>5, <2>6
<1>9. CASE control(t)
  <2>1. [th[t] EXCEPT !.pc = "wait"] \in ThreadTypes
    BY <1>1 DEF ThreadTypes
  <2> QED BY <1>1, <1>9, <2>1, PipeParts DEF control
<1>10. CASE control_done(t)
  <2>1. [th[t] EXCEPT !.pc = "open"] \in ThreadTypes
    BY <1>1 DEF ThreadTypes
  <2> QED BY <1>1, <1>10, <2>1, PipeParts DEF control_done
<1>11. CASE control_timeout(t)
  <2>1. PICK q, r :
          /\ q = th[t].q
          /\ r = [qh[q] EXCEPT !.skip = kind # "uhci", !.late = TRUE,
                               !.el = IF kind = "ohci" THEN qh[q].el ELSE "term"]
    OBVIOUS
  <2>2. /\ qh' = [qh EXCEPT ![q] = r] /\ th' = Wait(t, "tds")
        /\ next' = next /\ frames' = frames /\ last' = last /\ hw' = hw
    BY <1>11, <2>1 DEF control_timeout
  <2>3. q \in Qh
    BY <1>11, <2>1 DEF control_timeout, Owners, Pipes
  <2>4. r \in PipeTypes
    <3>1. qh[q] \in PipeTypes /\ qh[q].el \in {"td", "term"}
      BY <1>1, <2>3 DEF PipeTypes
    <3> QED BY <2>1, <3>1, PipeParts
  <2> QED BY <1>1, <1>3, <2>2, <2>4
<1>12. ASSUME Freed(t), th[t].pc # "idle"
       PROVE  qh' \in [Qh -> PipeTypes] /\ th' \in [Thread -> ThreadTypes]
  <2>1. th[t].q \in Qh
    BY <1>12 DEF Owners, Pipes
  <2>2. CASE th[t].what = "tds"
    <3>1. [Idle EXCEPT !.pc = "open", !.q = th[t].q] \in ThreadTypes
      BY <2>1 DEF Idle, ThreadTypes
    <3>2. [qh[th[t].q] EXCEPT !.tds = FALSE] \in PipeTypes
      BY <1>1, <2>1, PipeParts
    <3>3. /\ qh' = [qh EXCEPT ![th[t].q] = [qh[th[t].q] EXCEPT !.tds = FALSE]]
          /\ th' = [th EXCEPT ![t] = [Idle EXCEPT !.pc = "open", !.q = th[t].q]]
      BY <1>12, <2>2 DEF Freed
    <3> QED BY <1>1, <3>1, <3>2, <3>3
  <2>3. CASE th[t].what # "tds"
    <3>1. NewPipe("free", 0) \in PipeTypes
      BY PipeParts
    <3>2. /\ qh' = [qh EXCEPT ![th[t].q] = NewPipe("free", 0)]
          /\ th' = [th EXCEPT ![t] = Idle]
      BY <1>12, <2>3 DEF Freed
    <3> QED BY <1>1, <1>4, <3>1, <3>2
  <2> QED BY <2>2, <2>3
<1>13. CASE waittick(t)
  <2>1. hw' \in HwTypes
    BY <1>1, <1>13 DEF waittick, Restart, HwTypes
  <2> QED BY <1>1, <1>12, <1>13, <2>1 DEF waittick
<1>14. CASE ehci_waittick(t)
  <2>1. next' = next /\ frames' = frames /\ last' = last
    BY <1>14 DEF ehci_waittick
  <2>2. CASE hw' = hw /\ qh' = qh /\ th' = [th EXCEPT ![t].pc = "bellcmd"]
    <3>1. [th[t] EXCEPT !.pc = "bellcmd"] \in ThreadTypes
      BY <1>1 DEF ThreadTypes, Waits
    <3> QED BY <1>1, <2>1, <2>2, <3>1
  <2>3. CASE hw' = hw /\ qh' = qh /\ th' = [th EXCEPT ![t].pc = "bell"]
    <3>1. [th[t] EXCEPT !.pc = "bell"] \in ThreadTypes
      BY <1>1 DEF ThreadTypes, Waits
    <3> QED BY <1>1, <2>1, <2>3, <3>1
  <2>4. CASE hw' = [hw EXCEPT !.iaad = TRUE] /\ qh' = qh /\ th' = [th EXCEPT ![t].pc = "rung"]
    <3>1. [th[t] EXCEPT !.pc = "rung"] \in ThreadTypes
      BY <1>1 DEF ThreadTypes, Waits
    <3>2. hw' \in HwTypes
      BY <1>1, <2>4 DEF HwTypes
    <3> QED BY <1>1, <2>1, <2>4, <3>1, <3>2
  <2>5. CASE hw' = [hw EXCEPT !.iaa = FALSE] /\ Freed(t) /\ th[t].pc = "rung"
    <3>1. hw' \in HwTypes
      BY <1>1, <2>5 DEF HwTypes
    <3> QED BY <1>1, <1>12, <2>1, <2>5, <3>1
  <2> QED BY <1>14, <2>2, <2>3, <2>4, <2>5 DEF ehci_waittick
<1> QED BY <1>5, <1>6, <1>7, <1>8, <1>9, <1>10, <1>11, <1>13, <1>14

(* What is left alone when no pipe is allocated or freed. *)
SameUses == \A q \in Qh : qh'[q].use = qh[q].use /\ qh'[q].exp = qh[q].exp

(* The same uses give the same lists.                                      *)
LEMMA SameSets ==
  ASSUME SameUses, Unlinking' = Unlinking, kind' = kind
  PROVE  /\ \A u : Pipes(u)' = Pipes(u)
         /\ Free' = Free /\ InList' = InList /\ \A k : Periodic(k)' = Periodic(k)
         /\ \A n \in Node : Rank(qh', n) = Rank(qh, n)
<1>1. \A u : Pipes(u)' = Pipes(u)
  BY DEF SameUses, Pipes
<1>2. Free' = Free
  BY DEF SameUses, Free
<1>3. InList' = InList
  BY <1>1 DEF InList
<1>4. ASSUME NEW k PROVE Periodic(k)' = Periodic(k)
  <2>1. \A q \in Qh : Due(q, k)' = Due(q, k)
    BY DEF SameUses, Due
  <2>2. {q \in Pipes("intr") : Due(q, k)}' = {q \in Pipes("intr") : Due(q, k)}
    BY <1>1, <2>1 DEF Pipes
  <2> QED BY <1>3, <2>2 DEF Periodic
<1>5. \A n \in Node : Rank(qh', n) = Rank(qh, n)
  BY DEF SameUses, Rank
<1> QED BY <1>1, <1>2, <1>3, <1>4, <1>5

(* The lists are what they were. *)
LEMMA ListsStay ==
  ASSUME ListTypes, Lists, Ranked, kind' = kind, next' = next, frames' = frames, last' = last,
         InList' = InList, Pipes("intr")' = Pipes("intr"), \A k \in Frame : Periodic(k)' = Periodic(k),
         \A n \in Periodic(0) : Rank(qh', n) = Rank(qh, n)
  PROVE  Lists' /\ Ranked'
<1>1. ListHead' = ListHead /\ HeadEnd' = HeadEnd /\ Frame' = Frame
  BY DEF ListHead, HeadEnd, Frame
<1>2. Lists'
  BY <1>1 DEF Lists
<1>3. ASSUME kind = "uhci" PROVE Climbing' /\ LastOf(last.control, 1)' /\ LastOf(last.bulk, 2)'
  <2>1. /\ 0 \in Frame /\ Periodic(0)' = Periodic(0)
        /\ \A n \in Periodic(0) : next[n] # "end" => next[n] \in Periodic(0)
    BY FrameZero, Ranks
  <2>2. Climbing /\ LastOf(last.control, 1) /\ LastOf(last.bulk, 2)
    BY <1>3 DEF Ranked
  <2>3. Climbing'
    BY <2>1, <2>2 DEF Climbing
  <2>4. \A n, r : LastOf(n, r) => LastOf(n, r)'
    BY <2>1 DEF LastOf
  <2>5. \A n : n = last' => (LastOf(last.control, 1)' <=> LastOf(n.control, 1)')
                         /\ (LastOf(last.bulk, 2)' <=> LastOf(n.bulk, 2)')
    BY DEF LastOf
  <2> QED BY <2>2, <2>3, <2>4, <2>5
<1> QED BY <1>2, <1>3 DEF Ranked

(* A thread's step keeps the owners. *)
LEMMA OwnersStep ==
  ASSUME ListTypes, Owners, kind' = kind, NEW t \in Thread, \A u \in Thread \ {t} : th'[u] = th[u],
         \A u \in Thread \ {t} : th[u].pc # "idle" => th[u].q \in Pipes("control")',
         th'[t].pc # "idle" => /\ th'[t].q \in Pipes("control")'
                               /\ \A u \in Thread \ {t} : th[u].pc # "idle" => th[u].q # th'[t].q,
         th'[t].pc \in Waits => (th'[t].pc = "tick" <=> kind # "ehci")
  PROVE  Owners'
<1>1. \A u \in Thread : th'[u].pc # "idle" => th'[u].q \in Pipes("control")'
  OBVIOUS
<1>2. \A u, v \in Thread : th'[u].pc # "idle" /\ th'[v].pc # "idle" /\ th'[u].q = th'[v].q => u = v
  BY DEF Owners
<1>3. \A u \in Thread : th'[u].pc \in Waits => (th'[u].pc = "tick" <=> kind' # "ehci")
  BY DEF Owners
<1> QED BY <1>1, <1>2, <1>3 DEF Owners, Waits

(* The thread that steps keeps its pipe.                                   *)
LEMMA OwnersSame ==
  ASSUME ListTypes, Owners, kind' = kind, NEW t \in Thread, \A u \in Thread \ {t} : th'[u] = th[u],
         Pipes("control") \subseteq Pipes("control")', th[t].pc # "idle", th'[t].q = th[t].q,
         th'[t].pc \in Waits => (th'[t].pc = "tick" <=> kind # "ehci")
  PROVE  Owners'
<1>1. /\ \A u \in Thread : th[u].pc # "idle" => th[u].q \in Pipes("control")
      /\ \A u \in Thread \ {t} : th[u].pc # "idle" => th[u].q # th[t].q
  BY DEF Owners
<1>2. /\ \A u \in Thread \ {t} : th[u].pc # "idle" => th[u].q \in Pipes("control")'
      /\ th'[t].q \in Pipes("control")'
      /\ \A u \in Thread \ {t} : th[u].pc # "idle" => th[u].q # th'[t].q
  BY <1>1
<1> QED BY <1>2, OwnersStep

(* The same pipes are unlinked but not yet freed. *)
LEMMA StillUnlinking ==
  ASSUME NEW t \in Thread, \A u \in Thread \ {t} : th'[u] = th[u],
         (th[t].pc \in Waits /\ th[t].what = "pipe") <=> (th'[t].pc \in Waits /\ th'[t].what = "pipe"),
         th'[t].q = th[t].q
  PROVE  Unlinking' = Unlinking
<1>1. {u \in Thread : th'[u].pc \in Waits /\ th'[u].what = "pipe"}
        = {u \in Thread : th[u].pc \in Waits /\ th[u].what = "pipe"}
  OBVIOUS
<1>2. \A u \in Thread : th'[u].q = th[u].q
  OBVIOUS
<1>3. /\ Unlinking = {th[u].q : u \in {u \in Thread : th[u].pc \in Waits /\ th[u].what = "pipe"}}
      /\ Unlinking' = {th'[u].q : u \in {u \in Thread : th'[u].pc \in Waits /\ th'[u].what = "pipe"}}
  BY DEF Unlinking, Waits
<1> QED BY <1>1, <1>2, <1>3

(* The calls that neither link nor free a pipe. *)
LEMMA QuietCalls ==
  ASSUME ListTypes, Owners, Lists, Ranked, kind' = kind, NEW t \in Thread,
         \/ control(t) \/ control_done(t) \/ control_timeout(t)
         \/ waittick(t) /\ th[t].what = "tds"
         \/ ehci_waittick(t) /\ (th[t].pc # "rung" \/ th[t].what = "tds")
  PROVE  SameUses /\ Unlinking' = Unlinking /\ Owners' /\ Lists' /\ Ranked'
<1>1. next' = next /\ frames' = frames /\ last' = last
  BY DEF control, control_done, control_timeout, waittick, ehci_waittick
<1>2. SUFFICES /\ SameUses /\ th[t].pc # "idle" /\ \A u \in Thread \ {t} : th'[u] = th[u]
               /\ th'[t].q = th[t].q
               /\ (th[t].pc \in Waits /\ th[t].what = "pipe") <=> (th'[t].pc \in Waits /\ th'[t].what = "pipe")
               /\ th'[t].pc \in Waits => (th'[t].pc = "tick" <=> kind # "ehci")
  <2>1. Unlinking' = Unlinking
    BY <1>2, StillUnlinking
  <2>2. /\ \A u : Pipes(u)' = Pipes(u)
        /\ InList' = InList /\ \A k : Periodic(k)' = Periodic(k)
        /\ \A n \in Node : Rank(qh', n) = Rank(qh, n)
    BY <1>2, <2>1, SameSets
  <2>3. Periodic(0) \subseteq Node
    BY PipeSets, FrameZero
  <2>4. Owners'
    BY <1>2, <2>2, OwnersSame
  <2>5. Lists' /\ Ranked'
    BY <1>1, <2>2, <2>3, ListsStay
  <2> QED BY <1>2, <2>1, <2>4, <2>5
<1>3. qh \in [Qh -> PipeTypes] /\ th \in [Thread -> ThreadTypes]
  BY DEF ListTypes, ThreadTypes
<1>4. ASSUME NEW q, NEW r, qh' = [qh EXCEPT ![q] = r], q \in Qh => r.use = qh[q].use /\ r.exp = qh[q].exp
      PROVE  SameUses
  BY <1>3, <1>4 DEF SameUses
<1>5. ASSUME NEW r, th' = [th EXCEPT ![t] = r]
      PROVE  (\A u \in Thread \ {t} : th'[u] = th[u]) /\ th'[t] = r
  BY <1>3, <1>5
<1>6. th[t].pc # "idle" => th[t].q \in Qh /\ qh[th[t].q] \in PipeTypes
  BY <1>3 DEF Owners, Pipes
<1>7. CASE control(t)
  <2>1. PICK q, r, x :
          /\ q = th[t].q
          /\ r = [qh[q] EXCEPT !.el = "td", !.skip = FALSE, !.tds = TRUE, !.late = FALSE]
          /\ x = [th[t] EXCEPT !.pc = "wait"]
    OBVIOUS
  <2>2. th[t].pc = "open" /\ qh' = [qh EXCEPT ![q] = r] /\ th' = [th EXCEPT ![t] = x]
    BY <1>7, <2>1 DEF control
  <2>3. SameUses
    <3>1. r.use = qh[q].use /\ r.exp = qh[q].exp
      BY <1>6, <2>1, <2>2 DEF PipeTypes
    <3> QED BY <1>4, <2>2, <3>1
  <2>4. x.pc = "wait" /\ x.q = th[t].q
    BY <1>3, <2>1 DEF ThreadTypes
  <2> QED BY <1>5, <2>2, <2>3, <2>4 DEF Waits
<1>8. CASE control_done(t)
  <2>1. PICK q, r, x :
          /\ q = th[t].q
          /\ r = [qh[q] EXCEPT !.skip = kind # "uhci", !.tds = FALSE]
          /\ x = [th[t] EXCEPT !.pc = "open"]
    OBVIOUS
  <2>2. th[t].pc = "wait" /\ qh' = [qh EXCEPT ![q] = r] /\ th' = [th EXCEPT ![t] = x]
    BY <1>8, <2>1 DEF control_done
  <2>3. SameUses
    <3>1. r.use = qh[q].use /\ r.exp = qh[q].exp
      BY <1>6, <2>1, <2>2 DEF PipeTypes
    <3> QED BY <1>4, <2>2, <3>1
  <2>4. x.pc = "open" /\ x.q = th[t].q
    BY <1>3, <2>1 DEF ThreadTypes
  <2> QED BY <1>5, <2>2, <2>3, <2>4 DEF Waits
<1>9. CASE control_timeout(t)
  <2>1. PICK q, r, x :
          /\ q = th[t].q
          /\ r = [qh[q] EXCEPT !.skip = kind # "uhci", !.late = TRUE,
                               !.el = IF kind = "ohci" THEN qh[q].el ELSE "term"]
          /\ x = [th[t] EXCEPT !.pc = IF kind = "ehci" THEN "bell" ELSE "tick",
                               !.moved = FALSE, !.saved = FALSE, !.what = "tds"]
    OBVIOUS
  <2>2. th[t].pc = "wait" /\ qh' = [qh EXCEPT ![q] = r] /\ th' = [th EXCEPT ![t] = x]
    BY <1>9, <2>1 DEF control_timeout, Wait
  <2>3. SameUses
    <3>1. r.use = qh[q].use /\ r.exp = qh[q].exp
      BY <1>6, <2>1, <2>2 DEF PipeTypes
    <3> QED BY <1>4, <2>2, <3>1
  <2>4. x.pc = (IF kind = "ehci" THEN "bell" ELSE "tick") /\ x.q = th[t].q /\ x.what = "tds"
    BY <1>3, <2>1 DEF ThreadTypes
  <2> QED BY <1>5, <2>2, <2>3, <2>4 DEF Waits
<1>10. ASSUME Freed(t), th[t].what = "tds", th[t].pc \in Waits
       PROVE  /\ SameUses /\ th[t].pc # "idle" /\ \A u \in Thread \ {t} : th'[u] = th[u]
              /\ th'[t].q = th[t].q /\ th'[t].pc \notin Waits
  <2>1. PICK q, r, x :
          /\ q = th[t].q /\ r = [qh[q] EXCEPT !.tds = FALSE]
          /\ x = [Idle EXCEPT !.pc = "open", !.q = th[t].q]
    OBVIOUS
  <2>2. qh' = [qh EXCEPT ![q] = r] /\ th' = [th EXCEPT ![t] = x] /\ th[t].pc # "idle"
    BY <1>10, <2>1 DEF Freed, Waits
  <2>3. SameUses
    <3>1. r.use = qh[q].use /\ r.exp = qh[q].exp
      BY <1>6, <2>1, <2>2 DEF PipeTypes
    <3> QED BY <1>4, <2>2, <3>1
  <2>4. x.pc = "open" /\ x.q = th[t].q
    BY <2>1 DEF Idle
  <2> QED BY <1>5, <2>2, <2>3, <2>4 DEF Waits
<1>11. CASE waittick(t) /\ th[t].what = "tds"
  <2>1. Freed(t) /\ th[t].pc \in Waits
    BY <1>11 DEF waittick, Waits
  <2> QED BY <1>10, <1>11, <2>1
<1>12. CASE ehci_waittick(t) /\ (th[t].pc # "rung" \/ th[t].what = "tds")
  <2>1. kind = "ehci"
    BY <1>12 DEF ehci_waittick
  <2>2. ASSUME NEW p \in {"bell", "bellcmd", "rung"}, th' = [th EXCEPT ![t].pc = p], qh' = qh,
               th[t].pc \in {"bell", "bellcmd"}
        PROVE  /\ SameUses /\ th[t].pc # "idle" /\ \A u \in Thread \ {t} : th'[u] = th[u]
               /\ th'[t].q = th[t].q
               /\ (th[t].pc \in Waits /\ th[t].what = "pipe") <=> (th'[t].pc \in Waits /\ th'[t].what = "pipe")
               /\ th'[t].pc \in Waits => (th'[t].pc = "tick" <=> kind # "ehci")
    <3>1. PICK x : x = [th[t] EXCEPT !.pc = p]
      OBVIOUS
    <3>2. x.pc = p /\ x.q = th[t].q /\ x.what = th[t].what
      BY <1>3, <3>1 DEF ThreadTypes
    <3>3. th' = [th EXCEPT ![t] = x]
      BY <2>2, <3>1
    <3>4. (\A u \in Thread \ {t} : th'[u] = th[u]) /\ th'[t] = x
      BY <1>5, <3>3
    <3>5. SameUses
      BY <2>2 DEF SameUses
    <3> QED BY <2>1, <2>2, <3>2, <3>4, <3>5 DEF Waits
  <2>3. CASE th[t].pc = "bell" /\ th' = [th EXCEPT ![t].pc = "bellcmd"] /\ qh' = qh
    BY <2>2, <2>3
  <2>4. CASE th[t].pc = "bellcmd" /\ th' = [th EXCEPT ![t].pc = "bell"] /\ qh' = qh
    BY <2>2, <2>4
  <2>5. CASE th[t].pc = "bellcmd" /\ th' = [th EXCEPT ![t].pc = "rung"] /\ qh' = qh
    BY <2>2, <2>5
  <2>6. CASE th[t].pc = "rung" /\ Freed(t)
    <3>1. th[t].pc \in Waits /\ th[t].what = "tds"
      BY <1>12, <2>6 DEF Waits
    <3> QED BY <1>10, <2>6, <3>1
  <2> QED BY <1>12, <2>3, <2>4, <2>5, <2>6 DEF ehci_waittick
<1> QED BY <1>7, <1>8, <1>9, <1>11, <1>12

(* A pipe is freed. *)
LEMMA FreedCalls ==
  ASSUME ListTypes, Owners, Lists, Ranked, kind' = kind, NEW t \in Thread, th[t].what = "pipe",
         waittick(t) \/ (ehci_waittick(t) /\ th[t].pc = "rung")
  PROVE  /\ th[t].q \in Qh /\ qh' = [qh EXCEPT ![th[t].q] = NewPipe("free", 0)] /\ th' = [th EXCEPT ![t] = Idle]
         /\ InList' = InList /\ Unlinking' = Unlinking \ {th[t].q} /\ th[t].q \in Unlinking
         /\ Free' = Free \cup {th[t].q} /\ Owners' /\ Lists' /\ Ranked'
<1>1. PICK q :
        /\ q = th[t].q /\ qh' = [qh EXCEPT ![q] = NewPipe("free", 0)] /\ th' = [th EXCEPT ![t] = Idle]
        /\ next' = next /\ frames' = frames /\ last' = last /\ th[t].pc \in Waits
  BY DEF waittick, ehci_waittick, Freed, Waits
<1>2. qh \in [Qh -> PipeTypes] /\ th \in [Thread -> ThreadTypes]
  BY DEF ListTypes, ThreadTypes
<1>3. /\ th[t].pc # "idle" /\ q \in Qh /\ q \in Pipes("control") /\ qh[q].use = "control"
      /\ \A u \in Thread \ {t} : th[u].pc # "idle" => th[u].q # q /\ th[u].q \in Pipes("control")
  BY <1>1 DEF Owners, Waits, Pipes
<1>4. (\A u \in Thread \ {t} : th'[u] = th[u]) /\ th'[t].pc = "idle"
  BY <1>1, <1>2 DEF Idle
<1>5. (\A p \in Qh \ {q} : qh'[p] = qh[p]) /\ qh'[q].use = "free"
  BY <1>1, <1>2, <1>3 DEF NewPipe
<1>6. Unlinking' = Unlinking \ {q} /\ q \in Unlinking
  <2>1. /\ Unlinking = {th[u].q : u \in {u \in Thread : th[u].pc \in Waits /\ th[u].what = "pipe"}}
        /\ Unlinking' = {th'[u].q : u \in {u \in Thread : th'[u].pc \in Waits /\ th'[u].what = "pipe"}}
    BY DEF Unlinking, Waits
  <2>2. \A p : p \in Unlinking' <=> \E u \in Thread \ {t} : th[u].pc \in Waits /\ th[u].what = "pipe" /\ th[u].q = p
    BY <1>4, <2>1 DEF Waits
  <2>3. \A p : p \in Unlinking <=> \E u \in Thread : th[u].pc \in Waits /\ th[u].what = "pipe" /\ th[u].q = p
    BY <2>1
  <2>4. \A u \in Thread \ {t} : th[u].pc \in Waits => th[u].q # q
    BY <1>3 DEF Waits
  <2>5. th[t].pc \in Waits /\ th[t].what = "pipe" /\ th[t].q = q
    BY <1>1
  <2> QED BY <2>2, <2>3, <2>4, <2>5
<1>7. /\ Pipes("control")' = Pipes("control") \ {q} /\ Pipes("bulk")' = Pipes("bulk")
      /\ Pipes("intr")' = Pipes("intr") /\ Free' = Free \cup {q}
  BY <1>3, <1>5 DEF Pipes, Free
<1>8. InList' = InList
  BY <1>3, <1>6, <1>7 DEF InList, Pipes
<1>9. ASSUME NEW k \in Frame PROVE Periodic(k)' = Periodic(k) /\ q \notin Periodic(k)
  <2>1. q \notin Pipes("intr") /\ q \notin InList /\ q # "intr" /\ q # "term"
    BY <1>3, <1>6, Names DEF InList, Pipes
  <2>2. \A p \in Pipes("intr") : Due(p, k)' = Due(p, k)
    BY <1>5, <2>1 DEF Pipes, Due
  <2>3. {p \in Pipes("intr") : Due(p, k)}' = {p \in Pipes("intr") : Due(p, k)}
    BY <1>7, <2>2
  <2> QED BY <1>8, <2>1, <2>3 DEF Periodic
<1>10. \A n \in Periodic(0) : Rank(qh', n) = Rank(qh, n)
  BY <1>5, <1>9, FrameZero DEF Rank
<1>11. Owners'
  BY <1>3, <1>4, <1>7, OwnersStep DEF Waits
<1>12. Lists' /\ Ranked'
  BY <1>1, <1>7, <1>8, <1>9, <1>10, ListsStay
<1> QED BY <1>1, <1>3, <1>6, <1>7, <1>8, <1>11, <1>12

(* The steps of the controller. *)
LEMMA HwKeeps ==
  ASSUME ListTypes, Owners, Lists, Ranked, kind' = kind, kind = "ehci" => hw.pos # "end",
         hw_move \/ hw_frame \/ hw_fetch \/ hw_retire
  PROVE  ListTypes' /\ SameUses /\ Unlinking' = Unlinking /\ Owners' /\ Lists' /\ Ranked'
<1>1. /\ next' = next /\ frames' = frames /\ last' = last /\ Frame' = Frame
      /\ qh \in [Qh -> PipeTypes] /\ next \in [Node -> Node \cup {"end"}] /\ frames \in [Frame -> Node]
      /\ hw \in HwTypes /\ th \in [Thread -> ThreadTypes] /\ "control" \in Node
  BY Names DEF hw_move, hw_frame, hw_fetch, hw_retire, ListTypes, HwTypes, ThreadTypes, Frame
<1>2. SUFFICES /\ hw' \in HwTypes /\ qh' \in [Qh -> PipeTypes] /\ SameUses
               /\ th' \in [Thread -> ThreadTypes]
               /\ \A t \in Thread : th'[t].pc = th[t].pc /\ th'[t].q = th[t].q /\ th'[t].what = th[t].what
  <2>1. Unlinking' = Unlinking
    <3>1. {u \in Thread : th'[u].pc \in Waits /\ th'[u].what = "pipe"}
            = {u \in Thread : th[u].pc \in Waits /\ th[u].what = "pipe"}
      BY <1>2
    <3>2. /\ Unlinking = {th[u].q : u \in {u \in Thread : th[u].pc \in Waits /\ th[u].what = "pipe"}}
          /\ Unlinking' = {th'[u].q : u \in {u \in Thread : th'[u].pc \in Waits /\ th'[u].what = "pipe"}}
      BY DEF Unlinking, Waits
    <3> QED BY <1>2, <3>1, <3>2
  <2>2. /\ \A u : Pipes(u)' = Pipes(u)
        /\ InList' = InList /\ \A k : Periodic(k)' = Periodic(k)
        /\ \A n \in Node : Rank(qh', n) = Rank(qh, n)
    BY <1>2, <2>1, SameSets
  <2>3. Periodic(0) \subseteq Node
    BY PipeSets, FrameZero
  <2>4. Owners'
    <3>1. /\ \A t \in Thread : th[t].pc # "idle" => th[t].q \in Pipes("control")
          /\ \A t, u \in Thread : th[t].pc # "idle" /\ th[u].pc # "idle" /\ th[t].q = th[u].q => t = u
          /\ \A t \in Thread : th[t].pc \in Waits => (th[t].pc = "tick" <=> kind # "ehci")
      BY DEF Owners
    <3>2. /\ \A t \in Thread : th'[t].pc # "idle" => th'[t].q \in Pipes("control")'
          /\ \A t, u \in Thread : th'[t].pc # "idle" /\ th'[u].pc # "idle" /\ th'[t].q = th'[u].q => t = u
          /\ \A t \in Thread : th'[t].pc \in Waits => (th'[t].pc = "tick" <=> kind' # "ehci")
      BY <1>2, <2>2, <3>1
    <3> QED BY <3>2 DEF Owners, Waits
  <2>5. Lists' /\ Ranked'
    BY <1>1, <2>2, <2>3, ListsStay
  <2>6. ListTypes'
    BY <1>1, <1>2 DEF ListTypes, HwTypes, ThreadTypes, Frame
  <2> QED BY <1>2, <2>1, <2>4, <2>5, <2>6
<1>3. ASSUME qh' = qh PROVE qh' \in [Qh -> PipeTypes] /\ SameUses
  BY <1>1, <1>3 DEF SameUses
<1>4. ASSUME th' = th
      PROVE  /\ th' \in [Thread -> ThreadTypes]
             /\ \A t \in Thread : th'[t].pc = th[t].pc /\ th'[t].q = th[t].q /\ th'[t].what = th[t].what
  BY <1>1, <1>4
<1>5. CASE hw_move
  <2>1. PICK to, i, j : hw' = [hw EXCEPT !.pos = to, !.iaa = i, !.iaad = j]
                        /\ to \in Node \cup {"end"} /\ i \in BOOLEAN /\ j \in BOOLEAN
    <3>1. CASE kind # "ehci" /\ Active /\ hw' = [hw EXCEPT !.pos = next[hw.pos]]
      <4>1. hw' = [hw EXCEPT !.pos = next[hw.pos], !.iaa = hw.iaa, !.iaad = hw.iaad]
        BY <1>1, <3>1 DEF HwTypes
      <4>2. next[hw.pos] \in Node \cup {"end"} /\ hw.iaa \in BOOLEAN /\ hw.iaad \in BOOLEAN
        BY <1>1, <3>1 DEF Active, HwTypes
      <4> QED BY <4>1, <4>2
    <3>2. CASE kind = "ohci" /\ hw' = [hw EXCEPT !.pos = next["control"]]
      <4>1. hw' = [hw EXCEPT !.pos = next["control"], !.iaa = hw.iaa, !.iaad = hw.iaad]
        BY <1>1, <3>2 DEF HwTypes
      <4>2. next["control"] \in Node \cup {"end"} /\ hw.iaa \in BOOLEAN /\ hw.iaad \in BOOLEAN
        BY <1>1 DEF HwTypes
      <4> QED BY <4>1, <4>2
    <3>3. CASE kind = "ehci"
      <4>1. PICK to, rings : /\ to = next[hw.pos] /\ rings = (hw.iaad /\ to = "async")
                             /\ hw' = [hw EXCEPT !.pos = to, !.iaa = hw.iaa \/ rings, !.iaad = hw.iaad /\ ~rings]
        BY <1>5, <3>3 DEF hw_move
      <4>2. to \in Node \cup {"end"} /\ (hw.iaa \/ rings) \in BOOLEAN /\ (hw.iaad /\ ~rings) \in BOOLEAN
        BY <1>1, <3>3, <4>1 DEF HwTypes
      <4> QED BY <4>1, <4>2
    <3> QED BY <1>5, <3>1, <3>2, <3>3 DEF hw_move
  <2>2. hw' \in HwTypes
    BY <1>1, <2>1 DEF HwTypes
  <2>3. qh' = qh /\ th' = th
    BY <1>5 DEF hw_move
  <2> QED BY <1>3, <1>4, <2>2, <2>3
<1>6. CASE hw_frame
  <2>1. qh' = qh /\ th' = [t \in Thread |-> [th[t] EXCEPT !.moved = th[t].pc = "tick"]]
    BY <1>6 DEF hw_frame
  <2>2. hw' \in HwTypes
    <3>1. CASE \E k \in DOMAIN frames : hw' = [hw EXCEPT !.pos = frames[k]]
      BY <1>1, <3>1 DEF HwTypes
    <3>2. CASE hw' = [hw EXCEPT !.on = hw.cle]
      BY <1>1, <3>2 DEF HwTypes
    <3> QED BY <1>6, <3>1, <3>2 DEF hw_frame
  <2>3. ASSUME NEW t \in Thread
        PROVE  /\ th'[t] \in ThreadTypes /\ th'[t].pc = th[t].pc /\ th'[t].q = th[t].q
               /\ th'[t].what = th[t].what
    <3>1. th'[t] = [th[t] EXCEPT !.moved = th[t].pc = "tick"] /\ th[t] \in ThreadTypes
      BY <1>1, <2>1
    <3> QED BY <3>1 DEF ThreadTypes
  <2>4. th' \in [Thread -> ThreadTypes]
    BY <2>1, <2>3
  <2> QED BY <1>3, <2>1, <2>2, <2>3, <2>4
<1>7. ASSUME NEW e \in {"td", "term"}, qh' = [qh EXCEPT ![hw.pos].el = e]
      PROVE  qh' \in [Qh -> PipeTypes] /\ SameUses
  <2>1. PICK r : r = [qh[hw.pos] EXCEPT !.el = e]
    OBVIOUS
  <2>2. qh' = [qh EXCEPT ![hw.pos] = r]
    BY <1>7, <2>1
  <2>3. CASE hw.pos \in Qh
    <3>1. r \in PipeTypes /\ r.use = qh[hw.pos].use /\ r.exp = qh[hw.pos].exp
      BY <1>1, <2>1, <2>3 DEF PipeTypes
    <3> QED BY <1>1, <2>2, <2>3, <3>1 DEF SameUses
  <2>4. CASE hw.pos \notin Qh
    <3>1. qh' = qh
      BY <1>1, <2>2, <2>4
    <3> QED BY <1>3, <3>1
  <2> QED BY <2>3, <2>4
<1>8. CASE hw_fetch
  <2>1. th' = th /\ \E e \in {"td", "term"} : qh' = [qh EXCEPT ![hw.pos].el = e]
    BY <1>8 DEF hw_fetch
  <2>2. hw' \in HwTypes
    BY <1>1, <1>8 DEF hw_fetch, HwTypes
  <2> QED BY <1>4, <1>7, <2>1, <2>2
<1>9. CASE hw_retire
  <2>1. th' = th /\ hw' \in HwTypes
    BY <1>1, <1>9 DEF hw_retire, HwTypes
  <2>2. PICK e : e \in (IF kind = "ehci" THEN {qh[hw.pos].el} ELSE {"td", "term"}) /\ qh' = [qh EXCEPT ![hw.pos].el = e]
    BY <1>9 DEF hw_retire
  <2>3. CASE hw.pos \in Qh
    <3>1. e \in {"td", "term"}
      BY <1>1, <2>2, <2>3 DEF PipeTypes
    <3> QED BY <1>4, <1>7, <2>1, <2>2, <3>1
  <2>4. CASE hw.pos \notin Qh
    <3>1. qh' = qh
      BY <1>1, <2>2, <2>4
    <3> QED BY <1>3, <1>4, <2>1, <3>1
  <2> QED BY <2>3, <2>4
<1> QED BY <1>5, <1>6, <1>8, <1>9

(* Each thread has its own control pipe still when one is allocated or     *)
(* unlinked.                                                               *)
LEMMA LinkOwners ==
  ASSUME ListTypes, Owners, kind' = kind, NEW t \in Thread,
         \/ alloc_control_pipe(t) \/ alloc_bulk_pipe(t)
         \/ \E e \in 0..MaxExp : alloc_intr_pipe(t, e)
         \/ free_pipe(t)
  PROVE  Owners'
<1>1. qh \in [Qh -> PipeTypes] /\ th \in [Thread -> ThreadTypes]
  BY DEF ListTypes, ThreadTypes
<1>2. ASSUME NEW q \in Free, NEW use, NEW exp, qh' = [qh EXCEPT ![q] = NewPipe(use, exp)]
      PROVE  /\ Pipes("control") \subseteq Pipes("control")' /\ q \notin Pipes("control")
             /\ use = "control" => q \in Pipes("control")'
  BY <1>1, <1>2 DEF Free, Pipes, NewPipe
<1>3. CASE alloc_control_pipe(t)
  <2>1. PICK q, x :
          /\ q \in Free
          /\ qh' = [qh EXCEPT ![q] = NewPipe("control", 0)] /\ th[t].pc = "idle"
          /\ x = [th[t] EXCEPT !.pc = "open", !.q = q] /\ th' = [th EXCEPT ![t] = x]
    BY <1>3 DEF alloc_control_pipe, Malloc
  <2>2. x.pc = "open" /\ x.q = q /\ (\A u \in Thread \ {t} : th'[u] = th[u]) /\ th'[t] = x
    BY <1>1, <2>1 DEF ThreadTypes
  <2>3. /\ Pipes("control") \subseteq Pipes("control")' /\ q \notin Pipes("control")
        /\ q \in Pipes("control")'
    BY <1>2, <2>1
  <2>4. \A u \in Thread : th[u].pc # "idle" => th[u].q \in Pipes("control")
    BY DEF Owners
  <2> QED BY <2>2, <2>3, <2>4, OwnersStep DEF Waits
<1>4. CASE alloc_bulk_pipe(t) \/ \E e \in 0..MaxExp : alloc_intr_pipe(t, e)
  <2>1. th' = th /\ th[t].pc = "open" /\ \E q \in Free : \E use, exp : qh' = [qh EXCEPT ![q] = NewPipe(use, exp)]
    <3>1. CASE alloc_bulk_pipe(t)
      <4>1. /\ th' = th /\ th[t].pc = "open" /\ Malloc \in Free
            /\ qh' = [qh EXCEPT ![Malloc] = NewPipe("bulk", 0)]
        BY <3>1 DEF alloc_bulk_pipe, Malloc
      <4> QED BY <4>1
    <3>2. ASSUME NEW e \in 0..MaxExp, alloc_intr_pipe(t, e)
          PROVE  /\ th' = th /\ th[t].pc = "open"
                 /\ \E q \in Free : \E use, exp : qh' = [qh EXCEPT ![q] = NewPipe(use, exp)]
      <4>1. /\ th' = th /\ th[t].pc = "open" /\ Malloc \in Free
            /\ qh' = [qh EXCEPT ![Malloc] = NewPipe("intr", e)]
        BY <3>2 DEF alloc_intr_pipe, Malloc
      <4> QED BY <4>1
    <3> QED BY <1>4, <3>1, <3>2
  <2>2. Pipes("control") \subseteq Pipes("control")'
    BY <1>2, <2>1
  <2> QED BY <2>1, <2>2, OwnersSame DEF Waits
<1>5. CASE free_pipe(t)
  <2>1. th[t].pc = "open" /\ qh' = qh /\ th' = [Wait(t, "pipe") EXCEPT ![t].saved = Stops]
    BY <1>5 DEF free_pipe
  <2>2. PICK x : x = [th[t] EXCEPT !.pc = IF kind = "ehci" THEN "bell" ELSE "tick",
                                   !.moved = FALSE, !.saved = FALSE, !.what = "pipe"]
    OBVIOUS
  <2>3. Wait(t, "pipe") = [th EXCEPT ![t] = x]
    BY <2>2 DEF Wait
  <2>4. /\ x.pc = (IF kind = "ehci" THEN "bell" ELSE "tick") /\ x.q = th[t].q
        /\ x \in ThreadTypes
    BY <1>1, <2>2 DEF ThreadTypes, Waits
  <2>5. PICK y : y = [x EXCEPT !.saved = Stops]
    OBVIOUS
  <2>6. y.pc = x.pc /\ y.q = x.q
    BY <2>4, <2>5 DEF ThreadTypes
  <2>7. th' = [th EXCEPT ![t] = y]
    BY <1>1, <2>1, <2>3, <2>5
  <2>8. (\A u \in Thread \ {t} : th'[u] = th[u]) /\ th'[t].q = th[t].q
        /\ th'[t].pc = (IF kind = "ehci" THEN "bell" ELSE "tick")
    BY <1>1, <2>4, <2>6, <2>7
  <2>9. Pipes("control") \subseteq Pipes("control")'
    BY <2>1 DEF Pipes
  <2> QED BY <2>1, <2>8, <2>9, OwnersSame
<1> QED BY <1>3, <1>4, <1>5

(* Every step keeps the lists.                                             *)
ListsKept == ListTypes /\ Owners /\ Lists /\ Ranked

(* A thread links, unlinks or frees; the controller changes no link.       *)
LEMMA StepLists ==
  ASSUME ListsKept, kind' = kind, kind = "ehci" => hw.pos # "end", ListNext
  PROVE  ListsKept'
<1>1. ListTypes /\ Owners /\ Lists /\ Ranked
  BY DEF ListsKept
<1>2. CASE hw_move \/ hw_frame \/ hw_fetch \/ hw_retire
  BY <1>1, <1>2, HwKeeps DEF ListsKept
<1>3. ASSUME NEW t \in Thread,
             \/ alloc_control_pipe(t) \/ alloc_bulk_pipe(t)
             \/ \E e \in 0..MaxExp : alloc_intr_pipe(t, e)
             \/ free_pipe(t)
      PROVE  ListsKept'
  <2>1. Owners' /\ ListTypes'
    BY <1>1, <1>3, LinkOwners, CallTypes
  <2>2. CASE alloc_control_pipe(t)
    BY <1>1, <2>1, <2>2, ControlLists DEF ListsKept
  <2>3. CASE alloc_bulk_pipe(t)
    BY <1>1, <2>1, <2>3, BulkLists DEF ListsKept
  <2>4. CASE free_pipe(t)
    BY <1>1, <2>1, <2>4, FreeLists DEF ListsKept
  <2>5. CASE alloc_intr_pipe(t, 0)
    BY <1>1, <2>1, <2>5, EveryFrameLists DEF ListsKept
  <2>6. ASSUME NEW e \in 1..MaxExp, alloc_intr_pipe(t, e) PROVE ListsKept'
    BY <1>1, <2>1, <2>6, PeriodLists DEF ListsKept
  <2>7. \A e \in 0..MaxExp : e = 0 \/ e \in 1..MaxExp
    OBVIOUS
  <2> QED BY <1>3, <2>2, <2>3, <2>4, <2>5, <2>6, <2>7
<1>4. ASSUME NEW t \in Thread, control(t) \/ control_done(t) \/ control_timeout(t) \/ waittick(t) \/ ehci_waittick(t)
      PROVE  ListsKept'
  <2>1. ListTypes'
    BY <1>1, <1>4, CallTypes
  <2>2. CASE th[t].what = "pipe" /\ (waittick(t) \/ (ehci_waittick(t) /\ th[t].pc = "rung"))
    BY <1>1, <2>1, <2>2, FreedCalls DEF ListsKept
  <2>3. CASE ~(th[t].what = "pipe" /\ (waittick(t) \/ (ehci_waittick(t) /\ th[t].pc = "rung")))
    <3>1. th[t].what \in {"tds", "pipe"}
      BY <1>1 DEF ListTypes
    <3>2. \/ control(t) \/ control_done(t) \/ control_timeout(t)
          \/ waittick(t) /\ th[t].what = "tds"
          \/ ehci_waittick(t) /\ (th[t].pc # "rung" \/ th[t].what = "tds")
      <4>1. CASE th[t].what = "tds"
        BY <1>4, <4>1
      <4>2. CASE th[t].what = "pipe" /\ ~waittick(t) /\ ~(ehci_waittick(t) /\ th[t].pc = "rung")
        BY <1>4, <4>2
      <4> QED BY <2>3, <3>1, <4>1, <4>2
    <3> QED BY <1>1, <2>1, <3>2, QuietCalls DEF ListsKept
  <2> QED BY <2>2, <2>3
<1> QED BY <1>2, <1>3, <1>4 DEF ListNext

-----------------------------------------------------------------------------
(* What the calls do, as far as the controller is concerned.               *)

(* A thread's pipe that the controller has left, for it has begun another  *)
(* frame or round since the pipe was taken out of the list.                *)
Passed(t) == (th[t].pc = "tick" /\ th[t].moved) \/ (th[t].pc \in {"bellcmd", "rung"} /\ hw.iaa)
Gone == {th[t].q : t \in {t \in Thread : th[t].what = "pipe" /\ Passed(t)}}

(* No more pipes are left by the step of one thread. *)
LEMMA GoneStep ==
  ASSUME NEW t \in Thread, \A u \in Thread \ {t} : th'[u] = th[u], hw'.iaa => hw.iaa,
         Passed(t)' => Passed(t) /\ th'[t].what = th[t].what /\ th'[t].q = th[t].q
  PROVE  Gone' \subseteq Gone
<1>1. ASSUME NEW u \in Thread, th'[u].what = "pipe", Passed(u)'
      PROVE  th[u].what = "pipe" /\ Passed(u) /\ th'[u].q = th[u].q
  <2>1. CASE u = t
    BY <1>1, <2>1
  <2>2. CASE u # t
    BY <1>1, <2>2 DEF Passed
  <2> QED BY <2>1, <2>2
<1>2. Gone' = {th'[u].q : u \in {u \in Thread : th'[u].what = "pipe" /\ Passed(u)'}}
  BY DEF Gone
<1> QED BY <1>1, <1>2 DEF Gone

(* What the controller has left is neither free nor in a list.             *)
LEMMA GoneUnlinking ==
  ASSUME ListTypes, Owners
  PROVE  Gone \subseteq Unlinking /\ Gone \cap Free = {} /\ Unlinking \cap Free = {}
<1>1. Gone \subseteq Unlinking
  BY DEF Gone, Unlinking, Passed
<1>2. Unlinking \cap Free = {}
  BY PipeSets DEF Pipes, Free
<1> QED BY <1>1, <1>2

(* A thread that allocates a pipe. *)
AllocEffect(t, q) ==
  /\ q \in Free /\ q \in Qh /\ (\E use \in {"control", "bulk", "intr"}, e \in 0..MaxExp : qh' = [qh EXCEPT ![q] = NewPipe(use, e)])
  /\ hw' = hw /\ \A u \in Thread \ {t} : th'[u] = th[u]
  /\ th[t].pc \in {"idle", "open"} /\ th'[t].pc = "open" /\ th'[t].saved = th[t].saved
  /\ (\E a \in Node : next' = Linked(a, q)) \/ (\E m : next' = [next EXCEPT ![q] = m])
  /\ Unlinking' = Unlinking /\ Free' \subseteq Free \ {q} /\ InList \subseteq InList' /\ Gone' \subseteq Gone

(* The three allocations.                                                  *)
LEMMA Allocates ==
  ASSUME ListTypes, Owners, kind' = kind, NEW t \in Thread,
         \/ alloc_control_pipe(t) \/ alloc_bulk_pipe(t)
         \/ \E e \in 0..MaxExp : alloc_intr_pipe(t, e)
  PROVE  \E q : AllocEffect(t, q)
<1>1. th \in [Thread -> ThreadTypes] /\ qh \in [Qh -> PipeTypes] /\ last \in [control : Node, bulk : Node]
  BY DEF ListTypes, ThreadTypes
<1>2. ASSUME NEW q, q \in Free, NEW use \in {"control", "bulk", "intr"}, NEW e \in 0..MaxExp,
             qh' = [qh EXCEPT ![q] = NewPipe(use, e)], hw' = hw,
             \A u \in Thread \ {t} : th'[u] = th[u],
             th[t].pc \in {"idle", "open"}, th'[t].pc = "open", th'[t].saved = th[t].saved,
             (\E a \in Node : next' = Linked(a, q)) \/ (\E m : next' = [next EXCEPT ![q] = m])
      PROVE  AllocEffect(t, q)
  <2>1. Unlinking' = Unlinking
    BY <1>2, SameUnlinking DEF Waits
  <2>2. InList \subseteq InList' /\ q \in Qh /\ qh'[q] = NewPipe(use, e) /\ \A p \in Qh : p # q => qh'[p] = qh[p]
    <3>1. q \in Free /\ qh' = [qh EXCEPT ![q] = NewPipe(use, e)]
      BY <1>2
    <3>2. InList' = IF use = "intr" THEN InList ELSE InList \cup {q}
      BY <2>1, <3>1, NewPipes
    <3>3. q \in Qh
      BY <3>1 DEF Free
    <3> QED BY <1>1, <3>1, <3>2, <3>3
  <2>3. Free' \subseteq Free \ {q}
    BY <2>2 DEF Free, NewPipe
  <2>4. Gone' \subseteq Gone
    <3>1. ~Passed(t)'
      BY <1>2 DEF Passed
    <3> QED BY <1>2, <3>1, GoneStep
  <2> QED BY <1>2, <2>1, <2>2, <2>3, <2>4 DEF AllocEffect
<1>3. CASE alloc_control_pipe(t)
  <2>1. PICK q, x :
          /\ q \in Free /\ qh' = [qh EXCEPT ![q] = NewPipe("control", 0)] /\ th[t].pc = "idle" /\ hw' = hw
          /\ x = [th[t] EXCEPT !.pc = "open", !.q = q] /\ th' = [th EXCEPT ![t] = x]
          /\ next' = Linked(ControlAt, q)
    BY <1>3 DEF alloc_control_pipe, Malloc
  <2>2. x.pc = "open" /\ x.saved = th[t].saved
    BY <1>1, <2>1 DEF ThreadTypes
  <2>3. (\A u \in Thread \ {t} : th'[u] = th[u]) /\ th'[t] = x
    BY <1>1, <2>1
  <2>4. ControlAt \in Node
    BY <1>1, Names DEF ControlAt, ListTypes
  <2>5. 0 \in 0..MaxExp
    OBVIOUS
  <2> QED BY <1>2, <2>1, <2>2, <2>3, <2>4, <2>5
<1>4. CASE alloc_bulk_pipe(t)
  <2>1. PICK q :
          /\ q \in Free /\ qh' = [qh EXCEPT ![q] = NewPipe("bulk", 0)] /\ th[t].pc = "open" /\ hw' = hw
          /\ th' = th /\ next' = Linked(BulkAt, q)
    BY <1>4 DEF alloc_bulk_pipe, Malloc
  <2>2. BulkAt \in Node
    BY <1>1, Names DEF BulkAt, ControlAt, ListTypes
  <2>3. 0 \in 0..MaxExp
    OBVIOUS
  <2> QED BY <1>2, <2>1, <2>2, <2>3
<1>5. ASSUME NEW e \in 0..MaxExp, alloc_intr_pipe(t, e) PROVE \E q : AllocEffect(t, q)
  <2>1. PICK q :
          /\ q \in Free /\ qh' = [qh EXCEPT ![q] = NewPipe("intr", e)] /\ th[t].pc = "open" /\ hw' = hw
          /\ th' = th /\ (next' = Linked("intr", q) \/ next' = [next EXCEPT ![q] = frames[StartPos(e)]])
    BY <1>5 DEF alloc_intr_pipe, Malloc
  <2>2. (\E a \in Node : next' = Linked(a, q)) \/ (\E m : next' = [next EXCEPT ![q] = m])
    BY <2>1, Names
  <2> QED BY <1>2, <2>1, <2>2
<1> QED BY <1>3, <1>4, <1>5

(* A thread that takes its pipe out of the list. *)
LEMMA Frees ==
  ASSUME ListTypes, Owners, Lists, kind' = kind, NEW t \in Thread, free_pipe(t)
  PROVE  /\ \E q \in Qh, a \in Node : /\ q = th[t].q /\ a # q /\ next[a] = q /\ q # "end"
                                      /\ next' = [next EXCEPT ![a] = next[q]]
         /\ qh' = qh /\ hw' = (IF Stops THEN [hw EXCEPT !.cle = FALSE] ELSE hw)
         /\ \A u \in Thread \ {t} : th'[u] = th[u]
         /\ th[t].pc = "open" /\ th'[t].pc = (IF kind = "ehci" THEN "bell" ELSE "tick")
         /\ ~th'[t].moved /\ th'[t].saved = Stops /\ th'[t].what = "pipe" /\ th'[t].q = th[t].q
         /\ Free' = Free /\ Gone' \subseteq Gone
<1>1. th \in [Thread -> ThreadTypes] /\ hw \in HwTypes
  BY DEF ListTypes, ThreadTypes, HwTypes
<1>2. PICK q, a :
        /\ q = th[t].q /\ a = Pred(q) /\ next' = [next EXCEPT ![a] = next[q]]
        /\ qh' = qh /\ hw' = (IF Stops THEN [hw EXCEPT !.cle = FALSE] ELSE hw)
        /\ th[t].pc = "open" /\ th' = [Wait(t, "pipe") EXCEPT ![t].saved = Stops]
  BY DEF free_pipe, Unlinked
<1>3. q \in Qh /\ a \in Node /\ a # q /\ next[a] = q /\ q # "end"
  <2>1. q \in Qh /\ q \in HeadList /\ q # ListHead
    BY <1>2, OldPipe
  <2>2. a \in HeadList /\ next[a] = q /\ a # q
    BY <1>2, <2>1, PredIs
  <2>3. HeadList \subseteq Node
    BY PipeSets, FrameZero, Names DEF HeadList, ListHead, ListTypes
  <2> QED BY <2>1, <2>2, <2>3, Names
<1>4. PICK x : x = [th[t] EXCEPT !.pc = IF kind = "ehci" THEN "bell" ELSE "tick",
                                 !.moved = FALSE, !.saved = FALSE, !.what = "pipe"]
  OBVIOUS
<1>5. Wait(t, "pipe") = [th EXCEPT ![t] = x]
  BY <1>4 DEF Wait
<1>6. /\ x.pc = (IF kind = "ehci" THEN "bell" ELSE "tick") /\ x.q = th[t].q
      /\ ~x.moved /\ x.what = "pipe" /\ x \in ThreadTypes
  BY <1>1, <1>4 DEF ThreadTypes, Waits
<1>7. PICK y : y = [x EXCEPT !.saved = Stops]
  OBVIOUS
<1>8. y.pc = x.pc /\ y.q = x.q /\ y.moved = x.moved /\ y.what = x.what /\ y.saved = Stops
  BY <1>6, <1>7 DEF ThreadTypes
<1>9. th' = [th EXCEPT ![t] = y]
  BY <1>1, <1>2, <1>5, <1>7
<1>10. /\ \A u \in Thread \ {t} : th'[u] = th[u]
       /\ th'[t] = y
  BY <1>1, <1>9
<1>11. hw'.iaa = hw.iaa
  BY <1>1, <1>2 DEF HwTypes
<1>12. ~Passed(t)'
  BY <1>6, <1>8, <1>10 DEF Passed
<1>13. Gone' \subseteq Gone
  BY <1>10, <1>11, <1>12, GoneStep
<1>14. Free' = Free
  BY <1>2 DEF Free
<1> QED BY <1>2, <1>3, <1>6, <1>8, <1>10, <1>13, <1>14

(* A thread that uses its pipe, or waits.                                  *)
LEMMA Waiting ==
  ASSUME ListTypes, Owners, Lists, Ranked, kind' = kind, NEW t \in Thread,
         control(t) \/ control_done(t) \/ control_timeout(t) \/ waittick(t) \/ ehci_waittick(t)
  PROVE  /\ next' = next /\ \A u \in Thread \ {t} : th'[u] = th[u]
         /\ th'[t].saved => th[t].saved /\ th[t].pc # "tick"
         /\ Gone' \subseteq Gone /\ Free' \subseteq Free \cup Gone
         /\ InList' = InList
         /\ \/ hw'.pos = hw.pos /\ hw'.on = hw.on /\ hw'.cle = hw.cle /\ hw'.hold = hw.hold
            \/ waittick(t) /\ th[t].saved /\ hw' = Restart
<1>1. th \in [Thread -> ThreadTypes] /\ hw \in HwTypes
  BY DEF ListTypes, ThreadTypes, HwTypes
<1>2. ASSUME NEW r, th' = [th EXCEPT ![t] = r]
      PROVE  (\A u \in Thread \ {t} : th'[u] = th[u]) /\ th'[t] = r
  BY <1>1, <1>2
<1>3. ASSUME ~(th[t].what = "pipe" /\ (waittick(t) \/ (ehci_waittick(t) /\ th[t].pc = "rung")))
      PROVE  Free' = Free /\ InList' = InList
  <2>1. th[t].what \in {"tds", "pipe"}
    BY DEF ListTypes
  <2>2. \/ control(t) \/ control_done(t) \/ control_timeout(t)
        \/ waittick(t) /\ th[t].what = "tds"
        \/ ehci_waittick(t) /\ (th[t].pc # "rung" \/ th[t].what = "tds")
    BY <1>3, <2>1
  <2>3. SameUses /\ Unlinking' = Unlinking
    BY <2>2, QuietCalls
  <2> QED BY <2>3, SameSets
<1>4. ASSUME th[t].what = "pipe", waittick(t) \/ (ehci_waittick(t) /\ th[t].pc = "rung")
      PROVE  Free' \subseteq Free \cup Gone /\ InList' = InList
  <2>1. Free' = Free \cup {th[t].q} /\ InList' = InList
    BY <1>4, FreedCalls
  <2>2. Passed(t)
    BY <1>4 DEF waittick, ehci_waittick, Passed
  <2>3. th[t].q \in Gone
    BY <1>4, <2>2 DEF Gone
  <2> QED BY <2>1, <2>3
<1>5. Free' \subseteq Free \cup Gone /\ InList' = InList
  BY <1>3, <1>4
<1>6. ASSUME NEW x, th' = [th EXCEPT ![t] = x], hw' = hw, x.saved = th[t].saved, th[t].pc # "tick",
             x.pc \in {"open", "wait", "bell"}
      PROVE  /\ \A u \in Thread \ {t} : th'[u] = th[u]
             /\ th'[t].saved => th[t].saved /\ th[t].pc # "tick"
             /\ Gone' \subseteq Gone
  <2>1. (\A u \in Thread \ {t} : th'[u] = th[u]) /\ th'[t] = x
    BY <1>2, <1>6
  <2>2. ~Passed(t)'
    BY <1>6, <2>1 DEF Passed
  <2> QED BY <1>6, <2>1, <2>2, GoneStep
<1>7. ASSUME Freed(t), hw'.iaa => hw.iaa
      PROVE  /\ \A u \in Thread \ {t} : th'[u] = th[u]
             /\ ~th'[t].saved /\ Gone' \subseteq Gone
  <2>1. PICK x : th' = [th EXCEPT ![t] = x] /\ ~x.saved /\ x.pc \in {"open", "idle"}
    <3>1. CASE th[t].what = "tds"
      <4>1. PICK x : x = [Idle EXCEPT !.pc = "open", !.q = th[t].q]
        OBVIOUS
      <4>2. th' = [th EXCEPT ![t] = x]
        BY <1>7, <3>1, <4>1 DEF Freed
      <4>3. ~x.saved /\ x.pc = "open"
        BY <4>1 DEF Idle
      <4> QED BY <4>2, <4>3
    <3>2. CASE th[t].what # "tds"
      <4>1. th' = [th EXCEPT ![t] = Idle]
        BY <1>7, <3>2 DEF Freed
      <4>2. ~Idle.saved /\ Idle.pc = "idle"
        BY DEF Idle
      <4> QED BY <4>1, <4>2
    <3> QED BY <3>1, <3>2
  <2>2. (\A u \in Thread \ {t} : th'[u] = th[u]) /\ th'[t] = x
    BY <1>2, <2>1
  <2>3. ~Passed(t)'
    BY <2>1, <2>2 DEF Passed
  <2> QED BY <1>7, <2>1, <2>2, <2>3, GoneStep
<1>8. CASE control(t)
  <2>1. PICK x : x = [th[t] EXCEPT !.pc = "wait"]
    OBVIOUS
  <2>2. th' = [th EXCEPT ![t] = x] /\ th[t].pc = "open" /\ hw' = hw /\ next' = next
    BY <1>8, <2>1 DEF control
  <2>3. x.pc = "wait" /\ x.saved = th[t].saved
    BY <1>1, <2>1 DEF ThreadTypes
  <2> QED BY <1>5, <1>6, <2>2, <2>3
<1>9. CASE control_done(t)
  <2>1. PICK x : x = [th[t] EXCEPT !.pc = "open"]
    OBVIOUS
  <2>2. th' = [th EXCEPT ![t] = x] /\ th[t].pc = "wait" /\ hw' = hw /\ next' = next
    BY <1>9, <2>1 DEF control_done
  <2>3. x.pc = "open" /\ x.saved = th[t].saved
    BY <1>1, <2>1 DEF ThreadTypes
  <2> QED BY <1>5, <1>6, <2>2, <2>3
<1>10. CASE control_timeout(t)
  <2>1. PICK x : x = [th[t] EXCEPT !.pc = IF kind = "ehci" THEN "bell" ELSE "tick",
                                   !.moved = FALSE, !.saved = FALSE, !.what = "tds"]
    OBVIOUS
  <2>2. th' = [th EXCEPT ![t] = x] /\ th[t].pc = "wait" /\ hw' = hw /\ next' = next
    BY <1>10, <2>1 DEF control_timeout, Wait
  <2>3. x.pc \in {"bell", "tick"} /\ ~x.saved /\ ~x.moved
    BY <1>1, <2>1 DEF ThreadTypes
  <2>4. (\A u \in Thread \ {t} : th'[u] = th[u]) /\ th'[t] = x
    BY <1>2, <2>2
  <2>5. ~Passed(t)'
    BY <2>3, <2>4 DEF Passed
  <2> QED BY <1>5, <2>2, <2>3, <2>4, <2>5, GoneStep
<1>11. CASE waittick(t)
  <2>1. Freed(t) /\ next' = next /\ hw' = (IF th[t].saved THEN Restart ELSE hw)
    BY <1>11 DEF waittick
  <2>2. hw'.iaa = hw.iaa
    BY <1>1, <2>1 DEF Restart, HwTypes
  <2> QED BY <1>5, <1>7, <1>11, <2>1, <2>2
<1>12. CASE ehci_waittick(t)
  <2>1. next' = next
    BY <1>12 DEF ehci_waittick
  <2>2. CASE th[t].pc = "bell" /\ BellFree /\ th' = [th EXCEPT ![t].pc = "bellcmd"] /\ hw' = hw
    <3>1. PICK x : x = [th[t] EXCEPT !.pc = "bellcmd"]
      OBVIOUS
    <3>2. x.pc = "bellcmd" /\ x.saved = th[t].saved
      BY <1>1, <3>1 DEF ThreadTypes
    <3>3. (\A u \in Thread \ {t} : th'[u] = th[u]) /\ th'[t] = x
      BY <1>2, <2>2, <3>1
    <3>4. ~Passed(t)'
      BY <2>2, <3>2, <3>3 DEF Passed, BellFree
    <3> QED BY <1>5, <2>1, <2>2, <3>2, <3>3, <3>4, GoneStep
  <2>3. CASE th[t].pc = "bellcmd" /\ th' = [th EXCEPT ![t].pc = "bell"] /\ hw' = hw
    <3>1. PICK x : x = [th[t] EXCEPT !.pc = "bell"]
      OBVIOUS
    <3>2. x.pc = "bell" /\ x.saved = th[t].saved /\ th' = [th EXCEPT ![t] = x]
      BY <1>1, <2>3, <3>1 DEF ThreadTypes
    <3> QED BY <1>5, <1>6, <2>1, <2>3, <3>2
  <2>4. CASE th[t].pc = "bellcmd" /\ th' = [th EXCEPT ![t].pc = "rung"] /\ hw' = [hw EXCEPT !.iaad = TRUE]
    <3>1. PICK x : x = [th[t] EXCEPT !.pc = "rung"]
      OBVIOUS
    <3>2. x.pc = "rung" /\ x.saved = th[t].saved /\ x.what = th[t].what /\ x.q = th[t].q
      BY <1>1, <3>1 DEF ThreadTypes
    <3>3. (\A u \in Thread \ {t} : th'[u] = th[u]) /\ th'[t] = x
      BY <1>2, <2>4, <3>1
    <3>4. /\ hw'.pos = hw.pos /\ hw'.on = hw.on /\ hw'.cle = hw.cle /\ hw'.hold = hw.hold
          /\ hw'.iaa = hw.iaa
      BY <1>1, <2>4 DEF HwTypes
    <3>5. Passed(t)' => Passed(t)
      BY <2>4, <3>2, <3>3, <3>4 DEF Passed
    <3> QED BY <1>5, <2>1, <2>4, <3>2, <3>3, <3>4, <3>5, GoneStep
  <2>5. CASE th[t].pc = "rung" /\ hw.iaa /\ hw' = [hw EXCEPT !.iaa = FALSE] /\ Freed(t)
    <3>1. /\ hw'.pos = hw.pos /\ hw'.on = hw.on /\ hw'.cle = hw.cle /\ hw'.hold = hw.hold
          /\ ~hw'.iaa
      BY <1>1, <2>5 DEF HwTypes
    <3> QED BY <1>5, <1>7, <2>1, <2>5, <3>1
  <2> QED BY <1>12, <2>2, <2>3, <2>4, <2>5 DEF ehci_waittick
<1> QED BY <1>8, <1>9, <1>10, <1>11, <1>12

-----------------------------------------------------------------------------
(* ohci: whoever stops the lists is one, and starts them when the          *)
(* controller has seen that; while they are to be walked the controller    *)
(* is at what is in them.                                                  *)
Stopped ==
  /\ \A t \in Thread : th[t].saved =>
       kind = "ohci" /\ th[t].pc = "tick" /\ ~hw.cle /\ (th[t].moved => ~hw.on)
  /\ \A t, u \in Thread : th[t].saved /\ th[u].saved => t = u
  /\ kind = "ohci" /\ hw.cle => hw.pos \in {"control"} \cup InList \cup {"end"}

(* The step of a thread that neither stops nor starts the lists.           *)
LEMMA StoppedStep ==
  ASSUME Stopped, kind' = kind, NEW t \in Thread, \A u \in Thread \ {t} : th'[u] = th[u],
         th'[t].saved => th[t].saved /\ th[t].pc # "tick",
         hw'.pos = hw.pos, hw'.on = hw.on, hw'.cle = hw.cle, InList \subseteq InList'
  PROVE  Stopped'
<1>1. \A u \in Thread : th'[u].saved => th[u].saved /\ th'[u] = th[u]
  BY DEF Stopped
<1> QED BY <1>1 DEF Stopped

(* Every step of a thread.                                                 *)
LEMMA StoppedCalls ==
  ASSUME ListTypes, Owners, Lists, Ranked, Stopped, kind' = kind, NEW t \in Thread,
         \/ alloc_control_pipe(t) \/ alloc_bulk_pipe(t)
         \/ \E e \in 0..MaxExp : alloc_intr_pipe(t, e)
         \/ free_pipe(t)
         \/ control(t) \/ control_done(t) \/ control_timeout(t)
         \/ waittick(t) \/ ehci_waittick(t)
  PROVE  Stopped'
<1>1. th \in [Thread -> ThreadTypes] /\ hw \in HwTypes
  BY DEF ListTypes, ThreadTypes, HwTypes
<1>2. CASE alloc_control_pipe(t) \/ alloc_bulk_pipe(t) \/ \E e \in 0..MaxExp : alloc_intr_pipe(t, e)
  <2>1. PICK q : AllocEffect(t, q)
    BY <1>2, Allocates
  <2> QED BY <2>1, StoppedStep DEF AllocEffect
<1>3. CASE free_pipe(t)
  <2>1. /\ hw' = (IF Stops THEN [hw EXCEPT !.cle = FALSE] ELSE hw)
        /\ \A u \in Thread \ {t} : th'[u] = th[u]
        /\ th'[t].pc = (IF kind = "ehci" THEN "bell" ELSE "tick")
        /\ ~th'[t].moved /\ th'[t].saved = Stops
    BY <1>3, Frees
  <2>2. CASE Stops
    <3>1. /\ kind = "ohci" /\ hw.cle /\ ~hw'.cle /\ th'[t].pc = "tick"
          /\ \A u \in Thread \ {t} : ~th'[u].saved
      BY <1>1, <2>1, <2>2 DEF Stops, HwTypes, Stopped
    <3> QED BY <2>1, <3>1 DEF Stopped
  <2>3. CASE ~Stops
    <3>1. /\ hw' = hw /\ ~th'[t].saved /\ ~(kind = "ohci" /\ hw.cle)
          /\ \A u \in Thread : th'[u].saved => th'[u] = th[u] /\ th[u].saved
      BY <2>1, <2>3 DEF Stops
    <3> QED BY <3>1 DEF Stopped
  <2> QED BY <2>2, <2>3
<1>4. CASE control(t) \/ control_done(t) \/ control_timeout(t) \/ waittick(t) \/ ehci_waittick(t)
  <2>1. /\ \A u \in Thread \ {t} : th'[u] = th[u]
        /\ th'[t].saved => th[t].saved /\ th[t].pc # "tick"
        /\ InList' = InList
        /\ \/ hw'.pos = hw.pos /\ hw'.on = hw.on /\ hw'.cle = hw.cle
           \/ waittick(t) /\ th[t].saved /\ hw' = Restart
    BY <1>4, Waiting
  <2>2. CASE hw'.pos = hw.pos /\ hw'.on = hw.on /\ hw'.cle = hw.cle
    BY <2>1, <2>2, StoppedStep
  <2>3. CASE th[t].saved /\ hw' = Restart
    <3>1. \A u \in Thread : ~th'[u].saved
      BY <2>1, <2>3 DEF Stopped
    <3>2. hw'.pos = "end"
      BY <1>1, <2>3 DEF Restart, HwTypes
    <3> QED BY <3>1, <3>2 DEF Stopped
  <2> QED BY <2>1, <2>2, <2>3
<1> QED BY <1>2, <1>3, <1>4

(* Every step of the controller.                                           *)
LEMMA StoppedHw ==
  ASSUME ListTypes, Owners, Lists, Ranked, Stopped, kind' = kind, InList' = InList,
         hw_move \/ hw_frame \/ hw_fetch \/ hw_retire
  PROVE  Stopped'
<1>1. th \in [Thread -> ThreadTypes] /\ hw \in HwTypes
  BY DEF ListTypes, ThreadTypes, HwTypes
<1>2. ASSUME kind = "ohci"
      PROVE  /\ \A n \in {"control"} \cup InList : next[n] \in {"control"} \cup InList \cup {"end"}
             /\ "control" \in {"control"} \cup InList
  <2>1. ListedIn(next, "control", {"control"} \cup InList, "end")
    BY <1>2 DEF Lists, ListHead, HeadEnd
  <2> DEFINE c == {"control"} \cup InList
  <2>2. ListedIn(next, "control", c, "end")
    BY <2>1
  <2> HIDE DEF c
  <2>3. \A n \in c : next[n] \in c \cup {"end"}
    BY <2>2, ListLinks
  <2> QED BY <2>3 DEF c
<1>3. CASE hw_move
  <2>1. th' = th
    BY <1>3 DEF hw_move
  <2>2. CASE kind = "ohci"
    <3>1. PICK to : hw' = [hw EXCEPT !.pos = to]
                    /\ ((Active /\ to = next[hw.pos]) \/ to = next["control"])
      BY <1>3, <2>2 DEF hw_move
    <3>2. hw'.pos = to /\ hw'.cle = hw.cle /\ hw'.on = hw.on
      BY <1>1, <3>1 DEF HwTypes
    <3>3. hw.cle => to \in {"control"} \cup InList \cup {"end"}
      BY <1>2, <2>2, <3>1 DEF Stopped, Active
    <3> QED BY <2>1, <3>2, <3>3 DEF Stopped
  <2>3. CASE kind # "ohci"
    BY <2>1, <2>3 DEF Stopped
  <2> QED BY <2>2, <2>3
<1>4. CASE hw_frame
  <2>1. \A t \in Thread : th'[t].saved = th[t].saved /\ th'[t].pc = th[t].pc
    <3>1. ASSUME NEW t \in Thread PROVE th'[t].saved = th[t].saved /\ th'[t].pc = th[t].pc
      <4>1. th'[t] = [th[t] EXCEPT !.moved = th[t].pc = "tick"] /\ th[t] \in ThreadTypes
        BY <1>1, <1>4 DEF hw_frame
      <4> QED BY <4>1 DEF ThreadTypes
    <3> QED BY <3>1
  <2>2. CASE kind = "ohci"
    <3>1. hw' = [hw EXCEPT !.on = hw.cle]
      BY <1>4, <2>2 DEF hw_frame
    <3>2. hw'.pos = hw.pos /\ hw'.cle = hw.cle /\ hw'.on = hw.cle
      BY <1>1, <3>1 DEF HwTypes
    <3> QED BY <2>1, <3>2 DEF Stopped
  <2>3. CASE kind # "ohci"
    BY <2>1, <2>3 DEF Stopped
  <2> QED BY <2>2, <2>3
<1>5. CASE hw_fetch \/ hw_retire
  <2>1. th' = th /\ hw'.pos = hw.pos /\ hw'.cle = hw.cle /\ hw'.on = hw.on
    BY <1>1, <1>5 DEF hw_fetch, hw_retire, HwTypes
  <2> QED BY <2>1 DEF Stopped
<1> QED BY <1>3, <1>4, <1>5

-----------------------------------------------------------------------------
(* All that the controller can come by from where it is, until it begins   *)
(* another frame or round, is in memory that is neither free nor about to  *)
(* be freed.                                                               *)
Closed(s) == \A n \in s : next[n] \in s \cup (IF kind = "ehci" THEN {} ELSE {"end"})
Safe(s) ==
  /\ s \subseteq Node /\ Closed(s) /\ s \cap Free = {} /\ s \cap Gone = {}
  /\ Active => hw.pos \in s
Ahead ==
  /\ \E s : Safe(s)
  /\ kind = "ehci" => hw.pos # "end"

(* What is ahead grows by what was just linked in.                         *)
LEMMA SafeStep ==
  ASSUME NEW s, Safe(s), NEW r, r \subseteq Node, Closed(r)', s \subseteq r, r \cap Free' = {}, Gone' \subseteq Gone,
         r \cap Gone \subseteq s, kind' = kind,
         Active' => Active /\ hw'.pos = hw.pos, hw'.pos = hw.pos \/ kind # "ehci", Ahead
  PROVE  Ahead'
<1>1. Safe(r)'
  BY DEF Safe
<1>2. kind' = "ehci" => hw'.pos # "end"
  BY DEF Ahead
<1> QED BY <1>1, <1>2 DEF Ahead

(* Every step of a thread: what is linked in is not free, what is linked   *)
(* out is not yet left, and what is freed was left.                        *)
LEMMA AheadCalls ==
  ASSUME ListTypes, Owners, Lists, Ranked, Stopped, Ahead, kind' = kind, NEW t \in Thread,
         \/ alloc_control_pipe(t) \/ alloc_bulk_pipe(t)
         \/ \E e \in 0..MaxExp : alloc_intr_pipe(t, e)
         \/ free_pipe(t)
         \/ control(t) \/ control_done(t) \/ control_timeout(t)
         \/ waittick(t) \/ ehci_waittick(t)
  PROVE  Ahead'
<1>1. /\ th \in [Thread -> ThreadTypes] /\ hw \in HwTypes /\ next \in [Node -> Node \cup {"end"}]
      /\ "end" \notin Node /\ Qh \subseteq Node
  BY Nodes DEF ListTypes, ThreadTypes, HwTypes
<1>2. PICK s : Safe(s)
  BY DEF Ahead
<1>3. s \subseteq Node /\ Closed(s) /\ s \cap Free = {} /\ s \cap Gone = {}
  BY <1>2 DEF Safe
<1>4. CASE alloc_control_pipe(t) \/ alloc_bulk_pipe(t) \/ \E e \in 0..MaxExp : alloc_intr_pipe(t, e)
  <2>1. PICK q : AllocEffect(t, q)
    BY <1>4, Allocates
  <2>2. /\ q \in Free /\ q \in Node /\ q \notin s /\ q \notin Gone /\ hw' = hw /\ Active' = Active
        /\ Free' \subseteq Free \ {q} /\ Gone' \subseteq Gone
    BY <1>1, <1>3, <2>1, GoneUnlinking DEF AllocEffect, Active
  <2>3. ASSUME NEW a \in Node, next' = Linked(a, q) PROVE Ahead'
    <3>1. PICK r : r = IF a \in s THEN s \cup {q} ELSE s
      OBVIOUS
    <3>2. next' = [next EXCEPT ![q] = next[a], ![a] = q]
      BY <2>3 DEF Linked
    <3>3. /\ \A n \in s \ {a} : next'[n] = next[n]
          /\ a \in s => next'[a] = q /\ next'[q] = next[a]
      BY <1>1, <1>3, <2>2, <3>2
    <3>4. Closed(r)'
      <4>1. ASSUME NEW n \in r PROVE next'[n] \in r \cup (IF kind = "ehci" THEN {} ELSE {"end"})
        <5>1. \A m \in s : next[m] \in s \cup (IF kind = "ehci" THEN {} ELSE {"end"})
          BY <1>3 DEF Closed
        <5>2. CASE a \in s
          BY <3>1, <3>3, <5>1, <5>2
        <5>3. CASE a \notin s
          BY <3>1, <3>3, <5>1, <5>3
        <5> QED BY <5>2, <5>3
      <4> QED BY <4>1 DEF Closed
    <3>5. r \subseteq Node /\ s \subseteq r /\ r \cap Free' = {} /\ r \cap Gone \subseteq s
      BY <1>3, <2>2, <3>1
    <3> QED BY <1>2, <2>2, <3>4, <3>5, SafeStep
  <2>4. ASSUME NEW m, next' = [next EXCEPT ![q] = m] PROVE Ahead'
    <3>1. \A n \in s : next'[n] = next[n]
      BY <1>1, <1>3, <2>2, <2>4
    <3>2. Closed(s)'
      BY <1>3, <3>1 DEF Closed
    <3>3. s \cap Free' = {}
      BY <1>3, <2>2
    <3> QED BY <1>2, <1>3, <2>2, <3>2, <3>3, SafeStep
  <2> QED BY <2>1, <2>3, <2>4 DEF AllocEffect
<1>5. CASE free_pipe(t)
  <2>1. PICK q \in Qh, a \in Node : next[a] = q /\ q # "end" /\ next' = [next EXCEPT ![a] = next[q]]
    BY <1>5, Frees
  <2>2. /\ hw' = (IF Stops THEN [hw EXCEPT !.cle = FALSE] ELSE hw)
        /\ Free' = Free /\ Gone' \subseteq Gone
    BY <1>5, Frees
  <2>3. hw'.pos = hw.pos /\ hw'.on = hw.on /\ Active' = Active
    BY <1>1, <2>2 DEF HwTypes, Active
  <2>4. Closed(s)'
    <3>1. ASSUME NEW n \in s PROVE next'[n] \in s \cup (IF kind = "ehci" THEN {} ELSE {"end"})
      <4>1. \A m \in s : next[m] \in s \cup (IF kind = "ehci" THEN {} ELSE {"end"})
        BY <1>3 DEF Closed
      <4>2. CASE n = a
        <5>1. q \in s /\ next'[n] = next[q]
          BY <1>1, <2>1, <4>1, <4>2
        <5> QED BY <4>1, <5>1
      <4>3. CASE n # a
        <5>1. next'[n] = next[n]
          BY <1>1, <1>3, <2>1, <4>3
        <5> QED BY <4>1, <5>1
      <4> QED BY <4>2, <4>3
    <3> QED BY <3>1 DEF Closed
  <2> QED BY <1>2, <1>3, <2>2, <2>3, <2>4, SafeStep
<1>6. CASE control(t) \/ control_done(t) \/ control_timeout(t) \/ waittick(t) \/ ehci_waittick(t)
  <2>1. /\ next' = next /\ Gone' \subseteq Gone /\ Free' \subseteq Free \cup Gone
        /\ \/ hw'.pos = hw.pos /\ hw'.on = hw.on
           \/ waittick(t) /\ th[t].saved /\ hw' = Restart
    BY <1>6, Waiting
  <2>2. Closed(s)' /\ s \cap Free' = {}
    BY <1>3, <2>1 DEF Closed
  <2>3. CASE hw'.pos = hw.pos /\ hw'.on = hw.on
    <3>1. Active' = Active
      BY <2>3 DEF Active
    <3> QED BY <1>2, <1>3, <2>1, <2>2, <2>3, <3>1, SafeStep
  <2>4. CASE th[t].saved /\ hw' = Restart
    <3>1. kind # "ehci" /\ hw'.pos = "end"
      BY <1>1, <2>4 DEF Stopped, Restart, HwTypes
    <3>2. ~Active'
      BY <3>1 DEF Active
    <3> QED BY <1>2, <1>3, <2>1, <2>2, <3>1, <3>2, SafeStep
  <2> QED BY <2>1, <2>3, <2>4
<1> QED BY <1>4, <1>5, <1>6

(* What there is from a frame and from the head of the list.               *)
LEMMA ListsSafe ==
  ASSUME ListTypes, Owners, Lists, kind' = kind, next' = next, Free' = Free, Gone' \subseteq Unlinking
  PROVE  /\ kind = "uhci" => \A k \in Frame : Periodic(k) \subseteq Node /\ Closed(Periodic(k)) /\ frames[k] \in Periodic(k)
                                      /\ Periodic(k) \cap Free' = {} /\ Periodic(k) \cap Gone' = {}
         /\ \A s : Closed(s)' <=> Closed(s)
         /\ kind # "uhci" => /\ {ListHead} \cup InList \subseteq Node /\ Closed({ListHead} \cup InList)
                             /\ ({ListHead} \cup InList) \cap Free' = {} /\ ({ListHead} \cup InList) \cap Gone' = {}
<1>1. \A s : Closed(s)' <=> Closed(s)
  BY DEF Closed
<1>2. Unlinking \subseteq Pipes("control") /\ Unlinking \cap InList = {} /\ InList \cap Free = {} /\ InList \subseteq Qh
  BY PipeSets DEF InList, Pipes, Free
<1>3. ASSUME kind = "uhci", NEW k \in Frame
      PROVE  Periodic(k) \subseteq Node /\ Closed(Periodic(k)) /\ frames[k] \in Periodic(k)
             /\ Periodic(k) \cap Free' = {} /\ Periodic(k) \cap Gone' = {}
  <2>1. ListedIn(next, frames[k], Periodic(k), "end")
    BY DEF Lists
  <2>2. frames[k] \in Periodic(k) /\ \A n \in Periodic(k) : next[n] \in Periodic(k) \cup {"end"}
    BY <2>1, ListLinks
  <2>3. Periodic(k) \subseteq Node /\ Periodic(k) \cap Free = {}
    BY PipeSets
  <2>4. Periodic(k) \cap Unlinking = {}
    BY <1>2, Names DEF Periodic, Pipes
  <2>5. Closed(Periodic(k))
    BY <1>3, <2>2 DEF Closed
  <2> QED BY <2>2, <2>3, <2>4, <2>5
<1>4. ASSUME kind # "uhci"
      PROVE  /\ {ListHead} \cup InList \subseteq Node /\ Closed({ListHead} \cup InList)
             /\ ({ListHead} \cup InList) \cap Free' = {} /\ ({ListHead} \cup InList) \cap Gone' = {}
  <2>1. ListedIn(next, ListHead, {ListHead} \cup InList, HeadEnd)
    BY <1>4 DEF Lists
  <2>2. ListHead \in Node \ Qh
    BY <1>4, Names DEF ListHead, ListTypes
  <2>3. {ListHead} \cup InList \subseteq Node /\ ({ListHead} \cup InList) \cap Free = {}
          /\ ({ListHead} \cup InList) \cap Unlinking = {}
    BY <1>2, <2>2, Names DEF Free, Pipes
  <2> DEFINE c == {ListHead} \cup InList
  <2>4. Closed(c)
    <3>1. ListedIn(next, ListHead, c, HeadEnd) /\ ListHead \in c
      BY <2>1
    <3> HIDE DEF c
    <3>2. \A n \in c : next[n] \in c \cup {HeadEnd}
      BY <3>1, ListLinks
    <3>3. kind = "ehci" => HeadEnd = ListHead
      BY DEF HeadEnd, ListHead
    <3>4. kind # "ehci" => HeadEnd = "end"
      BY DEF HeadEnd
    <3> QED BY <3>1, <3>2, <3>3, <3>4 DEF Closed
  <2> QED BY <2>3, <2>4
<1> QED BY <1>1, <1>3, <1>4

(* Every step of the controller: it goes on in what is ahead, or begins    *)
(* again at a head, from where only what is in the lists can be reached.   *)
LEMMA AheadHw ==
  ASSUME ListTypes, Owners, Lists, Stopped, Ahead, kind' = kind,
         SameUses, Unlinking' = Unlinking, hw_move \/ hw_frame \/ hw_fetch \/ hw_retire
  PROVE  Ahead'
<1>1. /\ th \in [Thread -> ThreadTypes] /\ hw \in HwTypes /\ next' = next /\ frames' = frames
      /\ DOMAIN frames = Frame /\ "end" \notin Node
  BY Nodes DEF ListTypes, ThreadTypes, HwTypes, hw_move, hw_frame, hw_fetch, hw_retire
<1>2. Free' = Free /\ InList' = InList
  BY SameSets
<1>3. Gone' \subseteq Unlinking
  <2>1. Gone' \subseteq Unlinking'
    BY DEF Gone, Unlinking, Passed
  <2> QED BY <2>1
<1>4. PICK s : Safe(s)
  BY DEF Ahead
<1>5. s \subseteq Node /\ Closed(s) /\ s \cap Free = {} /\ s \cap Gone = {}
  BY <1>4 DEF Safe
<1>6. \A r : Closed(r)' <=> Closed(r)
  BY <1>1 DEF Closed
<1>7. ASSUME NEW r, r \subseteq Node, Closed(r), r \cap Free = {}, r \cap Gone' = {}, Active' => hw'.pos \in r,
             kind = "ehci" => hw'.pos # "end"
      PROVE  Ahead'
  <2>1. Safe(r)'
    BY <1>2, <1>6, <1>7 DEF Safe
  <2> QED BY <1>7, <2>1 DEF Ahead
<1>8. ASSUME th' = th, hw'.iaa = hw.iaa PROVE Gone' = Gone
  <2>1. \A t \in Thread : Passed(t)' <=> Passed(t)
    BY <1>8 DEF Passed
  <2>2. Gone' = {th[t].q : t \in {t \in Thread : th[t].what = "pipe" /\ Passed(t)'}}
    BY <1>8 DEF Gone
  <2> QED BY <2>1, <2>2 DEF Gone
<1>9. ASSUME kind # "uhci", Active' => hw'.pos \in {ListHead} \cup InList, kind = "ehci" => hw'.pos # "end"
      PROVE  Ahead'
  <2>1. /\ {ListHead} \cup InList \subseteq Node /\ Closed({ListHead} \cup InList)
        /\ ({ListHead} \cup InList) \cap Free' = {} /\ ({ListHead} \cup InList) \cap Gone' = {}
    BY <1>1, <1>2, <1>3, <1>9, ListsSafe
  <2> DEFINE c == {ListHead} \cup InList
  <2>2. c \subseteq Node /\ Closed(c) /\ c \cap Free = {} /\ c \cap Gone' = {} /\ (Active' => hw'.pos \in c)
    BY <1>2, <1>9, <2>1
  <2> HIDE DEF c
  <2> QED BY <1>7, <1>9, <2>2
<1>10. CASE hw_move
  <2>1. th' = th
    BY <1>10 DEF hw_move
  <2>2. CASE kind # "ehci" /\ Active /\ hw' = [hw EXCEPT !.pos = next[hw.pos]]
    <3>1. hw'.pos = next[hw.pos] /\ hw'.iaa = hw.iaa /\ hw.pos \in s
      BY <1>1, <1>4, <2>2 DEF HwTypes, Safe
    <3>2. next[hw.pos] \in s \cup {"end"}
      BY <1>5, <2>2, <3>1 DEF Closed
    <3>3. Gone' = Gone
      BY <1>8, <2>1, <3>1
    <3>4. Active' => hw'.pos \in s
      BY <3>1, <3>2 DEF Active
    <3> QED BY <1>5, <1>7, <2>2, <3>3, <3>4
  <2>3. CASE kind = "ohci" /\ hw' = [hw EXCEPT !.pos = next["control"]]
    <3>1. hw'.pos = next["control"]
      BY <1>1, <2>3 DEF HwTypes
    <3>2. ListHead = "control" /\ HeadEnd = "end"
      BY <2>3 DEF ListHead, HeadEnd
    <3>3. ListedIn(next, ListHead, {ListHead} \cup InList, "end")
      BY <2>3, <3>2 DEF Lists
    <3>4. next["control"] \in {ListHead} \cup InList \cup {"end"}
      <4> DEFINE c == {ListHead} \cup InList
      <4>1. ListedIn(next, ListHead, c, "end") /\ "control" \in c
        BY <3>2, <3>3
      <4> HIDE DEF c
      <4>2. next["control"] \in c \cup {"end"}
        BY <4>1, ListLinks
      <4> QED BY <4>2 DEF c
    <3>5. Active' => hw'.pos \in {ListHead} \cup InList
      BY <3>1, <3>4 DEF Active
    <3> QED BY <1>9, <2>3, <3>5
  <2>4. CASE kind = "ehci"
    <3>1. PICK to, rings : /\ to = next[hw.pos] /\ rings = (hw.iaad /\ to = "async")
                           /\ hw' = [hw EXCEPT !.pos = to, !.iaa = hw.iaa \/ rings, !.iaad = hw.iaad /\ ~rings]
      BY <1>10, <2>4 DEF hw_move
    <3>2. hw'.pos = to /\ hw'.iaa = (hw.iaa \/ rings)
      BY <1>1, <3>1 DEF HwTypes
    <3>3. hw.pos \in s
      BY <1>4, <2>4 DEF Safe, Active, Ahead
    <3>4. to \in s /\ to # "end"
      <4>1. next[hw.pos] \in s
        BY <1>5, <2>4, <3>3 DEF Closed
      <4> QED BY <1>1, <1>5, <3>1, <4>1
    <3>5. CASE rings
      <4>1. to = "async" /\ ListHead = "async"
        BY <2>4, <3>1, <3>5 DEF ListHead
      <4>2. hw'.pos \in {ListHead} \cup InList /\ hw'.pos # "end"
        BY <3>2, <3>4, <4>1
      <4> QED BY <1>9, <2>4, <4>2
    <3>6. CASE ~rings
      <4>1. hw'.iaa = hw.iaa
        <5>1. hw.iaa \in BOOLEAN
          BY <1>1 DEF HwTypes
        <5> QED BY <3>2, <3>6, <5>1
      <4>2. Gone' = Gone
        BY <1>8, <2>1, <4>1
      <4> QED BY <1>5, <1>7, <3>2, <3>4, <4>2
    <3> QED BY <3>5, <3>6
  <2> QED BY <1>10, <2>2, <2>3, <2>4 DEF hw_move
<1>11. CASE hw_frame
  <2>1. CASE kind = "uhci"
    <3>1. PICK k \in Frame : hw' = [hw EXCEPT !.pos = frames[k]]
      BY <1>1, <1>11, <2>1 DEF hw_frame
    <3>2. hw'.pos = frames[k]
      BY <1>1, <3>1 DEF HwTypes
    <3>3. /\ Periodic(k) \subseteq Node /\ Closed(Periodic(k)) /\ frames[k] \in Periodic(k)
          /\ Periodic(k) \cap Free' = {} /\ Periodic(k) \cap Gone' = {}
      BY <1>1, <1>2, <1>3, <2>1, ListsSafe
    <3> QED BY <1>2, <1>7, <2>1, <3>2, <3>3
  <2>2. CASE kind = "ohci"
    <3>1. hw' = [hw EXCEPT !.on = hw.cle]
      BY <1>11, <2>2 DEF hw_frame
    <3>2. hw'.pos = hw.pos /\ hw'.on = hw.cle
      BY <1>1, <3>1 DEF HwTypes
    <3>3. Active' => hw'.pos \in {ListHead} \cup InList
      BY <2>2, <3>2 DEF Active, Stopped, ListHead
    <3> QED BY <1>9, <2>2, <3>3
  <2> QED BY <1>11, <2>1, <2>2 DEF hw_frame
<1>12. CASE hw_fetch \/ hw_retire
  <2>1. th' = th /\ hw'.pos = hw.pos /\ hw'.on = hw.on /\ hw'.iaa = hw.iaa
    BY <1>1, <1>12 DEF hw_fetch, hw_retire, HwTypes
  <2>2. Gone' = Gone /\ Active' = Active
    BY <1>8, <2>1 DEF Active
  <2>3. Active' => hw'.pos \in s
    BY <1>4, <2>1, <2>2 DEF Safe
  <2>4. kind = "ehci" => hw'.pos # "end"
    BY <2>1 DEF Ahead
  <2> QED BY <1>5, <1>7, <2>2, <2>3, <2>4
<1> QED BY <1>10, <1>11, <1>12

-----------------------------------------------------------------------------
(* uhci and ohci: the descriptors that the controller can fetch, and the   *)
(* one it carries out, are those of a transfer that did not time out, and  *)
(* who waits for the controller to leave its own is not overtaken by it.   *)
Fetched(q) == hw.hold /\ hw.pos = q
PipeOk(q) ==
  /\ kind = "uhci" => /\ qh[q].el = "td" /\ ~qh[q].late => qh[q].tds
                      /\ Fetched(q) /\ ~qh[q].late => qh[q].el = "td"
  /\ kind = "ohci" => /\ qh[q].el = "td" /\ ~qh[q].skip => qh[q].tds
                      /\ Fetched(q) => qh[q].el = "td" /\ qh[q].tds
WaitOk(t) ==
  th[t].pc = "tick" /\ th[t].what = "tds" =>
    /\ kind = "uhci" => qh[th[t].q].late
    /\ kind = "ohci" => qh[th[t].q].skip /\ (th[t].moved => ~Fetched(th[t].q))
Carried ==
  /\ hw.hold => Active /\ hw.pos \in Qh
  /\ \A q \in Qh : PipeOk(q)
  /\ \A t \in Thread : WaitOk(t)

(* The step of a thread that changes no other pipe than its own.           *)
LEMMA CarriedStep ==
  ASSUME ListTypes, Owners, Carried, kind' = kind, NEW t \in Thread, \A u \in Thread \ {t} : th'[u] = th[u],
         NEW q, q \in Free \/ (th[t].pc # "idle" /\ q = th[t].q), \A p \in Qh : p # q => qh'[p] = qh[p],
         (hw'.hold = hw.hold /\ hw'.pos = hw.pos /\ hw'.on = hw.on) \/ ~hw'.hold,
         PipeOk(q)', WaitOk(t)'
  PROVE  Carried'
<1>1. \A p : Fetched(p)' => Fetched(p)
  BY DEF Fetched
<1>2. hw'.hold => Active' /\ hw'.pos \in Qh
  BY DEF Carried, Active
<1>3. ASSUME NEW p \in Qh PROVE PipeOk(p)'
  <2>1. CASE p = q
    BY <2>1
  <2>2. CASE p # q
    BY <1>1, <2>2 DEF Carried, PipeOk
  <2> QED BY <2>1, <2>2
<1>4. ASSUME NEW u \in Thread PROVE WaitOk(u)'
  <2>1. CASE u = t
    BY <2>1
  <2>2. CASE u # t
    <3>1. PICK p : p = th[u].q
      OBVIOUS
    <3>2. SUFFICES ASSUME th[u].pc = "tick", th[u].what = "tds"
                   PROVE  /\ kind = "uhci" => qh'[p].late
                          /\ kind = "ohci" => qh'[p].skip /\ (th[u].moved => ~Fetched(p)')
      BY <2>2, <3>1 DEF WaitOk, Fetched
    <3>3. p \in Pipes("control") /\ (th[t].pc # "idle" => p # th[t].q)
      BY <2>2, <3>1, <3>2 DEF Owners
    <3>4. p \in Qh /\ p # q
      BY <3>3 DEF Pipes, Free
    <3>5. /\ kind = "uhci" => qh[p].late
          /\ kind = "ohci" => qh[p].skip /\ (th[u].moved => ~Fetched(p))
      BY <3>1, <3>2 DEF Carried, WaitOk
    <3> QED BY <1>1, <3>4, <3>5
  <2> QED BY <2>1, <2>2
<1> QED BY <1>2, <1>3, <1>4 DEF Carried

(* Every step of a thread.                                                 *)
LEMMA CarriedCalls ==
  ASSUME ListTypes, Owners, Lists, Ranked, Stopped, Ahead, Carried, kind' = kind, NEW t \in Thread,
         \/ alloc_control_pipe(t) \/ alloc_bulk_pipe(t)
         \/ \E e \in 0..MaxExp : alloc_intr_pipe(t, e)
         \/ free_pipe(t)
         \/ control(t) \/ control_done(t) \/ control_timeout(t)
         \/ waittick(t) \/ ehci_waittick(t)
  PROVE  Carried'
<1>1. th \in [Thread -> ThreadTypes] /\ hw \in HwTypes /\ qh \in [Qh -> PipeTypes]
  BY DEF ListTypes, ThreadTypes, HwTypes
<1>2. \A q \in Free \cup Gone : ~Fetched(q)
  <2>1. PICK s : Safe(s)
    BY DEF Ahead
  <2> QED BY <2>1 DEF Safe, Carried, Fetched
<1>3. CASE alloc_control_pipe(t) \/ alloc_bulk_pipe(t) \/ \E e \in 0..MaxExp : alloc_intr_pipe(t, e)
  <2>1. PICK q : AllocEffect(t, q)
    BY <1>3, Allocates
  <2>2. PICK use \in {"control", "bulk", "intr"}, e \in 0..MaxExp : qh' = [qh EXCEPT ![q] = NewPipe(use, e)]
    BY <2>1 DEF AllocEffect
  <2>3. /\ q \in Free /\ q \in Qh /\ hw' = hw /\ th'[t].pc = "open"
        /\ \A u \in Thread \ {t} : th'[u] = th[u]
    BY <2>1 DEF AllocEffect
  <2>4. qh'[q].el = "term" /\ \A p \in Qh : p # q => qh'[p] = qh[p]
    BY <1>1, <2>2, <2>3 DEF NewPipe
  <2>5. ~Fetched(q)'
    BY <1>2, <2>3 DEF Fetched
  <2>6. PipeOk(q)' /\ WaitOk(t)'
    BY <2>3, <2>4, <2>5 DEF PipeOk, WaitOk
  <2> QED BY <2>3, <2>4, <2>6, CarriedStep
<1>4. CASE free_pipe(t)
  <2>1. /\ qh' = qh /\ hw' = (IF Stops THEN [hw EXCEPT !.cle = FALSE] ELSE hw)
        /\ \A u \in Thread \ {t} : th'[u] = th[u]
        /\ th[t].pc = "open" /\ th'[t].what = "pipe"
    BY <1>4, Frees
  <2>2. th[t].q \in Qh
    BY <2>1 DEF Owners, Pipes
  <2>3. hw'.hold = hw.hold /\ hw'.pos = hw.pos /\ hw'.on = hw.on
    BY <1>1, <2>1 DEF HwTypes
  <2>5. PICK q \in Qh : q = th[t].q
    BY <2>2
  <2>6. PipeOk(q)' /\ WaitOk(t)'
    BY <2>1, <2>3 DEF Carried, PipeOk, WaitOk, Fetched
  <2> QED BY <2>1, <2>3, <2>5, <2>6, CarriedStep
<1>5. ASSUME control(t) \/ control_done(t) \/ control_timeout(t) \/ waittick(t) \/ ehci_waittick(t),
             NEW q \in Qh, q = th[t].q, th[t].pc # "idle", PipeOk(q)', WaitOk(t)', \A p \in Qh : p # q => qh'[p] = qh[p]
      PROVE  Carried'
  <2>1. /\ \A u \in Thread \ {t} : th'[u] = th[u]
        /\ \/ hw'.pos = hw.pos /\ hw'.on = hw.on /\ hw'.hold = hw.hold
           \/ waittick(t) /\ th[t].saved /\ hw' = Restart
    BY <1>5, Waiting
  <2>2. CASE waittick(t) /\ th[t].saved /\ hw' = Restart
    <3>1. kind = "ohci" /\ ~hw.on
      BY <2>2 DEF waittick, Stopped
    <3>2. ~hw.hold
      BY <3>1 DEF Carried, Active
    <3>3. ~hw'.hold
      BY <1>1, <2>2, <3>2 DEF Restart, HwTypes
    <3> QED BY <1>5, <2>1, <3>3, CarriedStep
  <2>3. CASE hw'.pos = hw.pos /\ hw'.on = hw.on /\ hw'.hold = hw.hold
    BY <1>5, <2>1, <2>3, CarriedStep
  <2> QED BY <2>1, <2>2, <2>3
<1>6. ASSUME th[t].pc # "idle" PROVE th[t].q \in Qh /\ qh[th[t].q] \in PipeTypes
  BY <1>1, <1>6 DEF Owners, Pipes
<1>7. ASSUME NEW q \in Qh, NEW r, qh' = [qh EXCEPT ![q] = r]
      PROVE  qh'[q] = r /\ \A p \in Qh : p # q => qh'[p] = qh[p]
  BY <1>1, <1>7
<1>8. ASSUME NEW x, th' = [th EXCEPT ![t] = x] PROVE th'[t] = x
  BY <1>1, <1>8
<1>9. CASE control(t)
  <2>1. PICK q, r, x :
          /\ q = th[t].q
          /\ r = [qh[q] EXCEPT !.el = "td", !.skip = FALSE, !.tds = TRUE, !.late = FALSE]
          /\ x = [th[t] EXCEPT !.pc = "wait"]
    OBVIOUS
  <2>2. th[t].pc = "open" /\ qh' = [qh EXCEPT ![q] = r] /\ th' = [th EXCEPT ![t] = x]
    BY <1>9, <2>1 DEF control
  <2>3. q \in Qh /\ r.el = "td" /\ r.tds
    BY <1>6, <2>1, <2>2 DEF PipeTypes
  <2>4. x.pc = "wait"
    BY <1>1, <2>1 DEF ThreadTypes
  <2>5. /\ qh'[q] = r /\ th'[t] = x
        /\ \A p \in Qh : p # q => qh'[p] = qh[p]
    BY <1>7, <1>8, <2>2, <2>3
  <2>6. PipeOk(q)' /\ WaitOk(t)'
    BY <2>3, <2>4, <2>5 DEF PipeOk, WaitOk
  <2> QED BY <1>5, <1>9, <2>1, <2>2, <2>3, <2>5, <2>6
<1>10. CASE control_done(t)
  <2>1. PICK q, r, x :
          /\ q = th[t].q
          /\ r = [qh[q] EXCEPT !.skip = kind # "uhci", !.tds = FALSE]
          /\ x = [th[t] EXCEPT !.pc = "open"]
    OBVIOUS
  <2>2. /\ th[t].pc = "wait" /\ qh' = [qh EXCEPT ![q] = r] /\ th' = [th EXCEPT ![t] = x] /\ hw' = hw
        /\ qh[q].el = "term"
    BY <1>10, <2>1 DEF control_done
  <2>3. q \in Qh /\ r.el = "term" /\ r.late = qh[q].late
    BY <1>6, <2>1, <2>2 DEF PipeTypes
  <2>4. x.pc = "open"
    BY <1>1, <2>1 DEF ThreadTypes
  <2>5. /\ qh'[q] = r /\ th'[t] = x
        /\ \A p \in Qh : p # q => qh'[p] = qh[p]
    BY <1>7, <1>8, <2>2, <2>3
  <2>6. PipeOk(q)'
    <3>1. PipeOk(q) /\ (Fetched(q)' <=> Fetched(q))
      BY <2>2, <2>3 DEF Carried, Fetched
    <3> QED BY <2>2, <2>3, <2>5, <3>1 DEF PipeOk
  <2>7. WaitOk(t)'
    BY <2>4, <2>5 DEF WaitOk
  <2> QED BY <1>5, <1>10, <2>1, <2>2, <2>3, <2>5, <2>6, <2>7
<1>11. CASE control_timeout(t)
  <2>1. PICK q, r, x :
          /\ q = th[t].q
          /\ r = [qh[q] EXCEPT !.skip = kind # "uhci", !.late = TRUE,
                               !.el = IF kind = "ohci" THEN qh[q].el ELSE "term"]
          /\ x = [th[t] EXCEPT !.pc = IF kind = "ehci" THEN "bell" ELSE "tick",
                               !.moved = FALSE, !.saved = FALSE, !.what = "tds"]
    OBVIOUS
  <2>2. th[t].pc = "wait" /\ qh' = [qh EXCEPT ![q] = r] /\ th' = [th EXCEPT ![t] = x] /\ hw' = hw
    BY <1>11, <2>1 DEF control_timeout, Wait
  <2>3. /\ q \in Qh /\ r.late /\ r.tds = qh[q].tds
        /\ kind = "ohci" => r.skip /\ r.el = qh[q].el
    BY <1>6, <2>1, <2>2 DEF PipeTypes
  <2>4. ~x.moved /\ x.q = q
    BY <1>1, <2>1 DEF ThreadTypes
  <2>5. /\ qh'[q] = r /\ th'[t] = x
        /\ \A p \in Qh : p # q => qh'[p] = qh[p]
    BY <1>7, <1>8, <2>2, <2>3
  <2>6. PipeOk(q)'
    <3>1. PipeOk(q) /\ (Fetched(q)' <=> Fetched(q))
      BY <2>2, <2>3 DEF Carried, Fetched
    <3> QED BY <2>2, <2>3, <2>5, <3>1 DEF PipeOk
  <2>7. WaitOk(t)'
    BY <2>3, <2>4, <2>5 DEF WaitOk
  <2> QED BY <1>5, <1>11, <2>1, <2>2, <2>3, <2>5, <2>6, <2>7
<1>12. CASE waittick(t)
  <2>1. PICK q \in Qh : q = th[t].q /\ th[t].pc = "tick" /\ th[t].moved /\ Freed(t)
    BY <1>6, <1>12 DEF waittick
  <2>2. CASE th[t].what = "tds"
    <3>1. PICK r, x : r = [qh[q] EXCEPT !.tds = FALSE] /\ x = [Idle EXCEPT !.pc = "open", !.q = q]
      OBVIOUS
    <3>2. qh' = [qh EXCEPT ![q] = r] /\ th' = [th EXCEPT ![t] = x]
      BY <2>1, <2>2, <3>1 DEF Freed
    <3>3. r.late = qh[q].late /\ r.skip = qh[q].skip /\ r.el = qh[q].el
      BY <1>1, <2>1, <3>1 DEF PipeTypes
    <3>4. x.pc = "open"
      BY <3>1 DEF Idle
    <3>5. /\ qh'[q] = r /\ th'[t] = x
          /\ \A p \in Qh : p # q => qh'[p] = qh[p]
      BY <1>7, <1>8, <2>1, <3>2
    <3>6. /\ kind = "uhci" => qh[q].late
          /\ kind = "ohci" => qh[q].skip /\ ~Fetched(q)
      BY <2>1, <2>2 DEF Carried, WaitOk
    <3>7. Fetched(q)' => Fetched(q) \/ q = "end"
      BY <1>1, <1>12, Waiting DEF Fetched, Restart, HwTypes
    <3>8. PipeOk(q)'
      <4>1. q # "end"
        BY <2>1, Names
      <4> QED BY <3>3, <3>5, <3>6, <3>7, <4>1 DEF PipeOk
    <3>9. WaitOk(t)'
      BY <3>4, <3>5 DEF WaitOk
    <3> QED BY <1>5, <1>12, <2>1, <3>5, <3>8, <3>9
  <2>3. CASE th[t].what # "tds"
    <3>1. th[t].what = "pipe"
      BY <1>1, <2>3 DEF ThreadTypes
    <3>2. qh' = [qh EXCEPT ![q] = NewPipe("free", 0)] /\ th' = [th EXCEPT ![t] = Idle]
      BY <2>1, <2>3 DEF Freed
    <3>3. /\ qh'[q] = NewPipe("free", 0) /\ th'[t] = Idle
          /\ \A p \in Qh : p # q => qh'[p] = qh[p]
      BY ZenonT(60), <1>7, <1>8, <2>1, <3>2
    <3>4. ~Fetched(q)
      <4>1. q \in Gone
        BY <2>1, <3>1 DEF Gone, Passed
      <4> QED BY <1>2, <4>1
    <3>5. Fetched(q)' => Fetched(q) \/ q = "end"
      BY <1>1, <1>12, Waiting DEF Fetched, Restart, HwTypes
    <3>6. PipeOk(q)' /\ WaitOk(t)'
      <4>1. q # "end"
        BY <2>1, Names
      <4> QED BY <3>3, <3>4, <3>5, <4>1 DEF PipeOk, WaitOk, NewPipe, Idle
    <3> QED BY <1>5, <1>12, <2>1, <3>3, <3>6
  <2> QED BY <2>2, <2>3
<1>13. CASE ehci_waittick(t)
  <2>1. kind = "ehci" /\ th[t].pc \in {"bell", "bellcmd", "rung"} /\ (qh' = qh \/ Freed(t))
    BY <1>13 DEF ehci_waittick
  <2>2. PICK q \in Qh : q = th[t].q
    BY <1>6, <2>1
  <2>3. PipeOk(q)' /\ WaitOk(t)'
    BY <2>1 DEF PipeOk, WaitOk
  <2>4. \A p \in Qh : p # q => qh'[p] = qh[p]
    BY <1>1, <2>1, <2>2 DEF Freed
  <2> QED BY <1>5, <1>13, <2>1, <2>2, <2>3, <2>4
<1> QED BY <1>3, <1>4, <1>9, <1>10, <1>11, <1>12, <1>13

(* Every step of the controller.                                           *)
LEMMA CarriedHw ==
  ASSUME ListTypes, Owners, Carried, kind' = kind, hw_move \/ hw_frame \/ hw_fetch \/ hw_retire
  PROVE  Carried'
<1>1. th \in [Thread -> ThreadTypes] /\ hw \in HwTypes /\ qh \in [Qh -> PipeTypes]
  BY DEF ListTypes, ThreadTypes, HwTypes
<1>2. ASSUME NEW t \in Thread, th[t].pc = "tick", th[t].what = "tds"
      PROVE  \E q : /\ q = th[t].q
                    /\ kind = "uhci" => qh[q].late
                    /\ kind = "ohci" => qh[q].skip /\ (th[t].moved => ~Fetched(q))
  BY <1>2 DEF Carried, WaitOk
<1>3. CASE hw_move \/ hw_frame
  <2>1. qh' = qh /\ ~hw.hold
    BY <1>3 DEF hw_move, hw_frame
  <2>2. ~hw'.hold
    BY <1>1, <1>3, <2>1 DEF hw_move, hw_frame, HwTypes
  <2>3. ASSUME NEW q \in Qh PROVE PipeOk(q)'
    BY <2>1, <2>2 DEF Carried, PipeOk, Fetched
  <2>4. ASSUME NEW t \in Thread PROVE WaitOk(t)'
    <3>1. th'[t].pc = th[t].pc /\ th'[t].q = th[t].q /\ th'[t].what = th[t].what
      <4>1. CASE th' = th
        BY <4>1
      <4>2. CASE th' = [u \in Thread |-> [th[u] EXCEPT !.moved = th[u].pc = "tick"]]
        BY <1>1, <4>2 DEF ThreadTypes
      <4> QED BY <1>3, <4>1, <4>2 DEF hw_move, hw_frame
    <3> QED BY <2>1, <2>2, <3>1 DEF Carried, WaitOk, Fetched
  <2> QED BY <2>2, <2>3, <2>4 DEF Carried
<1>4. ASSUME hw_fetch \/ hw_retire
      PROVE  \E p, e : /\ p = hw.pos /\ p \in Qh /\ e \in {"td", "term"}
                       /\ qh'[p].el = e
                       /\ \A q \in Qh : /\ qh'[q].skip = qh[q].skip /\ qh'[q].late = qh[q].late
                                        /\ qh'[q].tds = qh[q].tds
                                        /\ q # p => qh'[q] = qh[q]
                       /\ hw'.pos = p /\ hw'.on = hw.on /\ th' = th
                       /\ hw'.hold = hw_fetch
                       /\ hw_fetch => qh[p].el = "td" /\ ~qh[p].skip /\ (kind # "ehci" => e = "td")
  <2>1. PICK p, e : /\ p = hw.pos /\ e \in {"td", "term"} /\ qh' = [qh EXCEPT ![p].el = e]
                    /\ (hw_fetch /\ kind # "ehci") => e = "td"
    <3>1. CASE hw_fetch
      BY <3>1 DEF hw_fetch
    <3>2. CASE hw_retire
      <4>1. ~hw_fetch /\ hw.pos \in Qh
        BY <3>2 DEF hw_fetch, hw_retire, Carried
      <4>2. qh[hw.pos].el \in {"td", "term"}
        BY <1>1, <4>1 DEF PipeTypes
      <4> QED BY <3>2, <4>1, <4>2 DEF hw_retire
    <3> QED BY <1>4, <3>1, <3>2
  <2>2. p \in Qh /\ (hw_fetch => qh[p].el = "td" /\ ~qh[p].skip)
    BY <1>4, <2>1 DEF hw_fetch, hw_retire, Carried
  <2>3. qh'[p] = [qh[p] EXCEPT !.el = e] /\ \A q \in Qh : q # p => qh'[q] = qh[q]
    BY <1>1, <2>1, <2>2
  <2>4. qh'[p].el = e /\ qh'[p].skip = qh[p].skip /\ qh'[p].late = qh[p].late /\ qh'[p].tds = qh[p].tds
    BY <1>1, <2>2, <2>3 DEF PipeTypes
  <2>5. hw'.pos = p /\ hw'.on = hw.on /\ th' = th /\ hw'.hold = hw_fetch
    <3>1. CASE hw_fetch
      BY <1>1, <2>1, <3>1 DEF hw_fetch, HwTypes
    <3>2. CASE hw_retire
      BY <1>1, <2>1, <3>2 DEF hw_fetch, hw_retire, HwTypes
    <3> QED BY <1>4, <3>1, <3>2
  <2> QED BY <2>1, <2>2, <2>3, <2>4, <2>5
<1>5. CASE hw_fetch \/ hw_retire
  <2>1. PICK p, e :
          /\ p = hw.pos /\ p \in Qh /\ e \in {"td", "term"}
          /\ qh'[p].el = e
          /\ \A q \in Qh : /\ qh'[q].skip = qh[q].skip /\ qh'[q].late = qh[q].late
                           /\ qh'[q].tds = qh[q].tds
                           /\ q # p => qh'[q] = qh[q]
          /\ hw'.pos = p /\ hw'.on = hw.on /\ th' = th
          /\ hw'.hold = hw_fetch
          /\ hw_fetch => qh[p].el = "td" /\ ~qh[p].skip /\ (kind # "ehci" => e = "td")
    BY <1>4, <1>5
  <2>2. hw'.hold => Active' /\ hw'.pos \in Qh
    <3>1. hw_fetch => Active
      BY DEF hw_fetch
    <3>2. Active' = Active
      BY <2>1 DEF Active
    <3> QED BY <2>1, <3>1, <3>2
  <2>3. \A q : Fetched(q)' <=> (hw_fetch /\ q = p)
    BY <2>1 DEF Fetched
  <2>4. hw_retire => Fetched(p)
    BY <2>1 DEF Fetched, hw_retire
  <2>5. ASSUME NEW q \in Qh PROVE PipeOk(q)'
    <3>1. PipeOk(q)
      BY DEF Carried
    <3>2. CASE q # p
      BY <2>1, <2>3, <3>1, <3>2 DEF PipeOk
    <3>3. CASE q = p
      <4>1. CASE hw_fetch
        BY <2>1, <2>3, <3>1, <3>3, <4>1 DEF PipeOk
      <4>2. CASE ~hw_fetch
        BY <1>5, <2>1, <2>3, <2>4, <3>1, <3>3, <4>2 DEF PipeOk
      <4> QED BY <4>1, <4>2
    <3> QED BY <3>2, <3>3
  <2>6. ASSUME NEW t \in Thread PROVE WaitOk(t)'
    <3>1. SUFFICES ASSUME th[t].pc = "tick", th[t].what = "tds"
                   PROVE  /\ kind = "uhci" => qh'[th[t].q].late
                          /\ kind = "ohci" => qh'[th[t].q].skip /\ (th[t].moved => ~(hw_fetch /\ th[t].q = p))
      BY <2>1, <2>3 DEF WaitOk
    <3>2. PICK q : /\ q = th[t].q
                   /\ kind = "uhci" => qh[q].late
                   /\ kind = "ohci" => qh[q].skip /\ (th[t].moved => ~Fetched(q))
      BY <1>2, <3>1
    <3>3. q \in Qh
      BY <3>1, <3>2 DEF Owners, Pipes
    <3> QED BY <2>1, <3>2, <3>3
  <2> QED BY <2>2, <2>5, <2>6 DEF Carried
<1> QED BY <1>3, <1>5

-----------------------------------------------------------------------------
(* The inductive invariant of the lists.                                   *)
ListsInv == ListsKept /\ Stopped /\ Ahead /\ Carried

(* The lists of a controller whose registers were just written. *)
LEMMA FirstLists ==
  ASSUME ListInit, kind \in {"uhci", "ehci", "ohci"}
  PROVE  Lists /\ Ranked
<1>1. /\ next["intr"] = (IF kind = "uhci" THEN "term" ELSE "end") /\ next["term"] = "end"
      /\ next["async"] = "async" /\ next["control"] = "end"
  BY Names DEF ListInit
<1>2. Pipes("control") = {} /\ Pipes("bulk") = {} /\ Pipes("intr") = {}
  BY DEF ListInit, Pipes, NewPipe
<1>3. InList = {} /\ \A k : Periodic(k) = {"intr"} \cup (IF kind = "uhci" THEN {"term"} ELSE {})
  BY <1>2 DEF InList, Periodic
<1>4. /\ 0 \in Frame /\ \A k \in Frame : frames[k] = "intr"
  BY Frames DEF ListInit, Frame
<1>5. ASSUME NEW h \in Node, NEW e, next[h] = e, e \in {"end", h} PROVE ListedIn(next, h, {h}, e)
  <2> DEFINE s == <<h>>
  <2>1. Linkage(next, h, s, e, 1)
    BY <1>5 DEF Linkage
  <2>2. {s[i] : i \in 1..1} = {h}
    OBVIOUS
  <2> HIDE DEF s
  <2>3. Chain(next, h, s, e) /\ Members(s) = {h}
    BY <2>1, <2>2, IsChain
  <2> QED BY <2>3, ListedAs
<1>6. ASSUME kind = "uhci" PROVE ListedIn(next, "intr", {"intr", "term"}, "end")
  <2> DEFINE s == <<"intr", "term">>
  <2>1. Linkage(next, "intr", s, "end", 2)
    BY <1>1, <1>6, Names DEF Linkage
  <2>2. {s[i] : i \in 1..2} = {"intr", "term"}
    OBVIOUS
  <2> HIDE DEF s
  <2>3. Chain(next, "intr", s, "end") /\ Members(s) = {"intr", "term"}
    BY <2>1, <2>2, IsChain
  <2> QED BY <2>3, ListedAs
<1>7. \A k \in Frame : ListedIn(next, frames[k], Periodic(k), "end")
  <2>1. CASE kind = "uhci"
    <3>1. \A k \in Frame : Periodic(k) = {"intr", "term"}
      BY <1>3, <2>1
    <3> QED BY <1>4, <1>6, <2>1, <3>1
  <2>2. CASE kind # "uhci"
    <3>1. \A k \in Frame : Periodic(k) = {"intr"}
      BY <1>3, <2>2
    <3>2. ListedIn(next, "intr", {"intr"}, "end")
      BY <1>1, <1>5, <2>2, Names
    <3> QED BY <1>4, <3>1, <3>2
  <2> QED BY <2>1, <2>2
<1>8. ASSUME kind # "uhci" PROVE ListedIn(next, ListHead, {ListHead} \cup InList, HeadEnd)
  <2>1. ListHead \in Node /\ next[ListHead] = HeadEnd /\ HeadEnd \in {"end", ListHead}
    BY <1>1, <1>8, Names DEF ListHead, HeadEnd
  <2>2. ListedIn(next, ListHead, {ListHead}, HeadEnd)
    BY <1>5, <2>1
  <2>3. {ListHead} \cup InList = {ListHead}
    BY <1>3
  <2> QED BY <2>2, <2>3
<1>9. Lists
  BY <1>4, <1>7, <1>8 DEF Lists
<1>10. ASSUME kind = "uhci" PROVE Climbing /\ LastOf(last.control, 1) /\ LastOf(last.bulk, 2)
  <2>1. Periodic(0) = {"intr", "term"} /\ last.control = "intr" /\ last.bulk = "intr"
    BY <1>3, <1>10 DEF ListInit
  <2>2. Rank(qh, "intr") = 0 /\ Rank(qh, "term") = 4
    BY Names DEF Rank
  <2> QED BY <1>1, <1>10, <2>1, <2>2 DEF Climbing, LastOf
<1> QED BY <1>9, <1>10 DEF Ranked

(* It holds of a controller that was just started, ...                     *)
LEMMA ListsInit == ASSUME PipesInit PROVE ListsInv
<1>1. ListInit /\ kind \in {"uhci", "ehci", "ohci"}
  BY DEF PipesInit
<1>2. ListTypes
  <2>1. qh \in [Qh -> PipeTypes]
    BY <1>1, PipeParts DEF ListInit
  <2>2. next \in [Node -> Node \cup {"end"}]
    BY <1>1, Names DEF ListInit
  <2>3. frames \in [Frame -> Node] /\ last \in [control : Node, bulk : Node]
    BY <1>1, Names DEF ListInit, Frame
  <2>4. hw \in [pos : Node \cup {"end"}, hold : BOOLEAN, on : BOOLEAN, cle : BOOLEAN, iaad : BOOLEAN, iaa : BOOLEAN]
    BY <1>1, Names DEF ListInit
  <2>5. th \in [Thread -> [pc : {"idle", "open", "wait"} \cup Waits, q : Qh \cup {"none"}, moved : BOOLEAN,
                           saved : BOOLEAN, what : {"tds", "pipe"}]]
    BY <1>1 DEF ListInit, Idle
  <2> QED BY <1>1, <2>1, <2>2, <2>3, <2>4, <2>5 DEF ListTypes
<1>3. \A t \in Thread : th[t].pc = "idle" /\ th[t].what = "tds" /\ ~th[t].saved /\ ~th[t].moved
  BY <1>1 DEF ListInit, Idle
<1>4. Owners
  BY <1>3 DEF Owners, Waits
<1>5. Stopped
  <2>1. hw.pos = (IF kind = "ehci" THEN "async" ELSE "end")
    BY <1>1 DEF ListInit
  <2> QED BY <1>3, <2>1 DEF Stopped
<1>6. Ahead
  <2>1. Gone = {} /\ "async" \notin Free /\ "async" \in Node /\ next["async"] = "async"
    BY <1>1, <1>3, Names DEF ListInit, Gone, Free
  <2>2. hw.pos = (IF kind = "ehci" THEN "async" ELSE "end")
    BY <1>1 DEF ListInit
  <2>3. CASE kind = "ehci"
    <3>1. Safe({"async"})
      BY <2>1, <2>2, <2>3 DEF Safe, Closed
    <3> QED BY <2>2, <2>3, <3>1 DEF Ahead
  <2>4. CASE kind # "ehci"
    <3>1. Safe({})
      BY <2>1, <2>2, <2>4 DEF Safe, Closed, Active
    <3> QED BY <2>4, <3>1 DEF Ahead
  <2> QED BY <2>3, <2>4
<1>7. Carried
  <2>1. ~hw.hold /\ \A q \in Qh : qh[q].el = "term"
    BY <1>1 DEF ListInit, NewPipe
  <2> QED BY <1>3, <2>1 DEF Carried, PipeOk, WaitOk, Fetched
<1> QED BY <1>1, <1>2, <1>4, <1>5, <1>6, <1>7, FirstLists DEF ListsInv, ListsKept

(* ... and every step keeps it.                                            *)
LEMMA ListsStep == ASSUME ListsInv, [PipesNext]_pipesVars PROVE ListsInv'
<1>1. ListTypes /\ Owners /\ Lists /\ Ranked /\ Stopped /\ Ahead /\ Carried /\ ListsKept
  BY DEF ListsInv, ListsKept
<1>2. kind' = kind
  BY DEF PipesNext, pipesVars
<1>3. CASE UNCHANGED listVars
  <2>1. qh' = qh /\ next' = next /\ frames' = frames /\ last' = last /\ hw' = hw /\ th' = th
    BY <1>3 DEF listVars
  <2>2. SameUses /\ Unlinking' = Unlinking /\ Gone' = Gone /\ Active' = Active
    BY <1>2, <2>1 DEF SameUses, Unlinking, Gone, Passed, Active
  <2>3. InList' = InList /\ Free' = Free /\ Pipes("control")' = Pipes("control") /\ Pipes("intr")' = Pipes("intr")
        /\ \A k : Periodic(k)' = Periodic(k)
    BY <1>2, <2>2, SameSets
  <2>4. ListTypes'
    BY <1>1, <1>2, <2>1 DEF ListTypes, Frame
  <2>5. Owners'
    BY <1>1, <1>2, <2>1, <2>3 DEF Owners
  <2>6. Lists' /\ Ranked'
    BY <1>1, <1>2, <2>1, <2>3, ListsStay
  <2>7. Stopped'
    BY <1>1, <1>2, <2>1, <2>3 DEF Stopped
  <2>8. Ahead'
    <3>1. PICK s : Safe(s)
      BY <1>1 DEF Ahead
    <3>2. Safe(s)'
      BY <1>2, <2>1, <2>2, <2>3, <3>1 DEF Safe, Closed
    <3> QED BY <1>1, <1>2, <2>1, <3>2 DEF Ahead
  <2>9. Carried'
    <3>1. \A q \in Qh : PipeOk(q)'
      BY <1>1, <1>2, <2>1 DEF Carried, PipeOk, Fetched
    <3>2. \A t \in Thread : WaitOk(t)'
      BY <1>1, <1>2, <2>1 DEF Carried, WaitOk, Fetched
    <3> QED BY <1>1, <2>1, <2>2, <3>1, <3>2 DEF Carried
  <2> QED BY <2>4, <2>5, <2>6, <2>7, <2>8, <2>9 DEF ListsInv, ListsKept
<1>4. CASE ListNext
  <2>1. kind = "ehci" => hw.pos # "end"
    BY <1>1 DEF Ahead
  <2>2. ListsKept'
    BY <1>1, <1>2, <1>4, <2>1, StepLists
  <2>3. ASSUME NEW t \in Thread,
               \/ alloc_control_pipe(t) \/ alloc_bulk_pipe(t)
               \/ \E e \in 0..MaxExp : alloc_intr_pipe(t, e)
               \/ free_pipe(t)
               \/ control(t) \/ control_done(t) \/ control_timeout(t)
               \/ waittick(t) \/ ehci_waittick(t)
        PROVE  Stopped' /\ Ahead' /\ Carried'
    BY <1>1, <1>2, <2>3, StoppedCalls, AheadCalls, CarriedCalls
  <2>4. CASE hw_move \/ hw_frame \/ hw_fetch \/ hw_retire
    <3>1. SameUses /\ Unlinking' = Unlinking
      BY <1>1, <1>2, <2>1, <2>4, HwKeeps
    <3>2. InList' = InList
      BY <1>2, <3>1, SameSets
    <3>3. Stopped'
      BY <1>1, <1>2, <2>4, <3>2, StoppedHw
    <3>4. Ahead'
      BY <1>1, <1>2, <2>4, <3>1, AheadHw
    <3>5. Carried'
      BY <1>1, <1>2, <2>4, CarriedHw
    <3> QED BY <2>2, <3>3, <3>4, <3>5 DEF ListsInv
  <2> QED BY <1>4, <2>2, <2>3, <2>4 DEF ListsInv, ListNext
<1> QED BY <1>3, <1>4 DEF PipesNext, pipesVars, listVars

-----------------------------------------------------------------------------
(* What the invariant says of the lists.                                   *)
LEMMA ListsNothingFreed == ASSUME ListsInv PROVE NothingFreed
<1>1. Ahead /\ Carried /\ ListTypes
  BY DEF ListsInv, ListsKept
<1>2. HwAt \cap Free = {}
  <2>1. PICK s : Safe(s)
    BY <1>1 DEF Ahead
  <2> QED BY <2>1 DEF Safe, HwAt
<1>3. ASSUME hw.hold, kind = "ohci" \/ (kind = "uhci" /\ ~qh[hw.pos].late) PROVE qh[hw.pos].tds
  <2>1. hw.pos \in Qh /\ Fetched(hw.pos)
    BY <1>1, <1>3 DEF Carried, Fetched
  <2>2. PipeOk(hw.pos)
    BY <1>1, <2>1 DEF Carried
  <2> QED BY <1>3, <2>1, <2>2 DEF PipeOk
<1> QED BY <1>2, <1>3 DEF NothingFreed

(* The sets of what is come by, apart. *)
LEMMA ListsApart ==
  ASSUME ListTypes, Owners
  PROVE  /\ InList \cap Pipes("intr") = {} /\ InList \cap Free = {} /\ InList \cap Unlinking = {}
         /\ Pipes("intr") \cap (Pipes("control") \cup Pipes("bulk")) = {} /\ Pipes("intr") \cap Free = {}
         /\ InList \subseteq Pipes("control") \cup Pipes("bulk")
         /\ Unlinking \subseteq Pipes("control") /\ Free \subseteq Qh
         /\ Pipes("intr") \subseteq Qh /\ Pipes("control") \subseteq Qh /\ Pipes("bulk") \subseteq Qh
BY PipeSets DEF InList, Pipes, Free

(* The pipes are where the controller finds them.                          *)
LEMMA ListsScheduled == ASSUME ListsInv PROVE Scheduled
<1>1. ListTypes /\ Owners /\ Lists /\ Ranked
  BY DEF ListsInv, ListsKept
<1>2. DOMAIN frames = Frame /\ 0 \in Frame /\ frames[0] = "intr" /\ \A q \in Qh : Due(q, 0) <=> qh[q].exp = 0
  BY <1>1, FrameZero DEF ListTypes, Lists
<1>3. ASSUME NEW k \in Frame PROVE OnPath(frames[k]) = Periodic(k)
  <2>1. ListedIn(next, frames[k], Periodic(k), "end")
    BY <1>1 DEF Lists
  <2> QED BY <2>1, PathNow DEF OnPath, ListedIn, Members
<1>4. OnPath(ListHead) = IF kind = "uhci" THEN Periodic(0) ELSE {ListHead} \cup InList
  <2>1. CASE kind = "uhci"
    BY <1>2, <1>3, <2>1 DEF ListHead
  <2>2. CASE kind # "uhci"
    <3>1. ListedIn(next, ListHead, {ListHead} \cup InList, HeadEnd)
      BY <1>1, <2>2 DEF Lists
    <3>2. OnPath(ListHead) = {ListHead} \cup InList
      BY <3>1, PathNow DEF OnPath, ListedIn, Members
    <3> QED BY <2>2, <3>2
  <2> QED BY <2>1, <2>2
<1>5. \A k \in DOMAIN frames : OnPath(frames[k]) \cap Pipes("intr") = {q \in Pipes("intr") : Due(q, k)}
  <2>1. ASSUME NEW k \in Frame PROVE Periodic(k) \cap Pipes("intr") = {q \in Pipes("intr") : Due(q, k)}
    BY <1>1, ListsApart, Names DEF Periodic
  <2> QED BY <1>2, <1>3, <2>1
<1>6. ListHead \in Node \ Qh
  BY <1>1, Names DEF ListHead, ListTypes
<1>7. /\ OnPath(ListHead) \cap (Pipes("control") \cup Pipes("bulk")) = InList
      /\ OnPath(ListHead) \cap (Free \cup Unlinking) = {}
  <2>1. CASE kind = "uhci"
    <3>1. OnPath(ListHead) \subseteq {"intr", "term"} \cup Pipes("intr") \cup InList /\ InList \subseteq OnPath(ListHead)
      BY <1>4, <2>1 DEF Periodic
    <3> QED BY <1>1, <3>1, ListsApart, Names
  <2>2. CASE kind # "uhci"
    BY <1>1, <1>4, <1>6, <2>2, ListsApart
  <2> QED BY <2>1, <2>2
<1>8. ASSUME kind = "uhci", NEW p \in Periodic(0), NEW q \in Periodic(0), Rank(qh, p) < Rank(qh, q)
      PROVE  Before(p, q, Path("intr"))
  <2>1. PICK c, rank : c = Periodic(0) /\ rank = [n \in c |-> Rank(qh, n)]
    OBVIOUS
  <2>2. ListedIn(next, "intr", c, "end")
    BY <1>1, <1>2, <2>1 DEF Lists
  <2>3. \A n \in c : Rank(qh, n) \in 0..4 /\ next[n] \in c \cup {"end"}
    BY <1>1, <2>1, Ranks
  <2>4. rank \in [c -> Nat] /\ \A n \in c : rank[n] = Rank(qh, n)
    BY <2>1, <2>3
  <2>5. \A n \in c : next[n] # "end" => rank[n] <= rank[next[n]]
    BY <1>1, <1>8, <2>1, <2>3, <2>4 DEF Ranked, Climbing
  <2>6. p \in c /\ q \in c /\ rank[p] < rank[q]
    BY <1>8, <2>1, <2>4
  <2>7. \E i, j \in 1..Len(PathOf(next, "intr")) :
          i < j /\ PathOf(next, "intr")[i] = p /\ PathOf(next, "intr")[j] = q
    BY <2>2, <2>4, <2>5, <2>6, InRankOrder
  <2> QED BY <2>7, PathNow DEF Before
<1>9. ASSUME kind = "uhci"
      PROVE  /\ \A k \in DOMAIN frames : "intr" \in OnPath(frames[k])
             /\ \A p \in Pipes("control") \ Unlinking, q \in Pipes("bulk") : Before(p, q, Path("intr"))
             /\ \A p \in Pipes("intr"), q \in Pipes("control") \ Unlinking :
                  qh[p].exp = 0 => Before(p, q, Path("intr"))
  <2>1. InList \subseteq Periodic(0) /\ {q \in Pipes("intr") : Due(q, 0)} \subseteq Periodic(0)
    BY <1>9 DEF Periodic
  <2>2. Pipes("control") \ Unlinking \subseteq InList /\ Pipes("bulk") \subseteq InList
    BY <1>1, PipeSets DEF InList, Pipes
  <2>3. /\ \A q \in Pipes("intr") : Rank(qh, q) = 1
        /\ \A q \in Pipes("control") : Rank(qh, q) = 2
        /\ \A q \in Pipes("bulk") : Rank(qh, q) = 3
    BY Names DEF Rank, Pipes
  <2>4. \A k \in DOMAIN frames : "intr" \in OnPath(frames[k])
    BY <1>2, <1>3 DEF Periodic
  <2>5. ASSUME NEW p \in Pipes("control") \ Unlinking, NEW q \in Pipes("bulk") PROVE Before(p, q, Path("intr"))
    <3>1. p \in Periodic(0) /\ q \in Periodic(0) /\ Rank(qh, p) < Rank(qh, q)
      BY <2>1, <2>2, <2>3
    <3> QED BY <1>8, <1>9, <3>1
  <2>6. ASSUME NEW p \in Pipes("intr"), NEW q \in Pipes("control") \ Unlinking, qh[p].exp = 0
        PROVE  Before(p, q, Path("intr"))
    <3>1. p \in Periodic(0)
      BY <1>2, <2>1, <2>6 DEF Pipes
    <3>2. q \in Periodic(0) /\ Rank(qh, p) < Rank(qh, q)
      BY <2>1, <2>2, <2>3
    <3> QED BY <1>8, <1>9, <3>1, <3>2
  <2> QED BY <2>4, <2>5, <2>6
<1>10. InList = (Pipes("control") \cup Pipes("bulk")) \ Unlinking
  BY DEF InList
<1> QED BY <1>5, <1>7, <1>9, <1>10 DEF Scheduled

-----------------------------------------------------------------------------
(* A bulk transfer is not longer than it was asked for.                    *)
BulkBounds ==
  bulk.n \in 0..MaxPackets /\ bulk.pos \in 0..bulk.n /\ bulk.drained \in 0..StackTds

(* Every step keeps that.                                                  *)
LEMMA BoundsStep == ASSUME BulkInv, BulkBounds, [PipesNext]_pipesVars PROVE BulkBounds'
<1>1. /\ bulk.n \in Nat /\ bulk.n <= MaxPackets /\ bulk.pos \in Nat /\ bulk.pos <= bulk.n
      /\ bulk.drained \in Nat /\ bulk.drained <= StackTds
  BY DEF BulkBounds
<1>2. CASE bulk' = bulk
  BY <1>2 DEF BulkBounds
<1>3. ASSUME NEW n \in 1..MaxPackets, send_bulk(n) PROVE BulkBounds'
  BY <1>3 DEF send_bulk, BulkBounds
<1>4. CASE send_bulk_fill
  <2>1. bulk.pos < bulk.n /\ bulk'.n = bulk.n /\ bulk'.drained = bulk.drained /\ bulk'.pos = bulk.pos + 1
    BY <1>4 DEF send_bulk_fill, BulkInv, BulkTypes
  <2> QED BY <1>1, <2>1 DEF BulkBounds
<1>5. CASE send_bulk_drain
  <2>1. /\ bulk'.n = bulk.n /\ bulk'.pos = bulk.pos
        /\ bulk'.drained = bulk.drained \/ (bulk.drained # StackTds /\ bulk'.drained = bulk.drained + 1)
    BY <1>5 DEF send_bulk_drain, DrainCount, BulkInv, BulkTypes
  <2> QED BY <1>1, <2>1 DEF BulkBounds
<1>6. CASE send_bulk_fail \/ send_bulk_return \/ hw_bulk
  <2>1. bulk'.n = bulk.n /\ bulk'.drained = bulk.drained /\ bulk'.pos = bulk.pos
    BY <1>6 DEF send_bulk_fail, send_bulk_return, hw_bulk, BulkInv, BulkTypes
  <2> QED BY <1>1, <2>1 DEF BulkBounds
<1>7. bulk' = bulk \/ BulkNext
  BY DEF PipesNext, pipesVars
<1> QED BY <1>2, <1>3, <1>4, <1>5, <1>6, <1>7 DEF BulkNext

(* The invariants give the types of all three.                             *)
LEMMA PipesTypes ==
  ASSUME ListsInv, RingInv, BulkBounds
  PROVE  PipesTypeOK
<1>1. ListTypes
  BY DEF ListsInv, ListsKept
<1>2. /\ next \in [Node -> Node \cup {"end"}]
      /\ frames \in [0..(FrameCount - 1) -> Node]
      /\ last.control \in Node /\ last.bulk \in Node /\ hw.pos \in Node \cup {"end"}
  BY <1>1 DEF ListTypes, Frame
<1>3. \A q \in Qh : qh[q].use \in {"free", "control", "bulk", "intr"} /\ qh[q].el \in {"td", "term"}
  BY <1>1 DEF ListTypes, PipeTypes
<1>4. bulk.pos \in 0..MaxPackets /\ bulk.drained \in 0..StackTds
  BY DEF BulkBounds
<1>5. ring.sw \in 0..(RingTds - 1)
  BY DEF RingInv, RingTypes, Places
<1> QED BY <1>2, <1>3, <1>4, <1>5 DEF PipesTypeOK

(* The lists of the three controllers are right at any time, for any       *)
(* number of pipes and threads and any length of the frame list: whatever  *)
(* the threads link, unlink and free while the controller walks on, it is  *)
(* never in memory that was freed, and finds each pipe where and as often  *)
(* as that is due (uhci_, ehci_, ohci_alloc_*_pipe, _free_pipe, _control   *)
(* and _waittick).                                                         *)
THEOREM ListsStaySound == PipesSpec => []ListsSound
<1>1. PipesInit => ListsInv /\ RingInv /\ BulkInv /\ BulkBounds
  <2>1. PipesInit => BulkBounds
    BY DEF PipesInit, BulkInit, BulkBounds
  <2> QED BY <2>1, ListsInit, RingInitInv, BulkInitInv
<1>2. ListsInv /\ RingInv /\ BulkInv /\ BulkBounds /\ [PipesNext]_pipesVars
        => (ListsInv /\ RingInv /\ BulkInv /\ BulkBounds)'
  BY ListsStep, RingStep, BulkStep, BoundsStep
<1>3. ListsInv /\ RingInv /\ BulkBounds => ListsSound
  BY ListsNothingFreed, ListsScheduled, PipesTypes DEF ListsSound
<1> QED BY <1>1, <1>2, <1>3, PTL DEF PipesSpec
=============================================================================
