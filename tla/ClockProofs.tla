---------------------------- MODULE ClockProofs -----------------------------
(***************************************************************************)
(* clock.c: the tick counter as a clock, for any length of the day and any *)
(* sequence of irqs and services; the count of those who use the periodic  *)
(* irq, the enable bit it controls and the intervals it times, for any     *)
(* intervals and any period.                                               *)
(***************************************************************************)
EXTENDS Ticks, Rtc, TLAPS

-----------------------------------------------------------------------------
(***************************************************************************)
(* The tick counter.  A timer is kept as the time of day of its end only;  *)
(* that it is exact across midnight rests on TimerEnd, which counts the    *)
(* midnights between now and then without saying how many there are.       *)
(***************************************************************************)

(* Remainders of a multiple and something small, and what division leaves. *)
LEMMA ModMultiple ==
  ASSUME NEW m \in Nat \ {0}, NEW k \in Int, NEW a \in 0..(m - 1)
  PROVE  (k * m + a) % m = a
OBVIOUS

(* A number is what its quotient and remainder make. *)
LEMMA DivMod ==
  ASSUME NEW m \in Nat \ {0}, NEW a \in Int
  PROVE  a = (a \div m) * m + (a % m) /\ a \div m \in Int /\ a % m \in 0..(m - 1)
OBVIOUS

(* The half of a day, rounded down. *)
LEMMA HalfDay ==
  /\ TICKS_PER_DAY \div 2 \in Nat
  /\ 2 * (TICKS_PER_DAY \div 2) <= TICKS_PER_DAY
BY TicksAssumption DEF TicksAssumption

-----------------------------------------------------------------------------
(* The end of a timer is as far from the counter as its length is from its *)
(* age, but for whole days.                                                *)
TimerEnd ==
  timer.count >= 0 /\ base < TICKS_PER_DAY =>
    \E k \in Int : timer.end = timer_counter + timer.count + 1 - timer.age + k * TICKS_PER_DAY

(* A counter that was set to a time of day stays one. *)
InDay == base < TICKS_PER_DAY => timer_counter < TICKS_PER_DAY

TicksInv == TicksTypeOK /\ InDay /\ NoDayLost /\ TimerEnd

(* No time has passed and no timer runs. *)
LEMMA TicksInvInit == TicksInit => TicksInv
<1> SUFFICES ASSUME TicksInit PROVE TicksInv
  OBVIOUS
<1> USE TicksAssumption DEF TicksAssumption, TicksInit, NoTimer
<1>1. TicksTypeOK
  BY HalfDay DEF TicksTypeOK
<1>2. InDay /\ NoDayLost /\ TimerEnd
  BY DEF InDay, NoDayLost, TimerEnd
<1> QED BY <1>1, <1>2 DEF TicksInv

(* An irq of the clock: the counter wraps at midnight, the timers age. *)
LEMMA TickKeepsInv == ASSUME TicksInv, handle_08 PROVE TicksInv'
<1> USE TicksAssumption DEF TicksAssumption
<1>1. /\ ticks' = ticks + 1 /\ base' = base /\ days' = days
      /\ timer' = [timer EXCEPT !.age = @ + 1]
  BY DEF handle_08
<1>2. /\ timer_counter \in 0..(TickWidth - 1) /\ timer_rollover \in 0..255
      /\ timer \in [end : 0..(TICKS_PER_DAY - 1), count : -1..(TICKS_PER_DAY \div 2 - 1), age : Nat]
      /\ base \in 0..(TickWidth - 1) /\ ticks \in Nat /\ days \in Nat
  BY DEF TicksInv, TicksTypeOK
<1>3. /\ timer'.end = timer.end /\ timer'.count = timer.count /\ timer'.age = timer.age + 1
      /\ timer' \in [end : 0..(TICKS_PER_DAY - 1), count : -1..(TICKS_PER_DAY \div 2 - 1), age : Nat]
  BY <1>1, <1>2
<1> DEFINE counter == (timer_counter + 1) % TickWidth
<1>4. counter \in 0..(TickWidth - 1)
  BY <1>2, DivMod
<1>5. CASE counter >= TICKS_PER_DAY
  <2>1. timer_counter' = 0 /\ timer_rollover' = (timer_rollover + 1) % 256
    BY <1>5 DEF handle_08
  <2>2. timer_rollover' \in 0..255
    BY <1>2, <2>1
  <2>3. TicksTypeOK'
    BY <1>1, <1>2, <1>3, <2>1, <2>2 DEF TicksTypeOK
  <2>4. ASSUME base < TICKS_PER_DAY PROVE timer_counter = TICKS_PER_DAY - 1
    <3>1. timer_counter + 1 \in 0..(TickWidth - 1)
      BY <1>2, <2>4 DEF TicksInv, InDay
    <3>2. counter = timer_counter + 1
      BY <1>2, <3>1
    <3> QED BY <1>2, <1>5, <2>4, <3>2 DEF TicksInv, InDay
  <2>5. NoDayLost'
    <3> SUFFICES ASSUME base < TICKS_PER_DAY, ticks + 1 < 255 * TICKS_PER_DAY
                 PROVE  0 + TICKS_PER_DAY * (timer_rollover' + days) = base + (ticks + 1)
      BY <1>1, <2>1 DEF NoDayLost
    <3>1. timer_counter + TICKS_PER_DAY * (timer_rollover + days) = base + ticks
      BY <1>2 DEF TicksInv, NoDayLost
    <3>2. TICKS_PER_DAY * (timer_rollover + days + 1)
            = TICKS_PER_DAY * (timer_rollover + days) + TICKS_PER_DAY
      BY <1>2
    <3>3. TICKS_PER_DAY * (timer_rollover + days + 1) = base + ticks + 1
      BY <1>2, <2>4, <3>1, <3>2
    <3>4. timer_rollover + days + 1 < 256
      <4>1. TICKS_PER_DAY * (timer_rollover + days + 1) < TICKS_PER_DAY * 256
        BY <1>2, <3>3
      <4> QED BY <1>2, <4>1
    <3>5. timer_rollover' = timer_rollover + 1
      BY <1>2, <2>1, <3>4
    <3> QED BY <1>2, <3>3, <3>5
  <2>6. TimerEnd'
    <3> SUFFICES ASSUME timer.count >= 0, base < TICKS_PER_DAY
                 PROVE  \E k \in Int : timer.end = 0 + timer.count + 1 - (timer.age + 1) + k * TICKS_PER_DAY
      BY <1>1, <1>3, <2>1 DEF TimerEnd
    <3>1. PICK k \in Int : timer.end = timer_counter + timer.count + 1 - timer.age + k * TICKS_PER_DAY
      BY DEF TicksInv, TimerEnd
    <3>2. (k + 1) * TICKS_PER_DAY = k * TICKS_PER_DAY + TICKS_PER_DAY /\ k + 1 \in Int
      OBVIOUS
    <3>3. timer.end = 0 + timer.count + 1 - (timer.age + 1) + (k + 1) * TICKS_PER_DAY
      BY <1>2, <2>4, <3>1, <3>2
    <3> QED BY <3>2, <3>3
  <2> QED BY <1>1, <2>1, <2>3, <2>5, <2>6 DEF TicksInv, InDay
<1>6. CASE counter < TICKS_PER_DAY
  <2>1. timer_counter' = counter /\ timer_rollover' = timer_rollover
    BY <1>4, <1>6 DEF handle_08
  <2>2. TicksTypeOK'
    BY <1>1, <1>2, <1>3, <1>4, <2>1 DEF TicksTypeOK
  <2>3. ASSUME base < TICKS_PER_DAY PROVE timer_counter' = timer_counter + 1
    <3>1. timer_counter + 1 \in 0..(TickWidth - 1)
      BY <1>2, <2>3 DEF TicksInv, InDay
    <3> QED BY <1>2, <2>1, <3>1
  <2>4. NoDayLost'
    BY <1>1, <1>2, <2>1, <2>3 DEF TicksInv, NoDayLost
  <2>5. TimerEnd'
    <3> SUFFICES ASSUME timer.count >= 0, base < TICKS_PER_DAY
                 PROVE  \E k \in Int : timer.end = timer_counter' + timer.count + 1 - (timer.age + 1) + k * TICKS_PER_DAY
      BY <1>1, <1>3 DEF TimerEnd
    <3>1. PICK k \in Int : timer.end = timer_counter + timer.count + 1 - timer.age + k * TICKS_PER_DAY
      BY DEF TicksInv, TimerEnd
    <3>2. timer_counter' + timer.count + 1 - (timer.age + 1) = timer_counter + timer.count + 1 - timer.age
      BY <1>2, <2>3
    <3> QED BY <3>1, <3>2
  <2> QED BY <1>1, <1>6, <2>1, <2>2, <2>4, <2>5 DEF TicksInv, InDay
<1> QED BY <1>4, <1>5, <1>6

(* The services that read or set the counter, and timer_setup. *)
LEMMA ServiceKeepsInv ==
  ASSUME TicksInv,
         handle_1a00 \/ (\E n \in SetTicks : handle_1a01(n))
           \/ (\E n \in 0..(TICKS_PER_DAY \div 2 - 1) : set_timer(n))
  PROVE  TicksInv'
<1> USE TicksAssumption DEF TicksAssumption
<1>1. /\ timer_counter \in 0..(TickWidth - 1) /\ timer_rollover \in 0..255
      /\ timer \in [end : 0..(TICKS_PER_DAY - 1), count : -1..(TICKS_PER_DAY \div 2 - 1), age : Nat]
      /\ base \in 0..(TickWidth - 1) /\ ticks \in Nat /\ days \in Nat
  BY DEF TicksInv, TicksTypeOK
<1>2. CASE handle_1a00
  BY <1>1, <1>2 DEF handle_1a00, TicksInv, TicksTypeOK, InDay, NoDayLost, TimerEnd
<1>3. ASSUME NEW n \in SetTicks, handle_1a01(n) PROVE TicksInv'
  <2>1. /\ timer_counter' = n /\ timer_rollover' = 0 /\ base' = n /\ ticks' = 0 /\ days' = 0
        /\ timer' = NoTimer /\ n \in 0..(TickWidth - 1)
    BY <1>3 DEF handle_1a01
  <2>2. timer' \in [end : 0..(TICKS_PER_DAY - 1), count : -1..(TICKS_PER_DAY \div 2 - 1), age : Nat]
        /\ timer'.count = -1
    BY <2>1, HalfDay DEF NoTimer
  <2> QED BY <2>1, <2>2 DEF TicksInv, TicksTypeOK, InDay, NoDayLost, TimerEnd
<1>4. ASSUME NEW n \in 0..(TICKS_PER_DAY \div 2 - 1), set_timer(n) PROVE TicksInv'
  <2> DEFINE end == calc_future_timer_ticks(n)
  <2>1. /\ timer' = [end |-> end, count |-> n, age |-> 0]
        /\ UNCHANGED <<timer_counter, timer_rollover, base, ticks, days>>
    BY <1>4 DEF set_timer
  <2>2. n \in Nat /\ timer_counter + n + 1 \in Int
    BY <1>1, HalfDay
  <2>3. PICK q \in Int : end \in 0..(TICKS_PER_DAY - 1) /\ timer_counter + n + 1 = q * TICKS_PER_DAY + end
    <3>1. end \in 0..(TICKS_PER_DAY - 1)
          /\ timer_counter + n + 1 = ((timer_counter + n + 1) \div TICKS_PER_DAY) * TICKS_PER_DAY + end
          /\ (timer_counter + n + 1) \div TICKS_PER_DAY \in Int
      BY <2>2, DivMod DEF calc_future_timer_ticks
    <3> QED BY <3>1
  <2> HIDE DEF end
  <2>4. TicksTypeOK'
    BY <1>1, <2>1, <2>2, <2>3, HalfDay DEF TicksTypeOK
  <2>5. TimerEnd'
    <3>1. -q \in Int /\ (-q) * TICKS_PER_DAY = -(q * TICKS_PER_DAY) /\ q * TICKS_PER_DAY \in Int
      OBVIOUS
    <3>2. end = timer_counter + n + 1 - 0 + (-q) * TICKS_PER_DAY
      BY <1>1, <2>2, <2>3, <3>1
    <3>3. timer'.end = end /\ timer'.count = n /\ timer'.age = 0
      BY <2>1
    <3> QED BY <2>1, <3>1, <3>2, <3>3 DEF TimerEnd
  <2>6. InDay' /\ NoDayLost'
    BY <2>1 DEF TicksInv, InDay, NoDayLost
  <2> QED BY <2>4, <2>5, <2>6 DEF TicksInv
<1> QED BY <1>2, <1>3, <1>4

(* Every irq and every service keeps the invariant. *)
LEMMA TicksInvariant == TicksSpec => []TicksInv
<1>1. TicksInv /\ [TicksNext]_ticksVars => TicksInv'
  <2> SUFFICES ASSUME TicksInv, [TicksNext]_ticksVars PROVE TicksInv'
    OBVIOUS
  <2>1. CASE UNCHANGED ticksVars
    BY <2>1 DEF ticksVars, TicksInv, TicksTypeOK, InDay, NoDayLost, TimerEnd
  <2> QED BY <2>1, TickKeepsInv, ServiceKeepsInv DEF TicksNext
<1> QED BY <1>1, TicksInvInit, PTL DEF TicksSpec

(* What the counter and the timers say, in one state. *)
LEMMA InvIsExact == TicksInv => ClockExact
<1> SUFFICES ASSUME TicksInv PROVE ClockExact
  OBVIOUS
<1> USE TicksAssumption DEF TicksAssumption
<1>1. /\ timer_counter \in 0..(TickWidth - 1)
      /\ timer \in [end : 0..(TICKS_PER_DAY - 1), count : -1..(TICKS_PER_DAY \div 2 - 1), age : Nat]
  BY DEF TicksInv, TicksTypeOK
<1>2. TimerExact
  <2> SUFFICES ASSUME timer.count >= 0, base < TICKS_PER_DAY,
                      timer.age <= timer.count + TICKS_PER_DAY \div 2
               PROVE  check_timer(timer.end) <=> timer.age > timer.count
    BY DEF TimerExact
  <2> DEFINE late == timer.age - timer.count - 1
             x == timer_counter + TICKS_PER_DAY - timer.end
  <2>1. PICK k \in Int : timer.end = timer_counter + timer.count + 1 - timer.age + k * TICKS_PER_DAY
    BY DEF TicksInv, TimerEnd
  <2>2. /\ k * TICKS_PER_DAY \in Int
        /\ (1 - k) * TICKS_PER_DAY = TICKS_PER_DAY - k * TICKS_PER_DAY
        /\ (0 - k) * TICKS_PER_DAY = 0 - k * TICKS_PER_DAY
        /\ 1 - k \in Int /\ 0 - k \in Int /\ late \in Int
    BY <1>1
  <2>3. x = (1 - k) * TICKS_PER_DAY + late /\ x = (0 - k) * TICKS_PER_DAY + (TICKS_PER_DAY + late)
    BY <1>1, <2>1, <2>2
  <2>4. CASE timer.age > timer.count
    <3>1. late \in 0..(TICKS_PER_DAY - 1) /\ late < TICKS_PER_DAY \div 2
      BY <1>1, <2>4, HalfDay
    <3> HIDE DEF late, x
    <3>2. x % TICKS_PER_DAY = late
      BY ZenonT(60), <2>2, <2>3, <3>1, ModMultiple
    <3> QED BY <2>4, <3>1, <3>2 DEF check_timer, x
  <2>5. CASE timer.age <= timer.count
    <3>1. TICKS_PER_DAY + late \in 0..(TICKS_PER_DAY - 1) /\ TICKS_PER_DAY + late >= TICKS_PER_DAY \div 2
      BY <1>1, <2>5, HalfDay
    <3> HIDE DEF late, x
    <3>2. x % TICKS_PER_DAY = TICKS_PER_DAY + late
      BY ZenonT(60), <2>2, <2>3, <3>1, ModMultiple
    <3>3. ~(x % TICKS_PER_DAY < TICKS_PER_DAY \div 2)
      BY <2>2, <3>1, <3>2, HalfDay
    <3> QED BY <1>1, <2>5, <3>3 DEF check_timer, x
  <2> QED BY <1>1, <2>4, <2>5
<1> QED BY <1>2 DEF TicksInv, ClockExact

(* Programs that read the clock lose no day, and a timer a driver waits for*)
(* ends with the tick it was set for, also across midnight, whatever the   *)
(* order of irqs, reads and settings of the clock.                         *)
THEOREM ExactClock == TicksSpec => []ClockExact
BY TicksInvariant, InvIsExact, PTL

-----------------------------------------------------------------------------
(***************************************************************************)
(* The periodic irq: the reference count and the enable bit.               *)
(***************************************************************************)

(* What the reference count needs: the types, the count itself, and that   *)
(* int 15/86 runs only while no other service does.                        *)
RtcInv == RtcTypeOK /\ UsersCounted

LEMMA InitInv == RtcInit => RtcInv
  BY RtcAssumption DEF RtcInit, RtcInv, RtcTypeOK, UsersCounted

(* useRTC and releaseRTC only ever change the count by one. *)
LEMMA Handle70 ==
  ASSUME RtcInv, NEW alarm \in BOOLEAN, NEW periodic \in BOOLEAN, handle_70(alarm, periodic)
  PROVE  RtcInv'
  <1>0. UNCHANGED <<CanPreempt, call, val8, spoilt>>
    BY DEF handle_70, callVars
  <1>1. CASE Period /\ UNCHANGED <<user_wait_complete_flag, asked>> /\ rtc_wait_flag = 1 /\ LastPeriod
    <2>1. /\ flags' = flags \cup {user_wait_complete_flag}
          /\ rtc_wait_flag' = 0 /\ user_wait_timeout' = user_wait_timeout /\ waited' = waited + 1
          /\ releaseRTC
      BY <1>1 DEF Period, clear_usertimer
    <2>2. RTCusers >= 1 /\ RTCusers' \in Nat /\ UsersCounted'
      BY <1>0, <1>1, <2>1 DEF UsersCounted, RtcInv, RtcTypeOK, releaseRTC
    <2>3. regB' \in SUBSET {"PIE", "AIE"}
      BY <2>1 DEF RtcInv, RtcTypeOK, releaseRTC
    <2>4. QED
      BY <1>0, <1>1, <2>1, <2>2, <2>3 DEF RtcInv, RtcTypeOK
  <1>2. CASE Period /\ UNCHANGED <<user_wait_complete_flag, asked>> /\ ~LastPeriod
    <2>1. /\ user_wait_timeout' = user_wait_timeout - USEC_PER_RTC /\ waited' = waited + 1
          /\ UNCHANGED <<regB, rtc_wait_flag, flags, RTCusers>>
      BY <1>2 DEF Period
    <2>2. user_wait_timeout' \in Nat
      BY <1>2, <2>1, RtcAssumption DEF LastPeriod, RtcInv, RtcTypeOK
    <2>3. QED
      BY <1>0, <1>2, <2>1, <2>2 DEF RtcInv, RtcTypeOK, UsersCounted
  <1>3. CASE UNCHANGED <<regB, RTCusers, waitVars>>
    BY <1>0, <1>3 DEF waitVars, UsersCounted, RtcInv, RtcTypeOK
  <1>4. QED
    BY <1>1, <1>2, <1>3 DEF handle_70

LEMMA Intervals ==
  ASSUME RtcInv,
         \/ \E n \in Usecs : handle_1586(n) \/ handle_158300(n)
         \/ return_1586 \/ handle_158301
  PROVE  RtcInv'
  <1> USE RtcAssumption DEF RtcInv, UsersCounted, RtcTypeOK, callVars, waitVars
  <1>1. ASSUME NEW n \in Usecs, handle_1586(n)
        PROVE  RtcInv'
    BY <1>1 DEF handle_1586, set_usertimer, NotPending, useRTC
  <1>2. ASSUME NEW n \in Usecs, handle_158300(n)
        PROVE  RtcInv'
    BY <1>2 DEF handle_158300, set_usertimer, NotPending, useRTC
  <1>3. CASE return_1586
    BY <1>3 DEF return_1586
  <1>4. CASE handle_158301
    BY <1>4 DEF handle_158301, clear_usertimer, releaseRTC
  <1>5. QED
    BY <1>1, <1>2, <1>3, <1>4

LEMMA Roms ==
  ASSUME RtcInv, start_preempt \/ finish_preempt
  PROVE  RtcInv'
  <1> USE DEF RtcInv, UsersCounted, RtcTypeOK, waitVars
  <1>1. CASE start_preempt
    BY <1>1 DEF start_preempt, useRTC
  <1>2. CASE finish_preempt
    BY <1>2 DEF finish_preempt, releaseRTC
  <1>3. QED
    BY <1>1, <1>2

LEMMA ClockServices ==
  ASSUME RtcInv,
         (\E s \in {"1a02", "1a03", "1a05", "1a06"} : rtc_updating(s)) \/ Return1a \/ handle_1a07
  PROVE  RtcInv'
  <1> USE DEF RtcInv, UsersCounted, RtcTypeOK, waitVars, callVars
  <1>1. ASSUME NEW s \in {"1a02", "1a03", "1a05", "1a06"}, rtc_updating(s)
        PROVE  RtcInv'
    BY <1>1 DEF rtc_updating
  <1>2. CASE handle_1a02
    BY <1>2 DEF handle_1a02, return_1a
  <1>3. CASE handle_1a06
    BY <1>3 DEF handle_1a06, return_1a, outb_cmos
  <1>4. ASSUME NEW timeout \in BOOLEAN, handle_1a03(timeout) \/ handle_1a05(timeout)
        PROVE  RtcInv'
    BY <1>4 DEF handle_1a03, handle_1a05, return_1a, outb_cmos, afterWait
  <1>5. CASE handle_1a07
    BY <1>5 DEF handle_1a07
  <1>6. QED
    BY <1>1, <1>2, <1>3, <1>4, <1>5 DEF Return1a

LEMMA StepInv == RtcInv /\ [RtcNext]_rtcVars => RtcInv'
  <1> SUFFICES ASSUME RtcInv, [RtcNext]_rtcVars
               PROVE  RtcInv'
    OBVIOUS
  <1>1. CASE UNCHANGED rtcVars
    BY <1>1 DEF rtcVars, waitVars, callVars, RtcInv, RtcTypeOK, UsersCounted
  <1>2. CASE RtcNext
    BY <1>2, Handle70, Intervals, Roms, ClockServices DEF RtcNext
  <1>3. QED
    BY <1>1, <1>2

(* The BDA and EBDA fields and register B keep their types. *)
THEOREM Typing == RtcSpec => []RtcTypeOK
  <1>1. RtcInv => RtcTypeOK
    BY DEF RtcInv
  <1>2. QED
    BY <1>1, InitInv, StepInv, PTL DEF RtcSpec

(* RTCusers is the number of users, whatever irqs interrupt the services. *)
THEOREM Users == RtcSpec => []UsersCounted
  <1>1. RtcInv => UsersCounted
    BY DEF RtcInv
  <1>2. QED
    BY <1>1, InitInv, StepInv, PTL DEF RtcSpec

-----------------------------------------------------------------------------
(* The enable bit follows the count.  A service that writes all of         *)
(* register B either leaves PIE as it is or puts PIE in spoilt.          *)

LEMMA Release ==
  ASSUME RtcInv, rtc_wait_flag = 1 \/ CanPreempt = 1, PieWhileUsed, releaseRTC, "PIE" \in spoilt' <=> "PIE" \in spoilt
  PROVE  PieWhileUsed'
  BY DEF RtcInv, RtcTypeOK, UsersCounted, PieWhileUsed, releaseRTC

LEMMA Use ==
  ASSUME RtcInv, PieWhileUsed, useRTC, "PIE" \in spoilt' <=> "PIE" \in spoilt
  PROVE  PieWhileUsed'
  BY DEF RtcInv, RtcTypeOK, PieWhileUsed, useRTC

LEMMA Write ==
  ASSUME NEW new, PieWhileUsed, outb_cmos(new), RTCusers' = RTCusers
  PROVE  PieWhileUsed'
  BY DEF PieWhileUsed, outb_cmos

LEMMA PieStep == RtcInv /\ PieWhileUsed /\ [RtcNext]_rtcVars => PieWhileUsed'
  <1> SUFFICES ASSUME RtcInv, PieWhileUsed, [RtcNext]_rtcVars
               PROVE  PieWhileUsed'
    OBVIOUS
  <1>1. CASE UNCHANGED rtcVars \/ return_1586 \/ handle_1a02
    BY <1>1 DEF rtcVars, waitVars, callVars, PieWhileUsed, return_1586, handle_1a02, return_1a
  <1>2. ASSUME NEW n \in Usecs, handle_1586(n) \/ handle_158300(n)
        PROVE  PieWhileUsed'
    BY <1>2, Use DEF handle_1586, handle_158300, set_usertimer
  <1>3. CASE handle_158301
    BY <1>3, Release DEF handle_158301, clear_usertimer
  <1>4. CASE start_preempt
    BY <1>4, Use DEF start_preempt
  <1>5. CASE finish_preempt
    BY <1>5, Release DEF finish_preempt
  <1>6. ASSUME NEW alarm \in BOOLEAN, NEW periodic \in BOOLEAN, handle_70(alarm, periodic)
        PROVE  PieWhileUsed'
    <2>1. CASE periodic /\ rtc_wait_flag = 1 /\ LastPeriod
      BY <1>6, <2>1, Release DEF handle_70, Period, clear_usertimer
    <2>2. CASE ~(periodic /\ rtc_wait_flag = 1 /\ LastPeriod)
      BY <1>6, <2>2 DEF handle_70, Period, PieWhileUsed, waitVars
    <2>3. QED
      BY <2>1, <2>2
  <1>7. ASSUME NEW s \in {"1a02", "1a03", "1a05", "1a06"}, rtc_updating(s)
        PROVE  PieWhileUsed'
    BY <1>7 DEF rtc_updating, PieWhileUsed
  <1>8. ASSUME NEW timeout \in BOOLEAN, handle_1a03(timeout) \/ handle_1a05(timeout)
        PROVE  PieWhileUsed'
    BY <1>8, Write DEF handle_1a03, handle_1a05, return_1a
  <1>9. CASE handle_1a06
    BY <1>9, Write DEF handle_1a06, return_1a
  <1>10. CASE handle_1a07
    BY <1>10 DEF handle_1a07, PieWhileUsed
  <1>11. QED
    BY <1>1, <1>2, <1>3, <1>4, <1>5, <1>6, <1>7, <1>8, <1>9, <1>10 DEF RtcNext, Return1a

(* Nothing but the services that write all of register B can leave the     *)
(* periodic irq on without a user, or off with one.                        *)
THEOREM PieFollowsUsers == RtcSpec => []PieWhileUsed
  <1>1. RtcInit => PieWhileUsed
    BY DEF RtcInit, PieWhileUsed
  <1>2. QED
    BY <1>1, PieStep, InitInv, StepInv, PTL DEF RtcSpec

(* Both together: the irq is on for exactly as long as somebody counted    *)
(* needs it.                                                               *)
THEOREM UsersServed == RtcSpec => []PieForUsers
  <1>1. UsersCounted /\ PieWhileUsed => PieForUsers
    BY DEF PieForUsers
  <1>2. QED
    BY <1>1, Users, PieFollowsUsers, PTL

-----------------------------------------------------------------------------
(* A pending interval: the time left and the periods gone by make up the   *)
(* time that was asked for.                                                *)
Elapsed == rtc_wait_flag = 1 => user_wait_timeout + waited * USEC_PER_RTC = asked

LEMMA OneMore == ASSUME NEW n \in Nat, NEW u \in Nat PROVE (n + 1) * u = n * u + u /\ n * u \in Nat
  OBVIOUS

(* What a period does to the interval, in terms of the fields. *)
LEMMA PeriodEffect ==
  ASSUME RtcInv, Elapsed, rtc_wait_flag = 1, Period, UNCHANGED <<user_wait_complete_flag, asked>>
  PROVE  /\ Elapsed'
         /\ \A f \in flags' \ flags :
              /\ f = user_wait_complete_flag
              /\ (waited' - 1) * USEC_PER_RTC <= asked /\ asked < waited' * USEC_PER_RTC
  <1>1. waited' = waited + 1 /\ waited \in Nat /\ asked' = asked /\ waited' - 1 = waited
    BY DEF Period, RtcInv, RtcTypeOK
  <1>2. /\ waited' * USEC_PER_RTC = waited * USEC_PER_RTC + USEC_PER_RTC
        /\ waited * USEC_PER_RTC \in Nat
    BY <1>1, OneMore, RtcAssumption
  <1>3. user_wait_timeout + waited * USEC_PER_RTC = asked /\ user_wait_timeout \in Nat
    BY DEF Elapsed, RtcInv, RtcTypeOK
  <1>4. CASE LastPeriod
    <2>1. rtc_wait_flag' = 0 /\ flags' = flags \cup {user_wait_complete_flag}
      BY <1>4 DEF Period, clear_usertimer
    <2>2. waited * USEC_PER_RTC <= asked /\ asked < waited' * USEC_PER_RTC
      BY <1>2, <1>3, <1>4, RtcAssumption DEF LastPeriod
    <2>3. QED
      BY <1>1, <2>1, <2>2 DEF Elapsed
  <1>5. CASE ~LastPeriod
    <2>1. user_wait_timeout' = user_wait_timeout - USEC_PER_RTC /\ flags' = flags
      BY <1>5 DEF Period
    <2>2. user_wait_timeout' + waited' * USEC_PER_RTC = asked
      BY <1>2, <1>3, <2>1, RtcAssumption
    <2>3. QED
      BY <1>1, <2>1, <2>2 DEF Elapsed
  <1>6. QED
    BY <1>4, <1>5

IntervalStep ==
  \A f \in flags' \ flags :
    /\ f = user_wait_complete_flag
    /\ (waited' - 1) * USEC_PER_RTC <= asked /\ asked < waited' * USEC_PER_RTC

LEMMA ElapsedStep ==
  ASSUME RtcInv, Elapsed, RtcNext
  PROVE  Elapsed' /\ IntervalStep
  <1>1. CASE UNCHANGED waitVars
    BY <1>1 DEF waitVars, Elapsed, IntervalStep
  <1>2. ASSUME NEW n \in Usecs, handle_1586(n) \/ handle_158300(n)
        PROVE  Elapsed' /\ IntervalStep
    <2>1. /\ user_wait_timeout' = n /\ asked' = n /\ waited' = 0 /\ n \in Nat
          /\ flags' \subseteq flags
      BY <1>2, RtcAssumption DEF handle_1586, handle_158300, set_usertimer
    <2>2. QED
      BY <2>1, RtcAssumption DEF Elapsed, IntervalStep
  <1>3. CASE handle_158301
    BY <1>3 DEF handle_158301, clear_usertimer, Elapsed, IntervalStep
  <1>4. ASSUME NEW alarm \in BOOLEAN, NEW periodic \in BOOLEAN, handle_70(alarm, periodic)
        PROVE  Elapsed' /\ IntervalStep
    BY <1>1, <1>4, PeriodEffect DEF handle_70, IntervalStep, waitVars
  <1>5. QED
    BY <1>1, <1>2, <1>3, <1>4
    DEF RtcNext, return_1586, start_preempt, finish_preempt, rtc_updating, Return1a,
        handle_1a02, handle_1a03, handle_1a05, handle_1a06, return_1a, handle_1a07

(* For any interval and any period of the irq: the byte of int 15/83 or    *)
(* 15/86 is set by the interval it belongs to, in the period in which the  *)
(* time asked for runs out.                                                *)
THEOREM Intervals86 == RtcSpec => IntervalExact
  <1>1. RtcInit => Elapsed
    BY DEF RtcInit, Elapsed
  <1>2. RtcInv /\ Elapsed /\ [RtcNext]_rtcVars => Elapsed' /\ [IntervalStep]_rtcVars
    <2>1. CASE UNCHANGED rtcVars
      BY <2>1 DEF rtcVars, waitVars, Elapsed
    <2>2. QED
      BY <2>1, ElapsedStep
  <1>3. QED
    BY <1>1, <1>2, InitInv, StepInv, PTL DEF RtcSpec, IntervalExact, IntervalStep
=============================================================================
