------------------------------- MODULE Ticks -------------------------------
(***************************************************************************)
(* The BDA tick counter of clock.c: irq 0, the time-of-day services of     *)
(* int 1a, and the timers the drivers set with calc_future_timer_ticks()   *)
(* and test with check_timer().  A service runs with irqs off, except for  *)
(* the yield at the start of int 1a/00, so each is one step.               *)
(***************************************************************************)
EXTENDS Integers

CONSTANTS TICKS_PER_DAY,
          TickWidth,   (* timer_counter is a u32: it wraps at TickWidth *)
          SetTicks,    (* values programs set with int 1a/01 *)
          MaxTicks     (* bound: irqs 0 counted since the counter was set *)

ASSUME TicksAssumption ==
  /\ TICKS_PER_DAY \in Nat \ {0} /\ TickWidth \in Nat
  /\ 2 * TICKS_PER_DAY < TickWidth
  /\ SetTicks \subseteq 0..(TickWidth - 1)
  /\ MaxTicks \in Nat

VARIABLES
  timer_counter, timer_rollover,   (* BDA *)
  timer,               (* a timer some driver waits for: its end, its length, its age *)
  base, ticks, days    (* history: counter as set, ticks and midnights reported since *)

ticksVars == <<timer_counter, timer_rollover, timer, base, ticks, days>>

NoTimer == [end |-> 0, count |-> -1, age |-> 0]

TicksInit ==
  /\ timer_counter \in 0..(TICKS_PER_DAY - 1) /\ timer_rollover = 0
  /\ timer = NoTimer
  /\ base = timer_counter /\ ticks = 0 /\ days = 0

calc_future_timer_ticks(count) == (timer_counter + count + 1) % TICKS_PER_DAY

check_timer(end) ==
  (timer_counter + TICKS_PER_DAY - end) % TICKS_PER_DAY < TICKS_PER_DAY \div 2

(* The irq 0. *)
handle_08 ==
  /\ ticks < MaxTicks
  /\ LET counter == (timer_counter + 1) % TickWidth
     IN IF counter >= TICKS_PER_DAY
        THEN timer_counter' = 0 /\ timer_rollover' = (timer_rollover + 1) % 256
        ELSE timer_counter' = counter /\ UNCHANGED timer_rollover
  /\ ticks' = ticks + 1
  /\ timer' = [timer EXCEPT !.age = @ + 1]
  /\ UNCHANGED <<base, days>>

handle_1a00_keep ==  \* a wrong service: the midnight flag is not reset
  /\ days' = days + timer_rollover
  /\ UNCHANGED <<timer_counter, timer_rollover, timer, base, ticks>>

(* Read the counter and the midnight flag, together, and reset the flag.   *)
handle_1a00 ==
  /\ days' = days + timer_rollover
  /\ timer_rollover' = 0
  /\ UNCHANGED <<timer_counter, timer, base, ticks>>

(* Nothing keeps the new value below TICKS_PER_DAY.  A timer that is being *)
(* waited for is off from here on, by any amount: the model drops it.      *)
handle_1a01(n) ==
  /\ timer_counter' = n /\ timer_rollover' = 0
  /\ base' = n /\ ticks' = 0 /\ days' = 0
  /\ timer' = NoTimer

set_timer(count) ==
  /\ timer' = [end |-> calc_future_timer_ticks(count), count |-> count, age |-> 0]
  /\ UNCHANGED <<timer_counter, timer_rollover, base, ticks, days>>

TicksNext ==
  \/ handle_08 \/ handle_1a00
  \/ \E n \in SetTicks : handle_1a01(n)
  \/ \E n \in 0..(TICKS_PER_DAY \div 2 - 1) : set_timer(n)

TicksSpec == TicksInit /\ [][TicksNext]_ticksVars

-----------------------------------------------------------------------------
(* Type correctness of the BDA fields. *)
TicksTypeOK ==
  /\ timer_counter \in 0..(TickWidth - 1) /\ timer_rollover \in 0..255
  /\ timer \in [end : 0..(TICKS_PER_DAY - 1), count : -1..(TICKS_PER_DAY \div 2 - 1), age : Nat]
  /\ base \in 0..(TickWidth - 1) /\ ticks \in Nat /\ days \in Nat

(* A program that adds the midnight flag of int 1a/00 to its date neither  *)
(* loses nor gains a day: counter, pending flag and reported days account  *)
(* for every tick since the counter was set to a time of day.  (The flag   *)
(* is one byte: after 255 days without a reader it would start again.)     *)
NoDayLost ==
  base < TICKS_PER_DAY /\ ticks < 255 * TICKS_PER_DAY =>
    timer_counter + TICKS_PER_DAY * (timer_rollover + days) = base + ticks

(* A timer of n ticks ends with tick n + 1 (the first may come at once, so *)
(* n full ticks have gone by), also across midnight, and then counts as    *)
(* passed for half a day.                                                  *)
TimerExact ==
  timer.count >= 0 /\ base < TICKS_PER_DAY /\ timer.age <= timer.count + TICKS_PER_DAY \div 2 =>
    (check_timer(timer.end) <=> timer.age > timer.count)

(* The tick counter is a clock: for the date, and for timeouts across      *)
(* midnight (handle_08, handle_1a00, check_timer).                         *)
ClockExact == NoDayLost /\ TimerExact
=============================================================================
