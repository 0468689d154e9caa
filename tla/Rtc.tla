-------------------------------- MODULE Rtc --------------------------------
(***************************************************************************)
(* The periodic irq of the RTC in clock.c, shared by reference count       *)
(* between int 15/83 and 15/86 and the preemption of option roms, and the  *)
(* services of int 1a that rewrite CMOS register B meanwhile.  A service   *)
(* runs with irqs off; they come in while it waits (wait_irq, the yield of *)
(* rtc_updating) and between two calls.  Handlers of int 1c and int 4a     *)
(* belong to programs and may call int 15/83 in turn.                      *)
(***************************************************************************)
EXTENDS Naturals

CONSTANTS Usecs,          (* intervals programs ask for, in microseconds *)
          USEC_PER_RTC    (* the period of the irq *)

ASSUME RtcAssumption == Usecs \subseteq Nat /\ USEC_PER_RTC \in Nat \ {0}

VARIABLES
  regB,          (* bits of CMOS_STATUS_B: PIE, AIE *)
  RTCusers,
  rtc_wait_flag, user_wait_timeout,
  user_wait_complete_flag,   (* the byte to set: that of int 15/86 or of int 15/83 *)
  flags,         (* which of these bytes are set *)
  CanPreempt,    (* 1 while an option rom runs with preemption *)
  call, val8,    (* the service under way and the register B it has read *)
  asked, waited, (* history: length of the last interval, periodic irqs in it *)
  spoilt         (* history: "PIE" once a service has written that bit with another *)
                 (* value, "interval" while int 15/86 waits for one int 15/83 ended *)

waitVars == <<rtc_wait_flag, user_wait_timeout, user_wait_complete_flag, flags, asked, waited>>
callVars == <<CanPreempt, call, val8>>
rtcVars == <<regB, RTCusers, waitVars, callVars, spoilt>>

RtcInit ==
  /\ regB = {} /\ RTCusers = 0
  /\ rtc_wait_flag = 0 /\ user_wait_timeout = 0 /\ user_wait_complete_flag = "none"
  /\ flags = {} /\ asked = 0 /\ waited = 0
  /\ CanPreempt = 0 /\ call = "none" /\ val8 = {}
  /\ spoilt = {}

-----------------------------------------------------------------------------
(* The periodic irq and its users.                                         *)

useRTC == /\ RTCusers' = RTCusers + 1
          /\ regB' = IF RTCusers = 0 THEN regB \cup {"PIE"} ELSE regB

releaseRTC_always == /\ RTCusers' = RTCusers - 1  \* a wrong release: others still need it
                     /\ regB' = regB \ {"PIE"}

releaseRTC == /\ RTCusers' = RTCusers - 1
              /\ regB' = IF RTCusers = 1 THEN regB \ {"PIE"} ELSE regB

NotPending_blind == TRUE  \* a wrong test: a second interval replaces the first

(* Otherwise set_usertimer() returns -1, and the service fails at once. *)
NotPending == rtc_wait_flag = 0

set_usertimer(usecs, flag) ==
  /\ NotPending
  /\ rtc_wait_flag' = 1
  /\ user_wait_complete_flag' = flag
  /\ user_wait_timeout' = usecs
  /\ flags' = flags \ {flag}
  /\ asked' = usecs /\ waited' = 0
  /\ useRTC

clear_usertimer_keep ==  \* a wrong end: the interval stays pending
  /\ UNCHANGED rtc_wait_flag
  /\ releaseRTC

clear_usertimer ==
  /\ rtc_wait_flag' = 0
  /\ releaseRTC

handle_1586(usecs) ==
  /\ call = "none"
  /\ set_usertimer(usecs, "byte86")
  /\ call' = "1586"
  /\ spoilt' = spoilt \ {"interval"}
  /\ UNCHANGED <<CanPreempt, val8>>

(* while (!statusflag) wait_irq(); *)
return_1586 ==
  /\ call = "1586" /\ "byte86" \in flags
  /\ call' = "none"
  /\ UNCHANGED <<regB, RTCusers, waitVars, CanPreempt, val8, spoilt>>

(* int 15/83, by the program in front or, at any time irqs are let in, by  *)
(* a handler of int 1c or int 4a.                                          *)
handle_158300(usecs) ==
  /\ set_usertimer(usecs, "byte83")
  /\ UNCHANGED <<callVars, spoilt>>

handle_158301 ==
  /\ rtc_wait_flag = 1
  /\ clear_usertimer
  /\ spoilt' = IF user_wait_complete_flag = "byte86" THEN spoilt \cup {"interval"} ELSE spoilt
  /\ UNCHANGED <<user_wait_timeout, user_wait_complete_flag, flags, asked, waited, callVars>>

start_preempt ==
  /\ call = "none" /\ CanPreempt = 0
  /\ CanPreempt' = 1 /\ useRTC
  /\ UNCHANGED <<waitVars, call, val8, spoilt>>

finish_preempt ==
  /\ call = "none" /\ CanPreempt = 1
  /\ CanPreempt' = 0 /\ releaseRTC
  /\ UNCHANGED <<waitVars, call, val8, spoilt>>

LastPeriod_short == user_wait_timeout <= 2 * USEC_PER_RTC  \* a wrong bound: one period early

LastPeriod == user_wait_timeout < USEC_PER_RTC

(* The periodic part of handle_70 (check_preempt() touches none of this).  *)
Period ==
  /\ waited' = waited + 1
  /\ IF LastPeriod
     THEN /\ flags' = flags \cup {user_wait_complete_flag}
          /\ clear_usertimer
          /\ UNCHANGED user_wait_timeout
     ELSE /\ user_wait_timeout' = user_wait_timeout - USEC_PER_RTC
          /\ UNCHANGED <<regB, rtc_wait_flag, flags, RTCusers>>

(* The irq 8.  When the alarm raises it, register C shows a period that    *)
(* has gone by as well, wanted or not.                                     *)
handle_70(alarm, periodic) ==
  /\ (periodic /\ "PIE" \in regB) \/ (alarm /\ "AIE" \in regB)
  /\ IF periodic /\ rtc_wait_flag = 1
     THEN Period /\ UNCHANGED <<user_wait_complete_flag, asked>>
     ELSE UNCHANGED <<regB, RTCusers, waitVars>>
  /\ UNCHANGED <<callVars, spoilt>>

-----------------------------------------------------------------------------
(* The RTC services of int 1a.  Each waits in rtc_updating() with the irqs *)
(* let in; the clock is then ready, or the wait has timed out.             *)

(* handle_1a06 reads register B before the wait, and stops if AIE is set.  *)
rtc_updating(service) ==
  /\ call = "none"
  /\ service = "1a06" => "AIE" \notin regB
  /\ call' = service
  /\ val8' = IF service = "1a06" THEN regB ELSE {}
  /\ UNCHANGED <<regB, RTCusers, waitVars, CanPreempt, spoilt>>

outb_cmos(new) ==
  /\ regB' = new
  /\ spoilt' = IF "PIE" \in new <=> "PIE" \in regB THEN spoilt ELSE spoilt \cup {"PIE"}

(* What register B holds after init_rtc(), which clears the irq enables,   *)
(* in case of a timeout.                                                   *)
afterWait(timeout) == IF timeout THEN {} ELSE regB

return_1a(service) ==
  /\ call = service /\ call' = "none"
  /\ UNCHANGED <<RTCusers, waitVars, CanPreempt, val8>>

(* Read time, read date. *)
handle_1a02 == return_1a("1a02") /\ UNCHANGED <<regB, spoilt>>

(* Set time: PIE and AIE stay as they are now. *)
handle_1a03(timeout) == return_1a("1a03") /\ outb_cmos(afterWait(timeout))

(* Set date, the same. *)
handle_1a05(timeout) == return_1a("1a05") /\ outb_cmos(afterWait(timeout))

(* Set alarm: the register B read before the wait, and AIE. *)
handle_1a06 == return_1a("1a06") /\ outb_cmos(val8 \cup {"AIE"})

(* Turn off the alarm, with no wait. *)
handle_1a07 ==
  /\ call = "none" /\ regB' = regB \ {"AIE"}
  /\ UNCHANGED <<RTCusers, waitVars, callVars, spoilt>>

Return1a ==
  \/ handle_1a02 \/ handle_1a06
  \/ \E timeout \in BOOLEAN : handle_1a03(timeout) \/ handle_1a05(timeout)

RtcNext ==
  \/ \E n \in Usecs : handle_1586(n) \/ handle_158300(n)
  \/ return_1586 \/ handle_158301
  \/ start_preempt \/ finish_preempt
  \/ \E alarm, periodic \in BOOLEAN : handle_70(alarm, periodic)
  \/ \E s \in {"1a02", "1a03", "1a05", "1a06"} : rtc_updating(s)
  \/ Return1a \/ handle_1a07

RtcSpec == RtcInit /\ [][RtcNext]_rtcVars

(* The RTC raises the periodic irq while PIE is set, and int 15/86 looks   *)
(* at its byte after every irq.                                            *)
RtcFairness == WF_rtcVars(handle_70(FALSE, TRUE)) /\ WF_rtcVars(return_1586)

-----------------------------------------------------------------------------
(* Type correctness of the BDA and EBDA fields and of register B. *)
RtcTypeOK ==
  /\ regB \in SUBSET {"PIE", "AIE"} /\ val8 \in SUBSET {"PIE", "AIE"}
  /\ RTCusers \in Nat
  /\ rtc_wait_flag \in 0..1 /\ user_wait_timeout \in Nat
  /\ user_wait_complete_flag \in {"none", "byte83", "byte86"}
  /\ flags \in SUBSET {"none", "byte83", "byte86"}
  /\ asked \in Nat /\ waited \in Nat
  /\ CanPreempt \in 0..1 /\ call \in {"none", "1586", "1a02", "1a03", "1a05", "1a06"}
  /\ spoilt \in SUBSET {"PIE", "interval"}

(* RTCusers counts the pending interval and the running rom: no irq ends   *)
(* an interval twice and no service takes one that is pending.             *)
UsersCounted == RTCusers = rtc_wait_flag + CanPreempt

(* The periodic irq is on exactly while somebody uses it, unless one of    *)
(* the services that write all of register B has overwritten it.           *)
PieWhileUsed == "PIE" \notin spoilt => ("PIE" \in regB <=> RTCusers > 0)

(* The periodic irq follows its users: none is lost count of, and none     *)
(* leaves it on behind or turns it off for another (useRTC, releaseRTC).   *)
PieForUsers == UsersCounted /\ PieWhileUsed

(* The byte of an interval is set by that interval, after the time asked   *)
(* for to within one period.                                               *)
IntervalExact ==
  [][\A f \in flags' \ flags :
       /\ f = user_wait_complete_flag
       /\ (waited' - 1) * USEC_PER_RTC <= asked /\ asked < waited' * USEC_PER_RTC]_rtcVars

(* clock.c:395: "My assumption: RegB = ((RegB & 01111111b) | 00100000b)":  *)
(* setting the alarm leaves the enable bit of the periodic irq alone.      *)
SetAlarmKeepsPie ==
  [][call = "1a06" /\ call' = "none" => ("PIE" \in regB' <=> "PIE" \in regB)]_rtcVars

(* int 15/86 returns, whatever irq handlers do, unless one of them cancels *)
(* its interval or an int 1a overwrites the enable bit.                    *)
Wait86Returns == call = "1586" ~> call # "1586" \/ spoilt # {}
=============================================================================
