------------------------------ MODULE Services ------------------------------
(***************************************************************************)
(* The runtime services behind the software interrupts, side by side.  The *)
(* components share no variable: what a program does with one of them      *)
(* changes nothing for another, so it is enough to follow programs that    *)
(* use one of them, chosen at the start, while the others stand still.     *)
(***************************************************************************)
EXTENDS Ticks, Rtc, Kbd, Ps2

VARIABLE used   (* the service the program uses *)

vars == <<used, ticksVars, rtcVars, kbdVars, ps2Vars>>

(* A component nobody uses stands in one of its initial states. *)
Init ==
  /\ used \in {"ticks", "rtc", "kbd", "ps2"}
  /\ TicksInit /\ RtcInit /\ KbdInit /\ Ps2Init
  /\ used # "ticks" => timer_counter = 0
  /\ used = "kbd" <=> keys # {}

Next ==
  \/ used = "ticks" /\ TicksNext /\ UNCHANGED <<used, rtcVars, kbdVars, ps2Vars>>
  \/ used = "rtc" /\ RtcNext /\ UNCHANGED <<used, ticksVars, kbdVars, ps2Vars>>
  \/ used = "kbd" /\ KbdNext /\ UNCHANGED <<used, ticksVars, rtcVars, ps2Vars>>
  \/ used = "ps2" /\ Ps2Next /\ UNCHANGED <<used, ticksVars, rtcVars, kbdVars>>

Spec == Init /\ [][Next]_vars
FairSpec == Spec /\ RtcFairness

(* Type correctness of every component. *)
TypeOK == TicksTypeOK /\ RtcTypeOK /\ KbdTypeOK /\ Ps2TypeOK
=============================================================================
