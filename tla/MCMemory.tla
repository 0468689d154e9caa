------------------------------ MODULE MCMemory ------------------------------
(***************************************************************************)
(* The memory of POST for a run: first the e820 map by itself, under any   *)
(* sequence of add_e820() calls, then the allocator on the maps RamMaps.   *)
(***************************************************************************)
EXTENDS Pmm

VARIABLE used   (* what the run follows: "map" or "zones" *)

vars == <<used, pmmVars, e820Vars>>

MapInit ==
  /\ used = "map" /\ E820Init
  /\ zones = [n \in ZoneNames |-> << >>] /\ mem_size = LOWRAM_END - EbdaSize * KB /\ ebda = mem_size
  /\ rom = FALSE /\ waiting = NoWait /\ taken = {} /\ booted = FALSE

ZonesInit == used = "zones" /\ PmmInit

Init == MapInit \/ ZonesInit

Next ==
  \/ used = "map" /\ E820Next /\ UNCHANGED <<used, pmmVars>>
  \/ used = "zones" /\ PmmNext /\ UNCHANGED used

Spec == Init /\ [][Next]_vars

(* One bank of RAM above 1 MB, or two of which the upper one is too small  *)
(* for ZoneHigh.                                                           *)
Low == <<Span(0, 16, "RAM"), Span(16, 20, "RESERVED"), Span(24, 28, "RESERVED")>>
MCRamMaps == {Low \o <<Span(28, 46, "RAM")>>,
              Low \o <<Span(28, 44, "RAM"), Span(46, 48, "RAM")>>}
=============================================================================
