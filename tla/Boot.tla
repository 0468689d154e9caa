-------------------------------- MODULE Boot --------------------------------
(***************************************************************************)
(* boot.c: the list of what can be booted, kept in order while the devices *)
(* are being found; the menu; the map of the drives; and the attempts to   *)
(* boot, one after the other.                                              *)
(***************************************************************************)
EXTENDS Integers, Sequences, FiniteSets

CONSTANTS
  Entry,      \* what can be registered: name -> [type, prio: of the boot order file or -1,
              \*  drive: [type, cntl] or <<>>]
  Nvram,      \* boot order in nvram: three of the classes, <<>> without
  MaxBev,     \* size of BEV
  Menu        \* is there a boot menu?

VARIABLE boot
  \* [phase, hw: has init_hw begun?, list: BootList, of [name, prio], bev: BEV, floppy, hd,
  \*  cd: what is mapped, beved: is DefaultBEVPrio taken?, seq: boot_sequence, tried]

DEFAULT_PRIO == 9999
FLOPPY == 1
HARDDISK == 2
CDROM == 3
BEV == 128
BCV == 129
Class(type) == CASE type = FLOPPY -> "floppy" [] type = HARDDISK -> "hd" [] type = CDROM -> "cd"
                 [] type = BEV -> "bev" [] OTHER -> "other"

BootNew ==
  [phase |-> "post", hw |-> FALSE, list |-> <<>>, bev |-> <<>>, floppy |-> <<>>, hd |-> <<>>,
   cd |-> <<>>, beved |-> FALSE, seq |-> -1, tried |-> <<>>]
BootInit == boot = BootNew

(* boot_setup: 101 and on in the order of nvram, or of the four classes.   *)
DefaultPrio(class) ==
  LET order == IF Nvram = <<>> THEN <<"floppy", "cd", "hd", "bev">> ELSE Nvram
      at == {i \in 1 .. Len(order) : order[i] = class}
  IN IF at = {} THEN DEFAULT_PRIO ELSE 100 + CHOOSE i \in at : \A j \in at : j <= i

defPrio(b, e, prio) ==
  IF prio >= 0 THEN prio
  ELSE IF e.type = BEV /\ b.beved THEN DEFAULT_PRIO
  ELSE DefaultPrio(Class(e.type))

(* Does a new entry go before one that is in the list?                     *)
Before(new, pos) ==
  LET n == Entry[new.name]
      p == Entry[pos.name]
  IN \/ new.prio < pos.prio
     \/ /\ new.prio = pos.prio
        /\ \/ n.type < p.type
           \/ /\ n.type = p.type /\ n.type <= CDROM
              /\ \/ n.drive[1] < p.drive[1]
                 \/ n.drive[1] = p.drive[1] /\ n.drive[2] < p.drive[2]

Added(b, name, prio) ==
  LET new == [name |-> name, prio |-> defPrio(b, Entry[name], prio)]
      at == {i \in 1 .. Len(b.list) : Before(new, b.list[i])}
      k == IF at = {} THEN Len(b.list) + 1 ELSE CHOOSE i \in at : \A j \in at : i <= j
  IN [b EXCEPT
       !.list = SubSeq(@, 1, k - 1) \o <<new>> \o SubSeq(@, k, Len(@)),
       !.beved = @ \/ Entry[name].type = BEV]
bootentry_add(name) == boot' = Added(boot, name, Entry[name].prio)

(* Nothing, or F12, and when the devices are there one entry, or escape.   *)
interactive_bootmenu(ready) ==
  \/ /\ boot.phase = "menu"
     /\ boot' = [boot EXCEPT !.phase = "wait"] \/ (Menu /\ boot' = [boot EXCEPT !.phase = "select"])
  \/ /\ boot.phase = "select" /\ ready
     /\ \/ boot' = [boot EXCEPT !.phase = "wait"]
        \/ \E i \in DOMAIN boot.list :
             boot' = [boot EXCEPT !.phase = "wait",
               !.list = <<[boot.list[i] EXCEPT !.prio = 0]>>
                        \o SubSeq(@, 1, i - 1) \o SubSeq(@, i + 1, Len(@))]

Has(bev, type) == \E i \in DOMAIN bev : bev[i].type = type
add_bev_twice(bev, type, name) ==    \* a wrong one, that adds every hard drive
  IF Len(bev) >= MaxBev THEN bev ELSE Append(bev, [type |-> type, name |-> name])
add_bev(bev, type, name) ==
  IF (type \in {HARDDISK, FLOPPY} /\ Has(bev, type)) \/ Len(bev) >= MaxBev THEN bev
  ELSE Append(bev, [type |-> type, name |-> name])

(* One entry of the list after the other; then the floppy and the hard     *)
(* drive that nothing added.                                               *)
boot_prep ==
  /\ boot.phase = "map"
  /\ IF boot.list = <<>>
     THEN boot' = [boot EXCEPT !.phase = "boot",
                     !.bev = add_bev(add_bev(@, FLOPPY, "any"), HARDDISK, "any")]
     ELSE LET n == Head(boot.list).name
              t == Entry[n].type
          IN boot' = [boot EXCEPT
               !.list = Tail(@),
               !.floppy = IF t = FLOPPY THEN Append(@, n) ELSE @,
               !.hd = IF t = HARDDISK THEN Append(@, n) ELSE @,
               !.cd = IF t = CDROM THEN Append(@, n) ELSE @,
               !.bev = CASE t = BCV -> add_bev(@, HARDDISK, "any")
                         [] t \in {FLOPPY, HARDDISK} -> add_bev(@, t, "any")
                         [] OTHER -> add_bev(@, t, n)]

(* Int 19h starts over, int 18h goes on with the next; beyond the last one *)
(* there is nothing to boot.                                               *)
handle_19 ==
  /\ boot.phase \in {"boot", "system"}
  /\ boot' = [boot EXCEPT !.seq = 0, !.tried = <<>>,
                          !.phase = IF boot.bev = <<>> THEN "nothing" ELSE "try"]
handle_18 ==
  /\ boot.phase = "system"
  /\ LET seq == boot.seq + 1 IN
     boot' = [boot EXCEPT !.seq = seq,
                          !.phase = IF seq >= Len(boot.bev) THEN "nothing" ELSE "try"]

(* An attempt hands over to what was loaded, or fails and calls int 18h.   *)
boot_attempt ==
  /\ boot.phase = "try"
  /\ boot' = [boot EXCEPT !.tried = Append(@, boot.bev[boot.seq + 1]), !.phase = "system"]
=============================================================================
