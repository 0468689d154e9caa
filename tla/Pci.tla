-------------------------------- MODULE Pci --------------------------------
(***************************************************************************)
(* pciinit.c and pci.c: the busses are numbered, the devices are listed,   *)
(* the sizes of their regions are summed up bridge by bridge, and          *)
(* addresses and interrupt lines are given out.  Io is counted in units of *)
(* 4 bytes and memory in pages, 2^20 of which are all there is.            *)
(***************************************************************************)
EXTENDS Integers, Sequences, SequencesExt, FiniteSets

CONSTANTS
  Board,     \* name -> [devs: sequence of devices, set: are they set up already?]; a device
             \* is [up: index of the bridge above or 0, kind, slot, pin, bars: of [type, exp,
             \*  is64], sec, sub: left in a bridge, line: left in the device]
  MemStart,  \* BUILD_PCIMEM_START
  MemEnd,    \* BUILD_PCIMEM_END
  MemTop     \* where memory addresses wrap around

VARIABLE pci
  \* [board, phase, cfg: the registers of the devices, count: pci_bus, walk: the recursion,
  \*  list: PCIDevices, max: MaxPCIBus, probe: [bus, lastbus, rootbuses, busdevs], bus: busses]

Types == {"io", "mem", "pref"}
Devs == Board[pci.board].devs
Phys == 0 .. Len(Devs)                  \* the host bus and the one behind each bridge
IsBridge(d) == Devs[d].kind = "bridge"
On(p) == {d \in DOMAIN Devs : Devs[d].up = p}

PciNew(board) ==
  LET devs == Board[board].devs IN
     [board |-> board, phase |-> IF Board[board].set THEN "probe" ELSE "number",
         cfg |-> [d \in DOMAIN devs |->
                    [sec |-> devs[d].sec, sub |-> devs[d].sub, bars |-> <<>>,
                     win |-> [t \in Types |-> <<0, 0>>], cmd |-> FALSE, line |-> devs[d].line]],
         count |-> 0, walk |-> <<>>, list |-> <<>>, max |-> 0,
         probe |-> [bus |-> -1, lastbus |-> 0, rootbuses |-> 0, busdevs |-> <<>>, todo |-> <<>>],
         bus |-> <<>>]
PciInit(board) == pci = PciNew(board)

(* Which busses a cycle for bus number b gets to: a bridge turns it into a *)
(* cycle on its own bus, or passes it on to the bridges there.             *)
Claimed(cfg, b) ==
  LET from[p \in Phys] ==
        UNION {IF cfg[d].sec = b THEN {d}
               ELSE IF cfg[d].sec < b /\ b <= cfg[d].sub THEN from[d] ELSE {}
               : d \in {x \in On(p) : IsBridge(x)}}
  IN IF b = 0 THEN {0} ELSE from[0]
(* foreachbdf: the devices that answer, by slot.                           *)
BdfsOf(cfg, b) ==
  LET claimed == Claimed(cfg, b)
  IN SelectSeq([d \in 1 .. Len(Devs) |-> d], LAMBDA d : Devs[d].up \in claimed)
IsB(d) == IsBridge(d)

(***************************************************************************)
(* pci_bios_init_bus_rec                                                   *)
(***************************************************************************)
Top == Head(pci.walk)
Mask_none(cfg, b) == cfg    \* a wrong one, that leaves the bridges as they were
Mask(cfg, b) ==
  LET there == ToSet(BdfsOf(cfg, b)) IN
  [d \in DOMAIN cfg |->
     IF d \in there /\ IsB(d)
     THEN [cfg[d] EXCEPT !.sec = 255, !.sub = 0] ELSE cfg[d]]
Enter(cfg, b, count, rest) ==
  LET masked == Mask(cfg, b) IN
  pci' = [pci EXCEPT !.cfg = masked, !.count = count,
            !.walk = <<[bus |-> b, todo |-> SelectSeq(BdfsOf(masked, b), IsB)]>> \o rest]

pci_bios_init_bus == pci.phase = "number" /\ pci.walk = <<>> /\ Enter(pci.cfg, 0, 0, <<>>)

(* The next bridge of this bus is opened, and the bus behind it is entered.*)
init_bus_bridge ==
  /\ pci.phase = "number" /\ pci.walk # <<>> /\ Top.todo # <<>>
  /\ LET d == Head(Top.todo)
         b == pci.count + 1
     IN Enter([pci.cfg EXCEPT ![d].sec = b, ![d].sub = 255], b, b, pci.walk)

(* Everything behind the bridge is numbered: it is closed after the last.  *)
init_bus_close ==
  /\ pci.phase = "number" /\ pci.walk # <<>> /\ Top.todo = <<>>
  /\ IF Len(pci.walk) = 1
     THEN pci' = [pci EXCEPT !.walk = <<>>, !.phase = "probe"]
     ELSE LET up == pci.walk[2] IN
          pci' = [pci EXCEPT
            !.cfg = [@ EXCEPT ![Head(up.todo)].sub = pci.count],
            !.walk = <<[up EXCEPT !.todo = Tail(@)]>> \o SubSeq(@, 3, Len(@))]

(***************************************************************************)
(* pci_probe: bus after bus, as far as a bridge was seen to lead           *)
(***************************************************************************)
Parent(b) ==
  LET p == SelectSeq(pci.probe.busdevs, LAMBDA x : x[1] = b) IN IF p = <<>> THEN 0 ELSE p[1][2]
pci_probe ==
  /\ pci.phase = "probe" /\ pci.probe.todo = <<>>
  /\ LET b == pci.probe.bus + 1 IN
     pci' = IF pci.probe.bus < pci.max
            THEN [pci EXCEPT !.probe = [@ EXCEPT !.bus = b, !.todo = BdfsOf(pci.cfg, b)]]
            ELSE [pci EXCEPT !.phase = IF Board[pci.board].set THEN "done" ELSE "alloc"]
(* A bus nobody was seen to lead to is a root; the first bridge that leads *)
(* to a bus is taken for the one above it.                                 *)
probe_device ==
  /\ pci.phase = "probe" /\ pci.probe.todo # <<>>
  /\ LET s == pci.probe
         d == Head(s.todo)
         b == s.bus
         parent == Parent(b)
         sec == IF IsBridge(d) THEN pci.cfg[d].sec ELSE 0
         roots == IF parent = 0 /\ b # s.lastbus THEN s.rootbuses + 1 ELSE s.rootbuses
         root == IF parent = 0 THEN roots ELSE pci.list[parent].rootbus
         max == IF parent = 0 /\ b > pci.max THEN b ELSE pci.max
     IN pci' = [pci EXCEPT
          !.list = Append(@, [dev |-> d, bus |-> b, parent |-> parent, rootbus |-> root, sec |-> sec]),
          !.max = IF sec > max THEN sec ELSE max,
          !.probe = [bus |-> b, rootbuses |-> roots, lastbus |-> IF parent = 0 THEN b ELSE s.lastbus,
                     todo |-> Tail(s.todo),
                     busdevs |-> IF sec > b /\ Parent(sec) = 0
                                 THEN Append(s.busdevs, <<sec, Len(pci.list) + 1>>) ELSE s.busdevs]]

(* The calls of the pci bios, which know no list: the devices of a kind    *)
(* (by their ids or class) that are told for the indices 0, 1, and so on.  *)
handle_1ab102(kind) ==
  LET Of(b) == SelectSeq(BdfsOf(pci.cfg, b), LAMBDA d : Devs[d].kind = kind)
  IN FoldLeft(LAMBDA s, b : s \o Of(b), <<>>, [b \in 1 .. pci.max + 1 |-> b - 1])

(***************************************************************************)
(* Sizes: index i stands for 2^i units                                     *)
(***************************************************************************)
Indexes == 0 .. 19
Shift(type) == IF type = "io" THEN 2 ELSE 12
pci_size_to_index(exp, type) == IF exp < Shift(type) THEN 0 ELSE exp - Shift(type)
pci_size_roundup(n) == CHOOSE i \in Indexes : 2 ^ i >= n /\ (i = 0 \/ 2 ^ (i - 1) < n)
BridgeMin(type) == IF type = "io" THEN 2 ^ 10 ELSE 2 ^ 8
NoRegion == [count |-> [i \in Indexes |-> 0], sum |-> 0, max |-> 0, size |-> 0,
             bases |-> [i \in Indexes |-> 0], base |-> 0]

pci_bios_bus_reserve(r, i) ==
  [r EXCEPT !.count[i] = @ + 1, !.sum = @ + 2 ^ i, !.max = IF @ < 2 ^ i THEN 2 ^ i ELSE @]

Here(b) == SelectSeq([i \in 1 .. Len(pci.list) |-> i], LAMBDA i : pci.list[i].bus = b)
Level(b) == [bus |-> b, todo |-> Here(b)]
Popped == [pci.walk[2] EXCEPT !.todo = Tail(@)]
Rest(n) == SubSeq(pci.walk, n, Len(pci.walk))
Fits(i) == pci.list[i].sec < Len(pci.bus)          \* busses_count

start_check ==
  /\ pci.phase = "alloc"
  /\ pci' = [pci EXCEPT !.phase = "check", !.walk = <<Level(0)>>,
                        !.bus = [b \in 1 .. pci.count + 1 |-> [t \in Types |-> NoRegion]]]

(* A bridge is left on top until the bus behind it has been summed up.     *)
pci_bios_check_device ==
  /\ pci.phase = "check" /\ Top.todo # <<>>
  /\ LET i == Head(Top.todo)
         d == pci.list[i].dev
         b == Top.bus + 1
         Bar(r, bar) == [r EXCEPT ![bar.type] = pci_bios_bus_reserve(@, pci_size_to_index(bar.exp, bar.type))]
     IN IF IsBridge(d)
        THEN pci' = [pci EXCEPT !.walk = IF Fits(i) THEN <<Level(pci.list[i].sec)>> \o @
                                         ELSE <<[Top EXCEPT !.todo = Tail(@)]>> \o Rest(2)]
        ELSE pci' = [pci EXCEPT !.bus[b] = FoldLeft(Bar, @, Devs[d].bars),
                                !.walk = <<[Top EXCEPT !.todo = Tail(@)]>> \o Rest(2)]

(* The window of a bridge is at least its granularity, and a power of two. *)
Window(type, sum) ==
  2 ^ pci_size_roundup(IF sum < BridgeMin(type) THEN BridgeMin(type) ELSE sum)
Log(n) == CHOOSE i \in Indexes : 2 ^ i <= n /\ n < 2 ^ (i + 1)
check_bridge ==
  /\ pci.phase = "check" /\ Top.todo = <<>>
  /\ IF Len(pci.walk) = 1
     THEN pci' = [pci EXCEPT !.phase = "root", !.walk = <<>>]
     ELSE LET s == Top.bus + 1
              b == pci.walk[2].bus + 1
              size == [t \in Types |-> Window(t, pci.bus[s][t].sum)]
          IN pci' = [pci EXCEPT
               !.bus = [@ EXCEPT
                 ![s] = [t \in Types |-> [@[t] EXCEPT !.size = size[t]]],
                 ![b] = [t \in Types |-> pci_bios_bus_reserve(@[t], Log(size[t]))]],
               !.walk = <<Popped>> \o Rest(3)]

(* The greater of the two memory regions lies below the smaller one.       *)
AlignDown(x, a) == IF a = 0 THEN 0 ELSE x - (x % a)
RootBase(top, r) == AlignDown((top - r.sum) % MemTop, r.max)
pci_bios_init_root_regions ==
  /\ pci.phase = "root"
  /\ LET r == pci.bus[1]
         first == IF r["mem"].sum < r["pref"].sum THEN "mem" ELSE "pref"
         second == IF first = "mem" THEN "pref" ELSE "mem"
         high == RootBase(MemEnd, r[first])
         low == RootBase(high, r[second])
     IN pci' = [pci EXCEPT
          !.phase = IF low >= MemStart THEN "base" ELSE "panic",
          !.bus[1] = [@ EXCEPT !["io"].base = 12288, ![first].base = high, ![second].base = low]]

(* The big ones come first, so each is aligned to its size.                *)
pci_bios_init_bus_bases(r) ==
  LET Above(i) == {j \in Indexes : j > i /\ r.count[j] # 0}
  IN [r EXCEPT !.bases = [i \in Indexes |->
        (r.base + FoldSet(LAMBDA j, n : n + r.count[j] * 2 ^ j, 0, Above(i))) % MemTop]]
AllBases(r) == [t \in Types |-> pci_bios_init_bus_bases(r[t])]

start_map ==
  /\ pci.phase = "base"
  /\ pci' = [pci EXCEPT !.phase = "map", !.walk = <<Level(0)>>, !.bus[1] = AllBases(@)]

(* pci_bios_bus_get_addr: the address, and the region after it.            *)
Took(r, i) == [r EXCEPT !.bases[i] = (@ + 2 ^ i) % MemTop]
pci_bios_map_device ==
  /\ pci.phase = "map" /\ Top.todo # <<>>
  /\ LET i == Head(Top.todo)
         d == pci.list[i].dev
         b == Top.bus + 1
         s == pci.list[i].sec + 1
         r == pci.bus[b]
         Bar(st, bar) ==
           LET k == pci_size_to_index(bar.exp, bar.type)
           IN [r |-> [st.r EXCEPT ![bar.type] = Took(@, k)],
               addrs |-> Append(st.addrs, st.r[bar.type].bases[k])]
         mapped == FoldLeft(Bar, [r |-> r, addrs |-> <<>>], Devs[d].bars)
         k(t) == Log(pci.bus[s][t].size)
         base(t) == r[t].bases[k(t)]
         below == [t \in Types |-> [pci.bus[s][t] EXCEPT !.base = base(t)]]
         next == <<[Top EXCEPT !.todo = Tail(@)]>> \o Rest(2)
     IN IF ~IsBridge(d)
        THEN pci' = [pci EXCEPT !.bus[b] = mapped.r, !.cfg[d].bars = mapped.addrs, !.walk = next]
        ELSE IF ~Fits(i) THEN pci' = [pci EXCEPT !.walk = next]
        ELSE pci' = [pci EXCEPT
               !.bus = [@ EXCEPT ![b] = [t \in Types |-> Took(r[t], k(t))], ![s] = AllBases(below)],
               !.cfg[d].win = [t \in Types |-> <<base(t), base(t) + pci.bus[s][t].size - 1>>],
               !.walk = <<Level(s - 1)>> \o next]
map_done ==
  /\ pci.phase = "map" /\ Top.todo = <<>>
  /\ pci' = [pci EXCEPT !.walk = Rest(2), !.phase = IF Len(pci.walk) = 1 THEN "init" ELSE @]

(***************************************************************************)
(* pci_bios_init_device, for the devices of the host bus                   *)
(***************************************************************************)
pci_irqs == <<10, 10, 11, 11>>
pci_slot_get_pirq(slot, pin) == (pin + slot - 1) % 4
LegacyIde == <<124, 253, 92, 221>>                        \* 1f0, 3f6 (3f4), 170, 376 (374)
pci_bios_init_device(c, dev) ==
  [c EXCEPT
    !.bars = IF dev.kind = "ide" THEN LegacyIde \o SubSeq(@, 5, Len(@)) ELSE @,
    !.cmd = TRUE,
    !.line = IF dev.kind = "piix4_pm" THEN 9
             ELSE IF dev.pin = 0 THEN @ ELSE pci_irqs[pci_slot_get_pirq(dev.slot, dev.pin - 1) + 1]]
pci_bios_init_device_in_bus ==
  /\ pci.phase = "init"
  /\ LET here == {pci.list[i].dev : i \in {j \in DOMAIN pci.list : pci.list[j].bus = 0}}
     IN pci' = [pci EXCEPT !.phase = "done",
          !.cfg = [d \in DOMAIN @ |-> IF d \in here THEN pci_bios_init_device(@[d], Devs[d]) ELSE @[d]]]

PciNext ==
  \/ pci_bios_init_bus \/ init_bus_bridge \/ init_bus_close \/ pci_probe \/ probe_device \/ start_check
  \/ pci_bios_check_device \/ check_bridge \/ pci_bios_init_root_regions \/ start_map
  \/ pci_bios_map_device \/ map_done \/ pci_bios_init_device_in_bus

(***************************************************************************)
(* What the set up promises                                                *)
(***************************************************************************)
(* A number leads to one bus only, at every moment of the numbering and in *)
(* spite of what an earlier run left in the bridges ("prevent accidental   *)
(* access to unintended devices"); and in the end the busses behind a      *)
(* bridge are those between its two numbers.                               *)
BusOK ==
  /\ pci.phase = "number" => \A b \in 1 .. pci.count : Cardinality(Claimed(pci.cfg, b)) = 1
  /\ pci.phase \in {"alloc", "done"} =>
       \A d \in {x \in DOMAIN Devs : IsBridge(x)} :
         /\ Claimed(pci.cfg, pci.cfg[d].sec) = {d}
         /\ \A c \in On(d) : IsBridge(c) =>
              pci.cfg[d].sec < pci.cfg[c].sec /\ pci.cfg[c].sub <= pci.cfg[d].sub

(* pci_probe lists every device once, with its bus and the bridge above it,*)
(* and a caller of the pci bios finds the same in the same order.          *)
ProbedOnce ==
  pci.phase \in {"alloc", "done"} =>
    /\ Len(pci.list) = Len(Devs)
    /\ \A kind \in {Devs[d].kind : d \in DOMAIN Devs} :
         LET all == SelectSeq(pci.list, LAMBDA e : Devs[e.dev].kind = kind)
         IN handle_1ab102(kind) = [n \in DOMAIN all |-> all[n].dev]
    /\ \A d \in DOMAIN Devs : \E i \in DOMAIN pci.list :
         LET e == pci.list[i]
             p == Devs[d].up
         IN /\ e.dev = d
            /\ IF p = 0 THEN e.bus = 0 /\ e.parent = 0
               ELSE e.bus = pci.cfg[p].sec /\ pci.list[e.parent].dev = p

(* Both.                                                                   *)
BussesKnown == BusOK /\ ProbedOnce

(* What a device or a bridge takes of its bus: regions [type, lo, hi].     *)
Regions(d) ==
  IF IsBridge(d)
  THEN {[type |-> t, lo |-> pci.cfg[d].win[t][1], hi |-> pci.cfg[d].win[t][2], who |-> <<d, t>>] : t \in Types}
  ELSE {LET bar == Devs[d].bars[i]
        IN [type |-> bar.type, lo |-> pci.cfg[d].bars[i],
            hi |-> pci.cfg[d].bars[i] + 2 ^ pci_size_to_index(bar.exp, bar.type) - 1, who |-> <<d, i>>]
        : i \in DOMAIN pci.cfg[d].bars}
Space(type) == IF type = "io" THEN "io" ELSE "mem"

(* No two regions meet, each is aligned to its size and lies inside what   *)
(* the bridge above it passes on.                                          *)
RegionsApart ==
  pci.phase = "init" =>
    \A d \in DOMAIN Devs : \A r \in Regions(d) :
      /\ r.lo % (r.hi - r.lo + 1) = 0
      /\ \A e \in On(Devs[d].up) : \A q \in Regions(e) :
           r.who # q.who /\ Space(r.type) = Space(q.type) => r.hi < q.lo \/ q.hi < r.lo
      /\ Devs[d].up # 0 =>
           LET w == pci.cfg[Devs[d].up].win[r.type] IN w[1] <= r.lo /\ r.hi <= w[2]

(* Both: every device can be reached by its number and at its addresses.   *)
PciSettled == BussesKnown /\ RegionsApart
=============================================================================
