----------------------------- MODULE UsbProofs -----------------------------
(***************************************************************************)
(* Finding the devices, for every machine that is wired as machines are,   *)
(* any number of addresses and of failures: who has which lock, which      *)
(* devices listen and at which address, and which controllers have not     *)
(* been started.  A thread's step is a move of its own port, its locks and *)
(* the device that is handled there (ThreadMove), and what it tells an     *)
(* ehci controller about the companions (NoteMove).  With that, what the   *)
(* hubs count (a count changes with the set of ports it stands for), and   *)
(* that a controller is off when it is started.                            *)
(***************************************************************************)
EXTENDS UsbEnum, PipesProofs

-----------------------------------------------------------------------------
(* What is what on the busses.                                             *)
USE DEF Port, Device, CntlOf, DevOf, HubOf, OnHub

Place == 1..Len(bus.list)
Nth(i) == bus.list[i].cntl

(* The port a device is handled at: a device of a root hub has two when a  *)
(* companion shares the port, and belongs to one of them at a time.        *)
Mine(p) == DevOf(p) # "none" /\ (OnHub(p) \/ dev[DevOf(p)].owner = CntlOf(p))

Early == {"off", "detect", "powered", "power", "status"}
Held == {"reset", "rst", "rststatus", "address", "addressed"}
Beyond == {"hubports", "used", "drop", "disable", "done"}
Reached == {"rststatus", "address", "addressed", "info8", "config8", "config", "setconfig", "msc",
            "protocol", "idle", "hubdesc"} \cup Beyond

CntlTypes == [Cntl -> [st : {"off", "start", "ports", "up", "down"}, inits : Nat, comps : SUBSET Cntl,
                       lock : Port \cup {"none"}, max : Nat, def : BOOLEAN,
                       tt : [addr : Nat, port : Nat], checks : Int, legacy : Int]]
HubTypes == [Hub -> [left : Int, count : Int, lock : Port \cup {"none"}]]
Stages == Early \cup {"lock"} \cup Held \cup Reached
PortTypes == [Port -> [pc : Stages, sent : BOOLEAN, polls : Int]]
DevTypes == [Device -> [owner : Cntl \cup {"none"}, en : BOOLEAN, addr : Nat, cfg : BOOLEAN,
                        tt : [addr : Nat, port : Nat], stuck : BOOLEAN]]
EnumTypes ==
  /\ cn \in CntlTypes /\ hub \in HubTypes /\ pt \in PortTypes /\ dev \in DevTypes
  /\ setup \in [pci : Nat \ {0}, ehci : Nat]

(* What a port holds where it is. *)
Holds(p) ==
  /\ pt[p].pc \in Held => cn[CntlOf(p)].lock = p
  /\ pt[p].sent => pt[p].pc \in Requests /\ hub[HubOf(p)].lock = p
  /\ pt[p].pc \in Requests => OnHub(p)
  /\ pt[p].pc \in {"powered", "reset"} => ~OnHub(p)
  /\ pt[p].pc \notin Early \cup {"done"} => Mine(p)
Locks == \A p \in Port : Holds(p)

(* A device listens only when its port has come to the reset.  *)
Enabled == \A d \in Device : dev[d].en => \E p \in Port : DevOf(p) = d /\ Mine(p) /\ pt[p].pc \in Reached

(* A hub's ports are looked at when its own port is through with its pipe. *)
HubPorts ==
  \A p \in Port : OnHub(p) /\ pt[p].pc # "off" =>
    \E q \in Port : DevOf(q) = HubOf(p) /\ Mine(q) /\ pt[q].pc \in Beyond

(* The addresses given out; who has the lock may be at 0 or at the next.   *)
Numbered(p) ==
  /\ Mine(p) /\ Listening(DevOf(p)) /\ cn[CntlOf(p)].lock # p =>
       dev[DevOf(p)].addr \in 1..cn[CntlOf(p)].max
  /\ pt[p].pc = "addressed" => dev[DevOf(p)].addr = cn[CntlOf(p)].max + 1
Addresses == \A p \in Port : Numbered(p)
Distinct ==
  \A p, q \in Port :
    /\ Mine(p) /\ Mine(q) /\ DevOf(p) # DevOf(q) /\ CntlOf(p) = CntlOf(q)
    /\ Listening(DevOf(p)) /\ Listening(DevOf(q))
    => dev[DevOf(p)].addr # dev[DevOf(q)].addr

(* A controller is started once, by usb_setup() or by the last port of the *)
(* ehci controller it is a companion of.                                   *)
NotYet(c) == cn[c].st \in {"off", "start"}
Starts ==
  /\ \A p \in Port : ~OnHub(p) /\ NotYet(CntlOf(p)) => pt[p].pc = "off"
  /\ \A i \in Place : i >= setup.pci => cn[Nth(i)].st = "off"
  /\ \A i, j \in Place : Nth(i) \in cn[Nth(j)].comps =>
       /\ i < setup.pci /\ bus.list[i].kind # "ehci" /\ cn[Nth(j)].st # "off"
       /\ cn[Nth(i)].st = "off" \/ (cn[Nth(j)].checks <= 0 /\ ~NotYet(Nth(j)))
       /\ \A k \in Place : Nth(i) \in cn[Nth(k)].comps => k = j
Order ==
  /\ \A j \in Place : bus.list[j].kind = "ehci" /\ cn[Nth(j)].st # "off" => ~bus.list[j].wide
  /\ \A i, j \in Place : Companion(bus, i, j) /\ ~bus.list[j].wide =>
       /\ i < setup.pci => Nth(i) \in cn[Nth(j)].comps
       /\ i >= setup.pci => setup.ehci # 0 /\ i >= setup.ehci

Apart == Locks /\ Enabled /\ HubPorts /\ Addresses /\ Distinct
EnumInv == WellWired(bus) /\ EnumTypes /\ Apart /\ Starts /\ Order

-----------------------------------------------------------------------------
(* The wiring.                                                             *)

(* Where the names of ports, devices and controllers lead. *)
LEMMA Wiring ==
  ASSUME WellWired(bus)
  PROVE  /\ Len(bus.list) \in Nat
         /\ "none" \notin Cntl /\ "none" \notin Device /\ "none" \notin Port /\ Cntl \cap Device = {}
         /\ \A p \in Port :
              /\ CntlOf(p) \in Cntl /\ HubOf(p) \in Hub /\ DevOf(p) \in Device \cup {"none"}
              /\ ~OnHub(p) => HubOf(p) = CntlOf(p)
              /\ OnHub(p) => HubOf(p) \in Device
              /\ bus.port[p].n \in Nat
         /\ \A i \in Place : Nth(i) \in Cntl /\ Kind(Nth(i)) = bus.list[i].kind
         /\ \A c \in Cntl : \E i \in Place : c = Nth(i)
         /\ \A i, j \in Place : Nth(i) = Nth(j) => i = j
         /\ \A h \in Cntl \cup Device : Cardinality(PortsOf(h)) \in Nat
<1>1. Cntl = CntlsOf(bus) /\ Cntl = {Nth(i) : i \in Place}
  BY DEF Cntl, CntlsOf, Nth, Place
<1>2. Len(bus.list) \in Nat
  BY DEF WellWired
<1>3. "none" \notin Cntl /\ "none" \notin Device /\ "none" \notin Port /\ Cntl \cap Device = {}
  BY <1>1 DEF WellWired
<1>4. ASSUME NEW p \in Port
      PROVE  /\ CntlOf(p) \in Cntl /\ HubOf(p) \in Hub /\ DevOf(p) \in Device \cup {"none"}
             /\ ~OnHub(p) => HubOf(p) = CntlOf(p)
             /\ OnHub(p) => HubOf(p) \in Device
             /\ bus.port[p].n \in Nat
  <2>1. /\ bus.port[p].cntl \in Cntl /\ bus.port[p].n \in Nat
        /\ \/ bus.port[p].hub = bus.port[p].cntl
           \/ bus.port[p].hub \in DOMAIN bus.dev /\ bus.dev[bus.port[p].hub].kind = "hub"
        /\ bus.port[p].dev \in DOMAIN bus.dev \cup {"none"}
    BY <1>1 DEF WellWired
  <2> QED BY <1>3, <2>1 DEF Hub
<1>5. \A i, j \in Place : Nth(i) = Nth(j) => i = j
  BY DEF WellWired, Place, Nth
<1>6. ASSUME NEW i \in Place PROVE Kind(Nth(i)) = bus.list[i].kind
  <2>1. bus.list[i] \in {bus.list[k] : k \in 1..Len(bus.list)}
    BY DEF Place
  <2>2. \A f \in {bus.list[k] : k \in 1..Len(bus.list)} : f.cntl = Nth(i) => f = bus.list[i]
    BY <1>5 DEF Place, Nth
  <2> QED BY <2>1, <2>2 DEF Kind, Function, Nth
<1>7. ASSUME NEW h \in Cntl \cup Device PROVE Cardinality(PortsOf(h)) \in Nat
  <2>1. IsFiniteSet(Port) /\ PortsOf(h) \subseteq Port
    BY DEF WellWired, PortsOf
  <2> QED BY <2>1, FS_Subset, FS_CardinalityType
<1> QED BY <1>1, <1>2, <1>3, <1>4, <1>5, <1>6, <1>7

(* Two ports of one device are one socket. *)
LEMMA Sockets ==
  ASSUME WellWired(bus), NEW p \in Port, NEW q \in Port, p # q,
         DevOf(p) = DevOf(q), DevOf(p) # "none"
  PROVE  /\ ~OnHub(p) /\ ~OnHub(q) /\ CntlOf(p) # CntlOf(q)
         /\ \E i, j \in Place : /\ Companion(bus, i, j)
                                /\ \/ CntlOf(p) = Nth(i) /\ CntlOf(q) = Nth(j)
                                   \/ CntlOf(p) = Nth(j) /\ CntlOf(q) = Nth(i)
<1>1. PICK i \in Place, j \in Place :
        /\ Companion(bus, i, j)
        /\ {bus.port[p].hub, bus.port[q].hub} = {Nth(i), Nth(j)}
  <2>1. \A r, s \in DOMAIN bus.port :
          r # s /\ bus.port[r].dev = bus.port[s].dev /\ bus.port[r].dev # "none" =>
            \E i, j \in 1..Len(bus.list) :
              /\ Companion(bus, i, j)
              /\ {bus.port[r].hub, bus.port[s].hub} = {bus.list[i].cntl, bus.list[j].cntl}
    BY Zenon DEF WellWired
  <2>2. \E i, j \in Place :
          /\ Companion(bus, i, j)
          /\ {bus.port[p].hub, bus.port[q].hub} = {bus.list[i].cntl, bus.list[j].cntl}
    BY <2>1, Zenon DEF Place
  <2> QED BY <2>2, Zenon DEF Nth
<1>2. i # j /\ Nth(i) # Nth(j)
  BY <1>1, Wiring DEF Companion, Place
<1>3. \/ HubOf(p) = Nth(i) /\ HubOf(q) = Nth(j)
      \/ HubOf(p) = Nth(j) /\ HubOf(q) = Nth(i)
  BY <1>1, <1>2
<1>4. ~OnHub(p) /\ ~OnHub(q) /\ HubOf(p) = CntlOf(p) /\ HubOf(q) = CntlOf(q)
  BY <1>3, Wiring
<1> QED BY <1>1, <1>2, <1>3, <1>4

(* A device is handled at one port. *)
LEMMA OneMine ==
  ASSUME WellWired(bus), NEW p \in Port, NEW q \in Port, Mine(p), Mine(q), DevOf(p) = DevOf(q)
  PROVE  p = q
BY Sockets DEF Mine

(* No step changes the machine. *)
LEMMA Fixed ==
  ASSUME bus' = bus
  PROVE  /\ Cntl' = Cntl /\ Hub' = Hub /\ Place' = Place /\ (WellWired(bus) => WellWired(bus)')
         /\ \A i : Nth(i)' = Nth(i)
BY DEF Cntl, Hub, Place, Nth

-----------------------------------------------------------------------------
(* The step of a port's thread.                                            *)

(* What it does to the device: nothing, or something at the port where the *)
(* device is handled.                                                      *)
DeviceMove(p) ==
  LET d == DevOf(p)  IN
  \/ dev' = dev
  \/ /\ Mine(p)
     /\ \A e \in Device \ {d} : dev'[e] = dev[e]
     /\ \/ dev'[d].owner = dev[d].owner /\ (dev'[d].en => pt'[p].pc \in Reached)
        \/ pt[p].pc \in {"powered", "reset"} /\ dev'[d].en = dev[d].en
     /\ dev'[d].en /\ ~dev'[d].stuck =>
          \/ dev'[d].addr = dev[d].addr /\ dev[d].en /\ ~dev[d].stuck
          \/ /\ cn[CntlOf(p)].lock \in {p, "none"}
             /\ dev'[d].addr = 0 \/ dev'[d].addr = cn[CntlOf(p)].max + 1

(* The locks are taken when free and given back by who has them; an        *)
(* address is counted under the lock.                                      *)
LockMove(p) ==
  LET c == CntlOf(p)  IN
  /\ \A k \in Cntl \ {c} : cn'[k].lock = cn[k].lock /\ cn'[k].max = cn[k].max
  /\ cn'[c].lock = cn[c].lock \/ cn[c].lock \in {p, "none"}
  /\ cn'[c].max = cn[c].max \/ (cn'[c].max = cn[c].max + 1 /\ cn[c].lock = p)
  /\ \A h \in Hub \ {HubOf(p)} : hub'[h].lock = hub[h].lock
  /\ hub'[HubOf(p)].lock = hub[HubOf(p)].lock \/ hub[HubOf(p)].lock \in {p, "none"}

(* Threads go on, and the other ports' stay where they are. *)
Forward(p) ==
  /\ bus' = bus /\ setup' = setup
  /\ \A q \in Port \ {p} : pt'[q] = pt[q]
  /\ pt[p].pc # "off"
  /\ pt[p].pc \in Reached => pt'[p].pc \in Reached
  /\ pt[p].pc \in Beyond => pt'[p].pc \in Beyond

ThreadMove(p) ==
  EnumTypes' /\ Forward(p) /\ LockMove(p) /\ DeviceMove(p) /\ Holds(p)' /\ Numbered(p)'

(* The threads of other ports keep what they hold, and the addresses stay  *)
(* apart.                                                                  *)
LEMMA MoveKeeps ==
  ASSUME WellWired(bus), EnumTypes, Apart, NEW p \in Port, ThreadMove(p)
  PROVE  Apart'
<1> DEFINE c == CntlOf(p)
           d == DevOf(p)
<1>1. /\ bus' = bus /\ Cntl' = Cntl /\ Hub' = Hub
      /\ \A q \in Port \ {p} : pt'[q] = pt[q]
      /\ pt[p].pc # "off"
      /\ pt[p].pc \in Reached => pt'[p].pc \in Reached
      /\ pt[p].pc \in Beyond => pt'[p].pc \in Beyond
  BY Fixed DEF ThreadMove, Forward
<1>2. /\ c \in Cntl /\ HubOf(p) \in Hub /\ d \in Device \cup {"none"} /\ "none" \notin Device
      /\ "none" \notin Port
      /\ \A q \in Port : CntlOf(q) \in Cntl /\ HubOf(q) \in Hub /\ DevOf(q) \in Device \cup {"none"}
  BY Wiring
<1>3. \A q \in Port : q # p /\ DevOf(q) = d /\ Mine(p) => ~Mine(q)
  BY OneMine
<1>4. \A q \in Port : q # p /\ Mine(q) => dev'[DevOf(q)] = dev[DevOf(q)]
  BY <1>2, <1>3 DEF ThreadMove, DeviceMove, Mine
<1>5. \A q \in Port : q # p /\ Mine(q) => Mine(q)'
  BY <1>1, <1>4 DEF Mine
<1>6. ~dev[d].en \/ ~Mine(p) \/ pt[p].pc \in Reached
  <2>1. SUFFICES ASSUME Mine(p), dev[d].en PROVE pt[p].pc \in Reached
    OBVIOUS
  <2>2. d \in Device
    BY <1>2, <2>1 DEF Mine
  <2>3. PICK q \in Port : DevOf(q) = d /\ Mine(q) /\ pt[q].pc \in Reached
    BY <2>1, <2>2 DEF Apart, Enabled
  <2> QED BY <1>3, <2>1, <2>3
<1>7. ASSUME NEW q \in Port, q # p, Mine(q)'
      PROVE  Mine(q) \/ (~dev'[DevOf(q)].en /\ DevOf(q) = d)
  <2>1. CASE DevOf(q) # d
    BY <1>1, <1>2, <1>7, <2>1 DEF ThreadMove, DeviceMove, Mine
  <2>2. CASE DevOf(q) = d /\ dev' = dev
    BY <1>1, <1>7, <2>2 DEF Mine
  <2>3. CASE DevOf(q) = d /\ dev' # dev
    <3>1. Mine(p) /\ (dev'[d].owner = dev[d].owner
                      \/ (pt[p].pc \in {"powered", "reset"} /\ dev'[d].en = dev[d].en))
      BY <2>3 DEF ThreadMove, DeviceMove
    <3>2. ~Mine(q)
      BY <1>3, <1>7, <2>3, <3>1
    <3>3. dev'[d].owner # dev[d].owner
      BY <1>1, <1>7, <2>3, <3>2 DEF Mine
    <3> QED BY <1>6, <2>3, <3>1, <3>3 DEF Reached, Beyond
  <2> QED BY <2>1, <2>2, <2>3
<1>8. Locks'
  <2>1. ASSUME NEW q \in Port, q # p PROVE Holds(q)'
    <3>1. Holds(q) /\ pt'[q] = pt[q]
      BY <1>1, <2>1 DEF Apart, Locks
    <3>2. cn[CntlOf(q)].lock = q => cn'[CntlOf(q)].lock = q
      BY <1>2, <2>1 DEF ThreadMove, LockMove
    <3>3. hub[HubOf(q)].lock = q => hub'[HubOf(q)].lock = q
      BY <1>2, <2>1 DEF ThreadMove, LockMove
    <3>4. Mine(q) => Mine(q)'
      BY <1>5, <2>1
    <3> HIDE DEF Mine
    <3> QED BY <1>1, <3>1, <3>2, <3>3, <3>4 DEF Holds, Requests
  <2>2. Holds(p)'
    BY DEF ThreadMove
  <2> QED BY <1>1, <2>1, <2>2 DEF Locks
<1>9. Enabled'
  <2>1. SUFFICES ASSUME NEW e \in Device, dev'[e].en
                 PROVE  \E q \in Port : DevOf(q) = e /\ Mine(q)' /\ pt'[q].pc \in Reached
    BY <1>1 DEF Enabled
  <2>2. CASE dev'[e] = dev[e]
    <3>1. PICK q \in Port : DevOf(q) = e /\ Mine(q) /\ pt[q].pc \in Reached
      BY <2>1, <2>2 DEF Apart, Enabled
    <3>2. CASE q # p
      BY <1>1, <1>5, <3>1, <3>2
    <3>3. CASE q = p
      BY <1>1, <2>2, <3>1, <3>3 DEF Mine
    <3> QED BY <3>2, <3>3
  <2>3. CASE dev'[e] # dev[e]
    <3>1. e = d /\ Mine(p) /\ dev' # dev
      BY <2>3 DEF ThreadMove, DeviceMove
    <3>2. CASE dev'[d].owner = dev[d].owner /\ pt'[p].pc \in Reached
      BY <1>1, <3>1, <3>2 DEF Mine
    <3>3. CASE pt[p].pc \in {"powered", "reset"} /\ dev'[d].en = dev[d].en
      BY <1>6, <2>1, <3>1, <3>3 DEF Reached, Beyond
    <3> QED BY <2>1, <3>1, <3>2, <3>3 DEF ThreadMove, DeviceMove
  <2> QED BY <2>2, <2>3
<1>10. HubPorts'
  <2>1. SUFFICES ASSUME NEW r \in Port, OnHub(r), pt'[r].pc # "off"
                 PROVE  \E q \in Port : DevOf(q) = HubOf(r) /\ Mine(q)' /\ pt'[q].pc \in Beyond
    BY <1>1 DEF HubPorts
  <2>2. PICK q \in Port : DevOf(q) = HubOf(r) /\ Mine(q) /\ pt[q].pc \in Beyond
    BY <1>1, <2>1 DEF Apart, HubPorts
  <2>3. CASE q # p
    BY <1>1, <1>5, <2>2, <2>3
  <2>4. CASE q = p
    <3>1. dev' = dev \/ dev'[d].owner = dev[d].owner
      BY <2>2, <2>4 DEF ThreadMove, DeviceMove, Beyond
    <3>2. Mine(p)'
      BY <1>1, <2>2, <2>4, <3>1 DEF Mine
    <3> QED BY <1>1, <2>2, <2>4, <3>2
  <2> QED BY <2>3, <2>4
<1>11. \A k \in Cntl : cn[k].max \in Nat /\ cn'[k].max \in Nat /\ cn'[k].max >= cn[k].max
  <2>1. \A k \in Cntl : cn[k].max \in Nat
    BY DEF EnumTypes, CntlTypes
  <2> QED BY <2>1 DEF ThreadMove, LockMove
<1>12. \A q \in Port : q # p /\ cn'[CntlOf(q)].lock # q => cn[CntlOf(q)].lock # q
  BY <1>2 DEF ThreadMove, LockMove
<1>13. Addresses'
  <2>1. ASSUME NEW q \in Port, q # p PROVE Numbered(q)'
    <3>1. ASSUME Mine(q)', dev'[DevOf(q)].en, ~dev'[DevOf(q)].stuck, cn'[CntlOf(q)].lock # q
          PROVE  dev'[DevOf(q)].addr \in 1..cn'[CntlOf(q)].max
      <4>1. Mine(q) /\ dev'[DevOf(q)] = dev[DevOf(q)]
        BY <1>4, <1>7, <2>1, <3>1
      <4>2. dev[DevOf(q)].addr \in 1..cn[CntlOf(q)].max
        BY <1>12, <2>1, <3>1, <4>1 DEF Apart, Addresses, Numbered, Listening
      <4>3. cn[CntlOf(q)].max \in Nat /\ cn'[CntlOf(q)].max \in Nat /\ cn'[CntlOf(q)].max >= cn[CntlOf(q)].max
        BY <1>2, <1>11
      <4> QED BY <4>1, <4>2, <4>3
    <3>2. ASSUME pt'[q].pc = "addressed" PROVE dev'[DevOf(q)].addr = cn'[CntlOf(q)].max + 1
      <4>1. pt[q].pc = "addressed" /\ Holds(q) /\ Numbered(q)
        BY <1>1, <2>1, <3>2 DEF Apart, Locks, Addresses
      <4>2. Mine(q) /\ cn[CntlOf(q)].lock = q /\ dev[DevOf(q)].addr = cn[CntlOf(q)].max + 1
        BY <4>1 DEF Holds, Numbered, Early, Held
      <4>3. cn'[CntlOf(q)].max = cn[CntlOf(q)].max
        BY <1>2, <2>1, <4>2 DEF ThreadMove, LockMove
      <4> QED BY <1>4, <2>1, <4>2, <4>3
    <3> HIDE DEF Mine
    <3> QED BY <1>1, <3>1, <3>2 DEF Numbered, Listening
  <2>2. Numbered(p)'
    BY DEF ThreadMove
  <2> QED BY <1>1, <2>1, <2>2 DEF Addresses
<1>14. ASSUME NEW q \in Port, q # p, Mine(q)', Mine(p)', DevOf(q) # d, CntlOf(q) = c,
              dev'[DevOf(q)].en, ~dev'[DevOf(q)].stuck, dev'[d].en, ~dev'[d].stuck
       PROVE  dev'[d].addr # dev'[DevOf(q)].addr
  <2>1. Mine(q) /\ dev'[DevOf(q)] = dev[DevOf(q)]
    BY <1>4, <1>7, <1>14
  <2>2. CASE dev'[d].addr = dev[d].addr /\ dev[d].en /\ ~dev[d].stuck /\ Mine(p)
    BY <1>14, <2>1, <2>2 DEF Apart, Distinct, Listening
  <2>3. CASE /\ cn[c].lock \in {p, "none"}
             /\ dev'[d].addr = 0 \/ dev'[d].addr = cn[c].max + 1
    <3>1. dev[DevOf(q)].addr \in 1..cn[c].max
      BY <1>2, <1>14, <2>1, <2>3 DEF Apart, Addresses, Numbered, Listening
    <3> QED BY <1>2, <1>11, <2>1, <2>3, <3>1
  <2>4. CASE dev' = dev
    BY <1>1, <1>14, <2>2, <2>4 DEF Mine
  <2> QED BY <1>14, <2>2, <2>3, <2>4 DEF ThreadMove, DeviceMove
<1>15. Distinct'
  <2>1. SUFFICES ASSUME NEW q \in Port, NEW r \in Port, Mine(q)', Mine(r)', DevOf(q) # DevOf(r),
                        CntlOf(q) = CntlOf(r), dev'[DevOf(q)].en, ~dev'[DevOf(q)].stuck,
                        dev'[DevOf(r)].en, ~dev'[DevOf(r)].stuck
                 PROVE  dev'[DevOf(q)].addr # dev'[DevOf(r)].addr
    <3> HIDE DEF Mine
    <3> QED BY <1>1 DEF Distinct, Listening
  <2>2. CASE q = p \/ r = p
    BY <1>14, <2>1, <2>2
  <2>3. CASE q # p /\ r # p
    <3>1. Mine(q) /\ Mine(r) /\ dev'[DevOf(q)] = dev[DevOf(q)] /\ dev'[DevOf(r)] = dev[DevOf(r)]
      BY <1>4, <1>7, <2>1, <2>3
    <3> QED BY <2>1, <3>1 DEF Apart, Distinct, Listening
  <2> QED BY <2>2, <2>3
<1> QED BY <1>8, <1>9, <1>10, <1>13, <1>15 DEF Apart

-----------------------------------------------------------------------------
(* The controllers.                                                        *)

(* A thread leaves the controllers alone, or has ehci_note_port() start    *)
(* the companions of its own.                                              *)
Noted(p, given) ==
  \/ \A k \in Cntl : given[k].st = cn[k].st /\ given[k].comps = cn[k].comps /\ given[k].checks = cn[k].checks
  \/ LET c == CntlOf(p)  IN
     /\ ~OnHub(p)
     /\ \A k \in Cntl : given[k].comps = cn[k].comps
     /\ given[c].st = cn[c].st /\ given[c].checks = cn[c].checks - 1
     /\ \A k \in Cntl \ {c} :
          /\ given[k].checks = cn[k].checks
          /\ given[k].st = cn[k].st \/ (cn[c].checks = 1 /\ k \in cn[c].comps /\ given[k].st = "start")
NoteMove(p) == Noted(p, cn')

(* Nothing happens to the controllers. *)
LEMMA SameStarts ==
  ASSUME WellWired(bus), Starts, Order, bus' = bus, setup' = setup,
         \A k \in Cntl : cn'[k].st = cn[k].st /\ cn'[k].comps = cn[k].comps /\ cn'[k].checks = cn[k].checks,
         \A q \in Port : ~OnHub(q) /\ NotYet(CntlOf(q)) => pt'[q].pc = "off"
  PROVE  Starts' /\ Order'
<1>1. Cntl' = Cntl /\ Place' = Place /\ \A i : Nth(i)' = Nth(i)
  BY Fixed
<1>2. \A k \in Cntl : NotYet(k)' <=> NotYet(k)
  BY DEF NotYet
<1>3. (\A i \in Place : Nth(i) \in Cntl) /\ \A q \in Port : CntlOf(q) \in Cntl
  BY Wiring
<1> HIDE DEF NotYet, Nth, Place
<1>4. Starts'
  BY <1>1, <1>2, <1>3 DEF Starts
<1>5. Order'
  BY <1>1, <1>3 DEF Order
<1> QED BY <1>4, <1>5

(* No controller is started a second time. *)
LEMMA NoteKeeps ==
  ASSUME WellWired(bus), EnumTypes, Starts, Order, NEW p \in Port, Forward(p), NoteMove(p)
  PROVE  Starts' /\ Order'
<1>1. /\ bus' = bus /\ setup' = setup /\ Cntl' = Cntl /\ Hub' = Hub /\ Place' = Place
      /\ \A i : Nth(i)' = Nth(i)
      /\ \A q \in Port \ {p} : pt'[q] = pt[q]
      /\ pt[p].pc # "off"
  BY Fixed DEF Forward
<1>2. CASE \A k \in Cntl : cn'[k].st = cn[k].st /\ cn'[k].comps = cn[k].comps /\ cn'[k].checks = cn[k].checks
  <2>1. \A q \in Port : ~OnHub(q) /\ NotYet(CntlOf(q)) => pt'[q].pc = "off"
    BY <1>1 DEF Starts
  <2> QED BY <1>1, <1>2, <2>1, SameStarts
<1>3. CASE LET c == CntlOf(p)  IN
           /\ ~OnHub(p)
           /\ \A k \in Cntl : cn'[k].comps = cn[k].comps
           /\ cn'[c].st = cn[c].st /\ cn'[c].checks = cn[c].checks - 1
           /\ \A k \in Cntl \ {c} :
                /\ cn'[k].checks = cn[k].checks
                /\ cn'[k].st = cn[k].st \/ (cn[c].checks = 1 /\ k \in cn[c].comps /\ cn'[k].st = "start")
  <2> DEFINE c == CntlOf(p)
  <2>1. /\ \A i \in Place : Nth(i) \in Cntl
        /\ \A i, j \in Place : Nth(i) = Nth(j) => i = j
        /\ \A q \in Port : CntlOf(q) \in Cntl
        /\ \A k \in Cntl : \E i \in Place : k = Nth(i)
    BY Wiring
  <2>2. PICK j \in Place : c = Nth(j)
    BY <2>1
  <2>3. ~NotYet(c) /\ c \in Cntl
    BY <1>1, <1>3, <2>1 DEF Starts
  <2>4. \A i \in Place : Nth(i) # c => cn'[Nth(i)].st = cn[Nth(i)].st
                          \/ (/\ Nth(i) \in cn[c].comps /\ cn[Nth(i)].st = "off" /\ cn'[Nth(i)].st = "start"
                              /\ i < setup.pci /\ bus.list[i].kind # "ehci" /\ cn'[c].checks = 0)
    BY <1>3, <2>1, <2>2 DEF Starts
  <2>5. \A k \in Cntl : cn[k].checks \in Int
    BY DEF EnumTypes, CntlTypes
  <2>6. \A k \in Cntl : /\ cn'[k].comps = cn[k].comps
                        /\ cn[k].checks <= 0 => cn'[k].checks <= 0
                        /\ ~NotYet(k) => ~NotYet(k)'
                        /\ NotYet(k)' => NotYet(k)
    <3>1. ASSUME NEW k \in Cntl PROVE (NotYet(k)' <=> NotYet(k))
      BY SMTT(30), <1>3, <2>1, <2>3, <2>4 DEF NotYet
    <3> QED BY <1>3, <2>5, <3>1
  <2>7. \A q \in Port : ~OnHub(q) /\ NotYet(CntlOf(q))' => pt'[q].pc = "off"
    BY <1>1, <2>1, <2>6 DEF Starts
  <2>8. \A i \in Place : i >= setup.pci => cn'[Nth(i)].st = "off"
    <3>1. ASSUME NEW i \in Place, i >= setup.pci PROVE cn'[Nth(i)].st = "off"
      <4>1. cn[Nth(i)].st = "off" /\ i \in Int /\ setup.pci \in Int
        BY <3>1 DEF Starts, Place, EnumTypes
      <4>2. Nth(i) # c
        BY <2>3, <4>1 DEF NotYet
      <4> QED BY <2>4, <3>1, <4>1, <4>2
    <3> QED BY <3>1
  <2>9. ASSUME NEW i \in Place, NEW k \in Place, Nth(i) \in cn'[Nth(k)].comps
        PROVE  /\ i < setup.pci /\ bus.list[i].kind # "ehci" /\ cn'[Nth(k)].st # "off"
               /\ cn'[Nth(i)].st = "off" \/ (cn'[Nth(k)].checks <= 0 /\ ~NotYet(Nth(k))')
               /\ \A l \in Place : Nth(i) \in cn'[Nth(l)].comps => l = k
    <3>1. Nth(i) \in cn[Nth(k)].comps /\ \A l \in Place : cn'[Nth(l)].comps = cn[Nth(l)].comps
      BY <2>1, <2>6, <2>9
    <3>2. /\ i < setup.pci /\ bus.list[i].kind # "ehci" /\ cn[Nth(k)].st # "off"
          /\ cn[Nth(i)].st = "off" \/ (cn[Nth(k)].checks <= 0 /\ ~NotYet(Nth(k)))
          /\ \A l \in Place : Nth(i) \in cn[Nth(l)].comps => l = k
      BY <3>1 DEF Starts
    <3>3. cn'[Nth(i)].st = "off" \/ (cn'[Nth(k)].checks <= 0 /\ ~NotYet(Nth(k))')
      <4>1. Nth(i) \in Cntl /\ Nth(k) \in Cntl
        BY <2>1
      <4>2. CASE cn[Nth(i)].st # "off"
        BY <1>1, <2>6, <3>2, <4>1, <4>2 DEF NotYet
      <4>3. CASE cn[Nth(i)].st = "off" /\ cn'[Nth(i)].st # "off"
        <5>1. Nth(i) # c
          BY <2>3, <4>3 DEF NotYet
        <5>2. Nth(i) \in cn[Nth(j)].comps /\ cn'[c].checks = 0
          BY <2>2, <2>4, <4>3, <5>1
        <5>3. j = k
          BY <3>2, <5>2
        <5>4. cn'[Nth(k)].checks = 0 /\ ~NotYet(Nth(k))'
          BY <1>1, <2>2, <2>3, <2>6, <5>2, <5>3 DEF NotYet
        <5> QED BY <5>4
      <4> QED BY <4>2, <4>3
    <3>4. cn'[Nth(k)].st # "off"
      <4>1. cn'[Nth(k)].st = cn[Nth(k)].st \/ cn'[Nth(k)].st = "start"
        BY <1>3, <2>1
      <4> QED BY <3>2, <4>1
    <3> QED BY <3>1, <3>2, <3>3, <3>4
  <2>10. Starts'
    <3> HIDE DEF NotYet, Nth, Place
    <3> QED BY <1>1, <2>7, <2>8, <2>9 DEF Starts
  <2>11. Order'
    <3>1. ASSUME NEW i \in Place, bus.list[i].kind = "ehci", cn'[Nth(i)].st # "off"
          PROVE  ~bus.list[i].wide
      <4>1. cn[Nth(i)].st # "off"
        BY <1>3, <2>1, <2>4, <3>1
      <4> QED BY <3>1, <4>1 DEF Order
    <3>2. ASSUME NEW i \in Place, NEW k \in Place, Companion(bus, i, k), ~bus.list[k].wide
          PROVE  /\ i < setup.pci => Nth(i) \in cn'[Nth(k)].comps
                 /\ i >= setup.pci => setup.ehci # 0 /\ i >= setup.ehci
      BY <2>1, <2>6, <3>2 DEF Order
    <3> HIDE DEF Nth, Place
    <3> QED BY <1>1, <3>1, <3>2 DEF Order
  <2> QED BY <2>10, <2>11
<1> QED BY <1>2, <1>3 DEF NoteMove, Noted

-----------------------------------------------------------------------------
(* The steps of a port's thread are such moves.                            *)

(* Where the thread and the locks are after a step. *)
PtTo(p, pc, sent) ==
  pt' \in PortTypes /\ pt'[p].pc = pc /\ pt'[p].sent = sent /\ \A q \in Port \ {p} : pt'[q] = pt[q]
HubTo(p, l) ==
  /\ hub' \in HubTypes /\ hub'[HubOf(p)].lock = l
  /\ \A h \in Hub \ {HubOf(p)} : hub'[h].lock = hub[h].lock
CnTo(p, l, m) ==
  /\ cn' \in CntlTypes /\ cn'[CntlOf(p)].lock = l /\ cn'[CntlOf(p)].max = m
  /\ \A k \in Cntl \ {CntlOf(p)} : cn'[k].lock = cn[k].lock /\ cn'[k].max = cn[k].max

(* What every step of the thread at p finds. *)
LEMMA Finds ==
  ASSUME WellWired(bus), EnumTypes, Apart, NEW p \in Port
  PROVE  /\ CntlOf(p) \in Cntl /\ HubOf(p) \in Hub /\ DevOf(p) \in Device \cup {"none"}
         /\ "none" \notin Device /\ "none" \notin Port /\ "none" \notin Cntl
         /\ ~OnHub(p) => HubOf(p) = CntlOf(p)
         /\ OnHub(p) => HubOf(p) \in Device
         /\ Mine(p) => DevOf(p) \in Device
         /\ Holds(p) /\ Numbered(p)
         /\ Mine(p) /\ dev[DevOf(p)].en => pt[p].pc \in Reached
<1>1. ASSUME Mine(p), dev[DevOf(p)].en PROVE pt[p].pc \in Reached
  <2>1. DevOf(p) \in Device
    BY <1>1, Wiring DEF Mine
  <2>2. PICK q \in Port : DevOf(q) = DevOf(p) /\ Mine(q) /\ pt[q].pc \in Reached
    BY <1>1, <2>1 DEF Apart, Enabled
  <2> QED BY <1>1, <2>2, OneMine
<1> QED BY <1>1, Wiring DEF Apart, Locks, Addresses, Mine

(* The ways a thread goes on. *)
LEMMA Goes ==
  ASSUME WellWired(bus), EnumTypes, bus' = bus, NEW p \in Port, NEW pc \in Stages
  PROVE  /\ Goto(p, pc) => PtTo(p, pc, pt[p].sent)
         /\ Finish(p, 0) \/ Finish(p, 1) => PtTo(p, "done", pt[p].sent) /\ HubTo(p, hub[HubOf(p)].lock)
         /\ Answered(p, pc) => PtTo(p, pc, FALSE) /\ HubTo(p, "none")
         /\ AnsweredLast(p) => PtTo(p, "done", FALSE) /\ HubTo(p, "none")
         /\ hub' = hub => HubTo(p, hub[HubOf(p)].lock)
         /\ cn' = cn => CnTo(p, cn[CntlOf(p)].lock, cn[CntlOf(p)].max)
<1>1. HubOf(p) \in Hub
  BY Wiring
<1>2. PortTypes' = PortTypes /\ HubTypes' = HubTypes /\ CntlTypes' = CntlTypes
  BY Fixed DEF PortTypes, HubTypes, CntlTypes
<1>3. "done" \in Stages
  BY DEF Stages, Reached, Beyond
<1>4. pt \in [Port -> [pc : Stages, sent : BOOLEAN, polls : Int]]
  BY DEF EnumTypes, PortTypes
<1>5. hub \in [Hub -> [left : Int, count : Int, lock : Port \cup {"none"}]]
  BY DEF EnumTypes, HubTypes
<1>6. Goto(p, pc) => PtTo(p, pc, pt[p].sent)
  BY <1>4 DEF Goto, PtTo, PortTypes
<1>7. ASSUME NEW used \in {0, 1}, Finish(p, used)
      PROVE  PtTo(p, "done", pt[p].sent) /\ HubTo(p, hub[HubOf(p)].lock)
  <2>1. PtTo(p, "done", pt[p].sent)
    BY <1>3, <1>4, <1>7 DEF Finish, PtTo, PortTypes
  <2>2. HubTo(p, hub[HubOf(p)].lock)
    <3> DEFINE R == [left : Int, count : Int, lock : Port \cup {"none"}]
               h == HubOf(p)
               g == hub[h]
               r == [g EXCEPT !.left = g.left - 1, !.count = g.count + used]
    <3>1. hub \in [Hub -> R] /\ g \in R /\ h \in Hub
      BY <1>1, <1>5
    <3>2. r \in R /\ r.lock = g.lock
      <4>1. g.left - 1 \in Int /\ g.count + used \in Int
        BY <1>7, <3>1
      <4> HIDE DEF g
      <4> QED BY <3>1, <4>1
    <3>3. hub' = [hub EXCEPT ![h] = r]
      BY <1>7 DEF Finish
    <3>4. hub' \in [Hub -> R] /\ hub'[h] = r /\ \A k \in Hub \ {h} : hub'[k] = hub[k]
      <4> HIDE DEF R, r, h
      <4> QED BY <3>1, <3>2, <3>3
    <3> QED BY <3>2, <3>4 DEF HubTo, HubTypes
  <2> QED BY <2>1, <2>2
<1>8. ASSUME Answered(p, pc) PROVE PtTo(p, pc, FALSE) /\ HubTo(p, "none")
  <2>1. PtTo(p, pc, FALSE)
    BY <1>4, <1>8 DEF Answered, PtTo, PortTypes
  <2>2. HubTo(p, "none")
    BY <1>1, <1>5, <1>8 DEF Answered, HubTo, HubTypes
  <2> QED BY <2>1, <2>2
<1>9. ASSUME AnsweredLast(p) PROVE PtTo(p, "done", FALSE) /\ HubTo(p, "none")
  <2>1. PtTo(p, "done", FALSE)
    BY <1>3, <1>4, <1>9 DEF AnsweredLast, PtTo, PortTypes
  <2>2. HubTo(p, "none")
    <3> DEFINE R == [left : Int, count : Int, lock : Port \cup {"none"}]
               h == HubOf(p)
               g == hub[h]
               freed == [g EXCEPT !.lock = "none"]
               held == [hub EXCEPT ![h] = freed]
               r == [freed EXCEPT !.left = freed.left - 1]
    <3>1. hub \in [Hub -> R] /\ g \in R /\ h \in Hub
      BY <1>1, <1>5
    <3>2. r \in R /\ r.lock = "none"
      <4>1. freed \in R /\ freed.lock = "none"
        BY <3>1
      <4>2. freed.left - 1 \in Int
        BY <4>1
      <4> HIDE DEF freed
      <4> QED BY <4>1, <4>2
    <3>3. hub' = [held EXCEPT ![h].left = @ - 1]
      BY <1>9 DEF AnsweredLast
    <3>4. held \in [Hub -> R] /\ held[h] = freed /\ \A k \in Hub \ {h} : held[k] = hub[k]
      BY <3>1
    <3>5. hub' \in [Hub -> R] /\ hub'[h] = r /\ \A k \in Hub \ {h} : hub'[k] = hub[k]
      <4>1. hub' = [held EXCEPT ![h] = r]
        <5> HIDE DEF R, h, freed, held
        <5> QED BY <3>3, <3>4
      <4> HIDE DEF R, r, h, freed, held
      <4> QED BY <3>1, <3>2, <3>4, <4>1
    <3> QED BY <3>2, <3>5 DEF HubTo, HubTypes
  <2> QED BY <2>1, <2>2
<1>10. hub' = hub => HubTo(p, hub[HubOf(p)].lock)
  BY DEF HubTo, EnumTypes
<1>11. cn' = cn => CnTo(p, cn[CntlOf(p)].lock, cn[CntlOf(p)].max)
  BY DEF CnTo, EnumTypes
<1> QED BY <1>6, <1>7, <1>8, <1>9, <1>10, <1>11

(* Such a step is a move. *)
LEMMA Moves ==
  ASSUME WellWired(bus), EnumTypes, Apart, bus' = bus, setup' = setup, NEW p \in Port,
         NEW pc, NEW sent, NEW hl, NEW l, NEW m,
         PtTo(p, pc, sent), HubTo(p, hl), CnTo(p, l, m), dev' \in DevTypes, DeviceMove(p),
         pt[p].pc # "off",
         pt[p].pc \in Reached => pc \in Reached,
         pt[p].pc \in Beyond => pc \in Beyond,
         hl = hub[HubOf(p)].lock \/ hub[HubOf(p)].lock \in {p, "none"},
         l = cn[CntlOf(p)].lock \/ cn[CntlOf(p)].lock \in {p, "none"},
         m = cn[CntlOf(p)].max \/ (m = cn[CntlOf(p)].max + 1 /\ cn[CntlOf(p)].lock = p),
         pc \in Held => l = p,
         sent => pc \in Requests /\ hl = p,
         pc \in Requests => OnHub(p),
         pc \in {"powered", "reset"} => ~OnHub(p),
         pc \notin Early \cup {"done"} => Mine(p)',
         Mine(p)' /\ dev'[DevOf(p)].en /\ ~dev'[DevOf(p)].stuck /\ l # p => dev'[DevOf(p)].addr \in 1..m,
         pc = "addressed" => dev'[DevOf(p)].addr = m + 1
  PROVE  ThreadMove(p)
<1>1. Cntl' = Cntl /\ Hub' = Hub
  BY Fixed
<1>2. EnumTypes'
  BY <1>1 DEF EnumTypes, PtTo, HubTo, CnTo, PortTypes, HubTypes, CntlTypes, DevTypes
<1>3. Forward(p) /\ LockMove(p)
  BY DEF Forward, LockMove, PtTo, HubTo, CnTo
<1> HIDE DEF Mine
<1>4. Holds(p)'
  BY <1>1 DEF Holds, PtTo, HubTo, CnTo, Requests
<1>5. Numbered(p)'
  BY <1>1 DEF Numbered, Listening, PtTo, HubTo, CnTo
<1> QED BY <1>2, <1>3, <1>4, <1>5 DEF ThreadMove

(* ehci_note_port() leaves locks and addresses alone. *)
LEMMA Notes ==
  ASSUME WellWired(bus), EnumTypes, NEW p \in Port, ~OnHub(p), NEW gave \in Int, NEW given,
         given = ehci_note_port(CntlOf(p), gave)
  PROVE  /\ given \in CntlTypes /\ Noted(p, given)
         /\ \A k \in Cntl : given[k].lock = cn[k].lock /\ given[k].max = cn[k].max /\ given[k].def = cn[k].def
<1> DEFINE c == CntlOf(p)
<1>1. c \in Cntl
  BY Wiring
<1>2. cn \in CntlTypes
  BY DEF EnumTypes
<1> DEFINE left == cn[c].checks - 1
           legacy == cn[c].legacy + gave
           new(k) == IF k = c THEN [cn[k] EXCEPT !.checks = left, !.legacy = legacy]
                     ELSE IF left = 0 /\ legacy > 0 /\ k \in cn[c].comps
                     THEN [cn[k] EXCEPT !.st = "start", !.inits = @ + 1] ELSE cn[k]
           Rec == [st : {"off", "start", "ports", "up", "down"}, inits : Nat, comps : SUBSET Cntl,
                   lock : Port \cup {"none"}, max : Nat, def : BOOLEAN,
                   tt : [addr : Nat, port : Nat], checks : Int, legacy : Int]
<1>3. given = [k \in Cntl |-> new(k)]
  BY DEF ehci_note_port, Companions, Started
<1>4. ASSUME NEW k \in Cntl
      PROVE  /\ new(k) \in Rec
             /\ new(k).lock = cn[k].lock /\ new(k).max = cn[k].max /\ new(k).def = cn[k].def
             /\ new(k).comps = cn[k].comps
             /\ k = c => new(k).st = cn[k].st /\ new(k).checks = left
             /\ k # c => /\ new(k).checks = cn[k].checks
                        /\ \/ new(k).st = cn[k].st
                           \/ left = 0 /\ k \in cn[c].comps /\ new(k).st = "start"
  <2>1. left \in Int /\ legacy \in Int /\ cn[k] \in Rec
    BY <1>1, <1>2 DEF CntlTypes
  <2>2. CASE k = c
    <3>1. new(k) = [cn[k] EXCEPT !.checks = left, !.legacy = legacy]
      BY <2>2
    <3> HIDE DEF left, legacy, new
    <3> QED BY <2>1, <2>2, <3>1
  <2>3. CASE k # c /\ left = 0 /\ legacy > 0 /\ k \in cn[c].comps
    <3>1. new(k) = [cn[k] EXCEPT !.st = "start", !.inits = cn[k].inits + 1]
      BY <2>3
    <3>2. cn[k].inits \in Nat /\ cn[k].inits + 1 \in Nat
      BY <2>1
    <3> DEFINE n == cn[k].inits + 1
    <3> HIDE DEF left, legacy, new, n
    <3> QED BY <2>1, <2>3, <3>1, <3>2
  <2>4. CASE k # c /\ ~(left = 0 /\ legacy > 0 /\ k \in cn[c].comps)
    <3>1. new(k) = cn[k]
      BY <2>4
    <3> HIDE DEF left, legacy, new
    <3> QED BY <2>1, <2>4, <3>1
  <2> QED BY <2>2, <2>3, <2>4
<1> HIDE DEF new
<1>5. given \in CntlTypes
  BY <1>3, <1>4 DEF CntlTypes
<1>6. (left = 0 => cn[c].checks = 1) /\ left = cn[c].checks - 1
  BY <1>1, <1>2 DEF CntlTypes
<1> HIDE DEF left
<1>7. Noted(p, given)
  BY <1>1, <1>3, <1>4, <1>6 DEF Noted
<1> QED BY <1>3, <1>4, <1>5, <1>7

(* Nothing of the controllers changes that ehci_note_port() looks at. *)
LEMMA Unnoted == ASSUME NEW p \in Port, cn' = cn PROVE NoteMove(p)
BY DEF NoteMove, Noted

(* What a step does to the device: nothing, or the port goes to the       *)
(* companion, or it is disabled, or reset and back at address 0.           *)
LEMMA Devices ==
  ASSUME WellWired(bus), EnumTypes, bus' = bus, NEW p \in Port,
         Mine(p) /\ dev[DevOf(p)].en => pt[p].pc \in Reached
  PROVE  /\ dev' = dev => DeviceMove(p) /\ dev' \in DevTypes /\ (Mine(p)' <=> Mine(p))
         /\ Mine(p) /\ dev' = Off(DevOf(p)) =>
              DeviceMove(p) /\ dev' \in DevTypes /\ Mine(p)' /\ ~dev'[DevOf(p)].en
         /\ Mine(p) /\ dev' = GivenAway(CntlOf(p), DevOf(p)) /\ pt[p].pc \in {"powered", "reset"} =>
              DeviceMove(p) /\ dev' \in DevTypes /\ ~dev'[DevOf(p)].en
         /\ /\ Mine(p) /\ dev' = Reset0(DevOf(p)) /\ pt'[p].pc \in Reached
            /\ cn[CntlOf(p)].lock \in {p, "none"}
            => DeviceMove(p) /\ dev' \in DevTypes /\ Mine(p)'
<1> DEFINE d == DevOf(p)
<1>1. /\ Cntl' = Cntl /\ CntlOf(p) \in Cntl /\ "none" \notin Device
      /\ Mine(p) => d \in Device
      /\ \A q \in Port : CntlOf(q) \in Cntl
  BY Fixed, Wiring DEF Mine
<1>2. dev \in [Device -> [owner : Cntl \cup {"none"}, en : BOOLEAN, addr : Nat, cfg : BOOLEAN,
                         tt : [addr : Nat, port : Nat], stuck : BOOLEAN]]
  BY DEF EnumTypes, DevTypes
<1>3. dev' = dev => DeviceMove(p) /\ dev' \in DevTypes /\ (Mine(p)' <=> Mine(p))
  BY <1>1 DEF DeviceMove, EnumTypes, Mine
<1>4. ASSUME Mine(p), dev' = Off(d)
      PROVE  DeviceMove(p) /\ dev' \in DevTypes /\ Mine(p)' /\ ~dev'[d].en
  <2>1. /\ dev' \in DevTypes /\ ~dev'[d].en /\ dev'[d].owner = dev[d].owner
        /\ \A e \in Device \ {d} : dev'[e] = dev[e]
    <3> DEFINE R == [owner : Cntl \cup {"none"}, en : BOOLEAN, addr : Nat, cfg : BOOLEAN,
                     tt : [addr : Nat, port : Nat], stuck : BOOLEAN]
               g == dev[d]
               r == [g EXCEPT !.en = FALSE]
    <3>1. dev \in [Device -> R] /\ g \in R
      BY <1>1, <1>2, <1>4
    <3>2. r \in R /\ ~r.en /\ r.owner = g.owner
      <4> HIDE DEF g
      <4> QED BY <3>1, <1>4
    <3>3. dev' = [dev EXCEPT ![d] = r]
      BY <1>4 DEF Off
    <3>4. dev' \in [Device -> R] /\ dev'[d] = r /\ \A e \in Device \ {d} : dev'[e] = dev[e]
      <4> HIDE DEF R, r
      <4> QED BY <1>1, <1>4, <3>1, <3>2, <3>3
    <3> QED BY <3>2, <3>4, <1>1 DEF DevTypes
  <2> QED BY <1>1, <1>4, <2>1 DEF DeviceMove, Mine
<1>5. ASSUME Mine(p), dev' = GivenAway(CntlOf(p), d), pt[p].pc \in {"powered", "reset"}
      PROVE  DeviceMove(p) /\ dev' \in DevTypes /\ ~dev'[d].en
  <2>1. PICK o \in Cntl \cup {"none"} : dev' = [dev EXCEPT ![d].owner = o]
    <3> DEFINE S == OwnersOf(d) \ {CntlOf(p)}
    <3>1. S \subseteq Cntl
      BY <1>1 DEF OwnersOf
    <3>2. S = {} \/ (CHOOSE k \in S : TRUE) \in S
      OBVIOUS
    <3>3. dev' = [dev EXCEPT ![d].owner = IF S = {} THEN "none" ELSE CHOOSE k \in S : TRUE]
      BY <1>5 DEF GivenAway
    <3> HIDE DEF S
    <3> QED BY <3>1, <3>2, <3>3
  <2>2. /\ dev' \in DevTypes /\ dev'[d].en = dev[d].en /\ dev'[d].addr = dev[d].addr
        /\ dev'[d].stuck = dev[d].stuck
        /\ \A e \in Device \ {d} : dev'[e] = dev[e]
    BY <1>1, <1>2, <1>5, <2>1 DEF DevTypes
  <2> QED BY <1>1, <1>2, <1>5, <2>2 DEF DeviceMove, Reached, Beyond
<1>6. ASSUME Mine(p), dev' = Reset0(d), pt'[p].pc \in Reached, cn[CntlOf(p)].lock \in {p, "none"}
      PROVE  DeviceMove(p) /\ dev' \in DevTypes /\ Mine(p)'
  <2>1. /\ dev' \in DevTypes /\ dev'[d].owner = dev[d].owner /\ dev'[d].addr = 0
        /\ \A e \in Device \ {d} : dev'[e] = dev[e]
    <3> DEFINE R == [owner : Cntl \cup {"none"}, en : BOOLEAN, addr : Nat, cfg : BOOLEAN,
                     tt : [addr : Nat, port : Nat], stuck : BOOLEAN]
               g == dev[d]
               r == [g EXCEPT !.en = TRUE, !.addr = 0]
    <3>1. dev \in [Device -> R] /\ g \in R
      BY <1>1, <1>2, <1>6
    <3>2. r \in R /\ r.addr = 0 /\ r.owner = g.owner
      <4> HIDE DEF g
      <4> QED BY <3>1, <1>6
    <3>3. dev' = [dev EXCEPT ![d] = r]
      BY <1>6 DEF Reset0
    <3>4. dev' \in [Device -> R] /\ dev'[d] = r /\ \A e \in Device \ {d} : dev'[e] = dev[e]
      <4> HIDE DEF R, r
      <4> QED BY <1>1, <1>6, <3>1, <3>2, <3>3
    <3> QED BY <3>2, <3>4, <1>1 DEF DevTypes
  <2> QED BY <1>1, <1>6, <2>1 DEF DeviceMove, Mine
<1> QED BY <1>3, <1>4, <1>5, <1>6

(* uhci_hub_detect(), ohci_hub_detect() and the first part of the others. *)
LEMMA DetectMoves ==
  ASSUME WellWired(bus), EnumTypes, Apart, NEW p \in Port, detect(p)
  PROVE  ThreadMove(p) /\ NoteMove(p)
<1>1. /\ bus' = bus /\ setup' = setup /\ cn' = cn /\ dev' = dev
      /\ pt[p].pc = "detect" /\ ~pt[p].sent
  BY Finds DEF detect, Holds, Requests, EnumTypes, PortTypes
<1>2. PICK pc \in {"power", "powered", "lock", "done"} :
        /\ (Goto(p, pc) /\ hub' = hub) \/ (pc = "done" /\ Finish(p, 0))
        /\ pc = "power" => OnHub(p)
        /\ pc = "powered" => ~OnHub(p)
        /\ pc = "lock" => Mine(p)
  BY DEF detect, Connected, Mine
<1>3. PtTo(p, pc, pt[p].sent) /\ HubTo(p, hub[HubOf(p)].lock) /\ CnTo(p, cn[CntlOf(p)].lock, cn[CntlOf(p)].max)
  <2>1. pc \in Stages
    BY DEF Stages, Early, Reached, Beyond
  <2> QED BY <1>1, <1>2, <2>1, Goes
<1>4. DeviceMove(p) /\ dev' \in DevTypes /\ NoteMove(p)
  BY <1>1, Unnoted DEF DeviceMove, EnumTypes
<1>5. Mine(p)' <=> Mine(p)
  BY <1>1, Fixed DEF Mine
<1>6. Mine(p) => ~dev[DevOf(p)].en
  BY <1>1, Finds DEF Reached, Beyond
<1> HIDE DEF Mine
<1> QED BY <1>1, <1>2, <1>3, <1>4, <1>5, <1>6, Moves DEF Reached, Beyond, Held, Requests, Early

(* The rest of ehci_hub_detect(). *)
LEMMA EhciDetectMoves ==
  ASSUME WellWired(bus), EnumTypes, Apart, NEW p \in Port, ehci_hub_detect(p)
  PROVE  ThreadMove(p) /\ NoteMove(p)
<1>1. /\ bus' = bus /\ setup' = setup
      /\ pt[p].pc = "powered" /\ ~pt[p].sent /\ ~OnHub(p)
  BY Finds DEF ehci_hub_detect, Holds, Requests, EnumTypes, PortTypes
<1>2. Mine(p) => ~dev[DevOf(p)].en
  BY <1>1, Finds DEF Reached, Beyond
<1>3. PICK pc \in {"lock", "done"}, gave \in Int :
        /\ (Goto(p, pc) /\ hub' = hub) \/ (pc = "done" /\ Finish(p, 0))
        /\ pc = "lock" => Mine(p) /\ dev' = dev
        /\ cn' = cn \/ cn' = ehci_note_port(CntlOf(p), gave)
        /\ dev' = dev \/ (Mine(p) /\ dev' = GivenAway(CntlOf(p), DevOf(p)))
  BY DEF ehci_hub_detect, Connected, Mine
<1>4. PtTo(p, pc, pt[p].sent) /\ HubTo(p, hub[HubOf(p)].lock)
  <2>1. pc \in Stages
    BY DEF Stages, Reached, Beyond
  <2> QED BY <1>1, <1>3, <2>1, Goes
<1>5. CnTo(p, cn[CntlOf(p)].lock, cn[CntlOf(p)].max) /\ NoteMove(p)
  <2>1. CntlTypes' = CntlTypes
    BY <1>1, Fixed DEF CntlTypes
  <2>2. CASE cn' = cn
    BY <1>1, <2>1, <2>2, Unnoted DEF CnTo, EnumTypes
  <2>3. CASE cn' = ehci_note_port(CntlOf(p), gave)
    <3>1. /\ cn' \in CntlTypes /\ Noted(p, cn')
          /\ \A k \in Cntl : cn'[k].lock = cn[k].lock /\ cn'[k].max = cn[k].max
      BY <1>1, <2>3, Notes
    <3> QED BY <2>1, <3>1, Finds DEF CnTo, NoteMove
  <2> QED BY <1>3, <2>2, <2>3
<1>6. /\ DeviceMove(p) /\ dev' \in DevTypes
      /\ pc = "lock" => Mine(p)'
      /\ Mine(p)' => ~dev'[DevOf(p)].en
  BY <1>1, <1>2, <1>3, Devices
<1> HIDE DEF Mine
<1> QED BY <1>1, <1>3, <1>4, <1>5, <1>6, Moves DEF Reached, Beyond, Held, Requests, Early

(* The controllers as a step leaves them in the hands of the port at p.    *)
InHand(p, given) ==
  LET c == CntlOf(p)  IN
  /\ given \in CntlTypes /\ Noted(p, given)
  /\ \A k \in Cntl \ {c} : given[k].lock = cn[k].lock /\ given[k].max = cn[k].max
  /\ given[c].lock = p /\ cn[c].lock \in {p, "none"}
  /\ given[c].max = cn[c].max \/ (given[c].max = cn[c].max + 1 /\ cn[c].lock = p)

(* What is done with a controller then. *)
LEMMA Hands ==
  ASSUME WellWired(bus), EnumTypes, bus' = bus, NEW p \in Port, NEW given, InHand(p, given)
  PROVE  LET c == CntlOf(p)  IN
         /\ cn' = given => CnTo(p, p, given[c].max) /\ NoteMove(p)
         /\ cn' = [given EXCEPT ![c].lock = "none"] => CnTo(p, "none", given[c].max) /\ NoteMove(p)
         /\ \A t \in [addr : Nat, port : Nat] :
              cn' = [given EXCEPT ![c].def = TRUE, ![c].tt = t] =>
                CnTo(p, p, given[c].max) /\ NoteMove(p)
<1> DEFINE c == CntlOf(p)
<1>1. c \in Cntl /\ CntlTypes' = CntlTypes /\ "none" \in Port \cup {"none"}
  BY Wiring, Fixed DEF CntlTypes
<1>2. given \in [Cntl -> [st : {"off", "start", "ports", "up", "down"}, inits : Nat, comps : SUBSET Cntl,
                       lock : Port \cup {"none"}, max : Nat, def : BOOLEAN,
                       tt : [addr : Nat, port : Nat], checks : Int, legacy : Int]]
  BY DEF InHand, CntlTypes
<1>3. ASSUME cn' = given PROVE CnTo(p, p, given[c].max) /\ NoteMove(p)
  BY <1>1, <1>3 DEF InHand, CnTo, NoteMove
<1>4. ASSUME NEW l, NEW m, cn' \in CntlTypes, cn'[c].lock = l, cn'[c].max = m,
             \A k \in Cntl : cn'[k].st = given[k].st /\ cn'[k].comps = given[k].comps
                             /\ cn'[k].checks = given[k].checks,
             \A k \in Cntl \ {c} : cn'[k] = given[k]
      PROVE  CnTo(p, l, m) /\ NoteMove(p)
  <2>1. CnTo(p, l, m)
    BY <1>1, <1>4 DEF InHand, CnTo
  <2>2. NoteMove(p)
    <3>1. Noted(p, given) /\ given[c].st = cn'[c].st /\ given[c].checks = cn'[c].checks
      BY <1>1, <1>4 DEF InHand
    <3>2. \A k \in Cntl : cn'[k].st = given[k].st /\ cn'[k].comps = given[k].comps
                          /\ cn'[k].checks = given[k].checks
      BY <1>4
    <3> HIDE DEF c
    <3>3. Noted(p, cn')
      <4>1. CASE \A k \in Cntl : given[k].st = cn[k].st /\ given[k].comps = cn[k].comps
                                /\ given[k].checks = cn[k].checks
        <5>1. \A k \in Cntl : cn'[k].st = cn[k].st /\ cn'[k].comps = cn[k].comps /\ cn'[k].checks = cn[k].checks
          BY <3>2, <4>1
        <5> QED BY <5>1 DEF Noted
      <4>2. CASE /\ ~OnHub(p)
                 /\ \A k \in Cntl : given[k].comps = cn[k].comps
                 /\ given[c].st = cn[c].st /\ given[c].checks = cn[c].checks - 1
                 /\ \A k \in Cntl \ {c} :
                      /\ given[k].checks = cn[k].checks
                      /\ given[k].st = cn[k].st \/ (cn[c].checks = 1 /\ k \in cn[c].comps /\ given[k].st = "start")
        <5>1. /\ \A k \in Cntl : cn'[k].comps = cn[k].comps
              /\ cn'[c].st = cn[c].st /\ cn'[c].checks = cn[c].checks - 1
          BY <1>1, <3>2, <4>2
        <5>2. \A k \in Cntl \ {c} :
                 /\ cn'[k].checks = cn[k].checks
                 /\ cn'[k].st = cn[k].st \/ (cn[c].checks = 1 /\ k \in cn[c].comps /\ cn'[k].st = "start")
          BY <3>2, <4>2
        <5> QED BY <4>2, <5>1, <5>2 DEF Noted, c
      <4> QED BY <3>1, <4>1, <4>2 DEF Noted, c
    <3> QED BY <3>3 DEF NoteMove
  <2> QED BY <2>1, <2>2
<1>5. ASSUME cn' = [given EXCEPT ![c].lock = "none"]
      PROVE  CnTo(p, "none", given[c].max) /\ NoteMove(p)
  <2>1. /\ cn' \in CntlTypes
        /\ cn'[c].lock = "none" /\ cn'[c].max = given[c].max
        /\ \A k \in Cntl : cn'[k].st = given[k].st /\ cn'[k].comps = given[k].comps
                           /\ cn'[k].checks = given[k].checks
        /\ \A k \in Cntl \ {c} : cn'[k] = given[k]
    BY SMTT(30), <1>1, <1>2, <1>5 DEF CntlTypes
  <2> QED BY <1>4, <2>1
<1>6. ASSUME NEW t \in [addr : Nat, port : Nat],
             cn' = [given EXCEPT ![c].def = TRUE, ![c].tt = t]
      PROVE  CnTo(p, p, given[c].max) /\ NoteMove(p)
  <2>1. /\ cn' \in CntlTypes
        /\ cn'[c].lock = given[c].lock /\ cn'[c].max = given[c].max
        /\ \A k \in Cntl : cn'[k].st = given[k].st /\ cn'[k].comps = given[k].comps
                           /\ cn'[k].checks = given[k].checks
        /\ \A k \in Cntl \ {c} : cn'[k] = given[k]
    <3>1. cn' = [given EXCEPT ![c].def = TRUE, ![c].tt = t]
      BY <1>6
    <3> DEFINE new == [given[c] EXCEPT !.def = TRUE, !.tt = t]
               T == [addr : Nat, port : Nat]
               Rec == [st : {"off", "start", "ports", "up", "down"}, inits : Nat, comps : SUBSET Cntl,
                       lock : Port \cup {"none"}, max : Nat, def : BOOLEAN,
                       tt : T, checks : Int, legacy : Int]
    <3>2. ASSUME NEW g \in Rec
          PROVE  LET n == [g EXCEPT !.def = TRUE, !.tt = t]  IN
                 /\ n \in Rec
                 /\ n.lock = g.lock /\ n.max = g.max /\ n.st = g.st /\ n.comps = g.comps /\ n.checks = g.checks
      <4>1. t \in T
        OBVIOUS
      <4> HIDE DEF T
      <4> QED BY <4>1
    <3>4. new \in Rec /\ new.lock = given[c].lock /\ new.max = given[c].max /\ new.st = given[c].st
          /\ new.comps = given[c].comps /\ new.checks = given[c].checks
      <4>1. given[c] \in Rec
        BY <1>1, <1>2
      <4> HIDE DEF Rec
      <4> QED BY <3>2, <4>1
    <3>3. cn' = [given EXCEPT ![c] = new]
      BY <1>1, <1>2, <3>1
    <3> HIDE DEF new
    <3> QED BY <1>1, <1>2, <3>3, <3>4 DEF CntlTypes
  <2>2. given[c].lock = p
    BY DEF InHand
  <2> QED BY <1>4, <2>1, <2>2
<1> QED BY <1>3, <1>5, <1>6

(* The port gives up its device: a root hub's port gives back the lock, and *)
(* a hub's port asks its hub to disable it.                                 *)
LEMMA RefuseMoves ==
  ASSUME WellWired(bus), EnumTypes, Apart, NEW p \in Port, NEW given, InHand(p, given),
         bus' = bus, setup' = setup, Refuse(p, given), dev' \in DevTypes, DeviceMove(p),
         pt[p].pc \in {"lock", "reset", "address", "addressed"},
         OnHub(p) => Mine(p)',
         ~OnHub(p) => (Mine(p)' => ~dev'[DevOf(p)].en)
  PROVE  ThreadMove(p) /\ NoteMove(p)
<1> DEFINE c == CntlOf(p)
<1>1. /\ ~pt[p].sent /\ "disable" \in Stages
      /\ given[c].lock = p /\ cn[c].lock \in {p, "none"}
      /\ given[c].max = cn[c].max \/ (given[c].max = cn[c].max + 1 /\ cn[c].lock = p)
  BY Finds DEF Holds, Requests, InHand, Stages, Reached, Beyond
<1>2. CASE OnHub(p)
  <2>1. Goto(p, "disable") /\ cn' = given /\ hub' = hub
    BY <1>2 DEF Refuse
  <2>2. /\ PtTo(p, "disable", pt[p].sent) /\ HubTo(p, hub[HubOf(p)].lock)
        /\ CnTo(p, p, given[c].max) /\ NoteMove(p)
    BY <1>1, <2>1, Goes, Hands
  <2>3. /\ pt[p].pc # "off" /\ pt[p].pc \notin Beyond /\ "disable" \in Requests /\ "disable" \in Reached
        /\ "disable" \notin Held \cup {"powered", "reset", "addressed"}
    BY DEF Reached, Beyond, Held, Requests
  <2> HIDE DEF Mine
  <2> QED BY <1>1, <1>2, <2>2, <2>3, Moves
<1>3. CASE ~OnHub(p)
  <2>1. Finish(p, 0) /\ cn' = [given EXCEPT ![c].lock = "none"]
    BY <1>3 DEF Refuse
  <2>2. /\ PtTo(p, "done", pt[p].sent) /\ HubTo(p, hub[HubOf(p)].lock)
        /\ CnTo(p, "none", given[c].max) /\ NoteMove(p)
    BY <1>1, <2>1, Goes, Hands
  <2>3. /\ pt[p].pc # "off" /\ pt[p].pc \notin Beyond /\ "done" \in Reached /\ "done" \in Early \cup {"done"}
        /\ "done" \notin Held \cup Requests \cup {"powered", "reset", "addressed"}
    BY DEF Reached, Beyond, Held, Requests
  <2> HIDE DEF Mine
  <2> QED BY <1>1, <1>3, <2>2, <2>3, Moves
<1> QED BY <1>2, <1>3

(* usb_set_address() up to its transfer, after a root hub's reset. *)
LEMMA SetAddressMoves ==
  ASSUME WellWired(bus), EnumTypes, Apart, NEW p \in Port, NEW given, InHand(p, given),
         given[CntlOf(p)].max = cn[CntlOf(p)].max, ~OnHub(p), Mine(p),
         bus' = bus, setup' = setup, SetAddress(p, given), pt[p].pc \in {"lock", "reset"}
  PROVE  ThreadMove(p) /\ NoteMove(p)
<1> DEFINE c == CntlOf(p)
           d == DevOf(p)
<1>1. ~pt[p].sent /\ (Mine(p) /\ dev[d].en => pt[p].pc \in Reached) /\ "address" \in Stages
  BY Finds DEF Holds, Requests, Stages, Reached
<1>2. CASE Refuse(p, given) /\ dev' = Off(d)
  <2>1. dev' \in DevTypes /\ DeviceMove(p) /\ ~dev'[d].en
    BY <1>1, <1>2, Devices
  <2> QED BY <1>2, <2>1, RefuseMoves
<1>3. CASE /\ Goto(p, "address") /\ hub' = hub /\ dev' = Reset0(d)
           /\ cn' = [given EXCEPT ![c].def = TRUE, ![c].tt = tt(p)]
  <2>1. tt(p) \in [addr : Nat, port : Nat]
    BY DEF tt, NoTt
  <2>2. CnTo(p, p, cn[c].max) /\ NoteMove(p)
    BY <1>3, <2>1, Hands
  <2>3. PtTo(p, "address", pt[p].sent) /\ HubTo(p, hub[HubOf(p)].lock)
    BY <1>1, <1>3, Goes
  <2>4. cn[c].lock \in {p, "none"} /\ pt'[p].pc \in Reached
    BY <2>3 DEF InHand, PtTo, Reached
  <2>5. DeviceMove(p) /\ dev' \in DevTypes /\ Mine(p)'
    BY <1>1, <1>3, <2>4, Devices
  <2> HIDE DEF Mine
  <2> QED BY <1>1, <2>2, <2>3, <2>4, <2>5, Moves DEF Reached, Beyond, Held, Requests, Early
<1> QED BY <1>2, <1>3 DEF SetAddress, Reset0

(* How the controllers come into its hands. *)
LEMMA HandsOn ==
  ASSUME WellWired(bus), EnumTypes, NEW p \in Port
  PROVE  LET c == CntlOf(p)  IN
         /\ cn[c].lock = "none" => InHand(p, Locked(p)) /\ Locked(p)[c].max = cn[c].max
         /\ cn[c].lock = p =>
              /\ InHand(p, cn)
              /\ InHand(p, Counted(c)) /\ Counted(c)[c].max = cn[c].max + 1
              /\ ~OnHub(p) => /\ InHand(p, ehci_note_port(c, 0))
                              /\ InHand(p, ehci_note_port(c, 1))
                              /\ ehci_note_port(c, 0)[c].max = cn[c].max
<1> DEFINE c == CntlOf(p)
<1>1. c \in Cntl /\ p \in Port \cup {"none"}
  BY Wiring
<1>2. cn \in CntlTypes
  BY DEF EnumTypes
<1>3. ASSUME cn[c].lock = "none" PROVE InHand(p, Locked(p)) /\ Locked(p)[c].max = cn[c].max
  <2>1. /\ Locked(p) \in CntlTypes /\ Locked(p)[c].lock = p /\ Locked(p)[c].max = cn[c].max
        /\ \A k \in Cntl : Locked(p)[k].st = cn[k].st /\ Locked(p)[k].comps = cn[k].comps
                           /\ Locked(p)[k].checks = cn[k].checks
        /\ \A k \in Cntl \ {c} : Locked(p)[k] = cn[k]
    BY SMTT(30), <1>1, <1>2 DEF Locked, CntlTypes
  <2> QED BY <1>3, <2>1 DEF InHand, Noted
<1>4. ASSUME cn[c].lock = p PROVE InHand(p, cn)
  BY <1>2, <1>4 DEF InHand, Noted
<1>5. ASSUME cn[c].lock = p PROVE InHand(p, Counted(c)) /\ Counted(c)[c].max = cn[c].max + 1
  <2>1. /\ Counted(c) \in CntlTypes /\ Counted(c)[c].lock = cn[c].lock /\ Counted(c)[c].max = cn[c].max + 1
        /\ \A k \in Cntl : Counted(c)[k].st = cn[k].st /\ Counted(c)[k].comps = cn[k].comps
                           /\ Counted(c)[k].checks = cn[k].checks
        /\ \A k \in Cntl \ {c} : Counted(c)[k] = cn[k]
    <3>1. cn[c].max \in Nat /\ cn[c].max + 1 \in Nat
      BY <1>1, <1>2 DEF CntlTypes
    <3>2. Counted(c) = [cn EXCEPT ![c].max = cn[c].max + 1]
      BY DEF Counted
    <3> DEFINE R == [st : {"off", "start", "ports", "up", "down"}, inits : Nat, comps : SUBSET Cntl,
                     lock : Port \cup {"none"}, max : Nat, def : BOOLEAN,
                     tt : [addr : Nat, port : Nat], checks : Int, legacy : Int]
               g == cn[c]
               n == g.max + 1
               r == [g EXCEPT !.max = n]
    <3>3. cn \in [Cntl -> R] /\ g \in R
      BY <1>1, <1>2 DEF CntlTypes
    <3>4. r \in R /\ r.lock = g.lock /\ r.max = n /\ r.st = g.st /\ r.comps = g.comps
          /\ r.checks = g.checks
      <4>1. n \in Nat
        BY <3>1
      <4> HIDE DEF g, n
      <4> QED BY <3>3, <4>1
    <3>5. Counted(c) = [cn EXCEPT ![c] = r]
      BY <3>2
    <3>6. Counted(c) \in [Cntl -> R] /\ Counted(c)[c] = r /\ \A k \in Cntl \ {c} : Counted(c)[k] = cn[k]
      <4> HIDE DEF R, r
      <4> QED BY <1>1, <3>3, <3>4, <3>5
    <3>7. \A k \in Cntl : k = c \/ k \in Cntl \ {c}
      OBVIOUS
    <3> HIDE DEF r
    <3> QED BY <3>4, <3>6, <3>7 DEF CntlTypes
  <2> QED BY <1>5, <2>1 DEF InHand, Noted
<1>6. ASSUME cn[c].lock = p, ~OnHub(p), NEW gave \in Int
      PROVE  InHand(p, ehci_note_port(c, gave)) /\ ehci_note_port(c, gave)[c].max = cn[c].max
  <2>1. /\ ehci_note_port(c, gave) \in CntlTypes /\ Noted(p, ehci_note_port(c, gave))
        /\ \A k \in Cntl : /\ ehci_note_port(c, gave)[k].lock = cn[k].lock
                           /\ ehci_note_port(c, gave)[k].max = cn[k].max
    BY <1>6, Notes
  <2> QED BY <1>1, <1>6, <2>1 DEF InHand
<1> QED BY <1>3, <1>4, <1>5, <1>6

(* mutex_lock() of the reset lock, and the start of the reset. *)
LEMMA LockMoves ==
  ASSUME WellWired(bus), EnumTypes, Apart, NEW p \in Port, lock_port(p)
  PROVE  ThreadMove(p) /\ NoteMove(p)
<1> DEFINE c == CntlOf(p)
<1>1. /\ bus' = bus /\ setup' = setup /\ pt[p].pc = "lock" /\ cn[c].lock = "none"
      /\ ~pt[p].sent /\ Mine(p) /\ (Mine(p) => ~dev[DevOf(p)].en)
  BY Finds DEF lock_port, Open, Holds, Requests, Reached, Beyond, Early
<1>2. InHand(p, Locked(p)) /\ Locked(p)[c].max = cn[c].max
  BY <1>1, HandsOn
<1>3. CASE ~OnHub(p) /\ SetAddress(p, Locked(p))
  BY <1>1, <1>2, <1>3, SetAddressMoves
<1>4. ASSUME NEW pc \in {"rst", "reset"}, pc = "rst" <=> OnHub(p),
             Goto(p, pc), cn' = Locked(p), hub' = hub, dev' = dev
      PROVE  ThreadMove(p) /\ NoteMove(p)
  <2>1. pc \in Stages
    BY DEF Stages, Held
  <2>2. /\ PtTo(p, pc, pt[p].sent) /\ HubTo(p, hub[HubOf(p)].lock)
        /\ CnTo(p, p, cn[c].max) /\ NoteMove(p)
    BY <1>1, <1>2, <1>4, <2>1, Goes, Hands
  <2>3. DeviceMove(p) /\ dev' \in DevTypes /\ Mine(p)'
    BY <1>1, <1>4, Devices
  <2> HIDE DEF Mine
  <2> QED BY <1>1, <1>4, <2>2, <2>3, Moves DEF Reached, Beyond, Held, Requests, Early
<1> QED BY <1>3, <1>4 DEF lock_port

(* The rest of ohci_hub_reset() and of ehci_hub_reset(). *)
LEMMA ResetMoves ==
  ASSUME WellWired(bus), EnumTypes, Apart, NEW p \in Port, reset(p)
  PROVE  ThreadMove(p) /\ NoteMove(p)
<1> DEFINE c == CntlOf(p)
<1>1. /\ bus' = bus /\ setup' = setup /\ pt[p].pc = "reset" /\ cn[c].lock = p /\ ~OnHub(p)
      /\ Mine(p) /\ (Mine(p) /\ dev[DevOf(p)].en => pt[p].pc \in Reached)
  BY Finds DEF reset, Holds, Held, Early
<1>2. /\ InHand(p, cn) /\ InHand(p, ehci_note_port(c, 0)) /\ InHand(p, ehci_note_port(c, 1))
      /\ ehci_note_port(c, 0)[c].max = cn[c].max
  BY <1>1, HandsOn
<1>3. CASE SetAddress(p, cn)
  BY <1>1, <1>2, <1>3, SetAddressMoves
<1>4. CASE SetAddress(p, ehci_note_port(c, 0))
  BY <1>1, <1>2, <1>4, SetAddressMoves
<1>5. CASE Refuse(p, cn) /\ dev' = Off(DevOf(p))
  <2>1. dev' \in DevTypes /\ DeviceMove(p) /\ ~dev'[DevOf(p)].en
    BY <1>1, <1>5, Devices
  <2> QED BY <1>1, <1>2, <1>5, <2>1, RefuseMoves
<1>6. CASE Refuse(p, ehci_note_port(c, 1)) /\ dev' = GivenAway(c, DevOf(p))
  <2>1. dev' \in DevTypes /\ DeviceMove(p) /\ ~dev'[DevOf(p)].en
    BY <1>1, <1>6, Devices
  <2> QED BY <1>1, <1>2, <1>6, <2>1, RefuseMoves
<1> QED BY <1>3, <1>4, <1>5, <1>6 DEF reset

(* The device answers at its new address, or a step of its own changes    *)
(* neither whether it listens nor where.                                   *)
LEMMA Readdressed ==
  ASSUME WellWired(bus), EnumTypes, bus' = bus, NEW p \in Port, Mine(p)
  PROVE  /\ /\ dev' = [dev EXCEPT ![DevOf(p)].addr = cn[CntlOf(p)].max + 1]
            /\ pt'[p].pc \in Reached /\ cn[CntlOf(p)].lock = p
            => /\ DeviceMove(p) /\ dev' \in DevTypes /\ Mine(p)'
               /\ dev'[DevOf(p)].addr = cn[CntlOf(p)].max + 1
         /\ \A t \in [addr : Nat, port : Nat] :
              dev' = [dev EXCEPT ![DevOf(p)].tt = t] /\ pt'[p].pc \in Reached
              => /\ DeviceMove(p) /\ dev' \in DevTypes /\ Mine(p)'
                 /\ dev'[DevOf(p)].addr = dev[DevOf(p)].addr
         /\ dev' = [dev EXCEPT ![DevOf(p)].cfg = TRUE] /\ pt'[p].pc \in Reached
              => /\ DeviceMove(p) /\ dev' \in DevTypes /\ Mine(p)'
                 /\ dev'[DevOf(p)].addr = dev[DevOf(p)].addr
                 /\ dev'[DevOf(p)].en = dev[DevOf(p)].en /\ dev'[DevOf(p)].stuck = dev[DevOf(p)].stuck
         /\ dev' = [dev EXCEPT ![DevOf(p)].stuck = dev[DevOf(p)].en] /\ pt'[p].pc \in Reached
              => /\ DeviceMove(p) /\ dev' \in DevTypes /\ Mine(p)'
                 /\ dev'[DevOf(p)].en => dev'[DevOf(p)].stuck
<1> DEFINE d == DevOf(p)
           T == [addr : Nat, port : Nat]
<1>1. CntlOf(p) \in Cntl /\ Cntl' = Cntl /\ d \in Device /\ cn[CntlOf(p)].max \in Nat
  BY Wiring, Fixed DEF Mine, EnumTypes, CntlTypes
<1>2. dev \in [Device -> [owner : Cntl \cup {"none"}, en : BOOLEAN, addr : Nat, cfg : BOOLEAN,
                         tt : T, stuck : BOOLEAN]]
  BY DEF EnumTypes, DevTypes
<1>3. DevTypes' = [Device -> [owner : Cntl \cup {"none"}, en : BOOLEAN, addr : Nat, cfg : BOOLEAN,
                         tt : T, stuck : BOOLEAN]] /\ DevTypes' = DevTypes
  BY <1>1 DEF DevTypes
<1>4. ASSUME pt'[p].pc \in Reached,
             \A e \in Device \ {d} : dev'[e] = dev[e], dev'[d].owner = dev[d].owner,
             dev'[d].en /\ ~dev'[d].stuck =>
               \/ dev'[d].addr = dev[d].addr /\ dev[d].en /\ ~dev[d].stuck
               \/ cn[CntlOf(p)].lock = p /\ dev'[d].addr = cn[CntlOf(p)].max + 1
      PROVE  DeviceMove(p) /\ Mine(p)'
  BY <1>1, <1>4 DEF DeviceMove, Mine
<1> HIDE DEF T
<1>5. ASSUME dev' = [dev EXCEPT ![d].addr = cn[CntlOf(p)].max + 1],
             pt'[p].pc \in Reached, cn[CntlOf(p)].lock = p
      PROVE  DeviceMove(p) /\ dev' \in DevTypes /\ Mine(p)' /\ dev'[d].addr = cn[CntlOf(p)].max + 1
  <2>1. /\ dev' \in DevTypes /\ dev'[d].addr = cn[CntlOf(p)].max + 1 /\ dev'[d].owner = dev[d].owner
        /\ \A e \in Device \ {d} : dev'[e] = dev[e]
    <3> DEFINE a == cn[CntlOf(p)].max + 1
    <3>1. a \in Nat
      BY <1>1
    <3>2. dev' = [dev EXCEPT ![d].addr = a]
      BY <1>5
    <3> HIDE DEF a
    <3> DEFINE R == [owner : Cntl \cup {"none"}, en : BOOLEAN, addr : Nat, cfg : BOOLEAN,
                     tt : T, stuck : BOOLEAN]
               g == dev[d]
               r == [g EXCEPT !.addr = a]
    <3>3. dev \in [Device -> R] /\ g \in R
      BY <1>1, <1>2
    <3>4. r \in R /\ r.addr = a /\ r.owner = g.owner
      <4> HIDE DEF g
      <4> QED BY <3>1, <3>3
    <3>5. dev' = [dev EXCEPT ![d] = r]
      BY <3>2
    <3>6. dev' \in [Device -> R] /\ dev'[d] = r /\ \A e \in Device \ {d} : dev'[e] = dev[e]
      <4> HIDE DEF R, r
      <4> QED BY <1>1, <3>3, <3>4, <3>5
    <3> QED BY <1>3, <3>4, <3>6 DEF a
  <2> QED BY <1>4, <1>5, <2>1
<1>6. ASSUME NEW t \in T, dev' = [dev EXCEPT ![d].tt = t], pt'[p].pc \in Reached
      PROVE  DeviceMove(p) /\ dev' \in DevTypes /\ Mine(p)' /\ dev'[d].addr = dev[d].addr
  <2>1. /\ dev' \in DevTypes /\ dev'[d].addr = dev[d].addr /\ dev'[d].owner = dev[d].owner
        /\ dev'[d].en = dev[d].en /\ dev'[d].stuck = dev[d].stuck
        /\ \A e \in Device \ {d} : dev'[e] = dev[e]
    <3> DEFINE R == [owner : Cntl \cup {"none"}, en : BOOLEAN, addr : Nat, cfg : BOOLEAN,
                     tt : T, stuck : BOOLEAN]
               g == dev[d]
               r == [g EXCEPT !.tt = t]
    <3>1. dev \in [Device -> R] /\ g \in R
      BY <1>1, <1>2
    <3>2. r \in R /\ r.addr = g.addr /\ r.owner = g.owner /\ r.en = g.en /\ r.stuck = g.stuck
      <4> HIDE DEF g
      <4> QED BY <3>1, <1>6
    <3>3. dev' = [dev EXCEPT ![d] = r]
      BY <1>6
    <3>4. dev' \in [Device -> R] /\ dev'[d] = r /\ \A e \in Device \ {d} : dev'[e] = dev[e]
      <4> HIDE DEF R, r
      <4> QED BY <1>1, <3>1, <3>2, <3>3
    <3> QED BY <1>3, <3>2, <3>4
  <2> QED BY <1>4, <1>6, <2>1
<1>7. ASSUME dev' = [dev EXCEPT ![d].cfg = TRUE], pt'[p].pc \in Reached
      PROVE  /\ DeviceMove(p) /\ dev' \in DevTypes /\ Mine(p)' /\ dev'[d].addr = dev[d].addr
             /\ dev'[d].en = dev[d].en /\ dev'[d].stuck = dev[d].stuck
  <2>1. /\ dev' \in DevTypes /\ dev'[d].addr = dev[d].addr /\ dev'[d].owner = dev[d].owner
        /\ dev'[d].en = dev[d].en /\ dev'[d].stuck = dev[d].stuck
        /\ \A e \in Device \ {d} : dev'[e] = dev[e]
    <3> DEFINE R == [owner : Cntl \cup {"none"}, en : BOOLEAN, addr : Nat, cfg : BOOLEAN,
                     tt : T, stuck : BOOLEAN]
               g == dev[d]
               r == [g EXCEPT !.cfg = TRUE]
    <3>1. dev \in [Device -> R] /\ g \in R
      BY <1>1, <1>2
    <3>2. r \in R /\ r.addr = g.addr /\ r.owner = g.owner /\ r.en = g.en /\ r.stuck = g.stuck
      <4> HIDE DEF g
      <4> QED BY <3>1, <1>7
    <3>3. dev' = [dev EXCEPT ![d] = r]
      BY <1>7
    <3>4. dev' \in [Device -> R] /\ dev'[d] = r /\ \A e \in Device \ {d} : dev'[e] = dev[e]
      <4> HIDE DEF R, r
      <4> QED BY <1>1, <3>1, <3>2, <3>3
    <3> QED BY <1>3, <3>2, <3>4
  <2> QED BY <1>4, <1>7, <2>1
<1>8. ASSUME dev' = [dev EXCEPT ![d].stuck = dev[d].en], pt'[p].pc \in Reached
      PROVE  DeviceMove(p) /\ dev' \in DevTypes /\ Mine(p)' /\ (dev'[d].en => dev'[d].stuck)
  <2>1. /\ dev' \in DevTypes /\ dev'[d].owner = dev[d].owner
        /\ dev'[d].en = dev[d].en /\ dev'[d].stuck = dev[d].en
        /\ \A e \in Device \ {d} : dev'[e] = dev[e]
    BY ZenonT(60), <1>1, <1>2, <1>3, <1>8
  <2> QED BY <1>4, <1>8, <2>1
<1> QED BY <1>5, <1>6, <1>7, <1>8 DEF T

(* The end of usb_set_address()'s transfer. *)
LEMMA AddressMoves ==
  ASSUME WellWired(bus), EnumTypes, Apart, NEW p \in Port, set_address(p)
  PROVE  ThreadMove(p) /\ NoteMove(p)
<1> DEFINE c == CntlOf(p)
           d == DevOf(p)
           moved == [dev EXCEPT ![d].addr = cn[c].max + 1]
<1>1. /\ bus' = bus /\ setup' = setup /\ pt[p].pc = "address" /\ cn[c].lock = p /\ Mine(p)
      /\ ~pt[p].sent /\ (Mine(p) /\ dev[d].en => pt[p].pc \in Reached)
  BY Finds DEF set_address, Holds, Requests, Held, Early
<1>2. InHand(p, cn)
  BY <1>1, HandsOn
<1>3. CASE Goto(p, "addressed") /\ dev' = moved /\ cn' = cn /\ hub' = hub
  <2>1. "addressed" \in Stages /\ "addressed" \in Reached
    BY DEF Stages, Reached
  <2>2. /\ PtTo(p, "addressed", pt[p].sent) /\ HubTo(p, hub[HubOf(p)].lock)
        /\ CnTo(p, p, cn[c].max) /\ NoteMove(p)
    BY <1>1, <1>2, <1>3, <2>1, Goes, Hands
  <2>3. pt'[p].pc \in Reached
    BY <2>1, <2>2 DEF PtTo
  <2>4. DeviceMove(p) /\ dev' \in DevTypes /\ Mine(p)' /\ dev'[d].addr = cn[c].max + 1
    BY <1>1, <1>3, <2>3, Readdressed
  <2> HIDE DEF Mine
  <2> QED BY <1>1, <2>1, <2>2, <2>4, Moves DEF Beyond, Held, Requests, Early
<1>4. CASE Refuse(p, cn) /\ (IF OnHub(p) THEN dev' \in {dev, moved} ELSE dev' = Off(d))
  <2>1. pt'[p].pc \in Reached
    <3>1. Goto(p, "disable") \/ Finish(p, 0)
      BY <1>4 DEF Refuse
    <3>2. "disable" \in Stages
      BY DEF Stages, Reached, Beyond
    <3>3. PtTo(p, "disable", pt[p].sent) \/ PtTo(p, "done", pt[p].sent)
      BY <1>1, <3>1, <3>2, Goes
    <3> QED BY <3>3 DEF PtTo, Reached, Beyond
  <2>2. CASE dev' = dev /\ OnHub(p)
    <3>1. dev' \in DevTypes /\ DeviceMove(p) /\ Mine(p)'
      BY <1>1, <2>2, Devices
    <3> QED BY <1>1, <1>2, <1>4, <2>2, <3>1, RefuseMoves
  <2>3. CASE dev' = moved /\ OnHub(p)
    <3>1. dev' \in DevTypes /\ DeviceMove(p) /\ Mine(p)'
      BY <1>1, <2>1, <2>3, Readdressed
    <3> QED BY <1>1, <1>2, <1>4, <2>3, <3>1, RefuseMoves
  <2>4. CASE dev' = Off(d) /\ ~OnHub(p)
    <3>1. dev' \in DevTypes /\ DeviceMove(p) /\ ~dev'[d].en
      BY <1>1, <2>4, Devices
    <3> QED BY <1>1, <1>2, <1>4, <2>4, <3>1, RefuseMoves
  <2> QED BY <1>4, <2>2, <2>3, <2>4
<1> QED BY <1>3, <1>4 DEF set_address

(* The rest of usb_set_address(), and the unlock. *)
LEMMA AddressedMoves ==
  ASSUME WellWired(bus), EnumTypes, Apart, NEW p \in Port, usb_set_address(p)
  PROVE  ThreadMove(p) /\ NoteMove(p)
<1> DEFINE c == CntlOf(p)
           d == DevOf(p)
<1>1. /\ bus' = bus /\ setup' = setup /\ pt[p].pc = "addressed" /\ cn[c].lock = p /\ Mine(p)
      /\ ~pt[p].sent /\ (Mine(p) /\ dev[d].en => pt[p].pc \in Reached)
      /\ dev[d].addr = cn[c].max + 1 /\ c \in Cntl
  BY Finds DEF usb_set_address, Holds, Numbered, Requests, Held, Early
<1>2. InHand(p, Counted(c)) /\ Counted(c)[c].max = cn[c].max + 1
  BY <1>1, HandsOn
<1>3. cn[c].max \in Nat /\ cn[c].tt \in [addr : Nat, port : Nat]
  BY <1>1 DEF EnumTypes, CntlTypes
<1>4. CASE /\ Goto(p, "info8") /\ hub' = hub
           /\ cn' = [Counted(c) EXCEPT ![c].lock = "none"]
           /\ dev' = [dev EXCEPT ![d].tt = cn[c].tt]
  <2>1. "info8" \in Stages /\ "info8" \in Reached
    BY DEF Stages, Reached
  <2>2. /\ PtTo(p, "info8", pt[p].sent) /\ HubTo(p, hub[HubOf(p)].lock)
        /\ CnTo(p, "none", Counted(c)[c].max) /\ NoteMove(p)
    BY <1>1, <1>2, <1>4, <2>1, Goes, Hands
  <2>3. CnTo(p, "none", cn[c].max + 1)
    BY <1>2, <2>2
  <2>4. pt'[p].pc \in Reached
    BY <2>1, <2>2 DEF PtTo
  <2>5. DeviceMove(p) /\ dev' \in DevTypes /\ Mine(p)' /\ dev'[d].addr = dev[d].addr
    BY <1>1, <1>3, <1>4, <2>4, Readdressed
  <2>6. dev'[d].addr \in 1..(cn[c].max + 1)
    BY <1>1, <1>3, <2>5
  <2> HIDE DEF Mine
  <2>7. ThreadMove(p)
    BY <1>1, <2>1, <2>2, <2>3, <2>5, <2>6, Moves DEF Beyond, Held, Requests, Early
  <2> QED BY <2>2, <2>7
<1>5. CASE Refuse(p, Counted(c)) /\ dev' = IF OnHub(p) THEN dev ELSE Off(d)
  <2>1. CASE OnHub(p)
    <3>1. dev' \in DevTypes /\ DeviceMove(p) /\ Mine(p)'
      BY <1>1, <1>5, <2>1, Devices
    <3> QED BY <1>1, <1>2, <1>5, <2>1, <3>1, RefuseMoves
  <2>2. CASE ~OnHub(p)
    <3>1. dev' \in DevTypes /\ DeviceMove(p) /\ ~dev'[d].en
      BY <1>1, <1>5, <2>2, Devices
    <3> QED BY <1>1, <1>2, <1>5, <2>2, <3>1, RefuseMoves
  <2> QED BY <2>1, <2>2
<1> QED BY <1>4, <1>5 DEF usb_set_address

(* A request to a hub, under its lock. *)
LEMMA RequestMoves ==
  ASSUME WellWired(bus), EnumTypes, Apart, NEW p \in Port, hub_request(p)
  PROVE  ThreadMove(p) /\ NoteMove(p)
<1>1. /\ bus' = bus /\ setup' = setup /\ cn' = cn /\ dev' = dev
      /\ pt[p].pc \in Requests /\ hub[HubOf(p)].lock = "none" /\ HubOf(p) \in Hub
      /\ Holds(p) /\ Numbered(p)
  BY Finds DEF hub_request, HubFree
<1>2. PtTo(p, pt[p].pc, TRUE)
  <2>1. pt' = [pt EXCEPT ![p].sent = TRUE] /\ PortTypes' = PortTypes
    BY <1>1 DEF hub_request, PortTypes
  <2> QED BY <2>1 DEF PtTo, EnumTypes, PortTypes
<1>3. HubTo(p, p)
  <2>1. hub' = [hub EXCEPT ![HubOf(p)].lock = p] /\ HubTypes' = HubTypes
    BY <1>1, Fixed DEF hub_request, HubTypes
  <2> QED BY <1>1, <2>1 DEF HubTo, EnumTypes, HubTypes
<1>4. CnTo(p, cn[CntlOf(p)].lock, cn[CntlOf(p)].max) /\ NoteMove(p)
  <2>1. pt[p].pc \in Stages
    BY DEF EnumTypes, PortTypes
  <2> QED BY <1>1, <2>1, Goes, Unnoted
<1>5. DeviceMove(p) /\ dev' \in DevTypes /\ (Mine(p)' <=> Mine(p))
  BY <1>1, Finds, Devices
<1>6. pt[p].pc # "off" /\ pt[p].pc # "addressed"
  BY <1>1 DEF Requests
<1> HIDE DEF Mine
<1>7. Mine(p)' /\ dev'[DevOf(p)].en /\ ~dev'[DevOf(p)].stuck /\ cn[CntlOf(p)].lock # p
        => dev'[DevOf(p)].addr \in 1..cn[CntlOf(p)].max
  BY <1>1, <1>5 DEF Numbered, Listening
<1> QED BY <1>1, <1>2, <1>3, <1>4, <1>5, <1>6, <1>7, Moves DEF Holds

(* The thread goes on with its device as it is. *)
LEMMA PlainMoves ==
  ASSUME WellWired(bus), EnumTypes, Apart, NEW p \in Port, NEW pc \in Reached \ Held,
         bus' = bus, setup' = setup, cn' = cn, dev' = dev, hub' = hub, Goto(p, pc),
         pt[p].pc \in Reached \ (Held \cup Requests \cup {"done"}),
         pt[p].pc \in Beyond => pc \in Beyond,
         pc \in Requests => OnHub(p)
  PROVE  ThreadMove(p) /\ NoteMove(p)
<1>1. /\ ~pt[p].sent /\ Mine(p) /\ Numbered(p) /\ pt[p].pc # "off"
      /\ (Mine(p) /\ dev[DevOf(p)].en => pt[p].pc \in Reached)
  BY Finds DEF Holds, Early, Reached, Beyond, Requests
<1>2. pc \in Stages
  BY DEF Stages
<1>3. /\ PtTo(p, pc, pt[p].sent) /\ HubTo(p, hub[HubOf(p)].lock)
      /\ CnTo(p, cn[CntlOf(p)].lock, cn[CntlOf(p)].max) /\ NoteMove(p)
  BY <1>1, <1>2, Goes, Unnoted
<1>4. DeviceMove(p) /\ dev' \in DevTypes /\ Mine(p)'
  BY <1>1, Devices
<1>5. pc # "addressed" /\ pc \notin {"powered", "reset"}
  BY DEF Held, Reached, Beyond
<1>6. Mine(p)' /\ dev'[DevOf(p)].en /\ ~dev'[DevOf(p)].stuck /\ cn[CntlOf(p)].lock # p
        => dev'[DevOf(p)].addr \in 1..cn[CntlOf(p)].max
  BY <1>1, <1>4 DEF Numbered, Listening
<1> HIDE DEF Mine
<1>7. ThreadMove(p)
  BY <1>1, <1>3, <1>4, <1>5, <1>6, Moves
<1> QED BY <1>3, <1>7

(* The answers of usb_hub_detect()'s requests. *)
LEMMA HubDetectMoves ==
  ASSUME WellWired(bus), EnumTypes, Apart, NEW p \in Port, usb_hub_detect(p)
  PROVE  ThreadMove(p) /\ NoteMove(p)
<1>1. /\ bus' = bus /\ setup' = setup /\ cn' = cn /\ dev' = dev
      /\ pt[p].pc \in {"power", "status"} /\ pt[p].sent /\ hub[HubOf(p)].lock = p /\ OnHub(p)
      /\ (Mine(p) /\ dev[DevOf(p)].en => pt[p].pc \in Reached)
  BY Finds DEF usb_hub_detect, At, Holds, Requests
<1>2. Mine(p) => ~dev[DevOf(p)].en
  BY <1>1 DEF Reached, Beyond
<1>3. DeviceMove(p) /\ dev' \in DevTypes /\ (Mine(p)' <=> Mine(p))
  BY <1>1, Devices
<1>4. CnTo(p, cn[CntlOf(p)].lock, cn[CntlOf(p)].max) /\ NoteMove(p)
  <2>1. pt[p].pc \in Stages
    BY DEF EnumTypes, PortTypes
  <2> QED BY <1>1, <2>1, Goes, Unnoted
<1>5. ASSUME NEW pc \in {"status", "lock", "done"}, PtTo(p, pc, FALSE), HubTo(p, "none"), pc = "lock" => Mine(p)
      PROVE  ThreadMove(p)
  <2> HIDE DEF Mine
  <2> QED BY <1>1, <1>2, <1>3, <1>4, <1>5, Moves DEF Reached, Beyond, Held, Requests, Early
<1>6. "status" \in Stages /\ "lock" \in Stages
  BY DEF Stages, Early
<1>7. CASE Answered(p, "status")
  BY <1>1, <1>4, <1>5, <1>6, <1>7, Goes
<1>8. CASE Connected(p) /\ Answered(p, "lock")
  <2>1. Mine(p)
    BY <1>8 DEF Connected, Mine
  <2> QED BY <1>1, <1>4, <1>5, <1>6, <1>8, <2>1, Goes
<1>9. CASE AnsweredLast(p)
  BY <1>1, <1>4, <1>5, <1>6, <1>9, Goes
<1>10. CASE /\ pt[p].pc = "status"
            /\ pt' = [pt EXCEPT ![p].polls = @ - 1, ![p].sent = FALSE]
            /\ hub' = [hub EXCEPT ![HubOf(p)].lock = "none"]
  <2>1. PortTypes' = PortTypes /\ HubTypes' = HubTypes /\ HubOf(p) \in Hub
    BY <1>1, Fixed, Wiring DEF PortTypes, HubTypes
  <2>2. PtTo(p, "status", FALSE)
    <3> DEFINE n == pt[p].polls - 1
    <3>1. pt \in [Port -> [pc : Stages, sent : BOOLEAN, polls : Int]]
      BY DEF EnumTypes, PortTypes
    <3>2. n \in Int /\ pt' = [pt EXCEPT ![p].polls = n, ![p].sent = FALSE]
      BY <1>10, <3>1
    <3> HIDE DEF n
    <3>3. pt'[p].pc = "status" /\ pt'[p].sent = FALSE /\ \A q \in Port \ {p} : pt'[q] = pt[q]
      BY <1>10, <3>1, <3>2
    <3>4. pt' \in PortTypes
      BY <2>1, <3>1, <3>2 DEF PortTypes
    <3> QED BY <2>1, <3>3, <3>4 DEF PtTo
  <2>3. HubTo(p, "none")
    BY <1>10, <2>1 DEF HubTo, EnumTypes, HubTypes
  <2> QED BY <1>4, <1>5, <2>2, <2>3
<1> QED BY <1>7, <1>8, <1>9, <1>10 DEF usb_hub_detect, At

(* The answers of usb_hub_reset()'s requests. *)
LEMMA HubResetMoves ==
  ASSUME WellWired(bus), EnumTypes, Apart, NEW p \in Port, usb_hub_reset(p)
  PROVE  ThreadMove(p) /\ NoteMove(p)
<1> DEFINE c == CntlOf(p)
           d == DevOf(p)
<1>1. /\ bus' = bus /\ setup' = setup /\ cn[c].lock = p /\ Mine(p)
      /\ pt[p].pc \in {"rst", "rststatus"} /\ pt[p].sent /\ hub[HubOf(p)].lock = p /\ OnHub(p)
      /\ (Mine(p) /\ dev[d].en => pt[p].pc \in Reached)
  BY Finds DEF usb_hub_reset, At, Holds, Requests, Held, Early
<1>2. {"rststatus", "disable", "address"} \subseteq Stages \cap Reached
  BY DEF Stages, Reached, Beyond
<1>3. ASSUME NEW pc \in {"rststatus", "disable", "address"}, Answered(p, pc),
             dev' = dev \/ dev' = Reset0(d), CnTo(p, p, cn[c].max)
      PROVE  ThreadMove(p)
  <2>1. PtTo(p, pc, FALSE) /\ HubTo(p, "none") /\ pc \in Reached
    BY <1>1, <1>2, <1>3, Goes
  <2>2. pt'[p].pc \in Reached
    BY <2>1 DEF PtTo
  <2>3. DeviceMove(p) /\ dev' \in DevTypes /\ Mine(p)'
    BY <1>1, <1>3, <2>2, Devices
  <2> HIDE DEF Mine
  <2> QED BY <1>1, <1>3, <2>1, <2>3, Moves DEF Reached, Beyond, Held, Requests, Early
<1>4. InHand(p, cn)
  BY <1>1, HandsOn
<1>5. CASE cn' = cn
  <2>1. CnTo(p, p, cn[c].max) /\ NoteMove(p)
    BY <1>1, <1>4, <1>5, Hands
  <2>2. \E pc \in {"rststatus", "disable", "address"} : Answered(p, pc) /\ (dev' = dev \/ dev' = Reset0(d))
    BY <1>5 DEF usb_hub_reset
  <2> QED BY <1>3, <2>1, <2>2
<1>6. CASE /\ cn' = [cn EXCEPT ![c].def = TRUE, ![c].tt = tt(p)]
           /\ Answered(p, "address") /\ dev' = dev
  <2>1. tt(p) \in [addr : Nat, port : Nat]
    <3>1. HubOf(p) \in Device /\ bus.port[p].n \in Nat
      BY <1>1, Wiring
    <3>2. dev[HubOf(p)].addr \in Nat /\ dev[HubOf(p)].tt \in [addr : Nat, port : Nat]
      BY <3>1 DEF EnumTypes, DevTypes
    <3> QED BY <3>1, <3>2 DEF tt, NoTt
  <2>2. CnTo(p, p, cn[c].max) /\ NoteMove(p)
    BY <1>1, <1>4, <1>6, <2>1, Hands
  <2> QED BY <1>3, <1>6, <2>2
<1> QED BY <1>5, <1>6 DEF usb_hub_reset

(* usb_hub_disconnect(), and the end of the thread. *)
LEMMA DisconnectMoves ==
  ASSUME WellWired(bus), EnumTypes, Apart, NEW p \in Port, usb_hub_disconnect(p)
  PROVE  ThreadMove(p) /\ NoteMove(p)
<1> DEFINE c == CntlOf(p)
           d == DevOf(p)
<1>1. /\ bus' = bus /\ setup' = setup /\ Mine(p) /\ AnsweredLast(p)
      /\ pt[p].pc = "disable" /\ pt[p].sent /\ hub[HubOf(p)].lock = p /\ OnHub(p)
      /\ (Mine(p) /\ dev[d].en => pt[p].pc \in Reached)
  BY Finds DEF usb_hub_disconnect, At, Holds, Early
<1>2. PtTo(p, "done", FALSE) /\ HubTo(p, "none")
  <2>1. "done" \in Stages
    BY DEF Stages, Reached, Beyond
  <2> QED BY <1>1, <2>1, Goes
<1>3. pt'[p].pc \in Reached
  BY <1>2 DEF PtTo, Reached, Beyond
<1>4. DeviceMove(p) /\ dev' \in DevTypes /\ (dev'[d].en => dev'[d].stuck)
  <2>1. CASE dev' = Off(d)
    BY <1>1, <2>1, Devices
  <2>2. CASE dev' = [dev EXCEPT ![d].stuck = dev[d].en]
    BY <1>1, <1>3, <2>2, Readdressed
  <2> QED BY <2>1, <2>2 DEF usb_hub_disconnect
<1>5. /\ NoteMove(p)
      /\ CnTo(p, cn[c].lock, cn[c].max) \/ (cn[c].lock = p /\ CnTo(p, "none", cn[c].max))
  <2>1. CASE cn[c].lock = p
    <3>1. InHand(p, cn) /\ cn' = [cn EXCEPT ![c].lock = "none"]
      BY <2>1, HandsOn DEF usb_hub_disconnect, Unlocked
    <3> QED BY <1>1, <2>1, <3>1, Hands
  <2>2. CASE cn[c].lock # p
    <3>1. cn' = cn /\ pt[p].pc \in Stages
      BY <2>2 DEF usb_hub_disconnect, Unlocked, EnumTypes, PortTypes
    <3> QED BY <1>1, <3>1, Goes, Unnoted
  <2> QED BY <2>1, <2>2
<1> HIDE DEF Mine
<1>6. CASE CnTo(p, cn[c].lock, cn[c].max)
  BY <1>1, <1>2, <1>4, <1>5, <1>6, Moves DEF Reached, Beyond, Held, Requests, Early
<1>7. CASE cn[c].lock = p /\ CnTo(p, "none", cn[c].max)
  BY <1>1, <1>2, <1>4, <1>5, <1>7, Moves DEF Reached, Beyond, Held, Requests, Early
<1> QED BY <1>5, <1>6, <1>7

(* configure_usb_device() and the setup of the drivers. *)
LEMMA ConfigureMoves ==
  ASSUME WellWired(bus), EnumTypes, Apart, NEW p \in Port, configure_usb_device(p)
  PROVE  ThreadMove(p) /\ NoteMove(p)
<1>1. /\ bus' = bus /\ setup' = setup /\ cn' = cn /\ dev' = dev /\ hub' = hub
      /\ pt[p].pc \in Transfers
  BY DEF configure_usb_device
<1>2. PICK pc \in {"config8", "config", "setconfig", "hubdesc", "msc", "protocol", "idle", "used", "drop"} :
        Goto(p, pc)
  <2>1. Driver(p) \in {"hubdesc", "msc", "drop", "protocol"}
    BY DEF Driver
  <2>2. After(p) \in {"config8", "config", "setconfig", "hubdesc", "msc", "protocol", "idle", "used", "drop"}
    BY <1>1, <2>1 DEF After, Transfers
  <2> QED BY <2>2 DEF configure_usb_device
<1>3. pc \in Reached \ (Held \cup Requests)
  BY DEF Reached, Beyond, Held, Requests
<1>4. pt[p].pc \in Reached \ (Held \cup Requests \cup Beyond) /\ "done" \in Beyond
  BY <1>1 DEF Reached, Beyond, Held, Requests, Transfers
<1> QED BY <1>1, <1>2, <1>3, <1>4, PlainMoves

(* usb_hub_init() when there is no descriptor, and at its end. *)
LEMMA HubInitMoves ==
  ASSUME WellWired(bus), EnumTypes, Apart, NEW p \in Port,
         bus' = bus, setup' = setup, cn' = cn, dev' = dev, hub' = hub,
         \/ pt[p].pc = "hubdesc" /\ Goto(p, "drop")
         \/ pt[p].pc = "hubports" /\ (Goto(p, "used") \/ Goto(p, "drop"))
  PROVE  ThreadMove(p) /\ NoteMove(p)
<1>1. PICK pc \in {"drop", "used"} : Goto(p, pc)
  OBVIOUS
<1>2. pc \in Reached \ (Held \cup Requests) /\ pc \in Beyond
  BY DEF Reached, Beyond, Held, Requests
<1>3. pt[p].pc \in Reached \ (Held \cup Requests \cup {"done"})
  BY DEF Reached, Beyond, Held, Requests
<1> QED BY <1>1, <1>2, <1>3, PlainMoves

(* The end of usb_init_hub_port(). *)
LEMMA EndMoves ==
  ASSUME WellWired(bus), EnumTypes, Apart, NEW p \in Port, usb_init_hub_port(p)
  PROVE  ThreadMove(p) /\ NoteMove(p)
<1> DEFINE c == CntlOf(p)
           d == DevOf(p)
<1>1. /\ bus' = bus /\ setup' = setup /\ cn' = cn
      /\ pt[p].pc \in {"used", "drop"} /\ ~pt[p].sent /\ Mine(p) /\ Numbered(p)
      /\ (Mine(p) /\ dev[d].en => pt[p].pc \in Reached)
  BY Finds DEF usb_init_hub_port, Holds, Requests, Early
<1>2. CASE OnHub(p) /\ Goto(p, "disable") /\ hub' = hub /\ dev' = dev
  <2>1. "disable" \in Reached \ Held /\ "disable" \in Beyond
    BY DEF Reached, Beyond, Held
  <2>2. pt[p].pc \in Reached \ (Held \cup Requests \cup {"done"})
    BY <1>1 DEF Reached, Beyond, Held, Requests
  <2> QED BY <1>1, <1>2, <2>1, <2>2, PlainMoves
<1>3. CASE \/ Finish(p, 1) /\ dev' = [dev EXCEPT ![d].cfg = TRUE]
           \/ Finish(p, 0) /\ dev' = Off(d)
  <2>1. "done" \in Stages
    BY DEF Stages, Reached, Beyond
  <2>2. /\ PtTo(p, "done", pt[p].sent) /\ HubTo(p, hub[HubOf(p)].lock)
        /\ CnTo(p, cn[c].lock, cn[c].max) /\ NoteMove(p)
    BY <1>1, <1>3, <2>1, Goes, Unnoted
  <2>3. pt'[p].pc \in Reached
    BY <2>2 DEF PtTo, Reached, Beyond
  <2>4. /\ DeviceMove(p) /\ dev' \in DevTypes
        /\ \/ ~dev'[d].en
           \/ dev'[d].addr = dev[d].addr /\ dev'[d].en = dev[d].en /\ dev'[d].stuck = dev[d].stuck
    BY <1>1, <1>3, <2>3, Devices, Readdressed
  <2>5. Mine(p)' /\ dev'[d].en /\ ~dev'[d].stuck /\ cn[c].lock # p => dev'[d].addr \in 1..cn[c].max
    BY <1>1, <2>4 DEF Numbered, Listening
  <2> HIDE DEF Mine
  <2>6. ThreadMove(p)
    BY <1>1, <2>2, <2>4, <2>5, Moves DEF Reached, Beyond, Held, Requests, Early
  <2> QED BY <2>2, <2>6
<1> QED BY <1>2, <1>3 DEF usb_init_hub_port, Dropped

-----------------------------------------------------------------------------
(* The steps of the controllers and of hubs with their ports.              *)

(* Where neither ports nor devices nor locks change. *)
LEMMA SameApart ==
  ASSUME WellWired(bus), Apart, bus' = bus, pt' = pt, dev' = dev, hub' = hub,
         \A k \in Cntl : cn'[k].lock = cn[k].lock /\ cn'[k].max = cn[k].max
  PROVE  Apart'
<1>1. Cntl' = Cntl /\ \A p \in Port : CntlOf(p) \in Cntl
  BY Fixed, Wiring
<1>2. \A p \in Port : Mine(p)' <=> Mine(p)
  BY <1>1 DEF Mine
<1> HIDE DEF Mine
<1>3. Locks'
  BY <1>1, <1>2 DEF Apart, Locks, Holds
<1>4. Enabled' /\ HubPorts'
  BY <1>1, <1>2 DEF Apart, Enabled, HubPorts
<1>5. Addresses' /\ Distinct'
  <2>1. \A d : Listening(d)' <=> Listening(d)
    BY DEF Listening
  <2>2. Addresses'
    BY <1>1, <1>2, <2>1 DEF Apart, Addresses, Numbered
  <2>3. Distinct'
    BY <1>1, <1>2, <2>1 DEF Apart, Distinct
  <2> QED BY <2>2, <2>3
<1> QED BY <1>3, <1>4, <1>5 DEF Apart

(* usb_hub_init(): the ports of the hub were not looked at before. *)
LEMMA HubPortsStart ==
  ASSUME EnumInv, NEW p \in Port, pt[p].pc = "hubdesc", bus' = bus, setup' = setup, cn' = cn, dev' = dev,
         hub' = [hub EXCEPT ![DevOf(p)].left = Cardinality(PortsOf(DevOf(p)))],
         pt' = [q \in Port |-> IF q = p THEN [pt[q] EXCEPT !.pc = "hubports"]
                               ELSE IF HubOf(q) = DevOf(p) THEN [pt[q] EXCEPT !.pc = "detect"]
                               ELSE pt[q]]
  PROVE  EnumInv'
<1> DEFINE d == DevOf(p)
           Of(q) == q # p /\ HubOf(q) = d
<1>1. /\ WellWired(bus) /\ EnumTypes /\ Apart /\ Starts /\ Order
      /\ Cntl' = Cntl /\ Hub' = Hub /\ Place' = Place /\ WellWired(bus)' /\ \A i : Nth(i)' = Nth(i)
  BY Fixed DEF EnumInv
<1>2. Mine(p) /\ d \in Device /\ d \notin Cntl /\ ~pt[p].sent
  <2>1. Mine(p) /\ d \in Device /\ ~pt[p].sent
    BY <1>1, Finds DEF Holds, Early, Requests
  <2> QED BY <1>1, <2>1, Wiring
<1>3. ASSUME NEW q \in Port, HubOf(q) = d PROVE OnHub(q) /\ pt[q].pc = "off" /\ ~pt[q].sent
  <2>1. OnHub(q)
    BY <1>2, <1>3
  <2>2. pt[q].pc = "off"
    <3>1. SUFFICES ASSUME pt[q].pc # "off" PROVE FALSE
      OBVIOUS
    <3>2. PICK r \in Port : DevOf(r) = d /\ Mine(r) /\ pt[r].pc \in Beyond
      BY <1>1, <1>3, <2>1, <3>1 DEF Apart, HubPorts
    <3>3. r = p
      BY <1>1, <1>2, <3>2, OneMine
    <3> QED BY <3>2, <3>3 DEF Beyond
  <2> QED BY <1>1, <2>1, <2>2, Finds DEF Holds, Requests
<1>4. \A q \in Port : Mine(q)' <=> Mine(q)
  BY <1>1 DEF Mine
<1>5. /\ pt \in [Port -> [pc : Stages, sent : BOOLEAN, polls : Int]]
      /\ hub \in [Hub -> [left : Int, count : Int, lock : Port \cup {"none"}]]
  BY <1>1 DEF EnumTypes, PortTypes, HubTypes
<1>6. /\ pt' \in PortTypes
      /\ pt'[p].pc = "hubports"
      /\ \A q \in Port : pt'[q].sent = pt[q].sent
      /\ \A q \in Port : Of(q) => pt'[q].pc = "detect"
      /\ \A q \in Port : q # p /\ ~Of(q) => pt'[q] = pt[q]
  <2>1. "hubports" \in Stages /\ "detect" \in Stages
    BY DEF Stages, Early, Reached, Beyond
  <2> QED BY <1>5, <2>1 DEF PortTypes
<1>7. hub' \in HubTypes /\ \A h \in Hub : hub'[h].lock = hub[h].lock
  <2>1. Cardinality(PortsOf(d)) \in Int
    BY <1>1, <1>2, Wiring
  <2> QED BY <1>5, <2>1 DEF HubTypes
<1>8. EnumTypes'
  BY <1>1, <1>6, <1>7 DEF EnumTypes, PortTypes, HubTypes, CntlTypes, DevTypes
<1>9. \A q \in Port : Of(q) => OnHub(q) /\ pt[q].pc = "off" /\ ~pt[q].sent
  BY <1>3
<1> HIDE DEF Mine, Of
<1>10. Locks'
  <2>1. ASSUME NEW q \in Port PROVE Holds(q)'
    <3>1. Holds(q) /\ HubOf(q) \in Hub
      BY <1>1, Finds
    <3>2. CASE q = p
      BY <1>1, <1>2, <1>4, <1>6, <3>2 DEF Holds, Requests, Held
    <3>3. CASE Of(q)
      BY <1>1, <1>6, <1>9, <3>3 DEF Holds, Requests, Held, Early
    <3>4. CASE q # p /\ ~Of(q)
      <4>1. /\ pt'[q] = pt[q] /\ cn'[CntlOf(q)].lock = cn[CntlOf(q)].lock
            /\ hub'[HubOf(q)].lock = hub[HubOf(q)].lock /\ (Mine(q)' <=> Mine(q))
            /\ OnHub(q)' <=> OnHub(q)
        BY <1>1, <1>4, <1>6, <1>7, <3>1, <3>4
      <4> QED BY <1>1, <3>1, <4>1, Zenon DEF Holds
    <3> QED BY <3>2, <3>3, <3>4
  <2> QED BY <1>1, <2>1 DEF Locks
<1>11. \A q \in Port : /\ pt[q].pc \in Reached => pt'[q].pc \in Reached
                       /\ pt[q].pc \in Beyond => pt'[q].pc \in Beyond
  BY <1>6, <1>9 DEF Reached, Beyond
<1>12. Enabled'
  BY <1>1, <1>4, <1>11 DEF Apart, Enabled
<1>13. HubPorts'
  <2>1. SUFFICES ASSUME NEW q \in Port, OnHub(q), pt'[q].pc # "off"
                 PROVE  \E r \in Port : DevOf(r) = HubOf(q) /\ Mine(r) /\ pt'[r].pc \in Beyond
    BY <1>1, <1>4 DEF HubPorts
  <2>2. CASE Of(q)
    BY <1>2, <1>6, <2>2 DEF Of, Beyond
  <2>3. CASE ~Of(q)
    <3>1. pt[q].pc # "off"
      BY <1>6, <2>1, <2>3
    <3> QED BY <1>1, <1>11, <2>1, <3>1 DEF Apart, HubPorts
  <2> QED BY <2>2, <2>3
<1>14. Addresses' /\ Distinct'
  <2>1. \A q \in Port : pt'[q].pc = "addressed" => pt[q].pc = "addressed"
    BY <1>6
  <2>2. Addresses'
    BY <1>1, <1>4, <2>1 DEF Apart, Addresses, Numbered, Listening
  <2>3. Distinct'
    BY SMTT(60), <1>1, <1>4 DEF Apart, Distinct, Listening
  <2> QED BY <2>2, <2>3
<1>15. Starts' /\ Order'
  <2>1. \A q \in Port : ~OnHub(q) /\ NotYet(CntlOf(q)) => pt'[q].pc = "off"
    <3>1. \A q \in Port : ~OnHub(q) /\ NotYet(CntlOf(q)) => q # p /\ ~Of(q) /\ pt[q].pc = "off"
      BY <1>1, <1>9 DEF Starts
    <3>2. ASSUME NEW q \in Port, ~OnHub(q), NotYet(CntlOf(q)) PROVE pt'[q].pc = "off"
      <4>1. q # p /\ ~Of(q) /\ pt[q].pc = "off"
        BY <3>1, <3>2
      <4> QED BY <1>6, <4>1
    <3> QED BY <3>2
  <2> QED BY <1>1, <2>1, SameStarts
<1> QED BY <1>1, <1>8, <1>10, <1>12, <1>13, <1>14, <1>15 DEF EnumInv, Apart

(* A controller that was started comes to its ports, or fails: the others  *)
(* stay as they are.                                                       *)
LEMMA OneStarts ==
  ASSUME WellWired(bus), EnumTypes, Starts, Order, bus' = bus, setup' = setup, NEW c \in Cntl,
         \A k \in Cntl \ {c} : cn'[k].st = cn[k].st /\ cn'[k].checks = cn[k].checks,
         \A k \in Cntl : cn'[k].comps = cn[k].comps,
         cn[c].st \in {"start", "ports"}, cn'[c].st \in {"ports", "up", "down"},
         cn[c].st = "start" \/ cn'[c].checks = cn[c].checks,
         \A q \in Port : ~OnHub(q) /\ CntlOf(q) # c => pt'[q] = pt[q]
  PROVE  Starts' /\ Order'
<1>1. Cntl' = Cntl /\ Place' = Place /\ \A i : Nth(i)' = Nth(i)
  BY Fixed
<1>2. (\A i \in Place : Nth(i) \in Cntl) /\ \A q \in Port : CntlOf(q) \in Cntl
  BY Wiring
<1>3. \A k \in Cntl : /\ cn'[k].st = "off" <=> cn[k].st = "off"
                      /\ cn'[k].st \in {"off", "start"} => k # c /\ cn[k].st \in {"off", "start"}
                      /\ cn[k].st \notin {"off", "start"} =>
                           cn'[k].checks = cn[k].checks /\ cn'[k].st \notin {"off", "start"}
  OBVIOUS
<1>4. \A q \in Port : ~OnHub(q) /\ cn'[CntlOf(q)].st \in {"off", "start"} => pt'[q].pc = "off"
  BY <1>2, <1>3 DEF Starts, NotYet
<1>5. \A i \in Place : i >= setup.pci => cn'[Nth(i)].st = "off"
  BY <1>2, <1>3 DEF Starts
<1>6. ASSUME NEW i \in Place, NEW j \in Place, Nth(i) \in cn'[Nth(j)].comps
      PROVE  /\ i < setup.pci /\ bus.list[i].kind # "ehci" /\ cn'[Nth(j)].st # "off"
             /\ cn'[Nth(i)].st = "off" \/ (cn'[Nth(j)].checks <= 0 /\ cn'[Nth(j)].st \notin {"off", "start"})
             /\ \A k \in Place : Nth(i) \in cn'[Nth(k)].comps => k = j
  <2>1. Nth(i) \in cn[Nth(j)].comps /\ \A k \in Place : cn'[Nth(k)].comps = cn[Nth(k)].comps
    BY <1>2, <1>6
  <2>2. /\ i < setup.pci /\ bus.list[i].kind # "ehci" /\ cn[Nth(j)].st # "off"
        /\ cn[Nth(i)].st = "off" \/ (cn[Nth(j)].checks <= 0 /\ cn[Nth(j)].st \notin {"off", "start"})
        /\ \A k \in Place : Nth(i) \in cn[Nth(k)].comps => k = j
    BY <2>1 DEF Starts, NotYet
  <2>3. Nth(i) \in Cntl /\ Nth(j) \in Cntl
    BY <1>2
  <2> HIDE DEF Nth, Place
  <2>4. cn'[Nth(i)].st = "off" \/ (cn'[Nth(j)].checks <= 0 /\ cn'[Nth(j)].st \notin {"off", "start"})
    BY <1>3, <2>2, <2>3
  <2>5. cn'[Nth(j)].st # "off"
    BY <1>3, <2>2, <2>3
  <2> QED BY <2>1, <2>2, <2>4, <2>5
<1>7. Starts'
  <2> HIDE DEF Nth, Place
  <2> QED BY <1>1, <1>4, <1>5, <1>6 DEF Starts, NotYet
<1>8. Order'
  <2> HIDE DEF Nth, Place
  <2> QED BY <1>1, <1>2, <1>3 DEF Order
<1> QED BY <1>7, <1>8

(* An ehci controller takes its ports: no port of their sockets is in use. *)
LEMMA SocketsQuiet ==
  ASSUME EnumInv, NEW c \in Cntl, Kind(c) = "ehci", cn[c].st = "start",
         NEW p \in PortsOf(c), NEW q \in Port, DevOf(q) = DevOf(p), DevOf(p) # "none"
  PROVE  pt[q].pc = "off"
<1>1. WellWired(bus) /\ EnumTypes /\ Starts /\ Order
  BY DEF EnumInv
<1>2. p \in Port /\ HubOf(p) = c /\ ~OnHub(p) /\ CntlOf(p) = c
  BY <1>1, Wiring DEF PortsOf
<1>3. CASE q = p
  BY <1>1, <1>2, <1>3 DEF Starts, NotYet
<1>4. CASE q # p
  <2>1. PICK i \in Place, j \in Place :
          /\ ~OnHub(q) /\ Companion(bus, i, j)
          /\ \/ CntlOf(p) = Nth(i) /\ CntlOf(q) = Nth(j)
             \/ CntlOf(p) = Nth(j) /\ CntlOf(q) = Nth(i)
    BY <1>1, <1>2, <1>4, Sockets
  <2>2. bus.list[i].kind # "ehci" /\ bus.list[j].kind = "ehci"
    BY <1>1, <2>1, Wiring DEF Companion, Place
  <2>3. CntlOf(p) = Nth(j) /\ CntlOf(q) = Nth(i)
    BY <1>1, <1>2, <2>1, <2>2, Wiring
  <2>4. ~bus.list[j].wide
    BY <1>1, <1>2, <2>2, <2>3 DEF Order
  <2>5. cn[Nth(i)].st = "off"
    <3>1. CASE i < setup.pci
      <4>1. Nth(i) \in cn[Nth(j)].comps
        BY <1>1, <2>1, <2>4, <3>1 DEF Order
      <4> QED BY <1>1, <1>2, <2>3, <4>1 DEF Starts, NotYet
    <3>2. CASE i >= setup.pci
      BY <1>1, <3>2 DEF Starts
    <3> QED BY <1>1, <3>1, <3>2 DEF EnumTypes, Place
  <2> QED BY <1>1, <2>1, <2>3, <2>5 DEF Starts, NotYet
<1> QED BY <1>3, <1>4

(* Three fields of a controller change. *)
Renewed(c, s, n, def) == [cn EXCEPT ![c] = [[[cn[c] EXCEPT !.st = s] EXCEPT !.checks = n] EXCEPT !.def = def]]

(* The rest of the controllers stays. *)
LEMMA OneCntl ==
  ASSUME EnumTypes, NEW c \in Cntl, NEW s \in {"ports", "up", "down"}, NEW n \in Int, NEW def \in BOOLEAN,
         NEW new, new = Renewed(c, s, n, def)
  PROVE  /\ new \in CntlTypes /\ new[c].st = s /\ new[c].checks = n
         /\ \A k \in Cntl : new[k].lock = cn[k].lock /\ new[k].max = cn[k].max /\ new[k].comps = cn[k].comps
         /\ \A k \in Cntl \ {c} : new[k] = cn[k]
<1> DEFINE T == [addr : Nat, port : Nat]
           Rec == [st : {"off", "start", "ports", "up", "down"}, inits : Nat, comps : SUBSET Cntl,
                   lock : Port \cup {"none"}, max : Nat, def : BOOLEAN,
                   tt : T, checks : Int, legacy : Int]
           g == [[[cn[c] EXCEPT !.st = s] EXCEPT !.checks = n] EXCEPT !.def = def]
<1>1. cn \in [Cntl -> Rec]
  BY DEF EnumTypes, CntlTypes
<1>2. ASSUME NEW r \in Rec
      PROVE  LET h == [[[r EXCEPT !.st = s] EXCEPT !.checks = n] EXCEPT !.def = def]  IN
             /\ h \in Rec /\ h.st = s /\ h.checks = n
             /\ h.lock = r.lock /\ h.max = r.max /\ h.comps = r.comps
  <2> HIDE DEF T
  <2>1. [r EXCEPT !.st = s] \in Rec
    OBVIOUS
  <2>2. [[r EXCEPT !.st = s] EXCEPT !.checks = n] \in Rec
    BY <2>1
  <2>3. [[[r EXCEPT !.st = s] EXCEPT !.checks = n] EXCEPT !.def = def] \in Rec
    BY <2>2
  <2> QED BY <2>3
<1>3. g \in Rec /\ g.st = s /\ g.checks = n /\ g.lock = cn[c].lock /\ g.max = cn[c].max /\ g.comps = cn[c].comps
  <2> HIDE DEF Rec
  <2> QED BY <1>1, <1>2
<1>4. new = [cn EXCEPT ![c] = g]
  BY DEF Renewed
<1>5. new \in [Cntl -> Rec] /\ new[c] = g /\ \A k \in Cntl \ {c} : new[k] = cn[k]
  <2> HIDE DEF Rec, g
  <2> QED BY <1>1, <1>3, <1>4
<1>6. new \in CntlTypes
  BY <1>5 DEF CntlTypes
<1> HIDE DEF g, Rec
<1> QED BY <1>3, <1>5, <1>6

(* A hub's counts. *)
Counts(h, n, z) == [hub EXCEPT ![h].left = n, ![h].count = z]

(* The locks stay. *)
LEMMA OneHub ==
  ASSUME EnumTypes, bus' = bus, NEW h \in Hub, NEW n \in Int, NEW z \in Int, hub' = Counts(h, n, z)
  PROVE  hub' \in HubTypes /\ \A k \in Hub : hub'[k].lock = hub[k].lock
<1> DEFINE L == Port \cup {"none"}
           Rec == [left : Int, count : Int, lock : L]
           g == [hub[h] EXCEPT !.left = n, !.count = z]
<1>1. hub \in [Hub -> Rec]
  BY DEF EnumTypes, HubTypes
<1>2. ASSUME NEW r \in Rec
      PROVE  LET f == [r EXCEPT !.left = n, !.count = z]  IN f \in Rec /\ f.lock = r.lock
  <2> HIDE DEF L
  <2> QED OBVIOUS
<1>3. g \in Rec /\ g.lock = hub[h].lock
  <2> HIDE DEF Rec
  <2> QED BY <1>1, <1>2
<1>4. hub' = [hub EXCEPT ![h] = g]
  BY <1>1 DEF Counts
<1>5. hub' \in [Hub -> Rec] /\ \A k \in Hub : hub'[k].lock = hub[k].lock
  <2> HIDE DEF Rec, g
  <2> QED BY <1>1, <1>3, <1>4
<1> QED BY <1>5 DEF HubTypes

(* configure_uhci(), configure_ohci() and configure_ehci(). *)
LEMMA ConfigureKeeps ==
  ASSUME EnumInv, NEW c \in Cntl, configure(c)
  PROVE  EnumInv'
<1> DEFINE Taken(d) == Kind(c) = "ehci" /\ \E p \in PortsOf(c) : DevOf(p) = d
           Of(q) == HubOf(q) = c
<1>1. /\ WellWired(bus) /\ EnumTypes /\ Apart /\ Starts /\ Order
      /\ bus' = bus /\ setup' = setup /\ cn[c].st = "start"
      /\ Cntl' = Cntl /\ Hub' = Hub /\ Place' = Place /\ WellWired(bus)' /\ \A i : Nth(i)' = Nth(i)
  BY Fixed DEF EnumInv, configure
<1>2. CntlTypes' = CntlTypes /\ HubTypes' = HubTypes /\ PortTypes' = PortTypes /\ DevTypes' = DevTypes
  BY <1>1 DEF CntlTypes, HubTypes, PortTypes, DevTypes
<1>3. /\ cn \in CntlTypes /\ hub \in HubTypes /\ pt \in PortTypes /\ dev \in DevTypes
  BY <1>1 DEF EnumTypes
<1>4. CASE cn' = [cn EXCEPT ![c].st = "down"] /\ hub' = hub /\ pt' = pt /\ dev' = dev
  <2>1. /\ cn' \in CntlTypes
        /\ \A k \in Cntl : cn'[k].lock = cn[k].lock /\ cn'[k].max = cn[k].max /\ cn'[k].comps = cn[k].comps
        /\ cn'[c].st = "down" /\ \A k \in Cntl \ {c} : cn'[k] = cn[k]
    BY <1>3, <1>4 DEF CntlTypes
  <2>2. Apart'
    BY <1>1, <1>4, <2>1, SameApart
  <2>3. Starts' /\ Order'
    BY <1>1, <1>4, <2>1, OneStarts
  <2> QED BY <1>1, <1>2, <1>3, <1>4, <2>1, <2>2, <2>3 DEF EnumInv, EnumTypes
<1>5. CASE /\ cn' = [cn EXCEPT ![c].st = "ports",
                            ![c].checks = IF Kind(c) = "ehci" THEN Cardinality(PortsOf(c)) ELSE 0]
           /\ dev' = IF Kind(c) = "ehci"
                     THEN [d \in Device |-> IF \E p \in PortsOf(c) : DevOf(p) = d
                                            THEN [dev[d] EXCEPT !.owner = c] ELSE dev[d]]
                     ELSE dev
           /\ Enumerate(c)
  <2>1. /\ cn' \in CntlTypes
        /\ \A k \in Cntl : cn'[k].lock = cn[k].lock /\ cn'[k].max = cn[k].max /\ cn'[k].comps = cn[k].comps
        /\ cn'[c].st = "ports" /\ \A k \in Cntl \ {c} : cn'[k] = cn[k]
    <3> DEFINE n == IF Kind(c) = "ehci" THEN Cardinality(PortsOf(c)) ELSE 0
    <3>1. n \in Int
      BY <1>1, Wiring
    <3>2. cn' = [cn EXCEPT ![c].st = "ports", ![c].checks = n]
      BY <1>5
    <3>3. cn[c].def \in BOOLEAN
      BY <1>3 DEF CntlTypes
    <3> HIDE DEF n
    <3>4. cn' = Renewed(c, "ports", n, cn[c].def)
      BY <1>3, <3>2 DEF CntlTypes, Renewed
    <3> QED BY <1>1, <3>1, <3>3, <3>4, OneCntl
  <2>2. /\ dev' \in DevTypes
        /\ \A d \in Device : /\ dev'[d].en = dev[d].en /\ dev'[d].addr = dev[d].addr
                             /\ dev'[d].stuck = dev[d].stuck
                             /\ ~Taken(d) => dev'[d].owner = dev[d].owner
    <3>1. CASE Kind(c) = "ehci"
      <4>1. dev' = [d \in Device |-> IF Taken(d) THEN [dev[d] EXCEPT !.owner = c] ELSE dev[d]]
        BY <1>5, <3>1
      <4> HIDE DEF Taken
      <4> QED BY <1>3, <4>1 DEF DevTypes
    <3>2. CASE Kind(c) # "ehci"
      BY <1>3, <1>5, <3>2
    <3> QED BY <3>1, <3>2
  <2>3. /\ pt' \in PortTypes
        /\ \A q \in Port : pt'[q].sent = pt[q].sent
        /\ \A q \in Port : Of(q) => pt'[q].pc = "detect"
        /\ \A q \in Port : ~Of(q) => pt'[q] = pt[q]
    <3>1. pt' = [q \in Port |-> IF Of(q) THEN [pt[q] EXCEPT !.pc = "detect"] ELSE pt[q]]
      BY <1>5 DEF Enumerate, PortsOf
    <3>2. "detect" \in Stages
      BY DEF Stages, Early
    <3> QED BY <1>3, <3>1, <3>2 DEF PortTypes
  <2>4. hub' \in HubTypes /\ \A h \in Hub : hub'[h].lock = hub[h].lock
    <3> DEFINE n == Cardinality(PortsOf(c))
    <3>1. n \in Int /\ c \in Hub
      BY <1>1, Wiring DEF Hub
    <3>2. hub' = Counts(c, n, 0)
      BY <1>5 DEF Enumerate, Counts
    <3> HIDE DEF n
    <3> QED BY <1>1, <3>1, <3>2, OneHub
  <2>5. EnumTypes'
    BY <1>1, <1>2, <2>1, <2>2, <2>3, <2>4 DEF EnumTypes
  <2>6. \A q \in Port : Of(q) => pt[q].pc = "off" /\ ~pt[q].sent /\ ~OnHub(q)
    <3>1. \A q \in Port : Of(q) => ~OnHub(q) /\ CntlOf(q) = c
      BY <1>1, Wiring
    <3> QED BY <1>1, <3>1 DEF Starts, NotYet, Apart, Locks, Holds, Requests
  <2>7. \A q \in Port : DevOf(q) # "none" /\ Taken(DevOf(q)) => pt[q].pc = "off"
    BY <1>1, SocketsQuiet
  <2>8. \A q \in Port : pt[q].pc # "off" => (Mine(q)' <=> Mine(q))
    <3>1. ASSUME NEW q \in Port, pt[q].pc # "off" PROVE Mine(q)' <=> Mine(q)
      <4>1. CASE DevOf(q) = "none"
        BY <1>1, <4>1 DEF Mine
      <4>2. CASE DevOf(q) # "none"
        <5>1. DevOf(q) \in Device /\ ~Taken(DevOf(q))
          BY <1>1, <2>7, <3>1, <4>2, Wiring
        <5> QED BY <1>1, <2>2, <5>1 DEF Mine
      <4> QED BY <4>1, <4>2
    <3> QED BY <3>1
  <2>9. ASSUME NEW q \in Port, Mine(q)', dev'[DevOf(q)].en PROVE Mine(q) /\ dev[DevOf(q)].en
    <3>1. DevOf(q) \in Device /\ DevOf(q) # "none"
      BY <1>1, <2>9, Wiring DEF Mine
    <3>2. dev[DevOf(q)].en
      BY <2>2, <2>9, <3>1
    <3>3. PICK r \in Port : DevOf(r) = DevOf(q) /\ pt[r].pc \in Reached
      BY <1>1, <3>1, <3>2 DEF Apart, Enabled
    <3>4. ~Taken(DevOf(q))
      BY <2>7, <3>1, <3>3 DEF Reached, Beyond
    <3> QED BY <1>1, <2>2, <2>9, <3>1, <3>2, <3>4 DEF Mine
  <2>10. \A q \in Port : q \in Port /\ pt[q].pc # "off" => pt'[q] = pt[q]
    BY <2>3, <2>6
  <2>11. \A q \in Port : pt'[q].pc = "detect" \/ pt'[q] = pt[q]
    BY <2>3
  <2> HIDE DEF Mine, Of, Taken
  <2>12. Locks'
    <3>1. ASSUME NEW q \in Port PROVE Holds(q)'
      <4>1. Holds(q) /\ HubOf(q) \in Hub /\ CntlOf(q) \in Cntl
        BY <1>1, Finds
      <4>2. CASE Of(q)
        BY <1>1, <2>3, <2>6, <4>2 DEF Holds, Requests, Held, Early
      <4>3. CASE ~Of(q)
        BY <1>1, <2>1, <2>3, <2>4, <2>8, <4>1, <4>3 DEF Holds, Early
      <4> QED BY <4>2, <4>3
    <3> QED BY <1>1, <3>1 DEF Locks
  <2>13. Enabled'
    <3>1. SUFFICES ASSUME NEW d \in Device, dev'[d].en
                   PROVE  \E q \in Port : DevOf(q) = d /\ Mine(q)' /\ pt'[q].pc \in Reached
      BY <1>1 DEF Enabled
    <3>2. PICK q \in Port : DevOf(q) = d /\ Mine(q) /\ pt[q].pc \in Reached
      BY <1>1, <2>2, <3>1 DEF Apart, Enabled
    <3>3. pt[q].pc # "off"
      BY <3>2 DEF Reached, Beyond
    <3> QED BY <2>8, <2>10, <3>2, <3>3
  <2>14. HubPorts'
    <3>1. SUFFICES ASSUME NEW q \in Port, OnHub(q), pt'[q].pc # "off"
                   PROVE  \E r \in Port : DevOf(r) = HubOf(q) /\ Mine(r)' /\ pt'[r].pc \in Beyond
      BY <1>1 DEF HubPorts
    <3>2. pt[q].pc # "off"
      BY <2>3, <2>6, <3>1
    <3>3. PICK r \in Port : DevOf(r) = HubOf(q) /\ Mine(r) /\ pt[r].pc \in Beyond
      BY <1>1, <3>1, <3>2 DEF Apart, HubPorts
    <3>4. pt[r].pc # "off"
      BY <3>3 DEF Beyond
    <3> QED BY <2>8, <2>10, <3>3, <3>4
  <2>15. \A q \in Port : /\ CntlOf(q) \in Cntl
                         /\ pt'[q].pc = "addressed" => pt[q].pc = "addressed" /\ DevOf(q) \in Device
    <3>1. ASSUME NEW q \in Port, pt'[q].pc = "addressed" PROVE pt[q].pc = "addressed" /\ DevOf(q) \in Device
      <4>1. pt[q].pc = "addressed"
        BY <2>11, <3>1
      <4>2. Mine(q)
        BY <1>1, <4>1, Finds DEF Holds, Early
      <4> QED BY <1>1, <4>1, <4>2, Finds
    <3> QED BY <1>1, <3>1, Wiring
  <2>16. Addresses'
    <3>1. ASSUME NEW q \in Port PROVE Numbered(q)'
      <4>1. Numbered(q) /\ CntlOf(q) \in Cntl
        BY <1>1, Finds
      <4>2. ASSUME Mine(q)', dev'[DevOf(q)].en, ~dev'[DevOf(q)].stuck, cn'[CntlOf(q)].lock # q
            PROVE  dev'[DevOf(q)].addr \in 1..cn'[CntlOf(q)].max
        <5>1. Mine(q) /\ dev[DevOf(q)].en
          BY <2>9, <4>2
        <5>2. DevOf(q) \in Device
          BY <1>1, <5>1, Finds
        <5> QED BY <2>1, <2>2, <4>1, <4>2, <5>1, <5>2 DEF Numbered, Listening
      <4>3. pt'[q].pc = "addressed" => dev'[DevOf(q)].addr = cn'[CntlOf(q)].max + 1
        BY <2>1, <2>2, <2>15, <4>1 DEF Numbered
      <4> QED BY <1>1, <4>2, <4>3 DEF Numbered, Listening
    <3> QED BY <1>1, <3>1 DEF Addresses
  <2>17. Distinct'
    <3>1. SUFFICES ASSUME NEW q \in Port, NEW r \in Port, Mine(q)', Mine(r)', DevOf(q) # DevOf(r),
                          CntlOf(q) = CntlOf(r), dev'[DevOf(q)].en, ~dev'[DevOf(q)].stuck,
                          dev'[DevOf(r)].en, ~dev'[DevOf(r)].stuck
                   PROVE  dev'[DevOf(q)].addr # dev'[DevOf(r)].addr
      BY <1>1 DEF Distinct, Listening
    <3>2. Mine(q) /\ Mine(r) /\ dev[DevOf(q)].en /\ dev[DevOf(r)].en
      BY <2>9, <3>1
    <3>3. DevOf(q) \in Device /\ DevOf(r) \in Device
      BY <1>1, <3>2, Finds
    <3> QED BY <1>1, <2>2, <3>1, <3>2, <3>3 DEF Apart, Distinct, Listening
  <2>18. Starts' /\ Order'
    <3>1. \A q \in Port : ~OnHub(q) /\ CntlOf(q) # c => pt'[q] = pt[q]
      BY <1>1, <2>3, Wiring DEF Of
    <3> QED BY <1>1, <2>1, <3>1, OneStarts
  <2> QED BY <1>1, <2>5, <2>12, <2>13, <2>14, <2>16, <2>17, <2>18 DEF EnumInv, Apart
<1> QED BY <1>4, <1>5 DEF configure

(* The rest of configure_*(). *)
LEMMA ConfiguredKeeps ==
  ASSUME EnumInv, NEW c \in Cntl, configured(c)
  PROVE  EnumInv'
<1>1. /\ WellWired(bus) /\ EnumTypes /\ Apart /\ Starts /\ Order
      /\ bus' = bus /\ setup' = setup /\ hub' = hub /\ pt' = pt /\ dev' = dev /\ cn[c].st = "ports"
      /\ Cntl' = Cntl /\ Hub' = Hub /\ WellWired(bus)'
  BY Fixed DEF EnumInv, configured
<1>2. PICK st \in {"up", "down"}, f \in BOOLEAN : cn' = [cn EXCEPT ![c].st = st, ![c].def = f]
  BY DEF configured
<1>3. /\ cn' \in CntlTypes
      /\ \A k \in Cntl : /\ cn'[k].lock = cn[k].lock /\ cn'[k].max = cn[k].max
                         /\ cn'[k].comps = cn[k].comps /\ cn'[k].checks = cn[k].checks
      /\ cn'[c].st = st /\ \A k \in Cntl \ {c} : cn'[k] = cn[k]
  <2>1. cn \in CntlTypes /\ cn[c].checks \in Int
    BY <1>1 DEF EnumTypes, CntlTypes
  <2>2. cn' = Renewed(c, st, cn[c].checks, f)
    BY <1>2, <2>1 DEF CntlTypes, Renewed
  <2> QED BY <1>1, <2>1, <2>2, OneCntl
<1>4. EnumTypes'
  BY <1>1, <1>3 DEF EnumTypes, CntlTypes, HubTypes, PortTypes, DevTypes
<1>5. Apart'
  BY <1>1, <1>3, SameApart
<1>6. Starts' /\ Order'
  BY <1>1, <1>3, OneStarts
<1> QED BY <1>1, <1>4, <1>5, <1>6 DEF EnumInv

-----------------------------------------------------------------------------
(* usb_setup().                                                            *)

(* The first ehci function of the slot from i on, or where the slot ends. *)
LEMMA Search ==
  ASSUME WellWired(bus), NEW i \in Place
  PROVE  /\ EhciFrom(i) \in Nat /\ PastSlot(i) \in Nat
         /\ EhciFrom(i) # 0 =>
              /\ EhciFrom(i) \in Place /\ EhciFrom(i) >= i /\ bus.list[EhciFrom(i)].kind = "ehci"
              /\ \A k \in i..EhciFrom(i) : SlotOf(k) = SlotOf(i)
              /\ \A k \in i..(EhciFrom(i) - 1) : bus.list[k].kind # "ehci"
         /\ EhciFrom(i) = 0 =>
              \A j \in Place : j >= i /\ bus.list[j].kind = "ehci" => \E k \in i..j : SlotOf(k) # SlotOf(i)
         /\ PastSlot(i) # 0 => \A k \in i..(PastSlot(i) - 1) : SlotOf(k) = SlotOf(i)
         /\ PastSlot(i) = 0 => \A k \in i..Len(bus.list) : SlotOf(k) = SlotOf(i)
<1> DEFINE n == Len(bus.list)
           S == {j \in i..n : bus.list[j].kind = "ehci" /\ \A k \in i..j : SlotOf(k) = SlotOf(i)}
           P == {j \in i..n : SlotOf(j) # SlotOf(i)}
           s == CHOOSE j \in S : \A k \in S : j <= k
           l == CHOOSE j \in P : \A k \in P : j <= k
<1>1. n \in Nat /\ i \in 1..n /\ S \in SUBSET Nat /\ P \in SUBSET Nat /\ S \subseteq 1..n /\ P \subseteq 1..n
  <2>1. n \in Nat /\ i \in 1..n
    BY Wiring DEF Place
  <2> QED BY <2>1
<1>2. EhciFrom(i) = (IF S = {} THEN 0 ELSE s) /\ PastSlot(i) = (IF P = {} THEN 0 ELSE l)
  BY DEF EhciFrom, PastSlot
<1>3. S # {} => s \in S /\ \A k \in S : s <= k
  <2>1. S # {} => \E j \in S : \A k \in S : j <= k
    <3> HIDE DEF S
    <3> QED BY <1>1, LeastNatural
  <2> HIDE DEF S
  <2> QED BY <2>1
<1>4. P # {} => l \in P /\ \A k \in P : l <= k
  <2>1. P # {} => \E j \in P : \A k \in P : j <= k
    <3> HIDE DEF P
    <3> QED BY <1>1, LeastNatural
  <2> HIDE DEF P
  <2> QED BY <2>1
<1> HIDE DEF s, l
<1>5. ASSUME EhciFrom(i) # 0
      PROVE  /\ EhciFrom(i) \in Place /\ EhciFrom(i) >= i /\ bus.list[EhciFrom(i)].kind = "ehci"
             /\ \A k \in i..EhciFrom(i) : SlotOf(k) = SlotOf(i)
             /\ \A k \in i..(EhciFrom(i) - 1) : bus.list[k].kind # "ehci"
  <2>1. S # {} /\ EhciFrom(i) = s
    BY <1>2, <1>5
  <2>2. s \in S /\ \A k \in S : s <= k
    BY <1>3, <2>1
  <2>3. s \in i..n /\ bus.list[s].kind = "ehci" /\ \A k \in i..s : SlotOf(k) = SlotOf(i)
    BY <2>2
  <2>4. ASSUME NEW k \in i..(s - 1), bus.list[k].kind = "ehci" PROVE FALSE
    <3>1. k \in i..n /\ (\A m \in i..k : SlotOf(m) = SlotOf(i)) /\ ~(s <= k)
      BY <1>1, <2>3
    <3> QED BY <2>2, <2>4, <3>1
  <2> QED BY <1>1, <2>1, <2>3, <2>4 DEF Place
<1>6. ASSUME EhciFrom(i) = 0, NEW j \in Place, j >= i, bus.list[j].kind = "ehci"
      PROVE  \E k \in i..j : SlotOf(k) # SlotOf(i)
  <2>1. S = {}
    <3>1. SUFFICES ASSUME S # {} PROVE FALSE
      OBVIOUS
    <3>2. s \in S /\ EhciFrom(i) = s
      BY <1>2, <1>3, <3>1
    <3> HIDE DEF S
    <3> QED BY <1>1, <1>6, <3>2
  <2> QED BY <1>1, <1>6, <2>1 DEF Place
<1>7. ASSUME PastSlot(i) # 0, NEW k \in i..(PastSlot(i) - 1) PROVE SlotOf(k) = SlotOf(i)
  <2>1. l \in P /\ PastSlot(i) = l /\ \A m \in P : l <= m
    BY <1>2, <1>4, <1>7
  <2>2. l \in i..n
    BY <2>1
  <2>3. k \in i..n /\ ~(l <= k)
    BY <1>1, <1>7, <2>1, <2>2
  <2> QED BY <2>1, <2>3
<1>8. ASSUME PastSlot(i) = 0, NEW k \in i..n PROVE SlotOf(k) = SlotOf(i)
  <2>1. P = {}
    <3>1. SUFFICES ASSUME P # {} PROVE FALSE
      OBVIOUS
    <3>2. l \in P /\ PastSlot(i) = l
      BY <1>2, <1>4, <3>1
    <3> HIDE DEF P
    <3> QED BY <1>1, <1>8, <3>2
  <2> QED BY <1>8, <2>1
<1>9. EhciFrom(i) \in Nat /\ PastSlot(i) \in Nat
  <2>1. S # {} => s \in Nat
    BY <1>1, <1>3
  <2>2. P # {} => l \in Nat
    BY <1>1, <1>4
  <2> HIDE DEF S, P
  <2> QED BY <1>2, <2>1, <2>2
<1> QED BY <1>5, <1>6, <1>7, <1>8, <1>9

(* A companion in the slot is one of the first ehci function. *)
LEMMA SearchPairs ==
  ASSUME WellWired(bus), NEW i \in Place, NEW a \in Place, NEW b \in Place, a >= i, Companion(bus, a, b),
         \A k \in i..a : SlotOf(k) = SlotOf(i)
  PROVE  EhciFrom(i) # 0 /\ (EhciFrom(i) > a => b = EhciFrom(i))
<1>1. /\ Len(bus.list) \in Nat /\ i \in 1..Len(bus.list) /\ a \in 1..Len(bus.list) /\ b \in 1..Len(bus.list)
      /\ a < b /\ bus.list[b].kind = "ehci"
      /\ \A k \in a..(b - 1) : bus.list[k].kind # "ehci"
      /\ \A k \in a..b : SlotOf(k) = SlotOf(a)
  BY Wiring DEF Companion, Place, SlotOf
<1>2. \A k \in i..b : SlotOf(k) = SlotOf(i)
  <2>1. SlotOf(a) = SlotOf(i)
    BY <1>1
  <2>2. ASSUME NEW k \in i..b PROVE k \in i..a \/ k \in a..b
    BY <1>1
  <2> QED BY <1>1, <2>1, <2>2
<1>3. EhciFrom(i) # 0
  <2>1. b >= i
    BY <1>1
  <2> QED BY <1>1, <1>2, <2>1, Search
<1>4. ASSUME EhciFrom(i) > a PROVE b = EhciFrom(i)
  <2> DEFINE e == EhciFrom(i)
  <2>1. e \in 1..Len(bus.list) /\ bus.list[e].kind = "ehci" /\ \A k \in i..(e - 1) : bus.list[k].kind # "ehci"
    BY <1>3, Search DEF Place
  <2> HIDE DEF e
  <2>2. ~(e < b)
    <3>1. e < b => e \in a..(b - 1)
      BY <1>1, <1>4, <2>1 DEF e
    <3> QED BY <1>1, <2>1, <3>1
  <2>3. ~(b < e)
    <3>1. b < e => b \in i..(e - 1)
      BY <1>1, <2>1
    <3> QED BY <1>1, <2>1, <3>1
  <2> QED BY <1>1, <2>1, <2>2, <2>3 DEF e
<1> QED BY <1>3, <1>4

(* A controller that was started, and an ehci one with its companions.     *)
Begun(c) == [cn EXCEPT ![c] = Started(c)]
BegunWith(c, comps) == [cn EXCEPT ![c] = [Started(c) EXCEPT !.comps = comps]]

(* Nothing else changes. *)
LEMMA RoundTypes ==
  ASSUME WellWired(bus), EnumTypes, NEW c \in Cntl, NEW comps \in SUBSET Cntl,
         NEW new, new = Begun(c) \/ new = BegunWith(c, comps)
  PROVE  /\ new \in CntlTypes /\ new[c].st = "start" /\ new[c].checks = cn[c].checks
         /\ new = Begun(c) => new[c].comps = cn[c].comps
         /\ new = BegunWith(c, comps) => new[c].comps = comps
         /\ \A k \in Cntl : new[k].lock = cn[k].lock /\ new[k].max = cn[k].max
         /\ \A k \in Cntl \ {c} : new[k] = cn[k]
<1> DEFINE T == [addr : Nat, port : Nat]
           Rec == [st : {"off", "start", "ports", "up", "down"}, inits : Nat, comps : SUBSET Cntl,
                   lock : Port \cup {"none"}, max : Nat, def : BOOLEAN,
                   tt : T, checks : Int, legacy : Int]
           g == Started(c)
           h == [g EXCEPT !.comps = comps]
<1>1. cn \in [Cntl -> Rec]
  BY DEF EnumTypes, CntlTypes
<1>2. /\ g \in Rec /\ g.st = "start" /\ g.checks = cn[c].checks /\ g.comps = cn[c].comps
      /\ g.lock = cn[c].lock /\ g.max = cn[c].max
  <2> DEFINE n == cn[c].inits + 1
  <2>1. n \in Nat /\ cn[c] \in Rec
    BY <1>1
  <2>2. g = [cn[c] EXCEPT !.st = "start", !.inits = n]
    BY DEF Started
  <2> HIDE DEF n, g, T
  <2> QED BY <2>1, <2>2
<1>3. /\ h \in Rec /\ h.st = "start" /\ h.checks = cn[c].checks /\ h.comps = comps
      /\ h.lock = cn[c].lock /\ h.max = cn[c].max
  <2> HIDE DEF g, T
  <2> QED BY <1>2
<1>4. (new = Begun(c) <=> new = [cn EXCEPT ![c] = g]) /\ (new = BegunWith(c, comps) <=> new = [cn EXCEPT ![c] = h])
  BY DEF Begun, BegunWith
<1>5. ASSUME NEW r \in Rec, new = [cn EXCEPT ![c] = r]
      PROVE  new \in CntlTypes /\ new[c] = r /\ \A k \in Cntl \ {c} : new[k] = cn[k]
  <2>1. new \in [Cntl -> Rec] /\ new[c] = r /\ \A k \in Cntl \ {c} : new[k] = cn[k]
    <3> HIDE DEF Rec
    <3> QED BY <1>1, <1>5
  <2> QED BY <2>1 DEF CntlTypes
<1>6. CASE new = [cn EXCEPT ![c] = g]
  <2>1. new \in CntlTypes /\ new[c] = g /\ \A k \in Cntl \ {c} : new[k] = cn[k]
    BY <1>2, <1>5, <1>6
  <2>2. \A k \in Cntl : new[k].lock = cn[k].lock /\ new[k].max = cn[k].max
    BY <1>2, <2>1
  <2>3. new = [cn EXCEPT ![c] = h] => new[c] = h
    BY <1>3, <1>5
  <2> QED BY <1>2, <1>3, <1>4, <2>1, <2>2, <2>3
<1>7. CASE new = [cn EXCEPT ![c] = h]
  <2>1. new \in CntlTypes /\ new[c] = h /\ \A k \in Cntl \ {c} : new[k] = cn[k]
    BY <1>3, <1>5, <1>7
  <2>2. \A k \in Cntl : new[k].lock = cn[k].lock /\ new[k].max = cn[k].max
    BY <1>3, <2>1
  <2>3. new = [cn EXCEPT ![c] = g] => new[c] = g
    BY <1>2, <1>5
  <2> QED BY <1>2, <1>3, <1>4, <2>1, <2>2, <2>3
<1> QED BY <1>4, <1>6, <1>7

(* The controller that is given its companions, and no other, is changed.  *)
LEMMA RoundWith ==
  ASSUME WellWired(bus), EnumTypes, NEW c \in Cntl, NEW comps \in SUBSET Cntl, cn' = BegunWith(c, comps)
  PROVE  /\ cn' \in CntlTypes /\ cn'[c].st = "start" /\ cn'[c].comps = comps
         /\ cn'[c].checks = cn[c].checks
         /\ \A k \in Cntl : cn'[k].lock = cn[k].lock /\ cn'[k].max = cn[k].max
         /\ \A k \in Cntl \ {c} : cn'[k] = cn[k]
<1> DEFINE new == BegunWith(c, comps)
<1>1. new = Begun(c) \/ new = BegunWith(c, comps)
  OBVIOUS
<1> HIDE DEF new
<1>2. /\ new \in CntlTypes /\ new[c].st = "start" /\ new[c].checks = cn[c].checks
      /\ new = BegunWith(c, comps) => new[c].comps = comps
      /\ \A k \in Cntl : new[k].lock = cn[k].lock /\ new[k].max = cn[k].max
      /\ \A k \in Cntl \ {c} : new[k] = cn[k]
  BY <1>1, RoundTypes
<1>3. cn' = new /\ new = BegunWith(c, comps)
  BY DEF new
<1> QED BY <1>2, <1>3

(* A round with no ehci controller to start. *)
LEMMA LegacyRound ==
  ASSUME EnumInv, bus' = bus, hub' = hub, pt' = pt, dev' = dev,
         NEW i \in Place, i = setup.pci, NEW e \in Nat, setup' = [pci |-> i + 1, ehci |-> e], LegacyInit(i),
         \A b \in Place : Companion(bus, i, b) => bus.list[b].wide,
         \A a, b \in Place : a > i /\ Companion(bus, a, b) /\ ~bus.list[b].wide => e # 0 /\ a >= e
  PROVE  EnumInv'
<1>1. /\ WellWired(bus) /\ EnumTypes /\ Apart /\ Starts /\ Order
      /\ Cntl' = Cntl /\ Hub' = Hub /\ Place' = Place /\ WellWired(bus)' /\ \A k : Nth(k)' = Nth(k)
  BY Fixed DEF EnumInv
<1>2. /\ \A k \in Place : Nth(k) \in Cntl
      /\ \A k, l \in Place : Nth(k) = Nth(l) => k = l
      /\ \A p \in Port : CntlOf(p) \in Cntl
      /\ Place \subseteq Nat
  BY <1>1, Wiring DEF Place
<1>3. cn[Nth(i)].st = "off"
  BY <1>1, <1>2 DEF Starts
<1>4. /\ cn' \in CntlTypes
      /\ \A k \in Cntl : /\ cn'[k].lock = cn[k].lock /\ cn'[k].max = cn[k].max
                         /\ cn'[k].comps = cn[k].comps /\ cn'[k].checks = cn[k].checks
                         /\ k # Nth(i) => cn'[k].st = cn[k].st
      /\ cn'[Nth(i)].st = "off" \/ (cn'[Nth(i)].st = "start" /\ bus.list[i].kind # "ehci")
  <2>1. CASE cn' = cn
    BY <1>1, <1>3, <2>1 DEF EnumTypes
  <2>2. CASE bus.list[i].kind # "ehci" /\ cn' = [cn EXCEPT ![Nth(i)] = Started(Nth(i))]
    <3> DEFINE c == Nth(i)
    <3>1. c \in Cntl /\ {} \in SUBSET Cntl /\ cn' = Begun(c)
      BY <1>2, <2>2 DEF Begun
    <3>2. /\ cn' \in CntlTypes /\ cn'[c].st = "start" /\ cn'[c].checks = cn[c].checks
          /\ cn'[c].comps = cn[c].comps
          /\ \A k \in Cntl : cn'[k].lock = cn[k].lock /\ cn'[k].max = cn[k].max
          /\ \A k \in Cntl \ {c} : cn'[k] = cn[k]
      <4> HIDE DEF c
      <4> QED BY <1>1, <3>1, RoundTypes
    <3> HIDE DEF c
    <3> QED BY <2>2, <3>1, <3>2 DEF c
  <2> QED BY <2>1, <2>2 DEF LegacyInit, Nth
<1>5. EnumTypes'
  <2>1. setup' \in [pci : Nat \ {0}, ehci : Nat]
    BY <1>2
  <2> QED BY <1>1, <1>4, <2>1 DEF EnumTypes, CntlTypes, HubTypes, PortTypes, DevTypes
<1>6. Apart'
  BY <1>1, <1>4, SameApart
<1>7. \A k \in Cntl : /\ cn'[k].st \in {"off", "start"} <=> cn[k].st \in {"off", "start"}
                      /\ cn[k].st # "off" => cn'[k].st = cn[k].st
                      /\ cn'[k].st # "off" /\ k # Nth(i) => cn[k].st # "off"
  BY <1>3, <1>4
<1>8. \A k \in Place : k < setup'.pci <=> (k < setup.pci \/ k = i)
  BY <1>2
<1>9. \A k \in Place : ~(k < setup.pci) <=> k >= setup.pci
  BY <1>1, <1>2 DEF EnumTypes
<1>10. \A k \in Place : ~(k < setup'.pci) <=> k >= setup'.pci
  BY <1>2
<1>11. \A q \in Port : ~OnHub(q) /\ cn'[CntlOf(q)].st \in {"off", "start"} => pt'[q].pc = "off"
  BY <1>1, <1>2, <1>7 DEF Starts, NotYet
<1>12. \A k \in Place : k >= setup'.pci => cn'[Nth(k)].st = "off"
  <2>1. \A k \in Place : k >= setup'.pci => k >= setup.pci /\ k # i
    BY <1>8, <1>9, <1>10
  <2> QED BY <1>1, <1>2, <1>4, <2>1 DEF Starts
<1>13. ASSUME NEW a \in Place, NEW b \in Place, Nth(a) \in cn'[Nth(b)].comps
       PROVE  /\ a < setup'.pci /\ bus.list[a].kind # "ehci" /\ cn'[Nth(b)].st # "off"
              /\ cn'[Nth(a)].st = "off" \/ (cn'[Nth(b)].checks <= 0 /\ cn'[Nth(b)].st \notin {"off", "start"})
              /\ \A k \in Place : Nth(a) \in cn'[Nth(k)].comps => k = b
  <2>1. Nth(a) \in cn[Nth(b)].comps /\ \A k \in Place : cn'[Nth(k)].comps = cn[Nth(k)].comps
    BY <1>2, <1>4, <1>13
  <2>2. /\ a < setup.pci /\ bus.list[a].kind # "ehci" /\ cn[Nth(b)].st # "off"
        /\ cn[Nth(a)].st = "off" \/ (cn[Nth(b)].checks <= 0 /\ cn[Nth(b)].st \notin {"off", "start"})
        /\ \A k \in Place : Nth(a) \in cn[Nth(k)].comps => k = b
    BY <1>1, <2>1 DEF Starts, NotYet
  <2>3. Nth(a) # Nth(i)
    <3>1. a # i
      BY <1>2, <2>2
    <3> QED BY <1>2, <3>1
  <2>4. Nth(a) \in Cntl /\ Nth(b) \in Cntl /\ a < setup'.pci
    BY <1>2, <1>8, <2>2
  <2> HIDE DEF Nth, Place
  <2> QED BY <1>4, <1>7, <2>1, <2>2, <2>3, <2>4
<1>14. Starts'
  <2> HIDE DEF Nth, Place
  <2> QED BY <1>1, <1>11, <1>12, <1>13 DEF Starts, NotYet
<1>15. \A k \in Place : bus.list[k].kind = "ehci" /\ cn'[Nth(k)].st # "off" => ~bus.list[k].wide
  <2>1. \A k \in Place : bus.list[k].kind = "ehci" /\ cn'[Nth(k)].st # "off" => cn[Nth(k)].st # "off"
    BY <1>2, <1>4
  <2> QED BY <1>1, <2>1 DEF Order
<1>16. ASSUME NEW a \in Place, NEW b \in Place, Companion(bus, a, b), ~bus.list[b].wide
       PROVE  /\ a < setup'.pci => Nth(a) \in cn'[Nth(b)].comps
              /\ a >= setup'.pci => setup'.ehci # 0 /\ a >= setup'.ehci
  <2>1. a < setup'.pci => Nth(a) \in cn'[Nth(b)].comps
    <3>1. a # i
      BY <1>16
    <3>2. a < setup'.pci => a < setup.pci
      BY <1>8, <3>1
    <3>3. cn'[Nth(b)].comps = cn[Nth(b)].comps
      BY <1>2, <1>4
    <3> QED BY <1>1, <1>16, <3>2, <3>3 DEF Order
  <2>2. a >= setup'.pci => a > i
    BY <1>2
  <2> QED BY <1>16, <2>1, <2>2
<1>17. Order'
  <2> HIDE DEF Nth, Place
  <2> QED BY <1>1, <1>15, <1>16 DEF Order
<1> QED BY <1>1, <1>5, <1>6, <1>14, <1>17 DEF EnumInv

(* A round that starts the ehci controller of the slot, with what comes     *)
(* before it as its companions.                                            *)
LEMMA EhciRound ==
  ASSUME EnumInv, bus' = bus, hub' = hub, pt' = pt, dev' = dev,
         NEW i \in Place, i = setup.pci, EhciFrom(i) # 0, ~bus.list[EhciFrom(i)].wide,
         cn' = BegunWith(Nth(EhciFrom(i)), {Nth(k) : k \in i..(EhciFrom(i) - 1)}),
         setup' = [pci |-> EhciFrom(i) + 1, ehci |-> EhciFrom(i)]
  PROVE  EnumInv'
<1> DEFINE e == EhciFrom(i)
           c == Nth(e)
           comps == {Nth(k) : k \in i..(e - 1)}
<1>1. /\ WellWired(bus) /\ EnumTypes /\ Apart /\ Starts /\ Order
      /\ Cntl' = Cntl /\ Hub' = Hub /\ Place' = Place /\ WellWired(bus)' /\ \A k : Nth(k)' = Nth(k)
  BY Fixed DEF EnumInv
<1>2. /\ \A k \in Place : Nth(k) \in Cntl
      /\ \A k, l \in Place : Nth(k) = Nth(l) => k = l
      /\ \A p \in Port : CntlOf(p) \in Cntl
      /\ Place = 1..Len(bus.list) /\ Len(bus.list) \in Nat
  BY <1>1, Wiring DEF Place
<1>3. /\ e \in Place /\ e >= i /\ bus.list[e].kind = "ehci"
      /\ \A k \in i..e : SlotOf(k) = SlotOf(i)
      /\ \A k \in i..(e - 1) : bus.list[k].kind # "ehci"
  BY <1>1, Search
<1> HIDE DEF e
<1>4. i..(e - 1) \subseteq Place /\ comps \in SUBSET Cntl /\ c \in Cntl /\ Place \subseteq Nat
  <2>1. i..(e - 1) \subseteq Place /\ Place \subseteq Nat
    BY <1>2, <1>3
  <2> HIDE DEF Nth, Place
  <2> QED BY <1>2, <1>3, <2>1
<1>5. cn[c].st = "off"
  BY <1>1, <1>3 DEF Starts
<1> HIDE DEF c, comps
<1>6. /\ cn' \in CntlTypes /\ cn'[c].st = "start" /\ cn'[c].comps = comps
      /\ \A k \in Cntl : /\ cn'[k].lock = cn[k].lock /\ cn'[k].max = cn[k].max
                         /\ cn'[k].checks = cn[k].checks
                         /\ k # c => cn'[k].st = cn[k].st /\ cn'[k].comps = cn[k].comps
  <2>1. cn' = BegunWith(c, comps)
    BY DEF c, comps, e
  <2>2. ASSUME NEW k \in Cntl, NEW s \in SUBSET Cntl, cn' = BegunWith(k, s)
        PROVE  /\ cn' \in CntlTypes /\ cn'[k].st = "start" /\ cn'[k].comps = s
               /\ cn'[k].checks = cn[k].checks
               /\ \A m \in Cntl : cn'[m].lock = cn[m].lock /\ cn'[m].max = cn[m].max
               /\ \A m \in Cntl \ {k} : cn'[m] = cn[m]
    BY <1>1, <2>2, RoundWith
  <2>3. /\ cn' \in CntlTypes /\ cn'[c].st = "start" /\ cn'[c].comps = comps
        /\ cn'[c].checks = cn[c].checks
        /\ \A m \in Cntl : cn'[m].lock = cn[m].lock /\ cn'[m].max = cn[m].max
        /\ \A m \in Cntl \ {c} : cn'[m] = cn[m]
    BY <1>4, <2>1, <2>2
  <2> QED BY <2>3
<1>7. setup' = [pci |-> e + 1, ehci |-> e] /\ setup'.pci = e + 1 /\ setup'.ehci = e
  BY DEF e
<1>8. EnumTypes'
  <2>1. setup' \in [pci : Nat \ {0}, ehci : Nat]
    BY <1>2, <1>3, <1>7
  <2> QED BY <1>1, <1>6, <2>1 DEF EnumTypes, CntlTypes, HubTypes, PortTypes, DevTypes
<1>9. Apart'
  BY <1>1, <1>6, SameApart
<1>10. \A k \in Cntl : /\ cn'[k].st \in {"off", "start"} <=> cn[k].st \in {"off", "start"}
                       /\ cn[k].st # "off" => cn'[k].st = cn[k].st
                       /\ cn'[k].st # "off" /\ k # c => cn[k].st # "off"
  BY <1>5, <1>6
<1>11. \A k \in Place : (k < setup.pci \/ k >= setup.pci) /\ (k < e + 1 <=> ~(k >= e + 1))
                        /\ (k < setup.pci => k < i /\ k < e + 1 /\ k # e) /\ (k >= e + 1 => k >= setup.pci /\ k # e)
                        /\ (k < e + 1 => k < setup.pci \/ k = e \/ k \in i..(e - 1))
  BY <1>2, <1>3
<1>12. \A q \in Port : ~OnHub(q) /\ cn'[CntlOf(q)].st \in {"off", "start"} => pt'[q].pc = "off"
  BY <1>1, <1>2, <1>10 DEF Starts, NotYet
<1>13. \A k \in Place : k # e => Nth(k) # c
  BY <1>2, <1>3 DEF c
<1>14. \A k \in Place : k >= setup'.pci => cn'[Nth(k)].st = "off"
  <2>1. ASSUME NEW k \in Place, k >= e + 1 PROVE cn'[Nth(k)].st = "off"
    <3>1. k >= setup.pci /\ Nth(k) # c /\ Nth(k) \in Cntl
      BY <1>2, <1>11, <1>13, <2>1
    <3> QED BY <1>1, <1>6, <2>1, <3>1 DEF Starts
  <2> QED BY <1>7, <2>1
<1>15. ASSUME NEW a \in Place, Nth(a) \in comps
       PROVE  a \in i..(e - 1) /\ a >= setup.pci
  <2>1. PICK k \in i..(e - 1) : Nth(a) = Nth(k)
    BY <1>15 DEF comps
  <2>2. a = k
    BY <1>2, <1>4, <2>1
  <2> QED BY <2>1, <2>2
<1>16. ASSUME NEW a \in Place, NEW b \in Place, b # e, Nth(a) \in cn'[Nth(b)].comps
       PROVE  /\ Nth(a) \in cn[Nth(b)].comps
              /\ a < setup.pci /\ bus.list[a].kind # "ehci" /\ cn[Nth(b)].st # "off"
              /\ cn[Nth(a)].st = "off" \/ (cn[Nth(b)].checks <= 0 /\ cn[Nth(b)].st \notin {"off", "start"})
              /\ \A k \in Place : Nth(a) \in cn[Nth(k)].comps => k = b
  <2>1. Nth(b) # c /\ Nth(b) \in Cntl
    BY <1>2, <1>13, <1>16
  <2>2. Nth(a) \in cn[Nth(b)].comps
    BY <1>6, <1>16, <2>1
  <2> QED BY <1>1, <2>2 DEF Starts, NotYet
<1>17. ASSUME NEW a \in Place, NEW b \in Place, Nth(a) \in cn'[Nth(b)].comps
       PROVE  /\ a < setup'.pci /\ bus.list[a].kind # "ehci" /\ cn'[Nth(b)].st # "off"
              /\ cn'[Nth(a)].st = "off" \/ (cn'[Nth(b)].checks <= 0 /\ cn'[Nth(b)].st \notin {"off", "start"})
              /\ \A k \in Place : Nth(a) \in cn'[Nth(k)].comps => k = b
  <2>1. CASE b = e
    <3>1. Nth(a) \in comps
      BY <1>6, <1>17, <2>1 DEF c
    <3>2. a \in i..(e - 1) /\ a >= setup.pci /\ a # e /\ a < e + 1 /\ ~(a < setup.pci)
      BY <1>2, <1>3, <1>15, <3>1
    <3>3. cn'[Nth(a)].st = "off"
      <4>1. Nth(a) # c /\ Nth(a) \in Cntl
        BY <1>2, <1>13, <3>2
      <4> QED BY <1>1, <1>6, <3>2, <4>1 DEF Starts
    <3>4. ASSUME NEW k \in Place, Nth(a) \in cn'[Nth(k)].comps, k # b PROVE FALSE
      BY <1>16, <2>1, <3>2, <3>4
    <3>5. bus.list[a].kind # "ehci"
      BY <1>3, <3>2
    <3>6. cn'[Nth(b)].st # "off"
      BY <1>6, <2>1 DEF c
    <3>7. a < setup'.pci
      BY <1>7, <3>2
    <3> HIDE DEF Nth, Place
    <3> QED BY <3>3, <3>4, <3>5, <3>6, <3>7
  <2>2. CASE b # e
    <3>1. /\ Nth(a) \in cn[Nth(b)].comps
          /\ a < setup.pci /\ bus.list[a].kind # "ehci" /\ cn[Nth(b)].st # "off"
          /\ cn[Nth(a)].st = "off" \/ (cn[Nth(b)].checks <= 0 /\ cn[Nth(b)].st \notin {"off", "start"})
          /\ \A k \in Place : Nth(a) \in cn[Nth(k)].comps => k = b
      BY <1>16, <1>17, <2>2
    <3>2. a < e + 1 /\ a # e /\ ~(a >= setup.pci)
      BY <1>2, <1>11, <3>1
    <3>3. Nth(a) # c /\ Nth(b) # c /\ Nth(a) \in Cntl /\ Nth(b) \in Cntl
      BY <1>2, <1>13, <2>2, <3>2
    <3>4. ASSUME NEW k \in Place, Nth(a) \in cn'[Nth(k)].comps PROVE k = b
      <4>1. CASE k = e
        <5>1. Nth(a) \in comps
          BY <1>6, <3>4, <4>1 DEF c
        <5> QED BY <1>15, <3>2, <5>1
      <4>2. CASE k # e
        BY <1>16, <3>1, <3>4, <4>2
      <4> QED BY <4>1, <4>2
    <3>5. a < setup'.pci
      BY <1>7, <3>2
    <3>6. /\ cn'[Nth(a)].st = cn[Nth(a)].st /\ cn'[Nth(b)].st = cn[Nth(b)].st
          /\ cn'[Nth(b)].checks = cn[Nth(b)].checks
      BY <1>6, <3>3
    <3> HIDE DEF Nth, Place
    <3> QED BY <3>1, <3>4, <3>5, <3>6
  <2> QED BY <2>1, <2>2
<1>18. Starts'
  <2> HIDE DEF Nth, Place
  <2> QED BY SMTT(30), <1>1, <1>12, <1>14, <1>17 DEF Starts, NotYet
<1>19. ASSUME NEW k \in Place, bus.list[k].kind = "ehci", cn'[Nth(k)].st # "off" PROVE ~bus.list[k].wide
  <2>1. CASE k = e
    BY <2>1 DEF e
  <2>2. CASE k # e
    BY <1>1, <1>2, <1>10, <1>13, <1>19, <2>2 DEF Order
  <2> QED BY <2>1, <2>2
<1>20. ASSUME NEW a \in Place, NEW b \in Place, Companion(bus, a, b), ~bus.list[b].wide
       PROVE  /\ a < setup'.pci => Nth(a) \in cn'[Nth(b)].comps
              /\ a >= setup'.pci => setup'.ehci # 0 /\ a >= setup'.ehci
  <2>1. ASSUME a < setup.pci PROVE Nth(a) \in cn'[Nth(b)].comps
    <3>1. Nth(a) \in cn[Nth(b)].comps
      BY <1>1, <1>20, <2>1 DEF Order
    <3>2. cn[Nth(b)].st # "off"
      BY <1>1, <3>1 DEF Starts
    <3>3. Nth(b) # c /\ Nth(b) \in Cntl
      BY <1>2, <1>5, <3>2
    <3> QED BY <1>6, <3>1, <3>3
  <2>2. ASSUME a \in i..(e - 1) PROVE Nth(a) \in cn'[Nth(b)].comps
    <3>1. a >= i /\ e > a /\ \A k \in i..a : SlotOf(k) = SlotOf(i)
      BY <1>2, <1>3, <2>2
    <3>2. b = e
      BY <1>1, <1>20, <3>1, SearchPairs DEF e
    <3> QED BY <1>6, <2>2, <3>2 DEF c, comps
  <2>3. a # e
    BY <1>2, <1>3, <1>20 DEF Companion
  <2>4. a >= e + 1 => e # 0 /\ a >= e
    BY <1>2, <1>3
  <2> QED BY <1>7, <1>11, <2>1, <2>2, <2>3, <2>4
<1>21. Order'
  <2> HIDE DEF Nth, Place
  <2> QED BY <1>1, <1>19, <1>20 DEF Order
<1> QED BY <1>1, <1>8, <1>9, <1>18, <1>21 DEF EnumInv

(* One round of usb_setup()'s loop. *)
LEMMA SetupKeeps ==
  ASSUME EnumInv, usb_setup
  PROVE  EnumInv'
<1> DEFINE i == setup.pci
           e == EhciFrom(i)
<1>1. /\ WellWired(bus) /\ EnumTypes /\ Starts /\ Order
      /\ bus' = bus /\ hub' = hub /\ pt' = pt /\ dev' = dev
  BY DEF EnumInv, usb_setup
<1>2. i \in Place /\ Len(bus.list) \in Nat /\ Place = 1..Len(bus.list)
  BY <1>1, Wiring DEF usb_setup, EnumTypes, Place
<1>3. e \in Nat /\ PastSlot(i) \in Nat /\ setup.ehci \in Nat
  BY <1>1, <1>2, Search DEF EnumTypes
<1>4. PICK search \in IF setup.ehci = 0 THEN BOOLEAN ELSE {i >= setup.ehci} :
        IF ~search
        THEN LegacyInit(i) /\ setup' = [setup EXCEPT !.pci = i + 1]
        ELSE IF e = 0
        THEN LegacyInit(i) /\ setup' = [pci |-> i + 1, ehci |-> PastSlot(i)]
        ELSE IF bus.list[e].wide
        THEN LegacyInit(i) /\ setup' = [pci |-> i + 1, ehci |-> e]
        ELSE /\ cn' = BegunWith(Nth(e), {Nth(k) : k \in i..(e - 1)})
             /\ setup' = [pci |-> e + 1, ehci |-> e]
  BY DEF usb_setup, BegunWith, Nth, AfterEhci
<1>5. CASE ~search
  <2>1. setup' = [pci |-> i + 1, ehci |-> setup.ehci] /\ LegacyInit(i)
    BY <1>1, <1>4, <1>5 DEF EnumTypes
  <2>2. ~(setup.ehci # 0 /\ i >= setup.ehci)
    BY <1>4, <1>5
  <2>3. \A b \in Place : Companion(bus, i, b) => bus.list[b].wide
    <3>1. i >= setup.pci
      BY <1>2
    <3> QED BY <1>1, <1>2, <2>2, <3>1 DEF Order
  <2>4. \A a, b \in Place : a > i /\ Companion(bus, a, b) /\ ~bus.list[b].wide => setup.ehci # 0 /\ a >= setup.ehci
    <3>1. \A a \in Place : a > i => a >= setup.pci
      BY <1>2
    <3> QED BY <1>1, <3>1 DEF Order
  <2> QED BY <1>1, <1>2, <1>3, <2>1, <2>3, <2>4, LegacyRound
<1>6. ASSUME NEW a \in Place, NEW b \in Place, a >= i, Companion(bus, a, b), ~bus.list[b].wide,
             \A k \in i..a : SlotOf(k) = SlotOf(i)
      PROVE  e # 0 /\ (a < e => ~bus.list[e].wide)
  BY <1>1, <1>2, <1>3, <1>6, SearchPairs
<1>7. \A k \in i..i : SlotOf(k) = SlotOf(i)
  BY <1>2
<1>8. CASE search /\ e = 0
  <2>1. setup' = [pci |-> i + 1, ehci |-> PastSlot(i)] /\ LegacyInit(i)
    BY <1>4, <1>8
  <2>2. \A b \in Place : Companion(bus, i, b) => bus.list[b].wide
    BY <1>2, <1>6, <1>7, <1>8
  <2>3. ASSUME NEW a \in Place, NEW b \in Place, a > i, Companion(bus, a, b), ~bus.list[b].wide
        PROVE  PastSlot(i) # 0 /\ a >= PastSlot(i)
    <3>1. SUFFICES ASSUME ~(PastSlot(i) # 0 /\ a >= PastSlot(i)) PROVE FALSE
      OBVIOUS
    <3>2. \A k \in i..a : SlotOf(k) = SlotOf(i)
      <4>1. CASE PastSlot(i) = 0
        <5>1. \A k \in i..Len(bus.list) : SlotOf(k) = SlotOf(i)
          BY <1>1, <1>2, <4>1, Search
        <5> QED BY <1>2, <5>1
      <4>2. CASE PastSlot(i) # 0
        <5>1. \A k \in i..(PastSlot(i) - 1) : SlotOf(k) = SlotOf(i)
          BY <1>1, <1>2, <4>2, Search
        <5> QED BY <1>2, <1>3, <3>1, <4>2, <5>1
      <4> QED BY <4>1, <4>2
    <3>3. a >= i
      BY <1>2, <2>3
    <3> QED BY <1>6, <1>8, <2>3, <3>2, <3>3
  <2> QED BY <1>1, <1>2, <1>3, <2>1, <2>2, <2>3, LegacyRound
<1>9. CASE search /\ e # 0 /\ bus.list[e].wide
  <2>1. setup' = [pci |-> i + 1, ehci |-> e] /\ LegacyInit(i)
    BY <1>4, <1>9
  <2>2. /\ e \in Place /\ e >= i /\ \A k \in i..e : SlotOf(k) = SlotOf(i)
        /\ bus.list[e].kind = "ehci"
    BY <1>1, <1>2, <1>9, Search
  <2>3. \A b \in Place : Companion(bus, i, b) => bus.list[b].wide
    <3>1. SUFFICES ASSUME NEW b \in Place, Companion(bus, i, b), ~bus.list[b].wide PROVE FALSE
      OBVIOUS
    <3>2. i \in i..(b - 1) /\ \A k \in i..(b - 1) : bus.list[k].kind # "ehci"
      BY <1>2, <3>1 DEF Companion
    <3>3. i # e
      BY <2>2, <3>2
    <3>4. i < e /\ i >= i
      BY <1>2, <2>2, <3>3
    <3> QED BY <1>2, <1>6, <1>7, <1>9, <3>1, <3>4
  <2>4. ASSUME NEW a \in Place, NEW b \in Place, a > i, Companion(bus, a, b), ~bus.list[b].wide
        PROVE  e # 0 /\ a >= e
    <3>1. SUFFICES ASSUME a < e PROVE FALSE
      BY <1>2, <1>9, <2>2
    <3>2. a >= i /\ \A k \in i..a : SlotOf(k) = SlotOf(i)
      BY <1>2, <2>2, <2>4, <3>1
    <3> QED BY <1>6, <1>9, <2>4, <3>1, <3>2
  <2> QED BY <1>1, <1>2, <1>3, <2>1, <2>3, <2>4, LegacyRound
<1>10. CASE search /\ e # 0 /\ ~bus.list[e].wide
  BY <1>1, <1>2, <1>4, <1>10, EhciRound
<1> QED BY <1>5, <1>8, <1>9, <1>10


(* A thread's move keeps everything. *)
LEMMA ThreadKeeps ==
  ASSUME EnumInv, NEW p \in Port, ThreadMove(p), NoteMove(p)
  PROVE  EnumInv'
<1>1. WellWired(bus) /\ EnumTypes /\ Apart /\ Starts /\ Order
  BY DEF EnumInv
<1>2. EnumTypes' /\ Forward(p) /\ bus' = bus
  BY DEF ThreadMove, Forward
<1>3. Apart'
  BY <1>1, MoveKeeps
<1>4. Starts' /\ Order'
  BY <1>1, <1>2, NoteKeeps
<1>5. WellWired(bus)'
  BY <1>1, <1>2, Fixed
<1> QED BY <1>2, <1>3, <1>4, <1>5 DEF EnumInv

(* The step of a port's thread, but for usb_hub_init's start of the ports. *)
LEMMA PortKeeps ==
  ASSUME EnumInv, NEW p \in Port, PortStep(p)
  PROVE  EnumInv'
<1>1. WellWired(bus) /\ EnumTypes /\ Apart /\ Starts /\ Order
  BY DEF EnumInv
<1>2. CASE usb_hub_init(p)
  <2>1. CASE /\ pt[p].pc = "hubdesc" /\ Fine
             /\ hub' = [hub EXCEPT ![DevOf(p)].left = Cardinality(PortsOf(DevOf(p)))]
             /\ pt' = [q \in Port |-> IF q = p THEN [pt[q] EXCEPT !.pc = "hubports"]
                                      ELSE IF HubOf(q) = DevOf(p) THEN [pt[q] EXCEPT !.pc = "detect"]
                                      ELSE pt[q]]
    BY <1>2, <2>1, HubPortsStart DEF usb_hub_init
  <2>2. CASE \/ pt[p].pc = "hubdesc" /\ Goto(p, "drop") /\ hub' = hub
             \/ pt[p].pc = "hubports" /\ (Goto(p, "used") \/ Goto(p, "drop")) /\ hub' = hub
    <3>1. ThreadMove(p) /\ NoteMove(p)
      BY <1>1, <1>2, <2>2, HubInitMoves DEF usb_hub_init
    <3> QED BY <1>1, <3>1, ThreadKeeps
  <2> QED BY <1>2, <2>1, <2>2 DEF usb_hub_init
<1>3. CASE ~usb_hub_init(p)
  <2>1. ThreadMove(p) /\ NoteMove(p)
    BY <1>1, <1>3, DetectMoves, EhciDetectMoves, LockMoves, ResetMoves, AddressMoves, AddressedMoves,
       RequestMoves, HubDetectMoves, HubResetMoves, DisconnectMoves, ConfigureMoves, EndMoves DEF PortStep
  <2> QED BY <1>1, <2>1, ThreadKeeps
<1> QED BY <1>2, <1>3

(* Before anything is found.                                               *)
LEMMA EnumBegins ==
  ASSUME EnumInit
  PROVE  EnumInv
<1>1. WellWired(bus)
  BY BussesAssumption DEF EnumInit
<1>2. /\ cn = [c \in Cntl |-> [st |-> "off", inits |-> 0, comps |-> {}, lock |-> "none", max |-> 0,
                              def |-> FALSE, tt |-> NoTt, checks |-> 0, legacy |-> 0]]
      /\ hub = [h \in Hub |-> [left |-> 0, count |-> 0, lock |-> "none"]]
      /\ pt = [p \in Port |-> [pc |-> "off", sent |-> FALSE, polls |-> MaxPolls]]
      /\ setup = [pci |-> 1, ehci |-> 1]
  BY DEF EnumInit
<1>3. /\ dev \in DevTypes
      /\ \A d \in Device : ~dev[d].en
  <2> DEFINE S(d) == {c \in OwnersOf(d) : Kind(c) # "ehci"}
             o(d) == IF S(d) = {} THEN "none" ELSE CHOOSE c \in S(d) : TRUE
  <2>1. \A d \in Device : o(d) \in Cntl \cup {"none"}
    <3>1. \A d \in Device : S(d) \subseteq Cntl
      BY <1>1, Wiring DEF OwnersOf
    <3> HIDE DEF S
    <3> QED BY <3>1
  <2>2. dev = [d \in Device |-> [owner |-> o(d), en |-> FALSE, addr |-> 0, cfg |-> FALSE,
                                 tt |-> NoTt, stuck |-> FALSE]]
    BY DEF EnumInit
  <2> HIDE DEF o
  <2> QED BY <2>1, <2>2 DEF DevTypes, NoTt
<1>4. EnumTypes
  <2>1. cn \in CntlTypes
    BY <1>2 DEF CntlTypes, NoTt
  <2>2. hub \in HubTypes
    BY <1>2 DEF HubTypes
  <2>3. pt \in PortTypes
    BY <1>2, UsbBounds DEF PortTypes, Stages, Early
  <2>4. setup \in [pci : Nat \ {0}, ehci : Nat]
    BY <1>2
  <2> QED BY <1>3, <2>1, <2>2, <2>3, <2>4 DEF EnumTypes
<1>5. \A p \in Port : /\ pt[p].pc = "off" /\ ~pt[p].sent /\ (Mine(p) => DevOf(p) \in Device)
                      /\ CntlOf(p) \in Cntl
  BY <1>1, <1>2, Wiring DEF Mine
<1>6. Apart
  <2>1. Locks /\ HubPorts
    BY <1>5 DEF Locks, Holds, HubPorts, Early, Held, Requests
  <2>2. Enabled
    BY <1>3 DEF Enabled
  <2>3. Addresses /\ Distinct
    BY <1>3, <1>5 DEF Addresses, Numbered, Distinct, Listening
  <2> QED BY <2>1, <2>2, <2>3 DEF Apart
<1>7. Starts /\ Order
  <2>1. \A i \in Place : Nth(i) \in Cntl /\ i >= 1
    BY <1>1, Wiring DEF Place
  <2>2. \A i \in Place : cn[Nth(i)].st = "off" /\ cn[Nth(i)].comps = {}
    BY <1>2, <2>1
  <2>3. setup.pci = 1 /\ setup.ehci = 1 /\ \A i \in Place : ~(i < setup.pci)
    BY <1>2 DEF Place
  <2> HIDE DEF Nth, Place
  <2> QED BY <1>5, <2>1, <2>2, <2>3 DEF Starts, Order
<1> QED BY <1>1, <1>4, <1>6, <1>7 DEF EnumInv

(* Every step of enumeration keeps it.                                     *)
LEMMA EnumKeeps ==
  ASSUME EnumInv, [EnumNext]_enumVars
  PROVE  EnumInv'
<1>1. CASE UNCHANGED enumVars
  <2>1. /\ WellWired(bus) /\ EnumTypes /\ Apart /\ Starts /\ Order
        /\ bus' = bus /\ setup' = setup /\ cn' = cn /\ hub' = hub /\ pt' = pt /\ dev' = dev
    BY <1>1 DEF enumVars, EnumInv
  <2>2. WellWired(bus)' /\ Cntl' = Cntl /\ Hub' = Hub
    BY <2>1, Fixed
  <2>3. EnumTypes'
    BY <2>1, <2>2 DEF EnumTypes, CntlTypes, HubTypes, PortTypes, DevTypes
  <2>4. Apart'
    BY <2>1, SameApart
  <2>5. Starts' /\ Order'
    <3>1. \A q \in Port : ~OnHub(q) /\ NotYet(CntlOf(q)) => pt'[q].pc = "off"
      BY <2>1 DEF Starts
    <3> QED BY <2>1, <3>1, SameStarts
  <2> QED BY <2>2, <2>3, <2>4, <2>5 DEF EnumInv
<1>2. CASE EnumNext
  <2>1. CASE usb_setup
    BY <2>1, SetupKeeps
  <2>2. ASSUME NEW c \in Cntl, configure(c) \/ configured(c) PROVE EnumInv'
    BY <2>2, ConfigureKeeps, ConfiguredKeeps
  <2>3. ASSUME NEW p \in Port, PortStep(p) PROVE EnumInv'
    BY <2>3, PortKeeps
  <2> QED BY <1>2, <2>1, <2>2, <2>3 DEF EnumNext
<1> QED BY <1>1, <1>2


(* Devices that listen on one controller have different addresses.         *)
LEMMA AddressesAre ==
  ASSUME EnumInv
  PROVE  AddressesApart
<1>1. WellWired(bus) /\ EnumTypes /\ Apart
  BY DEF EnumInv
<1>2. ASSUME NEW d \in Device, Listening(d)
      PROVE  \E p \in Port : DevOf(p) = d /\ Mine(p) /\ RootCntl(d) = CntlOf(p)
  <2>1. PICK p \in Port : DevOf(p) = d /\ Mine(p)
    BY <1>1, <1>2 DEF Apart, Enabled, Listening
  <2>2. d # "none"
    BY <2>1 DEF Mine
  <2>3. CASE \E r \in Port : DevOf(r) = d /\ OnHub(r)
    <3>1. \A r \in Port : DevOf(r) = d => r = p
      BY <1>1, <2>1, <2>2, <2>3, Sockets
    <3>2. (CHOOSE r \in Port : DevOf(r) = d) = p
      BY <2>1, <3>1
    <3> QED BY <2>1, <2>3, <3>2 DEF RootCntl
  <2>4. CASE ~\E r \in Port : DevOf(r) = d /\ OnHub(r)
    BY <2>1, <2>4 DEF RootCntl, Mine
  <2> QED BY <2>3, <2>4
<1>3. ASSUME NEW d \in Device, NEW e \in Device, d # e, Listening(d), Listening(e), RootCntl(d) = RootCntl(e)
      PROVE  dev[d].addr # dev[e].addr
  <2>1. PICK p \in Port : DevOf(p) = d /\ Mine(p) /\ RootCntl(d) = CntlOf(p)
    BY <1>2, <1>3
  <2>2. PICK q \in Port : DevOf(q) = e /\ Mine(q) /\ RootCntl(e) = CntlOf(q)
    BY <1>2, <1>3
  <2> QED BY <1>1, <1>3, <2>1, <2>2 DEF Apart, Distinct
<1> QED BY <1>3 DEF AddressesApart

(* A pipe is used by one port's thread at a time.                          *)
LEMMA PipesAre ==
  ASSUME EnumInv
  PROVE  PipesApart
<1>1. WellWired(bus) /\ EnumTypes /\ Apart
  BY DEF EnumInv
<1> DEFINE Addressing(p) == pt[p].pc = "address"
           Own(p) == pt[p].pc \in Transfers \cup {"hubdesc"}
<1>2. ASSUME NEW p \in Port
      PROVE  /\ CntlOf(p) \in Cntl /\ Cntl \cap Device = {}
             /\ Addressing(p) => PipeUsed(p) = CntlOf(p) /\ cn[CntlOf(p)].lock = p /\ ~pt[p].sent
             /\ pt[p].sent => PipeUsed(p) = HubOf(p) /\ hub[HubOf(p)].lock = p /\ OnHub(p) /\ HubOf(p) \in Device
                              /\ pt[p].pc # "off"
             /\ Own(p) => PipeUsed(p) = DevOf(p) /\ Mine(p) /\ DevOf(p) \in Device /\ ~pt[p].sent
             /\ PipeUsed(p) # "none" => Addressing(p) \/ pt[p].sent \/ Own(p)
  <2>1. Holds(p)
    BY <1>1 DEF Apart, Locks
  <2>2. /\ CntlOf(p) \in Cntl /\ Cntl \cap Device = {} /\ DevOf(p) \in Device \cup {"none"}
        /\ OnHub(p) => HubOf(p) \in Device
    BY <1>1, Wiring
  <2>3. Addressing(p) => PipeUsed(p) = CntlOf(p) /\ cn[CntlOf(p)].lock = p /\ ~pt[p].sent
    BY <2>1 DEF Holds, Held, Requests, PipeUsed
  <2>4. pt[p].sent => PipeUsed(p) = HubOf(p) /\ hub[HubOf(p)].lock = p /\ OnHub(p) /\ pt[p].pc # "off"
    BY <2>1 DEF Holds, Requests, PipeUsed
  <2>5. Own(p) => PipeUsed(p) = DevOf(p) /\ Mine(p) /\ ~pt[p].sent
    BY <2>1 DEF Holds, Requests, PipeUsed, Transfers, Early
  <2>6. Own(p) => DevOf(p) \in Device
    BY <2>2, <2>5 DEF Mine
  <2>7. PipeUsed(p) # "none" => Addressing(p) \/ pt[p].sent \/ Own(p)
    BY DEF PipeUsed
  <2> QED BY <2>2, <2>3, <2>4, <2>5, <2>6, <2>7
<1>3. ASSUME NEW p \in Port, NEW q \in Port, pt[p].sent, Own(q), HubOf(p) = DevOf(q) PROVE FALSE
  <2>1. OnHub(p) /\ pt[p].pc # "off" /\ Mine(q)
    BY <1>2, <1>3
  <2>2. PICK r \in Port : DevOf(r) = HubOf(p) /\ Mine(r) /\ pt[r].pc \in Beyond
    BY <1>1, <2>1 DEF Apart, HubPorts
  <2>3. r = q
    BY <1>1, <1>3, <2>1, <2>2, OneMine
  <2> QED BY <1>3, <2>2, <2>3 DEF Beyond, Transfers
<1>4. ASSUME NEW p \in Port, NEW q \in Port, p # q, PipeUsed(p) # "none", PipeUsed(p) = PipeUsed(q)
      PROVE  FALSE
  <2> HIDE DEF Addressing, Own
  <2>1. Addressing(p) \/ pt[p].sent \/ Own(p)
    BY <1>2, <1>4
  <2>2. Addressing(q) \/ pt[q].sent \/ Own(q)
    BY <1>2, <1>4
  <2>3. CASE Addressing(p)
    <3>1. PipeUsed(p) \in Cntl /\ ~(PipeUsed(p) \in Device)
      BY <1>2, <2>3
    <3>2. Addressing(q)
      BY <1>2, <1>4, <2>2, <3>1
    <3> QED BY <1>2, <1>4, <2>3, <3>2
  <2>4. CASE pt[p].sent
    <3>1. PipeUsed(p) = HubOf(p) /\ hub[HubOf(p)].lock = p /\ HubOf(p) \in Device
      BY <1>2, <2>4
    <3>2. CASE Addressing(q)
      <4>1. PipeUsed(q) \in Cntl /\ Cntl \cap Device = {}
        BY <1>2, <3>2
      <4> QED BY <1>4, <3>1, <4>1
    <3>3. CASE pt[q].sent
      <4>1. PipeUsed(q) = HubOf(q) /\ hub[HubOf(q)].lock = q
        BY <1>2, <3>3
      <4> QED BY <1>4, <3>1, <4>1
    <3>4. CASE Own(q)
      <4>1. PipeUsed(q) = DevOf(q)
        BY <1>2, <3>4
      <4> QED BY <1>3, <1>4, <2>4, <3>1, <3>4, <4>1
    <3> QED BY <2>2, <3>2, <3>3, <3>4
  <2>5. CASE Own(p)
    <3>1. PipeUsed(p) = DevOf(p) /\ Mine(p) /\ DevOf(p) \in Device
      BY <1>2, <2>5
    <3>2. CASE Addressing(q)
      <4>1. PipeUsed(q) \in Cntl /\ Cntl \cap Device = {}
        BY <1>2, <3>2
      <4> QED BY <1>4, <3>1, <4>1
    <3>3. CASE pt[q].sent
      <4>1. PipeUsed(q) = HubOf(q)
        BY <1>2, <3>3
      <4> QED BY <1>3, <1>4, <2>5, <3>1, <3>3, <4>1
    <3>4. CASE Own(q)
      <4>1. PipeUsed(q) = DevOf(q) /\ Mine(q)
        BY <1>2, <3>4
      <4> QED BY <1>1, <1>4, <3>1, <4>1, OneMine
    <3> QED BY <2>2, <3>2, <3>3, <3>4
  <2> QED BY <2>1, <2>3, <2>4, <2>5
<1> QED BY <1>4 DEF PipesApart

(* Devices that listen have different addresses, and a control pipe has    *)
(* one transfer at a time, on every machine that is wired as machines are. *)
THEOREM AddressesKeepApart == EnumSpec => []TransfersApart
<1>1. EnumInit => EnumInv
  BY EnumBegins
<1>2. EnumInv /\ [EnumNext]_enumVars => EnumInv'
  BY EnumKeeps
<1>3. EnumInv => TransfersApart
  BY AddressesAre, PipesAre DEF TransfersApart
<1> QED BY <1>1, <1>2, <1>3, PTL DEF EnumSpec


-----------------------------------------------------------------------------
(* What the hubs count.                                                    *)

(* The ports of a hub whose threads run, and those with a device in use.   *)
Busy(h) == {p \in PortsOf(h) : pt[p].pc \notin {"off", "done"}}
Served(h) == {p \in PortsOf(h) : InUse(p)}

(* A device in use was found at a port whose thread is through.            *)
Configured == \A d \in Device : dev[d].cfg => \E q \in Port : DevOf(q) = d /\ Mine(q) /\ pt[q].pc = "done"

(* Who is set up as what. *)
Driven(p) == pt[p].pc \in {"msc", "protocol", "idle"} => ClassOf(p) # "hub"
Drivers == \A p \in Port : Driven(p)

(* What the device count was when it was looked at: it does not change     *)
(* after the last thread of the hub's ports.                               *)
CntlsKept ==
  \A c \in Cntl : cn[c].st \in {"up", "down"} =>
    hub[c].left = 0 /\ (cn[c].st = "up" <=> hub[c].count > 0)
KeptAt(q) ==
  LET d == DevOf(q)  IN
  /\ pt[q].pc = "used" => hub[d].left = 0 /\ hub[d].count > 0
  /\ pt[q].pc \in {"drop", "disable", "done"} => hub[d].left = 0 /\ (dev[d].cfg <=> hub[d].count > 0)
HubsKeptAt == \A q \in Port : DevOf(q) \in Hub /\ Mine(q) => KeptAt(q)

CountInv == EnumInv /\ Configured /\ HubsCounted /\ Drivers /\ CntlsKept /\ HubsKeptAt

(* Counts are numbers of ports. *)
LEMMA Counting ==
  ASSUME WellWired(bus), HubsCounted, NEW h \in Hub
  PROVE  /\ IsFiniteSet(Busy(h)) /\ IsFiniteSet(Served(h))
         /\ hub[h].left = Cardinality(Busy(h)) /\ hub[h].count = Cardinality(Served(h))
         /\ hub[h].left \in Nat /\ hub[h].count \in Nat
         /\ hub[h].left = 0 <=> Busy(h) = {}
         /\ hub[h].count = 0 <=> Served(h) = {}
<1>1. IsFiniteSet(PortsOf(h))
  <2>1. IsFiniteSet(Port) /\ PortsOf(h) \subseteq Port
    BY DEF WellWired, PortsOf
  <2> QED BY <2>1, FS_Subset
<1>2. IsFiniteSet(Busy(h)) /\ IsFiniteSet(Served(h))
  <2>1. Busy(h) \subseteq PortsOf(h) /\ Served(h) \subseteq PortsOf(h)
    BY DEF Busy, Served
  <2> QED BY <1>1, <2>1, FS_Subset
<1>3. hub[h].left = Cardinality(Busy(h)) /\ hub[h].count = Cardinality(Served(h))
  BY DEF HubsCounted, Busy, Served
<1> QED BY <1>2, <1>3, FS_CardinalityType, FS_EmptySet

(* A device whose port is not through is not in use. *)
LEMMA Unused ==
  ASSUME WellWired(bus), Configured, NEW p \in Port, pt[p].pc # "done", Mine(p)
  PROVE  DevOf(p) \in Device /\ ~dev[DevOf(p)].cfg
<1>1. DevOf(p) \in Device
  BY Wiring DEF Mine
<1>2. ASSUME dev[DevOf(p)].cfg PROVE FALSE
  <2>1. PICK q \in Port : DevOf(q) = DevOf(p) /\ Mine(q) /\ pt[q].pc = "done"
    BY <1>1, <1>2 DEF Configured
  <2> QED BY <2>1, OneMine
<1> QED BY <1>1, <1>2

(* In use is a device at the port where it is handled. *)
LEMMA UsedIs == ASSUME NEW p \in Port PROVE InUse(p) <=> Mine(p) /\ dev[DevOf(p)].cfg
BY DEF InUse, Connected, Mine

(* The ports of a hub are off until the thread of its own port starts them. *)
LEMMA PortsOff ==
  ASSUME WellWired(bus), HubPorts, NEW p \in Port, Mine(p), DevOf(p) \in Hub, pt[p].pc \notin Beyond
  PROVE  \A q \in PortsOf(DevOf(p)) : pt[q].pc = "off"
<1>1. DevOf(p) \in Device /\ DevOf(p) \notin Cntl
  BY Wiring DEF Mine
<1>2. SUFFICES ASSUME NEW q \in Port, HubOf(q) = DevOf(p), pt[q].pc # "off" PROVE FALSE
  BY DEF PortsOf
<1>3. OnHub(q)
  BY <1>1, <1>2
<1>4. PICK r \in Port : DevOf(r) = HubOf(q) /\ Mine(r) /\ pt[r].pc \in Beyond
  BY <1>2, <1>3 DEF HubPorts
<1> QED BY <1>2, <1>4, OneMine

(* So it has counted nothing. *)
LEMMA NothingYet ==
  ASSUME CountInv, NEW p \in Port, Mine(p), DevOf(p) \in Hub, pt[p].pc \notin Beyond
  PROVE  hub[DevOf(p)].left = 0 /\ hub[DevOf(p)].count = 0 /\ (pt[p].pc # "off" => HubOf(p) # DevOf(p))
<1>1. /\ WellWired(bus) /\ HubPorts /\ Configured /\ HubsCounted
  BY DEF CountInv, EnumInv, Apart
<1>2. \A q \in PortsOf(DevOf(p)) : q \in Port /\ pt[q].pc = "off"
  BY <1>1, PortsOff DEF PortsOf
<1>3. Busy(DevOf(p)) = {}
  BY <1>2 DEF Busy
<1>4. Served(DevOf(p)) = {}
  <2>1. ASSUME NEW q \in PortsOf(DevOf(p)), InUse(q) PROVE FALSE
    BY <1>1, <1>2, <2>1, Unused, UsedIs
  <2> QED BY <2>1 DEF Served
<1>5. hub[DevOf(p)].left = 0 /\ hub[DevOf(p)].count = 0
  BY <1>1, <1>3, <1>4, Counting
<1> QED BY <1>2, <1>5 DEF PortsOf

(* A step changes no counts of hubs, and what devices are in use; or it is *)
(* the end of the thread.                                                  *)
HubsSame == \A h \in Hub : hub'[h].left = hub[h].left /\ hub'[h].count = hub[h].count
SameUse == \A d \in Device : dev'[d].cfg = dev[d].cfg
Ends(p, used) ==
  /\ pt'[p].pc = "done"
  /\ \A h \in Hub \ {HubOf(p)} : hub'[h].left = hub[h].left /\ hub'[h].count = hub[h].count
  /\ hub'[HubOf(p)].left = hub[HubOf(p)].left - 1
  /\ hub'[HubOf(p)].count = hub[HubOf(p)].count + used

(* What the ways a thread goes on do to the counts. *)
LEMMA GoesCounted ==
  ASSUME WellWired(bus), EnumTypes, NEW p \in Port, NEW pc
  PROVE  /\ Goto(p, pc) => pt'[p].pc = pc
         /\ hub' = hub => HubsSame
         /\ Answered(p, pc) => pt'[p].pc = pc /\ HubsSame
         /\ AnsweredLast(p) => Ends(p, 0)
         /\ Finish(p, 0) => Ends(p, 0)
         /\ Finish(p, 1) => Ends(p, 1)
<1> DEFINE R == [left : Int, count : Int, lock : Port \cup {"none"}]
           k == HubOf(p)
           g == hub[k]
<1>1. k \in Hub
  BY Wiring
<1>2. hub \in [Hub -> R] /\ g \in R
  BY <1>1 DEF EnumTypes, HubTypes
<1>3. pt \in [Port -> [pc : Stages, sent : BOOLEAN, polls : Int]]
  BY DEF EnumTypes, PortTypes
<1>4. Goto(p, pc) => pt'[p].pc = pc
  BY <1>3 DEF Goto
<1>5. hub' = hub => HubsSame
  BY DEF HubsSame
<1>6. ASSUME Answered(p, pc) PROVE pt'[p].pc = pc /\ HubsSame
  <2>1. pt'[p].pc = pc
    BY <1>3, <1>6 DEF Answered
  <2>2. HubsSame
    BY <1>1, <1>2, <1>6 DEF Answered, HubsSame
  <2> QED BY <2>1, <2>2
<1>7. ASSUME NEW f, f.left = g.left - 1, hub' = [hub EXCEPT ![k] = f]
      PROVE  /\ \A h \in Hub \ {k} : hub'[h] = hub[h]
             /\ hub'[k].left = hub[k].left - 1 /\ hub'[k].count = f.count
  <2> HIDE DEF R, k
  <2> QED BY <1>1, <1>2, <1>7
<1>8. ASSUME AnsweredLast(p) PROVE Ends(p, 0)
  <2> DEFINE free == [g EXCEPT !.lock = "none"]
             held == [hub EXCEPT ![k] = free]
             f == [free EXCEPT !.left = free.left - 1]
  <2>1. free \in R /\ free.left = g.left /\ free.count = g.count
    <3>1. "none" \in Port \cup {"none"}
      OBVIOUS
    <3> HIDE DEF g
    <3> QED BY <1>2, <3>1
  <2>2. f.left = g.left - 1 /\ f.count = g.count
    <3> HIDE DEF free, g
    <3> QED BY <2>1
  <2>3. hub' = [held EXCEPT ![k].left = @ - 1]
    BY <1>8 DEF AnsweredLast
  <2>4. held[k] = free /\ held = [hub EXCEPT ![k] = free]
    BY <1>1, <1>2
  <2>5. hub' = [held EXCEPT ![k] = f]
    <3> HIDE DEF R, k, g, free, held
    <3> QED BY <2>3, <2>4
  <2>6. hub' = [hub EXCEPT ![k] = f]
    <3> HIDE DEF R, k, g, free, f
    <3> QED BY <1>1, <1>2, <2>5
  <2>7. pt'[p].pc = "done"
    BY <1>3, <1>8 DEF AnsweredLast
  <2> HIDE DEF f, R, k
  <2>8. /\ \A h \in Hub \ {k} : hub'[h] = hub[h]
        /\ hub'[k].left = hub[k].left - 1 /\ hub'[k].count = hub[k].count
    BY <1>7, <2>2, <2>6
  <2>9. hub[k].count \in Int
    BY <1>2 DEF R
  <2> QED BY <2>7, <2>8, <2>9 DEF Ends, k
<1>9. ASSUME NEW used \in {0, 1}, Finish(p, used) PROVE Ends(p, used)
  <2> DEFINE f == [g EXCEPT !.left = g.left - 1, !.count = g.count + used]
  <2>1. f.left = g.left - 1 /\ f.count = g.count + used
    <3>1. \A r \in R : \A m, n : LET z == [r EXCEPT !.left = m, !.count = n]  IN z.left = m /\ z.count = n
      OBVIOUS
    <3> HIDE DEF g, R
    <3> QED BY <1>2, <3>1
  <2>2. hub' = [hub EXCEPT ![k] = f]
    BY <1>9 DEF Finish
  <2>3. pt'[p].pc = "done"
    BY <1>3, <1>9 DEF Finish
  <2> HIDE DEF f, R, k
  <2>4. /\ \A h \in Hub \ {k} : hub'[h] = hub[h]
        /\ hub'[k].left = hub[k].left - 1 /\ hub'[k].count = hub[k].count + used
    BY <1>7, <2>1, <2>2
  <2> QED BY <2>3, <2>4 DEF Ends, k
<1> QED BY <1>4, <1>5, <1>6, <1>8, <1>9

(* Of what steps do to a device only the end of its setup puts it in use.  *)
LEMMA UseStays ==
  ASSUME EnumTypes, NEW d
  PROVE  /\ dev' = dev \/ dev' = Off(d) \/ dev' = Reset0(d) => SameUse
         /\ \A c : dev' = GivenAway(c, d) => SameUse
         /\ \A a : dev' = [dev EXCEPT ![d].addr = a] => SameUse
         /\ \A t : dev' = [dev EXCEPT ![d].tt = t] => SameUse
         /\ \A s : dev' = [dev EXCEPT ![d].stuck = s] => SameUse
<1>1. dev \in [Device -> [owner : Cntl \cup {"none"}, en : BOOLEAN, addr : Nat, cfg : BOOLEAN,
                         tt : [addr : Nat, port : Nat], stuck : BOOLEAN]]
  BY DEF EnumTypes, DevTypes
<1>2. dev' = dev => SameUse
  BY DEF SameUse
<1>3. dev' = Off(d) => SameUse
  BY <1>1 DEF SameUse, Off
<1>4. dev' = Reset0(d) => SameUse
  <2> DEFINE g == dev[d]
             r == [g EXCEPT !.en = TRUE, !.addr = 0]
  <2>1. SUFFICES ASSUME dev' = [dev EXCEPT ![d] = r], d \in Device PROVE dev'[d].cfg = g.cfg
    BY <1>1 DEF SameUse, Reset0
  <2>2. r.cfg = g.cfg
    <3>1. g \in [owner : Cntl \cup {"none"}, en : BOOLEAN, addr : Nat, cfg : BOOLEAN,
                 tt : [addr : Nat, port : Nat], stuck : BOOLEAN]
      BY <1>1, <2>1
    <3> HIDE DEF g
    <3> QED BY <3>1
  <2> HIDE DEF r, g
  <2> QED BY <1>1, <2>1, <2>2
<1>5. ASSUME NEW c, dev' = GivenAway(c, d) PROVE SameUse
  <2>1. PICK o : dev' = [dev EXCEPT ![d].owner = o]
    BY <1>5 DEF GivenAway
  <2> QED BY <1>1, <2>1 DEF SameUse
<1>6. ASSUME NEW a, dev' = [dev EXCEPT ![d].addr = a] PROVE SameUse
  BY <1>1, <1>6 DEF SameUse
<1>7. ASSUME NEW t, dev' = [dev EXCEPT ![d].tt = t] PROVE SameUse
  BY <1>1, <1>7 DEF SameUse
<1>8. ASSUME NEW s, dev' = [dev EXCEPT ![d].stuck = s] PROVE SameUse
  BY <1>1, <1>8 DEF SameUse
<1> QED BY <1>2, <1>3, <1>4, <1>5, <1>6, <1>7, <1>8

(* What the step of a thread means for the counts. *)
Outcome(p) ==
  /\ pt[p].pc \notin {"off", "done"}
  /\ \/ pt[p].pc # "used" /\ pt'[p].pc \notin {"off", "done"} /\ HubsSame /\ SameUse
     \/ pt[p].pc # "used" /\ Ends(p, 0) /\ SameUse
     \/ pt[p].pc = "used" /\ Ends(p, 1) /\ dev' = [dev EXCEPT ![DevOf(p)].cfg = TRUE]
  /\ pt'[p].pc \in {"msc", "protocol", "idle"} => ClassOf(p) # "hub"
  /\ pt'[p].pc = "used" /\ ClassOf(p) = "hub" => pt[p].pc = "hubports"
  /\ pt[p].pc = "hubports" =>
       /\ pt'[p].pc \in {"used", "drop"}
       /\ hub[DevOf(p)].left = 0 /\ (pt'[p].pc = "used" <=> hub[DevOf(p)].count > 0)

(* Before the drivers' setup, and after it, nothing is counted but ends.   *)
Simple == {"power", "powered", "status", "lock", "reset", "rst", "rststatus", "address", "addressed",
           "info8", "drop", "disable"}
LEMMA SimpleOutcome ==
  ASSUME WellWired(bus), EnumTypes, NEW p \in Port, SameUse,
         pt[p].pc \notin {"off", "done", "used", "hubports"},
         \/ \E pc \in Simple : (Goto(p, pc) /\ hub' = hub) \/ Answered(p, pc)
         \/ AnsweredLast(p) \/ Finish(p, 0)
  PROVE  Outcome(p)
<1>1. CASE \E pc \in Simple : (Goto(p, pc) /\ hub' = hub) \/ Answered(p, pc)
  <2>1. PICK pc \in Simple : (Goto(p, pc) /\ hub' = hub) \/ Answered(p, pc)
    BY <1>1
  <2>2. pt'[p].pc = pc /\ HubsSame
    BY <2>1, GoesCounted
  <2> QED BY <2>2 DEF Outcome, Simple
<1>2. CASE AnsweredLast(p) \/ Finish(p, 0)
  <2>1. Ends(p, 0)
    BY <1>2, GoesCounted
  <2>2. pt'[p].pc = "done"
    BY <2>1 DEF Ends
  <2> QED BY <2>1, <2>2 DEF Outcome
<1> QED BY <1>1, <1>2

(* A port is given up, or its device addressed. *)
LEMMA RefuseWays ==
  ASSUME NEW p \in Port, NEW given, Refuse(p, given)
  PROVE  \/ \E pc \in Simple : (Goto(p, pc) /\ hub' = hub) \/ Answered(p, pc)
         \/ AnsweredLast(p) \/ Finish(p, 0)
BY DEF Refuse, Simple
LEMMA SetAddressWays ==
  ASSUME EnumTypes, NEW p \in Port, NEW given, SetAddress(p, given)
  PROVE  /\ \/ \E pc \in Simple : (Goto(p, pc) /\ hub' = hub) \/ Answered(p, pc)
            \/ AnsweredLast(p) \/ Finish(p, 0)
         /\ SameUse
<1>1. dev' = Reset0(DevOf(p)) \/ dev' = Off(DevOf(p))
  BY DEF SetAddress, Reset0
<1>2. Refuse(p, given) \/ (Goto(p, "address") /\ hub' = hub)
  BY DEF SetAddress
<1>3. SameUse
  BY <1>1, UseStays
<1> QED BY <1>2, <1>3, RefuseWays DEF Simple

(* The steps up to the setup of the drivers. *)
LEMMA EarlyOutcome ==
  ASSUME WellWired(bus), EnumTypes, NEW p \in Port,
         detect(p) \/ ehci_hub_detect(p) \/ lock_port(p) \/ reset(p) \/ set_address(p) \/ usb_set_address(p)
  PROVE  Outcome(p)
<1> DEFINE d == DevOf(p)
           Ways == \/ \E pc \in Simple : (Goto(p, pc) /\ hub' = hub) \/ Answered(p, pc)
                   \/ AnsweredLast(p) \/ Finish(p, 0)
<1>1. SUFFICES Ways /\ SameUse
  <2>1. pt[p].pc \notin {"off", "done", "used", "hubports"}
    BY DEF detect, ehci_hub_detect, lock_port, reset, set_address, usb_set_address
  <2> QED BY <2>1, SimpleOutcome
<1>2. CASE detect(p)
  <2>1. Ways /\ dev' = dev
    BY <1>2 DEF detect, Simple
  <2> QED BY <2>1, UseStays
<1>3. CASE ehci_hub_detect(p)
  <2>1. Ways /\ (dev' = dev \/ dev' = GivenAway(CntlOf(p), d))
    BY <1>3 DEF ehci_hub_detect, Simple
  <2> QED BY <2>1, UseStays
<1>4. CASE lock_port(p)
  <2>1. \/ dev' = dev /\ hub' = hub /\ (Goto(p, "rst") \/ Goto(p, "reset"))
        \/ SetAddress(p, Locked(p))
    BY <1>4 DEF lock_port
  <2> QED BY <2>1, UseStays, SetAddressWays DEF Simple
<1>5. CASE reset(p)
  <2>1. \/ SetAddress(p, cn) \/ SetAddress(p, ehci_note_port(CntlOf(p), 0))
        \/ Refuse(p, cn) /\ dev' = Off(d)
        \/ Refuse(p, ehci_note_port(CntlOf(p), 1)) /\ dev' = GivenAway(CntlOf(p), d)
    BY <1>5 DEF reset
  <2> QED BY <2>1, UseStays, SetAddressWays, RefuseWays
<1>6. CASE set_address(p)
  <2>1. /\ dev' = dev \/ dev' = Off(d) \/ dev' = [dev EXCEPT ![d].addr = cn[CntlOf(p)].max + 1]
        /\ (Goto(p, "addressed") /\ hub' = hub) \/ Refuse(p, cn)
    BY <1>6 DEF set_address
  <2>2. SameUse
    BY <2>1, UseStays
  <2> QED BY <2>1, <2>2, RefuseWays DEF Simple
<1>7. CASE usb_set_address(p)
  <2>1. /\ dev' = dev \/ dev' = Off(d) \/ dev' = [dev EXCEPT ![d].tt = cn[CntlOf(p)].tt]
        /\ (Goto(p, "info8") /\ hub' = hub) \/ Refuse(p, Counted(CntlOf(p)))
    BY <1>7 DEF usb_set_address
  <2>2. SameUse
    BY <2>1, UseStays
  <2> QED BY <2>1, <2>2, RefuseWays DEF Simple
<1> QED BY <1>2, <1>3, <1>4, <1>5, <1>6, <1>7

(* A request to a hub only takes its lock, and so does one more poll. *)
LEMMA RequestOutcome ==
  ASSUME WellWired(bus), EnumTypes, NEW p \in Port, hub_request(p)
  PROVE  Outcome(p)
<1>1. /\ pt[p].pc \in Requests /\ pt' = [pt EXCEPT ![p].sent = TRUE]
      /\ hub' = [hub EXCEPT ![HubOf(p)].lock = p] /\ dev' = dev
  BY DEF hub_request
<1>2. pt'[p].pc = pt[p].pc
  BY <1>1 DEF EnumTypes, PortTypes
<1>3. HubsSame
  BY <1>1 DEF HubsSame, EnumTypes, HubTypes
<1>4. SameUse
  BY <1>1, UseStays
<1> QED BY <1>1, <1>2, <1>3, <1>4 DEF Outcome, Requests

(* The answers of a hub. *)
LEMMA AnswerOutcome ==
  ASSUME WellWired(bus), EnumTypes, NEW p \in Port,
         usb_hub_detect(p) \/ usb_hub_reset(p) \/ usb_hub_disconnect(p)
  PROVE  Outcome(p)
<1> DEFINE d == DevOf(p)
<1>1. CASE /\ usb_hub_detect(p) /\ pt[p].pc = "status"
           /\ pt' = [pt EXCEPT ![p].polls = @ - 1, ![p].sent = FALSE]
           /\ hub' = [hub EXCEPT ![HubOf(p)].lock = "none"]
  <2>1. pt'[p].pc = pt[p].pc
    <3> DEFINE n == pt[p].polls - 1
    <3>1. pt' = [pt EXCEPT ![p].polls = n, ![p].sent = FALSE]
      BY <1>1 DEF EnumTypes, PortTypes
    <3> HIDE DEF n
    <3> QED BY <3>1 DEF EnumTypes, PortTypes
  <2>2. HubsSame
    BY <1>1 DEF HubsSame, EnumTypes, HubTypes
  <2>3. SameUse
    BY <1>1, UseStays DEF usb_hub_detect
  <2> QED BY <1>1, <2>1, <2>2, <2>3 DEF Outcome
<1>2. CASE usb_hub_detect(p) /\ (Answered(p, "status") \/ Answered(p, "lock") \/ AnsweredLast(p))
  <2>1. SameUse /\ pt[p].pc \notin {"off", "done", "used", "hubports"}
    BY <1>2, UseStays DEF usb_hub_detect, At
  <2> QED BY <1>2, <2>1, SimpleOutcome DEF Simple
<1>3. CASE usb_hub_reset(p)
  <2>1. /\ dev' = dev \/ dev' = Reset0(d)
        /\ Answered(p, "rststatus") \/ Answered(p, "disable") \/ Answered(p, "address")
        /\ pt[p].pc \notin {"off", "done", "used", "hubports"}
    BY <1>3 DEF usb_hub_reset, At
  <2>2. SameUse
    BY <2>1, UseStays
  <2> QED BY <2>1, <2>2, SimpleOutcome DEF Simple
<1>4. CASE usb_hub_disconnect(p)
  <2>1. /\ dev' = Off(d) \/ dev' = [dev EXCEPT ![d].stuck = dev[d].en]
        /\ AnsweredLast(p) /\ pt[p].pc \notin {"off", "done", "used", "hubports"}
    BY <1>4 DEF usb_hub_disconnect, At
  <2>2. SameUse
    BY <2>1, UseStays
  <2> QED BY <2>1, <2>2, SimpleOutcome
<1> QED BY <1>1, <1>2, <1>3, <1>4 DEF usb_hub_detect, At

(* configure_usb_device() and the drivers' setup. *)
LEMMA SetupOutcome ==
  ASSUME WellWired(bus), EnumTypes, NEW p \in Port, Driven(p), configure_usb_device(p)
  PROVE  Outcome(p)
<1>1. pt[p].pc \in Transfers /\ hub' = hub /\ dev' = dev
  BY DEF configure_usb_device
<1>2. /\ Driver(p) \in {"hubdesc", "msc", "drop", "protocol"}
      /\ Driver(p) \in {"msc", "protocol"} => ClassOf(p) # "hub"
  BY DEF Driver
<1>3. /\ After(p) \in {"config8", "config", "setconfig", "hubdesc", "msc", "protocol", "idle", "used", "drop"}
      /\ After(p) \in {"msc", "protocol", "idle", "used"} => ClassOf(p) # "hub"
  BY <1>1, <1>2 DEF After, Transfers, Driven
<1>4. PICK pc \in {After(p), "drop"} : Goto(p, pc)
  BY DEF configure_usb_device
<1>5. pt'[p].pc = pc /\ HubsSame
  BY <1>1, <1>4, GoesCounted
<1>6. SameUse
  BY <1>1, UseStays
<1> QED BY <1>1, <1>3, <1>5, <1>6 DEF Outcome, Transfers

(* usb_hub_init() without a descriptor, and at its end. *)
LEMMA HubInitOutcome ==
  ASSUME WellWired(bus), EnumTypes, NEW p \in Port, dev' = dev, hub' = hub,
         \/ pt[p].pc = "hubdesc" /\ Goto(p, "drop")
         \/ /\ pt[p].pc = "hubports" /\ AllThrough(DevOf(p))
            /\ Goto(p, IF hub[DevOf(p)].count > 0 THEN "used" ELSE "drop")
  PROVE  Outcome(p)
<1>1. SameUse /\ HubsSame
  BY UseStays, GoesCounted
<1>2. CASE pt[p].pc = "hubdesc" /\ Goto(p, "drop")
  BY <1>1, <1>2, SimpleOutcome DEF Simple
<1>3. CASE /\ pt[p].pc = "hubports" /\ AllThrough(DevOf(p))
           /\ Goto(p, IF hub[DevOf(p)].count > 0 THEN "used" ELSE "drop")
  <2>1. pt'[p].pc = IF hub[DevOf(p)].count > 0 THEN "used" ELSE "drop"
    BY <1>3, GoesCounted
  <2> QED BY <1>1, <1>3, <2>1 DEF Outcome, AllThrough
<1> QED BY <1>2, <1>3

(* The end of usb_init_hub_port(). *)
LEMMA EndOutcome ==
  ASSUME WellWired(bus), EnumTypes, NEW p \in Port, usb_init_hub_port(p)
  PROVE  Outcome(p)
<1>1. CASE pt[p].pc = "used"
  <2>1. Finish(p, 1) /\ dev' = [dev EXCEPT ![DevOf(p)].cfg = TRUE]
    BY <1>1 DEF usb_init_hub_port
  <2>2. Ends(p, 1)
    BY <2>1, GoesCounted
  <2>3. pt'[p].pc = "done"
    BY <2>2 DEF Ends
  <2> QED BY <1>1, <2>1, <2>2, <2>3 DEF Outcome
<1>2. CASE pt[p].pc = "drop"
  <2>1. (Goto(p, "disable") /\ hub' = hub) \/ Finish(p, 0)
    BY <1>2 DEF usb_init_hub_port
  <2>2. SameUse
    BY <1>2, UseStays DEF usb_init_hub_port, Dropped
  <2> QED BY <1>2, <2>1, <2>2, SimpleOutcome DEF Simple
<1> QED BY <1>1, <1>2 DEF usb_init_hub_port

(* The step of a thread puts a device in use only at its own port, and     *)
(* takes none out of use.                                                  *)
LEMMA ThreadUses ==
  ASSUME EnumInv, Configured, NEW p \in Port, ThreadMove(p), Outcome(p)
  PROVE  /\ ~InUse(p) /\ (InUse(p)' <=> pt[p].pc = "used")
         /\ \A q \in Port \ {p} : InUse(q)' <=> InUse(q)
         /\ Configured'
<1> DEFINE d == DevOf(p)
<1>1. /\ WellWired(bus) /\ EnumTypes /\ bus' = bus /\ DeviceMove(p)
      /\ pt[p].pc \notin {"off", "done"} /\ \A q \in Port \ {p} : pt'[q] = pt[q]
      /\ Holds(p) /\ Cntl' = Cntl
  BY Fixed DEF EnumInv, Apart, Locks, ThreadMove, Forward, Outcome
<1>2. Mine(p) => d \in Device /\ ~dev[d].cfg
  BY <1>1, Unused
<1>3. \A q \in Port : DevOf(q) \in Device \cup {"none"}
  BY <1>1, Wiring
<1>4. CASE pt[p].pc # "used"
  <2>1. SameUse
    BY <1>4 DEF Outcome
  <2>2. \A q \in Port : Mine(q)' /\ ~(Mine(q)) => Mine(p) /\ DevOf(q) = d
    BY <1>1, <1>3 DEF DeviceMove, Mine
  <2>3. \A q \in Port : Mine(q) /\ ~(Mine(q)') => Mine(p) /\ DevOf(q) = d
    BY <1>1, <1>3 DEF DeviceMove, Mine
  <2>4. ASSUME NEW q \in Port PROVE InUse(q)' <=> InUse(q)
    <3>1. InUse(q) <=> Mine(q) /\ dev[DevOf(q)].cfg
      BY UsedIs
    <3>2. InUse(q)' <=> Mine(q)' /\ dev'[DevOf(q)].cfg
      BY <1>1 DEF InUse, Connected, Mine
    <3>3. Mine(q) \/ Mine(q)' => DevOf(q) \in Device
      BY <1>1, <1>3 DEF Mine
    <3>4. Mine(q) \/ Mine(q)' => dev'[DevOf(q)].cfg = dev[DevOf(q)].cfg
      BY <2>1, <3>3 DEF SameUse
    <3> HIDE DEF Mine, InUse
    <3> QED BY <1>2, <2>2, <2>3, <3>1, <3>2, <3>4
  <2>5. ~InUse(p)
    BY <1>2, UsedIs
  <2>6. Configured'
    <3>1. SUFFICES ASSUME NEW e \in Device, dev'[e].cfg
                   PROVE  \E q \in Port : DevOf(q) = e /\ Mine(q)' /\ pt'[q].pc = "done"
      BY <1>1 DEF Configured
    <3>2. dev[e].cfg
      BY <2>1, <3>1 DEF SameUse
    <3>3. PICK q \in Port : DevOf(q) = e /\ Mine(q) /\ pt[q].pc = "done"
      BY <3>2 DEF Configured
    <3>4. q # p /\ pt'[q].pc = "done"
      BY <1>1, <3>3
    <3>5. Mine(q)'
      BY <1>2, <2>3, <3>2, <3>3
    <3> QED BY <3>3, <3>4, <3>5
  <2> QED BY <1>4, <2>4, <2>5, <2>6
<1>5. CASE pt[p].pc = "used"
  <2>1. Mine(p) /\ Ends(p, 1) /\ dev' = [dev EXCEPT ![d].cfg = TRUE]
    BY <1>1, <1>5 DEF Outcome, Holds, Early
  <2>2. d \in Device /\ dev \in DevTypes
    BY <1>1, <1>2, <2>1 DEF EnumTypes
  <2>3. /\ dev'[d].cfg /\ dev'[d].owner = dev[d].owner
        /\ \A e \in Device \ {d} : dev'[e] = dev[e]
    BY <2>1, <2>2 DEF DevTypes
  <2>4. \A q \in Port : Mine(q)' <=> Mine(q)
    BY <1>1, <1>3, <2>3 DEF Mine
  <2>5. \A q \in Port : InUse(q)' <=> Mine(q)' /\ dev'[DevOf(q)].cfg
    BY <1>1 DEF InUse, Connected, Mine
  <2>6. ASSUME NEW q \in Port \ {p} PROVE InUse(q)' <=> InUse(q)
    <3>1. InUse(q) <=> Mine(q) /\ dev[DevOf(q)].cfg
      BY UsedIs
    <3>2. Mine(q) => DevOf(q) # d /\ DevOf(q) \in Device
      BY <1>1, <1>3, <2>1, OneMine DEF Mine
    <3> QED BY <2>3, <2>4, <2>5, <3>1, <3>2
  <2>7. ~InUse(p) /\ InUse(p)'
    BY <1>2, <2>1, <2>3, <2>4, <2>5, UsedIs
  <2>8. Configured'
    <3>1. SUFFICES ASSUME NEW e \in Device, dev'[e].cfg
                   PROVE  \E q \in Port : DevOf(q) = e /\ Mine(q)' /\ pt'[q].pc = "done"
      BY <1>1 DEF Configured
    <3>2. CASE e = d
      BY <2>1, <2>4, <3>2 DEF Ends
    <3>3. CASE e # d
      <4>1. dev[e].cfg
        BY <2>3, <3>1, <3>3
      <4>2. PICK q \in Port : DevOf(q) = e /\ Mine(q) /\ pt[q].pc = "done"
        BY <4>1 DEF Configured
      <4>3. q # p /\ pt'[q].pc = "done"
        BY <1>1, <4>2
      <4> QED BY <2>4, <4>2, <4>3
    <3> QED BY <3>2, <3>3
  <2> QED BY <1>5, <2>6, <2>7, <2>8
<1> QED BY <1>4, <1>5

(* Its end is counted, and that its device is in use. *)
LEMMA ThreadCounted ==
  ASSUME EnumInv, Configured, HubsCounted, NEW p \in Port, ThreadMove(p), Outcome(p)
  PROVE  HubsCounted'
<1>1. /\ WellWired(bus) /\ bus' = bus /\ HubOf(p) \in Hub /\ Hub' = Hub
      /\ pt[p].pc \notin {"off", "done"} /\ \A q \in Port \ {p} : pt'[q] = pt[q]
  BY Wiring, Fixed DEF EnumInv, ThreadMove, Forward, Outcome
<1>2. /\ ~InUse(p) /\ (InUse(p)' <=> pt[p].pc = "used")
      /\ \A q \in Port \ {p} : InUse(q)' <=> InUse(q)
  BY ThreadUses
<1>3. \A h : PortsOf(h)' = PortsOf(h) /\ PortsOf(h) \subseteq Port /\ (p \in PortsOf(h) <=> HubOf(p) = h)
  BY <1>1 DEF PortsOf
<1>4. ASSUME NEW h \in Hub
      PROVE  /\ hub'[h].left = Cardinality(Busy(h)') /\ hub'[h].count = Cardinality(Served(h)')
  <2>1. /\ IsFiniteSet(Busy(h)) /\ IsFiniteSet(Served(h))
        /\ hub[h].left = Cardinality(Busy(h)) /\ hub[h].count = Cardinality(Served(h))
        /\ hub[h].left \in Nat /\ hub[h].count \in Nat
    BY <1>1, Counting
  <2>2. p \in Busy(h) <=> h = HubOf(p)
    BY <1>1, <1>3 DEF Busy
  <2>3. p \notin Served(h)
    BY <1>2 DEF Served
  <2>4. CASE h = HubOf(p) /\ pt'[p].pc = "done"
    <3>1. Busy(h)' = Busy(h) \ {p}
      BY <1>1, <1>3, <2>4 DEF Busy
    <3>2. Cardinality(Busy(h)') = Cardinality(Busy(h)) - 1
      BY <2>1, <2>2, <2>4, <3>1, FS_RemoveElement
    <3>3. CASE pt[p].pc = "used"
      <4>1. Served(h)' = Served(h) \cup {p}
        BY <1>2, <1>3, <2>4, <3>3 DEF Served
      <4>2. Cardinality(Served(h)') = Cardinality(Served(h)) + 1
        BY <2>1, <2>3, <4>1, FS_AddElement
      <4> QED BY <2>1, <2>4, <3>2, <3>3, <4>2 DEF Outcome, Ends
    <3>4. CASE pt[p].pc # "used"
      <4>1. Served(h)' = Served(h)
        BY <1>2, <1>3, <3>4 DEF Served
      <4> QED BY <2>1, <2>4, <3>2, <3>4, <4>1 DEF Outcome, Ends
    <3> QED BY <3>3, <3>4
  <2>5. CASE h # HubOf(p) \/ pt'[p].pc # "done"
    <3>1. Busy(h)' = Busy(h)
      <4>1. h = HubOf(p) => pt'[p].pc \notin {"off", "done"}
        BY <2>5 DEF Outcome, Ends
      <4> QED BY <1>1, <1>3, <2>2, <4>1 DEF Busy
    <3>2. Served(h)' = Served(h)
      <4>1. h = HubOf(p) => pt[p].pc # "used"
        BY <2>5 DEF Outcome, Ends
      <4> QED BY <1>2, <1>3, <4>1 DEF Served
    <3>3. hub'[h].left = hub[h].left /\ hub'[h].count = hub[h].count
      BY <2>5 DEF Outcome, Ends, HubsSame
    <3> QED BY <2>1, <3>1, <3>2, <3>3
  <2> QED BY <2>4, <2>5
<1> QED BY <1>1, <1>4 DEF HubsCounted, Busy, Served

(* While the thread of a port runs, its hub is not through. *)
LEMMA NotThrough ==
  ASSUME WellWired(bus), HubsCounted, NEW p \in Port, pt[p].pc \notin {"off", "done"}
  PROVE  hub[HubOf(p)].left # 0
<1>1. HubOf(p) \in Hub /\ p \in Busy(HubOf(p))
  BY Wiring DEF Busy, PortsOf
<1> QED BY <1>1, Counting

(* The step of a thread leaves alone what is through. *)
LEMMA ThreadKept ==
  ASSUME CountInv, NEW p \in Port, ThreadMove(p), NoteMove(p), Outcome(p)
  PROVE  Drivers' /\ CntlsKept' /\ HubsKeptAt'
<1> DEFINE d == DevOf(p)
<1>1. /\ EnumInv /\ WellWired(bus) /\ EnumTypes /\ HubPorts /\ Configured /\ HubsCounted
      /\ bus' = bus /\ DeviceMove(p)
      /\ pt[p].pc \notin {"off", "done"} /\ \A q \in Port \ {p} : pt'[q] = pt[q]
      /\ Holds(p) /\ Cntl' = Cntl /\ Hub' = Hub
  BY Fixed DEF CountInv, EnumInv, Apart, Locks, ThreadMove, Forward, Outcome
<1>2. /\ hub[HubOf(p)].left # 0
      /\ \A h \in Hub : h # HubOf(p) => hub'[h].left = hub[h].left /\ hub'[h].count = hub[h].count
  BY <1>1, NotThrough DEF Outcome, HubsSame, Ends
<1>3. Drivers'
  BY <1>1 DEF CountInv, Drivers, Driven, Outcome, ClassOf
<1>4. CntlsKept'
  <2>1. ASSUME NEW c \in Cntl, cn'[c].st \in {"up", "down"}
        PROVE  hub'[c].left = 0 /\ (cn'[c].st = "up" <=> hub'[c].count > 0)
    <3>1. cn'[c].st = cn[c].st
      BY <1>1, <2>1 DEF NoteMove, Noted
    <3>2. hub[c].left = 0 /\ (cn[c].st = "up" <=> hub[c].count > 0)
      BY <2>1, <3>1 DEF CountInv, CntlsKept
    <3>3. c \in Hub /\ c # HubOf(p)
      BY <1>2, <3>2 DEF Hub
    <3> QED BY <1>2, <3>1, <3>2, <3>3
  <2> QED BY <1>1, <2>1 DEF CntlsKept
<1>5. ASSUME NEW q \in Port, DevOf(q) \in Hub, Mine(q)' PROVE KeptAt(q)'
  <2> DEFINE e == DevOf(q)
  <2> SUFFICES /\ pt'[q].pc = "used" => hub'[e].left = 0 /\ hub'[e].count > 0
               /\ pt'[q].pc \in {"drop", "disable", "done"} =>
                    hub'[e].left = 0 /\ (dev'[e].cfg <=> hub'[e].count > 0)
    BY <1>1 DEF KeptAt
  <2>1. e \in Device /\ (Mine(q) => ~(pt[q].pc # "done" /\ dev[e].cfg))
    <3>1. e \in Device
      BY <1>1, <1>5, Wiring DEF Mine
    <3> QED BY <1>1, <3>1, Unused
  <2>2. CASE ~Mine(q)
    <3>1. Mine(p) /\ e = d /\ q # p /\ pt[p].pc \in {"powered", "reset"}
      BY <1>1, <1>5, <2>1, <2>2 DEF DeviceMove, Mine
    <3>2. hub[e].left = 0 /\ hub[e].count = 0 /\ HubOf(p) # e
      BY <1>1, <1>5, <3>1, NothingYet DEF Beyond
    <3>3. hub'[e].left = 0 /\ hub'[e].count = 0
      BY <1>2, <1>5, <3>2
    <3>4. ~dev'[e].cfg
      BY <1>1, <2>1, <3>1, Unused DEF Outcome, SameUse
    <3>5. pt'[q].pc # "used"
      <4>1. Holds(q)
        BY <1>1 DEF EnumInv, Apart, Locks
      <4> QED BY <1>1, <2>2, <3>1, <4>1 DEF Holds, Early
    <3> QED BY <3>3, <3>4, <3>5
  <2>3. CASE Mine(q) /\ q # p
    <3>1. KeptAt(q) /\ pt'[q] = pt[q]
      BY <1>1, <1>5, <2>3 DEF CountInv, HubsKeptAt
    <3>2. CASE pt[q].pc \in {"used", "drop", "disable", "done"}
      <4>1. hub[e].left = 0 /\ e # HubOf(p)
        BY <1>2, <3>1, <3>2 DEF KeptAt
      <4>2. hub'[e].left = hub[e].left /\ hub'[e].count = hub[e].count
        BY <1>2, <1>5, <4>1
      <4>3. dev'[e].cfg = dev[e].cfg
        BY <1>1, <2>1, <2>3, OneMine DEF DeviceMove
      <4> QED BY <3>1, <4>2, <4>3 DEF KeptAt
    <3>3. CASE pt[q].pc \notin {"used", "drop", "disable", "done"}
      BY <3>1, <3>3 DEF KeptAt
    <3> QED BY <3>2, <3>3
  <2>4. CASE Mine(q) /\ q = p
    <3>1. KeptAt(p) /\ ~dev[d].cfg /\ d \in Device
      BY <1>1, <1>5, <2>1, <2>4 DEF CountInv, HubsKeptAt
    <3>2. bus.dev[d].kind = "hub"
      BY <1>1, <1>5, <2>4, Wiring DEF Hub
    <3>3. ASSUME hub[d].left = 0
          PROVE  hub'[d].left = 0 /\ hub'[d].count = hub[d].count
      BY <1>2, <1>5, <2>4, <3>3
    <3>4. hub[d].count \in Nat
      BY <1>1, <1>5, <2>4, Counting
    <3>5. CASE pt[p].pc \notin Beyond
      <4>1. hub[d].left = 0 /\ hub[d].count = 0
        BY <1>1, <1>5, <2>4, <3>5, NothingYet
      <4>2. pt'[p].pc # "used" /\ ~dev'[d].cfg
        BY <3>1, <3>2, <3>5 DEF Outcome, Beyond, ClassOf, SameUse
      <4> QED BY <2>4, <3>3, <3>4, <4>1, <4>2
    <3>6. CASE pt[p].pc = "hubports"
      <4>1. /\ pt'[p].pc \in {"used", "drop"} /\ hub[d].left = 0
            /\ pt'[p].pc = "used" <=> hub[d].count > 0
            /\ ~dev'[d].cfg
        BY <3>1, <3>6 DEF Outcome, SameUse
      <4> QED BY <2>4, <3>3, <3>4, <4>1
    <3>7. CASE pt[p].pc = "used"
      <4>1. hub[d].left = 0 /\ hub[d].count > 0 /\ pt'[p].pc = "done"
        BY <3>1, <3>7 DEF KeptAt, Outcome, Ends
      <4>2. dev'[d].cfg
        BY <1>1, <3>1, <3>7 DEF Outcome, EnumTypes, DevTypes
      <4> QED BY <2>4, <3>3, <3>4, <4>1, <4>2
    <3>8. CASE pt[p].pc \in {"drop", "disable"}
      <4>1. hub[d].left = 0 /\ (dev[d].cfg <=> hub[d].count > 0)
        BY <3>1, <3>8 DEF KeptAt
      <4>2. pt'[p].pc # "used" /\ dev'[d].cfg = dev[d].cfg
        BY <3>1, <3>2, <3>8 DEF Outcome, ClassOf, SameUse
      <4> QED BY <2>4, <3>3, <3>4, <4>1, <4>2
    <3> QED BY <1>1, <3>5, <3>6, <3>7, <3>8 DEF Beyond
  <2> QED BY <2>2, <2>3, <2>4
<1> QED BY <1>1, <1>3, <1>4, <1>5 DEF HubsKeptAt

(* The counts in a step of usb_setup() or of a controller's thread. *)
LEMMA CntlCounted ==
  ASSUME CountInv, bus' = bus, pt' = pt, hub' = hub, dev' = dev,
         \A c \in Cntl : cn'[c].st \in {"up", "down"} =>
           \/ cn'[c].st = cn[c].st
           \/ hub[c].left = 0 /\ (cn'[c].st = "up" <=> hub[c].count > 0)
  PROVE  Configured' /\ HubsCounted' /\ Drivers' /\ CntlsKept' /\ HubsKeptAt'
<1>1. Cntl' = Cntl /\ Hub' = Hub
  BY Fixed
<1>2. \A p \in Port : (Mine(p)' <=> Mine(p)) /\ (InUse(p)' <=> InUse(p))
  BY <1>1 DEF Mine, InUse, Connected
<1>3. Configured'
  BY <1>2 DEF CountInv, Configured
<1>4. HubsCounted'
  <2>1. \A h : Busy(h)' = Busy(h) /\ Served(h)' = Served(h)
    BY <1>2 DEF Busy, Served, PortsOf
  <2>2. \A h \in Hub : hub[h].left = Cardinality(Busy(h)) /\ hub[h].count = Cardinality(Served(h))
    BY DEF CountInv, HubsCounted, Busy, Served
  <2>3. \A h \in Hub : hub'[h].left = Cardinality(Busy(h)') /\ hub'[h].count = Cardinality(Served(h)')
    BY <2>1, <2>2
  <2> QED BY <1>1, <2>3 DEF HubsCounted, Busy, Served
<1>5. Drivers'
  BY DEF CountInv, Drivers, Driven, ClassOf
<1>6. CntlsKept'
  BY <1>1 DEF CountInv, CntlsKept
<1>7. HubsKeptAt'
  BY <1>1, <1>2 DEF CountInv, HubsKeptAt, KeptAt
<1> QED BY <1>3, <1>4, <1>5, <1>6, <1>7

(* A hub's ports start. *)
LEMMA HubStartCounted ==
  ASSUME CountInv, NEW p \in Port, pt[p].pc = "hubdesc", bus' = bus, cn' = cn, dev' = dev,
         hub' = [hub EXCEPT ![DevOf(p)].left = Cardinality(PortsOf(DevOf(p)))],
         pt' = [q \in Port |-> IF q = p THEN [pt[q] EXCEPT !.pc = "hubports"]
                               ELSE IF HubOf(q) = DevOf(p) THEN [pt[q] EXCEPT !.pc = "detect"]
                               ELSE pt[q]]
  PROVE  Configured' /\ HubsCounted' /\ Drivers' /\ CntlsKept' /\ HubsKeptAt'
<1> DEFINE d == DevOf(p)
<1>1. /\ EnumInv /\ WellWired(bus) /\ EnumTypes /\ HubPorts /\ Configured /\ HubsCounted
      /\ Cntl' = Cntl /\ Hub' = Hub /\ Holds(p)
  BY Fixed DEF CountInv, EnumInv, Apart, Locks
<1>2. Mine(p) /\ d \in Device /\ d \notin Cntl
  BY <1>1, Wiring DEF Holds, Early, Mine
<1>3. ASSUME NEW q \in Port, HubOf(q) = d PROVE q # p /\ pt[q].pc = "off"
  <2>1. pt[q].pc = "off"
    <3>1. SUFFICES ASSUME pt[q].pc # "off" PROVE FALSE
      OBVIOUS
    <3>2. PICK r \in Port : DevOf(r) = d /\ Mine(r) /\ pt[r].pc \in Beyond
      BY <1>1, <1>2, <1>3, <3>1 DEF HubPorts
    <3> QED BY <1>1, <1>2, <3>2, OneMine DEF Beyond
  <2> QED BY <2>1
<1>4. \A q \in Port : (Mine(q)' <=> Mine(q)) /\ (InUse(q)' <=> InUse(q))
  BY <1>1 DEF Mine, InUse, Connected
<1>5. /\ pt'[p].pc = "hubports"
      /\ \A q \in Port : HubOf(q) = d => pt'[q].pc = "detect"
      /\ \A q \in Port : q # p /\ HubOf(q) # d => pt'[q] = pt[q]
  <2>1. pt \in [Port -> [pc : Stages, sent : BOOLEAN, polls : Int]]
    BY <1>1 DEF EnumTypes, PortTypes
  <2> QED BY <1>3, <2>1
<1>6. /\ \A h \in Hub \ {d} : hub'[h] = hub[h]
      /\ d \in Hub => hub'[d].left = Cardinality(PortsOf(d)) /\ hub'[d].count = hub[d].count
  BY <1>1 DEF EnumTypes, HubTypes
<1>7. \A q \in Port : pt'[q].pc \in {"used", "drop", "disable", "done"} =>
                        q # p /\ HubOf(q) # d /\ pt'[q] = pt[q]
  BY <1>5
<1>8. \A h : PortsOf(h)' = PortsOf(h) /\ PortsOf(h) = {q \in Port : HubOf(q) = h}
  BY DEF PortsOf
<1>9. Configured'
  <2>1. \A q \in Port : pt[q].pc = "done" => pt'[q].pc = "done"
    BY <1>3, <1>5
  <2> QED BY <1>1, <1>4, <2>1 DEF Configured
<1>10. HubsCounted'
  <2>1. ASSUME NEW h \in Hub
        PROVE  hub'[h].left = Cardinality(Busy(h)') /\ hub'[h].count = Cardinality(Served(h)')
    <3>1. hub[h].left = Cardinality(Busy(h)) /\ hub[h].count = Cardinality(Served(h))
      BY <1>1, Counting
    <3>2. Served(h)' = Served(h)
      BY <1>4, <1>8 DEF Served
    <3>3. CASE h = d
      <4>1. Busy(h)' = PortsOf(h)
        BY <1>5, <1>8, <3>3 DEF Busy
      <4> QED BY <1>6, <3>1, <3>2, <3>3, <4>1
    <3>4. CASE h # d
      <4>1. Busy(h)' = Busy(h)
        <5>1. \A q \in Port : HubOf(q) = h =>
                (pt'[q].pc \notin {"off", "done"} <=> pt[q].pc \notin {"off", "done"})
          BY <1>5, <3>4
        <5> QED BY <1>8, <5>1 DEF Busy
      <4> QED BY <1>6, <3>1, <3>2, <3>4, <4>1
    <3> QED BY <3>3, <3>4
  <2> QED BY <1>1, <2>1 DEF HubsCounted, Busy, Served
<1>11. Drivers'
  BY <1>5 DEF CountInv, Drivers, Driven, ClassOf
<1>12. CntlsKept'
  <2>1. \A c \in Cntl : c \in Hub /\ c # d
    BY <1>2 DEF Hub
  <2> QED BY <1>1, <1>6, <2>1 DEF CountInv, CntlsKept
<1>13. HubsKeptAt'
  <2>1. ASSUME NEW q \in Port, DevOf(q) \in Hub, Mine(q)
        PROVE  /\ pt'[q].pc = "used" => hub'[DevOf(q)].left = 0 /\ hub'[DevOf(q)].count > 0
               /\ pt'[q].pc \in {"drop", "disable", "done"} =>
                    hub'[DevOf(q)].left = 0 /\ (dev'[DevOf(q)].cfg <=> hub'[DevOf(q)].count > 0)
    <3>1. CASE pt'[q].pc \in {"used", "drop", "disable", "done"}
      <4>1. q # p /\ pt'[q] = pt[q]
        BY <1>7, <3>1
      <4>2. DevOf(q) # d
        BY <1>1, <1>2, <2>1, <4>1, OneMine
      <4>3. hub'[DevOf(q)] = hub[DevOf(q)] /\ KeptAt(q)
        BY <1>6, <2>1, <4>2 DEF CountInv, HubsKeptAt
      <4> QED BY <4>1, <4>3 DEF KeptAt
    <3> QED BY <3>1
  <2> QED BY <1>1, <1>4, <2>1 DEF HubsKeptAt, KeptAt
<1> QED BY <1>9, <1>10, <1>11, <1>12, <1>13

(* usb_setup() starts controllers. *)
LEMMA SetupCounted ==
  ASSUME CountInv, usb_setup
  PROVE  Configured' /\ HubsCounted' /\ Drivers' /\ CntlsKept' /\ HubsKeptAt'
<1>1. /\ WellWired(bus) /\ EnumTypes /\ bus' = bus /\ hub' = hub /\ pt' = pt /\ dev' = dev
  BY DEF CountInv, EnumInv, usb_setup
<1>2. \/ cn' = cn
      \/ \E c : cn' = [cn EXCEPT ![c] = Started(c)]
      \/ \E c, s : cn' = [cn EXCEPT ![c] = [Started(c) EXCEPT !.comps = s]]
  BY DEF usb_setup, LegacyInit
<1>3. ASSUME NEW c \in Cntl, NEW s
      PROVE  Started(c).st = "start" /\ [Started(c) EXCEPT !.comps = s].st = "start"
  <2> DEFINE g == cn[c]
             n == g.inits + 1
             f == [g EXCEPT !.st = "start", !.inits = n]
  <2>1. g \in [st : {"off", "start", "ports", "up", "down"}, inits : Nat, comps : SUBSET Cntl,
               lock : Port \cup {"none"}, max : Nat, def : BOOLEAN,
               tt : [addr : Nat, port : Nat], checks : Int, legacy : Int]
    BY <1>1 DEF EnumTypes, CntlTypes
  <2>2. Started(c) = f
    BY DEF Started
  <2>3. f.st = "start" /\ [f EXCEPT !.comps = s].st = "start"
    <3> HIDE DEF g, n
    <3> QED BY <2>1
  <2> QED BY <2>2, <2>3
<1>4. ASSUME NEW k \in Cntl PROVE cn'[k].st = cn[k].st \/ cn'[k].st = "start"
  <2>1. DOMAIN cn = Cntl
    BY <1>1 DEF EnumTypes, CntlTypes
  <2>2. ASSUME NEW c, NEW f, cn' = [cn EXCEPT ![c] = f], c \in Cntl => f.st = "start"
        PROVE  cn'[k].st = cn[k].st \/ cn'[k].st = "start"
    BY <2>1, <2>2
  <2>3. CASE \E c : cn' = [cn EXCEPT ![c] = Started(c)]
    BY <1>3, <2>2, <2>3
  <2>4. CASE \E c, s : cn' = [cn EXCEPT ![c] = [Started(c) EXCEPT !.comps = s]]
    BY <1>3, <2>2, <2>4
  <2> QED BY <1>2, <2>3, <2>4
<1> QED BY <1>1, <1>4, CntlCounted

(* A controller whose ports are through is kept or given up. *)
LEMMA ConfiguredCounted ==
  ASSUME CountInv, NEW c \in Cntl, configured(c)
  PROVE  Configured' /\ HubsCounted' /\ Drivers' /\ CntlsKept' /\ HubsKeptAt'
<1> DEFINE st == IF hub[c].count > 0 THEN "up" ELSE "down"
<1>1. /\ bus' = bus /\ hub' = hub /\ pt' = pt /\ dev' = dev /\ hub[c].left = 0
      /\ cn' = [cn EXCEPT ![c].st = st, ![c].def = FALSE]
  BY DEF configured, AllThrough
<1>2. cn \in CntlTypes
  BY DEF CountInv, EnumInv, EnumTypes
<1>3. cn'[c].st = st /\ \A k \in Cntl \ {c} : cn'[k] = cn[k]
  <2> HIDE DEF st
  <2> QED BY <1>1, <1>2 DEF CntlTypes
<1>4. \A k \in Cntl : \/ cn'[k].st = cn[k].st
                      \/ hub[k].left = 0 /\ (cn'[k].st = "up" <=> hub[k].count > 0)
  <2>1. st = "up" <=> hub[c].count > 0
    OBVIOUS
  <2> HIDE DEF st
  <2> QED BY <1>1, <1>3, <2>1
<1> QED BY <1>1, <1>4, CntlCounted

(* A controller that has just been started has counted nothing. *)
LEMMA NoneStarted ==
  ASSUME CountInv, NEW c \in Cntl, cn[c].st = "start"
  PROVE  /\ \A q \in PortsOf(c) : q \in Port /\ pt[q].pc = "off" /\ ~InUse(q)
         /\ hub[c].left = 0 /\ hub[c].count = 0
<1>1. WellWired(bus) /\ Configured /\ HubsCounted /\ Starts
  BY DEF CountInv, EnumInv
<1>2. ASSUME NEW q \in PortsOf(c) PROVE q \in Port /\ pt[q].pc = "off" /\ ~InUse(q)
  <2>1. q \in Port /\ ~OnHub(q) /\ CntlOf(q) = c
    BY <1>1, <1>2, Wiring DEF PortsOf
  <2>2. pt[q].pc = "off"
    BY <1>1, <2>1 DEF Starts, NotYet
  <2>3. ~InUse(q)
    BY <1>1, <2>1, <2>2, Unused, UsedIs
  <2> QED BY <2>1, <2>2, <2>3
<1>3. Busy(c) = {} /\ Served(c) = {} /\ c \in Hub
  BY <1>2 DEF Busy, Served, Hub
<1> QED BY <1>1, <1>2, <1>3, Counting

(* configure_uhci(), configure_ohci() and configure_ehci(). *)
LEMMA ConfigureCounted ==
  ASSUME CountInv, NEW c \in Cntl, configure(c)
  PROVE  Configured' /\ HubsCounted' /\ Drivers' /\ CntlsKept' /\ HubsKeptAt'
<1> DEFINE Taken(d) == Kind(c) = "ehci" /\ \E p \in PortsOf(c) : DevOf(p) = d
           Of(q) == HubOf(q) = c
<1>1. /\ EnumInv /\ WellWired(bus) /\ EnumTypes /\ Configured /\ HubsCounted
      /\ bus' = bus /\ cn[c].st = "start" /\ c \in Hub /\ c \notin Device
      /\ Cntl' = Cntl /\ Hub' = Hub
  BY Fixed, Wiring DEF CountInv, EnumInv, configure, Hub
<1>2. cn \in CntlTypes /\ hub \in HubTypes /\ pt \in PortTypes /\ dev \in DevTypes
  BY <1>1 DEF EnumTypes
<1>3. /\ \A q \in Port : Of(q) => pt[q].pc = "off" /\ ~InUse(q)
      /\ hub[c].left = 0 /\ hub[c].count = 0
  BY <1>1, NoneStarted DEF PortsOf
<1>4. CASE cn' = [cn EXCEPT ![c].st = "down"] /\ hub' = hub /\ pt' = pt /\ dev' = dev
  <2>1. cn'[c].st = "down" /\ \A k \in Cntl \ {c} : cn'[k] = cn[k]
    BY <1>2, <1>4 DEF CntlTypes
  <2> QED BY <1>1, <1>3, <1>4, <2>1, CntlCounted
<1>5. CASE /\ cn' = [cn EXCEPT ![c].st = "ports",
                            ![c].checks = IF Kind(c) = "ehci" THEN Cardinality(PortsOf(c)) ELSE 0]
           /\ dev' = IF Kind(c) = "ehci"
                     THEN [d \in Device |-> IF \E p \in PortsOf(c) : DevOf(p) = d
                                            THEN [dev[d] EXCEPT !.owner = c] ELSE dev[d]]
                     ELSE dev
           /\ Enumerate(c)
  <2>1. cn'[c].st = "ports" /\ \A k \in Cntl \ {c} : cn'[k] = cn[k]
    <3> DEFINE n == IF Kind(c) = "ehci" THEN Cardinality(PortsOf(c)) ELSE 0
    <3>1. cn' = [cn EXCEPT ![c].st = "ports", ![c].checks = n]
      BY <1>5
    <3> HIDE DEF n
    <3> QED BY <1>2, <3>1 DEF CntlTypes
  <2>2. \A d \in Device : dev'[d].cfg = dev[d].cfg /\ (~Taken(d) => dev'[d] = dev[d])
    <3>1. CASE Kind(c) = "ehci"
      <4>1. dev' = [d \in Device |-> IF Taken(d) THEN [dev[d] EXCEPT !.owner = c] ELSE dev[d]]
        BY <1>5, <3>1
      <4> HIDE DEF Taken
      <4> QED BY <1>2, <4>1 DEF DevTypes
    <3>2. CASE Kind(c) # "ehci"
      BY <1>5, <3>2
    <3> QED BY <3>1, <3>2
  <2>3. /\ \A q \in Port : Of(q) => pt'[q].pc = "detect"
        /\ \A q \in Port : ~Of(q) => pt'[q] = pt[q]
    <3>1. pt' = [q \in Port |-> IF Of(q) THEN [pt[q] EXCEPT !.pc = "detect"] ELSE pt[q]]
      BY <1>5 DEF Enumerate, PortsOf
    <3> QED BY <1>2, <3>1 DEF PortTypes
  <2>4. /\ hub'[c].left = Cardinality(PortsOf(c)) /\ hub'[c].count = 0
        /\ \A h \in Hub \ {c} : hub'[h] = hub[h]
    <3> DEFINE n == Cardinality(PortsOf(c))
    <3>1. hub' = [hub EXCEPT ![c].left = n, ![c].count = 0]
      BY <1>5 DEF Enumerate
    <3> HIDE DEF n
    <3>2. /\ hub'[c].left = n /\ hub'[c].count = 0
          /\ \A h \in Hub \ {c} : hub'[h] = hub[h]
      BY <1>1, <1>2, <3>1 DEF HubTypes
    <3> QED BY <3>2 DEF n
  <2>5. \A q \in Port : DevOf(q) # "none" /\ Taken(DevOf(q)) => pt[q].pc = "off"
    BY <1>1, SocketsQuiet
  <2>6. \A q \in Port : DevOf(q) \in Device \cup {"none"}
    BY <1>1, Wiring
  <2>7. ASSUME NEW d \in Device, Taken(d) PROVE ~dev[d].cfg /\ d # "none"
    <3>1. d # "none"
      BY <1>1, Wiring
    <3>2. ASSUME dev[d].cfg PROVE FALSE
      <4>1. PICK q \in Port : DevOf(q) = d /\ pt[q].pc = "done"
        BY <1>1, <3>2 DEF Configured
      <4> QED BY <2>5, <2>7, <3>1, <4>1
    <3> QED BY <3>1, <3>2
  <2>8. ASSUME NEW q \in Port PROVE InUse(q)' <=> InUse(q)
    <3>1. /\ InUse(q) <=> Mine(q) /\ dev[DevOf(q)].cfg
          /\ InUse(q)' <=> Mine(q)' /\ dev'[DevOf(q)].cfg
      BY <1>1 DEF InUse, Connected, Mine
    <3>2. CASE DevOf(q) = "none"
      BY <1>1, <3>1, <3>2 DEF Mine
    <3>3. CASE DevOf(q) \in Device /\ Taken(DevOf(q))
      BY <2>2, <2>7, <3>1, <3>3
    <3>4. CASE DevOf(q) \in Device /\ ~Taken(DevOf(q))
      BY <1>1, <2>2, <3>1, <3>4 DEF Mine
    <3> QED BY <2>6, <3>2, <3>3, <3>4
  <2>9. \A q \in Port : pt[q].pc # "off" => pt'[q] = pt[q] /\ (Mine(q)' <=> Mine(q))
    <3>1. ASSUME NEW q \in Port, pt[q].pc # "off" PROVE Mine(q)' <=> Mine(q)
      <4>1. CASE DevOf(q) = "none"
        BY <1>1, <4>1 DEF Mine
      <4>2. CASE DevOf(q) # "none"
        <5>1. DevOf(q) \in Device /\ ~Taken(DevOf(q))
          BY <2>5, <2>6, <3>1, <4>2
        <5> QED BY <1>1, <2>2, <5>1 DEF Mine
      <4> QED BY <4>1, <4>2
    <3> QED BY <1>3, <2>3, <3>1
  <2> HIDE DEF Taken, Mine, InUse
  <2>10. Configured'
    <3>1. SUFFICES ASSUME NEW d \in Device, dev'[d].cfg
                   PROVE  \E q \in Port : DevOf(q) = d /\ Mine(q)' /\ pt'[q].pc = "done"
      BY <1>1 DEF Configured
    <3>2. PICK q \in Port : DevOf(q) = d /\ Mine(q) /\ pt[q].pc = "done"
      BY <1>1, <2>2, <3>1 DEF Configured
    <3> QED BY <2>9, <3>2
  <2>11. HubsCounted'
    <3>1. \A h : PortsOf(h)' = PortsOf(h) /\ PortsOf(h) = {q \in Port : HubOf(q) = h}
      BY <1>1 DEF PortsOf
    <3>2. ASSUME NEW h \in Hub
          PROVE  hub'[h].left = Cardinality(Busy(h)') /\ hub'[h].count = Cardinality(Served(h)')
      <4>1. hub[h].left = Cardinality(Busy(h)) /\ hub[h].count = Cardinality(Served(h))
        BY <1>1, Counting
      <4>2. Served(h)' = Served(h)
        BY <2>8, <3>1 DEF Served
      <4>3. CASE h = c
        <5>1. Busy(h)' = PortsOf(h)
          BY <2>3, <3>1, <4>3 DEF Busy
        <5> QED BY <1>3, <2>4, <4>1, <4>2, <4>3, <5>1
      <4>4. CASE h # c
        <5>1. Busy(h)' = Busy(h)
          BY <2>3, <3>1, <4>4 DEF Busy
        <5> QED BY <2>4, <4>1, <4>2, <4>4, <5>1
      <4> QED BY <4>3, <4>4
    <3> QED BY <1>1, <3>2 DEF HubsCounted, Busy, Served
  <2>12. Drivers'
    <3>1. \A q \in Port : pt'[q].pc = "detect" \/ pt'[q] = pt[q]
      BY <2>3
    <3> QED BY <1>1, <3>1 DEF CountInv, Drivers, Driven, ClassOf
  <2>13. CntlsKept'
    <3>1. \A k \in Cntl : k \in Hub
      BY DEF Hub
    <3> QED BY <1>1, <2>1, <2>4, <3>1 DEF CountInv, CntlsKept
  <2>14. HubsKeptAt'
    <3>1. ASSUME NEW q \in Port, DevOf(q) \in Hub, Mine(q)',
                 pt'[q].pc \in {"used", "drop", "disable", "done"}
          PROVE  /\ pt'[q].pc = "used" => hub'[DevOf(q)].left = 0 /\ hub'[DevOf(q)].count > 0
                 /\ pt'[q].pc \in {"drop", "disable", "done"} =>
                      hub'[DevOf(q)].left = 0 /\ (dev'[DevOf(q)].cfg <=> hub'[DevOf(q)].count > 0)
      <4>1. pt'[q] = pt[q]
        BY <2>3, <3>1
      <4>2. Mine(q)
        BY <2>9, <3>1, <4>1
      <4>3. DevOf(q) \in Device /\ DevOf(q) # c
        BY <1>1, <2>6, <4>2 DEF Mine
      <4>4. KeptAt(q) /\ hub'[DevOf(q)] = hub[DevOf(q)] /\ dev'[DevOf(q)].cfg = dev[DevOf(q)].cfg
        BY <2>2, <2>4, <3>1, <4>2, <4>3 DEF CountInv, HubsKeptAt
      <4> QED BY <4>1, <4>4 DEF KeptAt
    <3> QED BY <1>1, <3>1 DEF HubsKeptAt, KeptAt
  <2> QED BY <2>10, <2>11, <2>12, <2>13, <2>14
<1> QED BY <1>4, <1>5 DEF configure

(* The step of a port's thread. *)
LEMMA PortCounted ==
  ASSUME CountInv, NEW p \in Port, PortStep(p)
  PROVE  Configured' /\ HubsCounted' /\ Drivers' /\ CntlsKept' /\ HubsKeptAt'
<1>1. EnumInv /\ WellWired(bus) /\ EnumTypes /\ Apart /\ Configured /\ HubsCounted /\ Driven(p)
  BY DEF CountInv, EnumInv, Drivers
<1>2. ASSUME ThreadMove(p), NoteMove(p), Outcome(p)
      PROVE  Configured' /\ HubsCounted' /\ Drivers' /\ CntlsKept' /\ HubsKeptAt'
  BY <1>1, <1>2, ThreadUses, ThreadCounted, ThreadKept
<1>3. CASE detect(p) \/ ehci_hub_detect(p) \/ lock_port(p) \/ reset(p) \/ set_address(p) \/ usb_set_address(p)
  <2>1. ThreadMove(p) /\ NoteMove(p)
    BY <1>1, <1>3, DetectMoves, EhciDetectMoves, LockMoves, ResetMoves, AddressMoves, AddressedMoves
  <2> QED BY <1>1, <1>2, <1>3, <2>1, EarlyOutcome
<1>4. CASE hub_request(p)
  BY <1>1, <1>2, <1>4, RequestMoves, RequestOutcome
<1>5. CASE usb_hub_detect(p) \/ usb_hub_reset(p) \/ usb_hub_disconnect(p)
  <2>1. ThreadMove(p) /\ NoteMove(p)
    BY <1>1, <1>5, HubDetectMoves, HubResetMoves, DisconnectMoves
  <2> QED BY <1>1, <1>2, <1>5, <2>1, AnswerOutcome
<1>6. CASE configure_usb_device(p)
  BY <1>1, <1>2, <1>6, ConfigureMoves, SetupOutcome
<1>7. CASE usb_init_hub_port(p)
  BY <1>1, <1>2, <1>7, EndMoves, EndOutcome
<1>8. CASE usb_hub_init(p)
  <2>1. bus' = bus /\ setup' = setup /\ cn' = cn /\ dev' = dev
    BY <1>8 DEF usb_hub_init
  <2>2. CASE /\ pt[p].pc = "hubdesc"
             /\ hub' = [hub EXCEPT ![DevOf(p)].left = Cardinality(PortsOf(DevOf(p)))]
             /\ pt' = [q \in Port |-> IF q = p THEN [pt[q] EXCEPT !.pc = "hubports"]
                                      ELSE IF HubOf(q) = DevOf(p) THEN [pt[q] EXCEPT !.pc = "detect"]
                                      ELSE pt[q]]
    BY <2>1, <2>2, HubStartCounted
  <2>3. CASE /\ hub' = hub
             /\ \/ pt[p].pc = "hubdesc" /\ Goto(p, "drop")
                \/ /\ pt[p].pc = "hubports" /\ AllThrough(DevOf(p))
                   /\ Goto(p, IF hub[DevOf(p)].count > 0 THEN "used" ELSE "drop")
    <3>1. \/ pt[p].pc = "hubdesc" /\ Goto(p, "drop")
          \/ pt[p].pc = "hubports" /\ (Goto(p, "used") \/ Goto(p, "drop"))
      BY <2>3
    <3>2. ThreadMove(p) /\ NoteMove(p)
      BY <1>1, <2>1, <2>3, <3>1, HubInitMoves
    <3> QED BY <1>1, <1>2, <2>1, <2>3, <3>2, HubInitOutcome
  <2> QED BY <1>8, <2>2, <2>3 DEF usb_hub_init
<1> QED BY <1>3, <1>4, <1>5, <1>6, <1>7, <1>8 DEF PortStep

(* Nothing has been counted in the beginning. *)
LEMMA CountBegins ==
  ASSUME EnumInit
  PROVE  CountInv
<1>1. EnumInv /\ WellWired(bus)
  BY EnumBegins DEF EnumInv
<1>2. /\ hub = [h \in Hub |-> [left |-> 0, count |-> 0, lock |-> "none"]]
      /\ pt = [p \in Port |-> [pc |-> "off", sent |-> FALSE, polls |-> MaxPolls]]
      /\ \A c \in Cntl : cn[c].st = "off"
      /\ \A d \in Device : ~dev[d].cfg
  BY DEF EnumInit
<1>3. Configured /\ Drivers /\ CntlsKept
  BY <1>2 DEF Configured, Drivers, Driven, CntlsKept
<1>4. HubsCounted
  <2>1. ASSUME NEW h \in Hub
        PROVE  hub[h].left = Cardinality(Busy(h)) /\ hub[h].count = Cardinality(Served(h))
    <3>1. Busy(h) = {} /\ Served(h) = {}
      <4>1. \A p \in Port : ~InUse(p)
        BY <1>1, <1>2, Wiring DEF InUse, Connected
      <4> QED BY <1>2, <4>1 DEF Busy, Served, PortsOf
    <3> QED BY <1>2, <3>1, FS_EmptySet
  <2> QED BY <2>1 DEF HubsCounted, Busy, Served
<1>5. HubsKeptAt
  BY <1>2 DEF HubsKeptAt, KeptAt
<1> QED BY <1>1, <1>3, <1>4, <1>5 DEF CountInv

(* Every step of enumeration keeps the counts. *)
LEMMA CountKeeps ==
  ASSUME CountInv, [EnumNext]_enumVars
  PROVE  CountInv'
<1>1. EnumInv'
  BY EnumKeeps DEF CountInv
<1>2. Configured' /\ HubsCounted' /\ Drivers' /\ CntlsKept' /\ HubsKeptAt'
  <2>1. CASE UNCHANGED enumVars
    BY <2>1, CntlCounted DEF enumVars
  <2>2. CASE usb_setup
    BY <2>2, SetupCounted
  <2>3. ASSUME NEW c \in Cntl, configure(c) \/ configured(c)
        PROVE  Configured' /\ HubsCounted' /\ Drivers' /\ CntlsKept' /\ HubsKeptAt'
    BY <2>3, ConfigureCounted, ConfiguredCounted
  <2>4. ASSUME NEW p \in Port, PortStep(p)
        PROVE  Configured' /\ HubsCounted' /\ Drivers' /\ CntlsKept' /\ HubsKeptAt'
    BY <2>4, PortCounted
  <2> QED BY <2>1, <2>2, <2>3, <2>4 DEF EnumNext
<1> QED BY <1>1, <1>2 DEF CountInv

(* What is through is kept just when a device on its ports is in use. *)
LEMMA KeptIs ==
  ASSUME CountInv
  PROVE  HubsKept
<1>1. WellWired(bus) /\ HubsCounted
  BY DEF CountInv, EnumInv
<1>2. ASSUME NEW h \in Hub PROVE hub[h].count > 0 <=> \E p \in PortsOf(h) : InUse(p)
  <2>1. hub[h].count \in Nat /\ (hub[h].count = 0 <=> Served(h) = {})
    BY <1>1, <1>2, Counting
  <2>2. Served(h) = {} <=> ~\E p \in PortsOf(h) : InUse(p)
    BY DEF Served
  <2> QED BY <2>1, <2>2
<1>3. ASSUME NEW c \in Cntl, cn[c].st \in {"up", "down"}
      PROVE  cn[c].st = "up" <=> \E p \in PortsOf(c) : InUse(p)
  BY <1>2, <1>3 DEF CountInv, CntlsKept, Hub
<1>4. ASSUME NEW q \in Port, DevOf(q) \in Hub, Connected(q), pt[q].pc = "done"
      PROVE  InUse(q) <=> \E p \in PortsOf(DevOf(q)) : InUse(p)
  <2>1. Mine(q)
    BY <1>4 DEF Connected, Mine
  <2>2. dev[DevOf(q)].cfg <=> hub[DevOf(q)].count > 0
    BY <1>4, <2>1 DEF CountInv, HubsKeptAt, KeptAt
  <2> QED BY <1>2, <1>4, <2>2 DEF InUse
<1> QED BY <1>1, <1>3, <1>4 DEF HubsKept

(* The thread and device counts of a hub are right at every time, whatever *)
(* fails and in whichever order the threads of its ports run, on every     *)
(* machine that is wired as machines are; so no controller and no hub is   *)
(* given up while a device on its ports is in use, and none is kept for    *)
(* nothing.                                                                *)
THEOREM HubsStay == EnumSpec => []HubsKept
<1>1. EnumInit => CountInv
  BY CountBegins
<1>2. CountInv /\ [EnumNext]_enumVars => CountInv'
  BY CountKeeps
<1>3. CountInv => HubsKept
  BY KeptIs
<1> QED BY <1>1, <1>2, <1>3, PTL DEF EnumSpec

-----------------------------------------------------------------------------
(* Who starts a controller.                                                *)

(* A controller is initialised when it leaves "off", and never again.      *)
Inits == \A c \in Cntl : cn[c].inits = IF cn[c].st = "off" THEN 0 ELSE 1
OnceInv == EnumInv /\ Inits

(* What a step may make of a controller's record f: initialise it when it  *)
(* was off, or leave it off or started as it is.                           *)
Once(f, g) ==
  \/ g.inits = f.inits /\ (g.st = "off" <=> f.st = "off")
  \/ f.st = "off" /\ g.st # "off" /\ g.inits = f.inits + 1
StartsOnce(given) == \A k \in Cntl : Once(cn[k], given[k])
Alike(given, new) == \A k \in Cntl : new[k].st = given[k].st /\ new[k].inits = given[k].inits

LEMMA OnceKeeps ==
  ASSUME Inits, bus' = bus, StartsOnce(cn')
  PROVE  Inits'
<1>1. Cntl' = Cntl
  BY Fixed
<1>2. ASSUME NEW k \in Cntl PROVE cn'[k].inits = IF cn'[k].st = "off" THEN 0 ELSE 1
  <2>1. cn[k].inits = IF cn[k].st = "off" THEN 0 ELSE 1
    BY DEF Inits
  <2>2. Once(cn[k], cn'[k])
    BY DEF StartsOnce
  <2> QED BY <2>1, <2>2 DEF Once
<1> QED BY <1>1, <1>2 DEF Inits

LEMMA AlikeOnce ==
  ASSUME NEW given, NEW new, StartsOnce(given), Alike(given, new)
  PROVE  StartsOnce(new)
<1>1. ASSUME NEW k \in Cntl PROVE Once(cn[k], new[k])
  <2>1. Once(cn[k], given[k]) /\ new[k].st = given[k].st /\ new[k].inits = given[k].inits
    BY DEF StartsOnce, Alike
  <2> QED BY <2>1 DEF Once
<1> QED BY <1>1 DEF StartsOnce

LEMMA SameOnce == StartsOnce(cn)
BY DEF StartsOnce, Once

(* Locks, addresses and default pipes are nothing to a controller's state. *)
LEMMA HandsAlike ==
  ASSUME NEW given \in CntlTypes, NEW c \in Cntl
  PROVE  /\ \A l : Alike(given, [given EXCEPT ![c].lock = l])
         /\ \A m : Alike(given, [given EXCEPT ![c].max = m])
         /\ \A t : Alike(given, [given EXCEPT ![c].def = TRUE, ![c].tt = t])
<1> DEFINE Rec == [st : {"off", "start", "ports", "up", "down"}, inits : Nat, comps : SUBSET Cntl,
                   lock : Port \cup {"none"}, max : Nat, def : BOOLEAN,
                   tt : [addr : Nat, port : Nat], checks : Int, legacy : Int]
           T == [addr : Nat, port : Nat]
<1>1. given \in [Cntl -> Rec]
  BY DEF CntlTypes
<1>2. ASSUME NEW g \in Rec, NEW v
      PROVE  /\ [g EXCEPT !.lock = v].st = g.st /\ [g EXCEPT !.lock = v].inits = g.inits
             /\ [g EXCEPT !.max = v].st = g.st /\ [g EXCEPT !.max = v].inits = g.inits
             /\ [g EXCEPT !.def = TRUE, !.tt = v].st = g.st
             /\ [g EXCEPT !.def = TRUE, !.tt = v].inits = g.inits
  OBVIOUS
<1> HIDE DEF Rec
<1>3. ASSUME NEW n, n.st = given[c].st, n.inits = given[c].inits
      PROVE  Alike(given, [given EXCEPT ![c] = n])
  BY <1>1, <1>3 DEF Alike
<1>4. ASSUME NEW v
      PROVE  /\ Alike(given, [given EXCEPT ![c].lock = v]) /\ Alike(given, [given EXCEPT ![c].max = v])
             /\ Alike(given, [given EXCEPT ![c].def = TRUE, ![c].tt = v])
  <2>1. given[c] \in Rec
    BY <1>1
  <2>2. Alike(given, [given EXCEPT ![c].lock = v])
    <3> DEFINE n == [given[c] EXCEPT !.lock = v]
    <3>1. n.st = given[c].st /\ n.inits = given[c].inits
      BY <1>2, <2>1
    <3>2. [given EXCEPT ![c].lock = v] = [given EXCEPT ![c] = n]
      OBVIOUS
    <3> HIDE DEF n
    <3> QED BY <1>3, <3>1, <3>2
  <2>3. Alike(given, [given EXCEPT ![c].max = v])
    <3> DEFINE n == [given[c] EXCEPT !.max = v]
    <3>1. n.st = given[c].st /\ n.inits = given[c].inits
      BY <1>2, <2>1
    <3>2. [given EXCEPT ![c].max = v] = [given EXCEPT ![c] = n]
      OBVIOUS
    <3> HIDE DEF n
    <3> QED BY <1>3, <3>1, <3>2
  <2>4. Alike(given, [given EXCEPT ![c].def = TRUE, ![c].tt = v])
    <3> DEFINE n == [given[c] EXCEPT !.def = TRUE, !.tt = v]
    <3>1. n.st = given[c].st /\ n.inits = given[c].inits
      BY <1>2, <2>1
    <3>2. [given EXCEPT ![c].def = TRUE, ![c].tt = v] = [given EXCEPT ![c] = n]
      BY <1>1
    <3> HIDE DEF n
    <3> QED BY <1>3, <3>1, <3>2
  <2> QED BY <2>2, <2>3, <2>4
<1> QED BY <1>4

(* The companions that the last port of an ehci controller starts were off *)
(* till then.                                                              *)
LEMMA NotesOnce ==
  ASSUME EnumInv, NEW p \in Port, NEW gave \in Int
  PROVE  /\ ehci_note_port(CntlOf(p), gave) \in CntlTypes \/ OnHub(p)
         /\ StartsOnce(ehci_note_port(CntlOf(p), gave))
<1> DEFINE c == CntlOf(p)
           given == ehci_note_port(c, gave)
           left == cn[c].checks - 1
           legacy == cn[c].legacy + gave
           new(k) == IF k = c THEN [cn[k] EXCEPT !.checks = left, !.legacy = legacy]
                     ELSE IF left = 0 /\ legacy > 0 /\ k \in cn[c].comps
                     THEN [cn[k] EXCEPT !.st = "start", !.inits = @ + 1] ELSE cn[k]
           Rec == [st : {"off", "start", "ports", "up", "down"}, inits : Nat, comps : SUBSET Cntl,
                   lock : Port \cup {"none"}, max : Nat, def : BOOLEAN,
                   tt : [addr : Nat, port : Nat], checks : Int, legacy : Int]
<1>1. WellWired(bus) /\ EnumTypes /\ Starts /\ c \in Cntl /\ cn \in [Cntl -> Rec]
  BY Wiring DEF EnumInv, EnumTypes, CntlTypes
<1>2. given = [k \in Cntl |-> new(k)]
  BY DEF ehci_note_port, Companions, Started
<1>3. ASSUME NEW k \in Cntl PROVE Once(cn[k], new(k))
  <2>1. cn[k] \in Rec
    BY <1>1
  <2>2. CASE k = c
    <3>1. new(k) = [cn[k] EXCEPT !.checks = left, !.legacy = legacy]
      BY <2>2
    <3>2. new(k).st = cn[k].st /\ new(k).inits = cn[k].inits
      <4> HIDE DEF left, legacy, new
      <4> QED BY <2>1, <3>1
    <3> HIDE DEF new
    <3> QED BY <3>2 DEF Once
  <2>3. CASE k # c /\ left = 0 /\ legacy > 0 /\ k \in cn[c].comps
    <3>1. PICK i \in Place, j \in Place : k = Nth(i) /\ c = Nth(j)
      BY <1>1, Wiring
    <3>2. cn[c].checks \in Int /\ cn[c].checks = 1
      BY <1>1, <2>3
    <3>3. cn[k].st = "off"
      <4> HIDE DEF Place, Nth, NotYet
      <4>1. cn[Nth(i)].st = "off" \/ cn[Nth(j)].checks <= 0
        BY <1>1, <2>3, <3>1 DEF Starts
      <4> QED BY <3>1, <3>2, <4>1
    <3> DEFINE n == cn[k].inits + 1
    <3>4. new(k) = [cn[k] EXCEPT !.st = "start", !.inits = n]
      BY <2>3
    <3>5. new(k).st = "start" /\ new(k).inits = n
      <4> HIDE DEF left, legacy, new, n
      <4> QED BY <2>1, <3>4
    <3> HIDE DEF new
    <3> QED BY <3>3, <3>5 DEF Once
  <2>4. CASE k # c /\ ~(left = 0 /\ legacy > 0 /\ k \in cn[c].comps)
    <3>1. new(k) = cn[k]
      BY <2>4
    <3> HIDE DEF new
    <3> QED BY <3>1 DEF Once
  <2> QED BY <2>2, <2>3, <2>4
<1>4. StartsOnce(given)
  <2> HIDE DEF new, given
  <2> QED BY <1>2, <1>3 DEF StartsOnce
<1>5. given \in CntlTypes \/ OnHub(p)
  BY <1>1, Notes
<1> QED BY <1>4, <1>5

(* What a port does with the controllers it has in hand. *)
LEMMA HandsOnce ==
  ASSUME WellWired(bus), NEW p \in Port, NEW given \in CntlTypes, StartsOnce(given)
  PROVE  LET c == CntlOf(p)  IN
         /\ cn' = [given EXCEPT ![c].lock = "none"] => StartsOnce(cn')
         /\ cn' = [given EXCEPT ![c].def = TRUE, ![c].tt = tt(p)] => StartsOnce(cn')
<1> DEFINE c == CntlOf(p)
           l == [given EXCEPT ![c].lock = "none"]
           t == [given EXCEPT ![c].def = TRUE, ![c].tt = tt(p)]
<1>1. c \in Cntl
  BY Wiring
<1>2. Alike(given, l) /\ Alike(given, t)
  BY <1>1, HandsAlike
<1> HIDE DEF l, t
<1>3. StartsOnce(l) /\ StartsOnce(t)
  BY <1>2, AlikeOnce
<1>4. (cn' = l => StartsOnce(cn')) /\ (cn' = t => StartsOnce(cn'))
  BY <1>3
<1> QED BY <1>4 DEF l, t

LEMMA RefuseOnce ==
  ASSUME WellWired(bus), NEW p \in Port, NEW given \in CntlTypes, StartsOnce(given), Refuse(p, given)
  PROVE  StartsOnce(cn')
<1>1. cn' = given \/ cn' = [given EXCEPT ![CntlOf(p)].lock = "none"]
  BY DEF Refuse
<1> QED BY <1>1, HandsOnce

LEMMA SetAddressOnce ==
  ASSUME WellWired(bus), NEW p \in Port, NEW given \in CntlTypes, StartsOnce(given), SetAddress(p, given)
  PROVE  StartsOnce(cn')
<1>1. Refuse(p, given) \/ cn' = [given EXCEPT ![CntlOf(p)].def = TRUE, ![CntlOf(p)].tt = tt(p)]
  BY DEF SetAddress
<1> QED BY <1>1, HandsOnce, RefuseOnce

(* The steps of the ports' threads. *)
LEMMA PortOnce ==
  ASSUME EnumInv, NEW p \in Port, PortStep(p)
  PROVE  bus' = bus /\ StartsOnce(cn')
<1> DEFINE c == CntlOf(p)
<1>1. /\ WellWired(bus) /\ EnumTypes /\ cn \in CntlTypes /\ Holds(p) /\ c \in Cntl /\ p \in Port \cup {"none"}
      /\ StartsOnce(cn)
  BY Wiring, SameOnce DEF EnumInv, EnumTypes, Apart, Locks
<1>2. /\ StartsOnce(Locked(p)) /\ Locked(p) \in CntlTypes
      /\ StartsOnce(Counted(c)) /\ Counted(c) \in CntlTypes
  <2>1. Alike(cn, Locked(p)) /\ Alike(cn, Counted(c))
    BY <1>1, HandsAlike DEF Locked, Counted
  <2>2. Locked(p) \in CntlTypes /\ Counted(c) \in CntlTypes
    <3>1. cn[c].max \in Nat /\ cn[c].max + 1 \in Nat
      BY <1>1 DEF CntlTypes
    <3>2. Counted(c) = [cn EXCEPT ![c].max = cn[c].max + 1]
      BY DEF Counted
    <3> DEFINE m == cn[c].max + 1
    <3> HIDE DEF m
    <3> QED BY SMTT(30), <1>1, <3>1, <3>2 DEF CntlTypes, Locked, m
  <2> QED BY <1>1, <2>1, <2>2, AlikeOnce
<1>3. ASSUME NEW g \in {0, 1}
      PROVE  StartsOnce(ehci_note_port(c, g)) /\ (ehci_note_port(c, g) \in CntlTypes \/ OnHub(p))
  BY <1>3, NotesOnce
<1>4. CASE cn' = cn
  BY <1>1, <1>4 DEF PortStep, detect, ehci_hub_detect, lock_port, reset, set_address, usb_set_address,
     hub_request, usb_hub_detect, usb_hub_reset, usb_hub_disconnect, configure_usb_device, usb_hub_init,
     usb_init_hub_port
<1>5. CASE ehci_hub_detect(p)
  BY <1>1, <1>3, <1>5 DEF ehci_hub_detect
<1>6. CASE lock_port(p)
  <2>1. bus' = bus /\ (cn' = Locked(p) \/ SetAddress(p, Locked(p)))
    BY <1>6 DEF lock_port
  <2> QED BY <1>1, <1>2, <2>1, SetAddressOnce
<1>7. CASE reset(p)
  <2>1. bus' = bus /\ pt[p].pc = "reset"
    BY <1>7 DEF reset
  <2>2. ~OnHub(p)
    BY <1>1, <2>1 DEF Holds
  <2>3. \/ SetAddress(p, cn) \/ Refuse(p, cn)
        \/ SetAddress(p, ehci_note_port(c, 0)) \/ Refuse(p, ehci_note_port(c, 1))
    BY <1>7 DEF reset
  <2> QED BY <1>1, <1>3, <2>1, <2>2, <2>3, SetAddressOnce, RefuseOnce
<1>8. CASE set_address(p)
  <2>1. bus' = bus /\ (cn' = cn \/ Refuse(p, cn))
    BY <1>8 DEF set_address
  <2> QED BY <1>1, <2>1, RefuseOnce
<1>9. CASE usb_set_address(p)
  <2>1. bus' = bus /\ (cn' = [Counted(c) EXCEPT ![c].lock = "none"] \/ Refuse(p, Counted(c)))
    BY <1>9 DEF usb_set_address
  <2> QED BY <1>1, <1>2, <2>1, HandsOnce, RefuseOnce
<1>10. CASE usb_hub_reset(p)
  <2>1. bus' = bus /\ (cn' = cn \/ cn' = [cn EXCEPT ![c].def = TRUE, ![c].tt = tt(p)])
    BY <1>10 DEF usb_hub_reset
  <2> QED BY <1>1, <2>1, HandsOnce
<1>11. CASE usb_hub_disconnect(p)
  <2>1. bus' = bus /\ (cn' = cn \/ cn' = [cn EXCEPT ![c].lock = "none"])
    BY <1>11 DEF usb_hub_disconnect, Unlocked
  <2> QED BY <1>1, <2>1, HandsOnce
<1>12. \/ cn' = cn \/ ehci_hub_detect(p) \/ lock_port(p) \/ reset(p) \/ set_address(p) \/ usb_set_address(p)
       \/ usb_hub_reset(p) \/ usb_hub_disconnect(p)
  BY DEF PortStep, detect, hub_request, usb_hub_detect, configure_usb_device, usb_hub_init, usb_init_hub_port
<1> QED BY <1>4, <1>5, <1>6, <1>7, <1>8, <1>9, <1>10, <1>11, <1>12

(* The steps of usb_setup() and of the controllers' threads. *)
LEMMA SetupOnce ==
  ASSUME EnumInv, usb_setup
  PROVE  bus' = bus /\ StartsOnce(cn')
<1> DEFINE i == setup.pci
           e == EhciFrom(i)
           Rec == [st : {"off", "start", "ports", "up", "down"}, inits : Nat, comps : SUBSET Cntl,
                   lock : Port \cup {"none"}, max : Nat, def : BOOLEAN,
                   tt : [addr : Nat, port : Nat], checks : Int, legacy : Int]
<1>1. WellWired(bus) /\ EnumTypes /\ Starts /\ bus' = bus /\ cn \in [Cntl -> Rec]
  BY DEF EnumInv, usb_setup, EnumTypes, CntlTypes
<1>2. i \in Place
  BY <1>1, Wiring DEF usb_setup, EnumTypes, Place
<1>3. \/ LegacyInit(i)
      \/ e # 0 /\ \E s : cn' = BegunWith(Nth(e), s)
  BY DEF usb_setup, BegunWith, Nth
<1>4. ASSUME NEW k \in Place, k >= i
      PROVE  /\ cn' = Begun(Nth(k)) => StartsOnce(cn')
             /\ \A s : cn' = BegunWith(Nth(k), s) => StartsOnce(cn')
  <2> DEFINE c == Nth(k)
             n == cn[c].inits + 1
             f == [cn[c] EXCEPT !.st = "start", !.inits = n]
  <2>1. c \in Cntl /\ cn[c] \in Rec /\ cn[c].st = "off"
    <3>1. c \in Cntl /\ cn[c].st = "off"
      BY <1>1, <1>4, Wiring DEF Starts
    <3> QED BY <1>1, <3>1
  <2>2. Started(c) = f
    BY DEF Started
  <2>3. /\ f.st = "start" /\ f.inits = n
        /\ \A s : [f EXCEPT !.comps = s].st = "start" /\ [f EXCEPT !.comps = s].inits = n
    <3> HIDE DEF c, n, Rec
    <3>1. DOMAIN cn[c] = {"st", "inits", "comps", "lock", "max", "def", "tt", "checks", "legacy"}
      BY <2>1 DEF Rec
    <3> QED BY <3>1
  <2> HIDE DEF c, f
  <2>4. ASSUME NEW g, g.st = "start", g.inits = n, cn' = [cn EXCEPT ![c] = g] PROVE StartsOnce(cn')
    <3>1. ASSUME NEW h \in Cntl PROVE Once(cn[h], cn'[h])
      <4>1. CASE h = c
        <5>1. cn'[h] = g
          BY <1>1, <2>1, <2>4, <4>1
        <5> QED BY <2>1, <2>4, <4>1, <5>1 DEF Once
      <4>2. CASE h # c
        <5>1. cn'[h] = cn[h]
          BY <1>1, <2>4, <4>2
        <5> QED BY <5>1 DEF Once
      <4> QED BY <4>1, <4>2
    <3> QED BY <3>1 DEF StartsOnce
  <2> HIDE DEF n
  <2>5. cn' = Begun(c) => StartsOnce(cn')
    BY <2>2, <2>3, <2>4 DEF Begun
  <2>6. ASSUME NEW s, cn' = BegunWith(c, s) PROVE StartsOnce(cn')
    <3> DEFINE g == [f EXCEPT !.comps = s]
    <3>1. g.st = "start" /\ g.inits = n /\ cn' = [cn EXCEPT ![c] = g]
      BY <2>2, <2>3, <2>6 DEF BegunWith
    <3> HIDE DEF g
    <3> QED BY <2>4, <3>1
  <2> QED BY <2>5, <2>6 DEF c
<1>5. CASE LegacyInit(i)
  <2>1. cn' = Begun(Nth(i)) \/ cn' = cn
    BY <1>5 DEF LegacyInit, Begun, Nth
  <2>2. i >= i
    BY <1>2 DEF Place
  <2> QED BY <1>1, <1>2, <1>4, <2>1, <2>2, SameOnce
<1>6. CASE e # 0 /\ \E s : cn' = BegunWith(Nth(e), s)
  BY <1>1, <1>2, <1>4, <1>6, Search
<1> QED BY <1>1, <1>3, <1>5, <1>6

LEMMA CntlOnce ==
  ASSUME EnumInv, NEW c \in Cntl, configure(c) \/ configured(c)
  PROVE  bus' = bus /\ StartsOnce(cn')
<1> DEFINE Rec == [st : {"off", "start", "ports", "up", "down"}, inits : Nat, comps : SUBSET Cntl,
                   lock : Port \cup {"none"}, max : Nat, def : BOOLEAN,
                   tt : [addr : Nat, port : Nat], checks : Int, legacy : Int]
           n == IF Kind(c) = "ehci" THEN Cardinality(PortsOf(c)) ELSE 0
           u == IF hub[c].count > 0 THEN "up" ELSE "down"
<1>1. cn \in [Cntl -> Rec] /\ bus' = bus /\ cn[c].st # "off"
  BY DEF EnumInv, EnumTypes, CntlTypes, configure, configured
<1>2. \/ cn' = [cn EXCEPT ![c].st = "down"]
      \/ cn' = [cn EXCEPT ![c].st = "ports", ![c].checks = n]
      \/ cn' = [cn EXCEPT ![c].st = u, ![c].def = FALSE]
  BY DEF configure, configured
<1>3. u # "off"
  OBVIOUS
<1> HIDE DEF n, u
<1>4. \A k \in Cntl \ {c} : cn'[k] = cn[k]
  BY <1>1, <1>2
<1>5. cn'[c].st # "off" /\ cn'[c].inits = cn[c].inits
  <2>1. DOMAIN cn = Cntl
    BY <1>1
  <2>2. cn[c] \in Rec
    BY <1>1
  <2>3. \A v, w : /\ [cn[c] EXCEPT !.st = v].st = v /\ [cn[c] EXCEPT !.st = v].inits = cn[c].inits
                  /\ [cn[c] EXCEPT !.st = v, !.checks = w].st = v
                  /\ [cn[c] EXCEPT !.st = v, !.checks = w].inits = cn[c].inits
                  /\ [cn[c] EXCEPT !.st = v, !.def = w].st = v
                  /\ [cn[c] EXCEPT !.st = v, !.def = w].inits = cn[c].inits
    BY <2>2
  <2>4. \/ cn'[c] = [cn[c] EXCEPT !.st = "down"]
        \/ cn'[c] = [cn[c] EXCEPT !.st = "ports", !.checks = n]
        \/ cn'[c] = [cn[c] EXCEPT !.st = u, !.def = FALSE]
    BY <1>2, <2>1
  <2> HIDE DEF Rec
  <2>5. CASE cn'[c] = [cn[c] EXCEPT !.st = "down"]
    <3>1. cn'[c].st = "down" /\ cn'[c].inits = cn[c].inits
      BY <2>3, <2>5
    <3> QED BY <3>1
  <2>6. CASE cn'[c] = [cn[c] EXCEPT !.st = "ports", !.checks = n]
    <3>1. cn'[c].st = "ports" /\ cn'[c].inits = cn[c].inits
      BY <2>3, <2>6
    <3> QED BY <3>1
  <2>7. CASE cn'[c] = [cn[c] EXCEPT !.st = u, !.def = FALSE]
    <3>1. cn'[c].st = u /\ cn'[c].inits = cn[c].inits
      BY <2>3, <2>7
    <3> QED BY <1>3, <3>1
  <2> QED BY <2>4, <2>5, <2>6, <2>7
<1>6. \A k \in Cntl : Once(cn[k], cn'[k])
  BY <1>1, <1>4, <1>5 DEF Once
<1> QED BY <1>1, <1>6 DEF StartsOnce

(* Whichever of usb_setup() and an ehci controller's last port comes to a  *)
(* controller, it is initialised once at the most, on every machine that   *)
(* is wired as machines are.                                               *)
THEOREM ControllersStartOnce == EnumSpec => []StartedOnce
<1>1. EnumInit => OnceInv
  <2>1. ASSUME EnumInit PROVE Inits
    BY <2>1 DEF EnumInit, Inits
  <2> QED BY <2>1, EnumBegins DEF OnceInv
<1>2. OnceInv /\ [EnumNext]_enumVars => OnceInv'
  <2>1. SUFFICES ASSUME OnceInv, [EnumNext]_enumVars PROVE Inits'
    BY EnumKeeps DEF OnceInv
  <2>2. CASE UNCHANGED enumVars
    BY <2>1, <2>2, SameOnce, OnceKeeps DEF enumVars, OnceInv
  <2>3. CASE EnumNext
    <3>1. bus' = bus /\ StartsOnce(cn')
      BY <2>1, <2>3, SetupOnce, CntlOnce, PortOnce DEF EnumNext, OnceInv
    <3> QED BY <2>1, <3>1, OnceKeeps DEF OnceInv
  <2> QED BY <2>1, <2>2, <2>3
<1>3. OnceInv => StartedOnce
  <2>1. ASSUME Inits, NEW c \in Cntl PROVE cn[c].inits <= 1
    BY <2>1 DEF Inits
  <2> QED BY <2>1 DEF OnceInv, StartedOnce
<1> QED BY <1>1, <1>2, <1>3, PTL DEF EnumSpec
=============================================================================
