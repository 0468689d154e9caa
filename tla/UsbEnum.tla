------------------------------ MODULE UsbEnum ------------------------------
(***************************************************************************)
(* Finding what is on the usb busses: usb.c, usb-hub.c, the root hubs of   *)
(* usb-uhci.c, usb-ohci.c and usb-ehci.c, and the setup of usb-hid.c.      *)
(* Every controller has a thread, and so has every port of every hub.  A   *)
(* step ends where the code sleeps or yields, so that a transfer is on the *)
(* bus between two steps; it may fail while `fails' lasts.  Out of memory  *)
(* is one of the failures.  The control pipes themselves are in UsbPipes.  *)
(***************************************************************************)
EXTENDS Integers, FiniteSets, Sequences

CONSTANTS Busses,     (* the usb hardware of the machines, by name *)
          MAXADDR,    (* USB_MAXADDR *)
          MaxFails,   (* transfers that fail, in all *)
          MaxPolls    (* status reads of a hub before its timeout is over *)

(* A machine: the usb functions of its pci devices in the order of the     *)
(* list (controller, kind, slot, and whether it is an ehci one with 64 bit *)
(* addresses, which ehci_init refuses), and for every port its hub,        *)
(* controller, number and device; a device has a kind and a speed.         *)
CntlsOf(b) == {b.list[i].cntl : i \in 1..Len(b.list)}
(* The functions of a slot before its ehci one, and after the one before.  *)
Companion(b, i, j) ==
  /\ i < j /\ b.list[j].kind = "ehci"
  /\ \A k \in i..(j - 1) : b.list[k].kind # "ehci"
  /\ \A k \in i..j : b.list[k].slot = b.list[i].slot
(* What is plugged where: a port is one of its controller's root hub or of *)
(* another hub; a device has one port, or a port of an ehci controller and *)
(* one of a companion, which are one socket.                               *)
WellWired(b) ==
  /\ DOMAIN b = {"list", "port", "dev"}
  /\ b.list \in Seq([cntl : STRING, kind : {"uhci", "ohci", "ehci"}, slot : Nat, wide : BOOLEAN])
  /\ \A i, j \in 1..Len(b.list) : b.list[i].cntl = b.list[j].cntl => i = j
  /\ \A d \in DOMAIN b.dev : DOMAIN b.dev[d] = {"kind", "speed"}
  /\ CntlsOf(b) \cap DOMAIN b.dev = {}
  /\ "none" \notin CntlsOf(b) \cup DOMAIN b.dev \cup DOMAIN b.port
  /\ IsFiniteSet(DOMAIN b.port)
  /\ \A p \in DOMAIN b.port :
       /\ DOMAIN b.port[p] = {"hub", "cntl", "n", "dev"}
       /\ b.port[p].cntl \in CntlsOf(b) /\ b.port[p].n \in Nat
       /\ \/ b.port[p].hub = b.port[p].cntl
          \/ b.port[p].hub \in DOMAIN b.dev /\ b.dev[b.port[p].hub].kind = "hub"
       /\ b.port[p].dev \in DOMAIN b.dev \cup {"none"}
  /\ \A p, q \in DOMAIN b.port : p # q /\ b.port[p].dev = b.port[q].dev /\ b.port[p].dev # "none" =>
       \E i, j \in 1..Len(b.list) :
         /\ Companion(b, i, j)
         /\ {b.port[p].hub, b.port[q].hub} = {b.list[i].cntl, b.list[j].cntl}
ASSUME BussesAssumption == \A m \in DOMAIN Busses : WellWired(Busses[m])
ASSUME UsbBounds == MAXADDR \in Nat /\ MaxFails \in Nat /\ MaxPolls \in Nat

VARIABLES bus,     (* the machine *)
          setup,   (* usb_setup: pci and ehcipci, as positions of the list *)
          cn,      (* the controllers *)
          hub,     (* the hubs *)
          pt,      (* the thread of every port *)
          dev,     (* the devices *)
          hid,     (* keyboard_pipe, mouse_pipe, and the interrupt pipes there are *)
          fails

enumVars == <<bus, setup, cn, hub, pt, dev, hid, fails>>

Cntl == {bus.list[i].cntl : i \in 1..Len(bus.list)}
Function(c) == CHOOSE f \in {bus.list[i] : i \in 1..Len(bus.list)} : f.cntl = c
Kind(c) == Function(c).kind
Port == DOMAIN bus.port
Device == DOMAIN bus.dev
PortsOf(h) == {p \in Port : bus.port[p].hub = h}
HubOf(p) == bus.port[p].hub
CntlOf(p) == bus.port[p].cntl
DevOf(p) == bus.port[p].dev
OnHub(p) == HubOf(p) \notin Cntl
Hub == Cntl \cup {d \in Device : bus.dev[d].kind = "hub"}
Speed(p) == bus.dev[DevOf(p)].speed

(* ehci_init gathers the functions from the one usb_setup stands at up to  *)
(* the ehci one.                                                           *)
Companions(c) == cn[c].comps

(* Whether the controller sees a device on the port: an ehci controller    *)
(* gives a port to the companion and takes all of them with its configflag.*)
Connected(p) ==
  /\ DevOf(p) # "none"
  /\ OnHub(p) \/ dev[DevOf(p)].owner = CntlOf(p)

Fail == fails > 0 /\ fails' = fails - 1
Fine == UNCHANGED fails

(***************************************************************************)
(* usb_setup                                                               *)
(***************************************************************************)
SlotOf(i) == bus.list[i].slot
(* The first ehci function from i on in the slot of i, or 0.               *)
EhciFrom(i) ==
  LET S == {j \in i..Len(bus.list) : bus.list[j].kind = "ehci"
                                     /\ \A k \in i..j : SlotOf(k) = SlotOf(i)}
  IN  IF S = {} THEN 0 ELSE CHOOSE j \in S : \A k \in S : j <= k
(* Where the search ends without one: the next slot, or the end of list.   *)
PastSlot(i) ==
  LET S == {j \in i..Len(bus.list) : SlotOf(j) # SlotOf(i)}
  IN  IF S = {} THEN 0 ELSE CHOOSE j \in S : \A k \in S : j <= k

Started(c) == [cn[c] EXCEPT !.st = "start", !.inits = @ + 1]
(* uhci_init or ohci_init, when the function is one of the two.            *)
LegacyInit(i) ==
  IF bus.list[i].kind \in {"uhci", "ohci"}
  THEN cn' = [cn EXCEPT ![bus.list[i].cntl] = Started(bus.list[i].cntl)] ELSE UNCHANGED cn

(* Where the loop goes on: after the ehci controller, whose companions are *)
(* its own to start.  A wrong one: at the next function.                   *)
AfterEhci_next(e, i) == i
AfterEhci(e, i) == e
(* One round of the loop.  When ehcipci is NULL its bdf is whatever is at  *)
(* that place of low memory, so the test may turn out either way.          *)
usb_setup ==
  LET i == setup.pci  IN
  /\ i <= Len(bus.list)
  /\ \E search \in IF setup.ehci = 0 THEN BOOLEAN ELSE {i >= setup.ehci} :
       LET e == EhciFrom(i)
           c == bus.list[e].cntl
       IN  IF ~search
           THEN Fine /\ LegacyInit(i) /\ setup' = [setup EXCEPT !.pci = i + 1]
           ELSE IF e = 0
           THEN Fine /\ LegacyInit(i) /\ setup' = [pci |-> i + 1, ehci |-> PastSlot(i)]
           ELSE IF bus.list[e].wide
           THEN Fine /\ LegacyInit(i) /\ setup' = [pci |-> i + 1, ehci |-> e]
           ELSE /\ Fine
                /\ cn' = [cn EXCEPT ![c] = [Started(c) EXCEPT
                            !.comps = {bus.list[k].cntl : k \in i..(e - 1)}]]
                /\ setup' = [pci |-> AfterEhci(e, i) + 1, ehci |-> e]
  /\ UNCHANGED <<bus, hub, pt, dev, hid>>

(***************************************************************************)
(* The controllers' threads                                                *)
(***************************************************************************)
(* usb_enumerate: a thread for every port.                                 *)
Enumerate(h) ==
  /\ hub' = [hub EXCEPT ![h].left = Cardinality(PortsOf(h)), ![h].count = 0]
  /\ pt' = [p \in Port |-> IF p \in PortsOf(h) THEN [pt[p] EXCEPT !.pc = "detect"] ELSE pt[p]]

(* configure_uhci, configure_ohci with start_ohci, and configure_ehci: get *)
(* memory, reset, and go through the ports.  When an ehci controller is    *)
(* marked configured it owns its ports.                                    *)
configure(c) ==
  /\ cn[c].st = "start"
  /\ \/ /\ Fail
        /\ cn' = [cn EXCEPT ![c].st = "down"]
        /\ UNCHANGED <<hub, pt, dev>>
     \/ /\ Fine
        /\ cn' = [cn EXCEPT ![c].st = "ports",
                            ![c].checks = IF Kind(c) = "ehci" THEN Cardinality(PortsOf(c)) ELSE 0]
        /\ dev' = IF Kind(c) = "ehci"
                  THEN [d \in Device |-> IF \E p \in PortsOf(c) : DevOf(p) = d
                                         THEN [dev[d] EXCEPT !.owner = c] ELSE dev[d]]
                  ELSE dev
        /\ Enumerate(c)
  /\ UNCHANGED <<bus, setup, hid>>

(* The end of usb_enumerate: it yields until the threads of all ports are  *)
(* through.  A wrong one does not wait.                                    *)
AllThrough_now(h) == TRUE
AllThrough(h) == hub[h].left = 0

(* The rest of configure_*: the default pipe goes away, and so does the    *)
(* controller when no port has a device in use.                            *)
configured(c) ==
  /\ cn[c].st = "ports" /\ AllThrough(c)
  /\ cn' = [cn EXCEPT ![c].st = IF hub[c].count > 0 THEN "up" ELSE "down",
                      ![c].def = FALSE]
  /\ UNCHANGED <<bus, setup, hub, pt, dev, hid, fails>>

(* ehci_note_port: the last port starts the companions if one of the ports *)
(* was given away.  A wrong one: only if the last one was.                 *)
ehci_note_port_last(c, gave) ==
  LET left == cn[c].checks - 1
  IN  [k \in Cntl |->
         IF k = c THEN [cn[k] EXCEPT !.checks = left, !.legacy = gave]
         ELSE IF left = 0 /\ gave > 0 /\ k \in Companions(c) THEN Started(k) ELSE cn[k]]

ehci_note_port(c, gave) ==
  LET left == cn[c].checks - 1
      legacy == cn[c].legacy + gave
  IN  [k \in Cntl |->
         IF k = c THEN [cn[k] EXCEPT !.checks = left, !.legacy = legacy]
         ELSE IF left = 0 /\ legacy > 0 /\ k \in Companions(c) THEN Started(k) ELSE cn[k]]
(***************************************************************************)
(* The ports' threads: usb_init_hub_port                                   *)
(***************************************************************************)
Goto(p, pc) == pt' = [pt EXCEPT ![p].pc = pc]
(* The end of the thread.                                                  *)
Finish(p, used) ==
  /\ pt' = [pt EXCEPT ![p].pc = "done"]
  /\ hub' = [hub EXCEPT ![HubOf(p)].left = @ - 1, ![HubOf(p)].count = @ + used]
Off(d) == [dev EXCEPT ![d].en = FALSE]
OwnersOf(d) == {bus.port[q].cntl : q \in {q \in Port : DevOf(q) = d}}
(* PORT_OWNER: the port is the companion's from now on.                    *)
GivenAway(c, d) ==
  [dev EXCEPT ![d].owner = IF OwnersOf(d) \ {c} = {} THEN "none"
                           ELSE CHOOSE k \in OwnersOf(d) \ {c} : TRUE]

(* uhci_hub_detect, ohci_hub_detect, the first part of ehci_hub_detect (it *)
(* powers the port and sleeps), or the first request of usb_hub_detect.    *)
detect(p) ==
  /\ pt[p].pc = "detect"
  /\ IF OnHub(p) THEN Goto(p, "power") /\ UNCHANGED hub
     ELSE IF Kind(CntlOf(p)) = "ehci" THEN Goto(p, "powered") /\ UNCHANGED hub
     ELSE IF Connected(p) THEN Goto(p, "lock") /\ UNCHANGED hub ELSE Finish(p, 0)
  /\ UNCHANGED <<bus, setup, cn, dev, hid, fails>>

(* The rest of ehci_hub_detect.                                            *)
ehci_hub_detect(p) ==
  LET c == CntlOf(p)  IN
  /\ pt[p].pc = "powered"
  /\ IF ~Connected(p)
     THEN cn' = ehci_note_port(c, 0) /\ Finish(p, 0) /\ UNCHANGED dev
     ELSE IF Speed(p) = "low"
     THEN cn' = ehci_note_port(c, 1) /\ Finish(p, 0) /\ dev' = GivenAway(c, DevOf(p))
     ELSE Goto(p, "lock") /\ UNCHANGED <<cn, hub, dev>>
  /\ UNCHANGED <<bus, setup, hid, fails>>

(* The transaction translator of a device: that of the nearest high speed  *)
(* hub, with the hub's port (usb_set_address counts ports from 0).         *)
NoTt == [addr |-> 0, port |-> 0]

tt(p) ==
  IF ~OnHub(p) THEN NoTt
  ELSE IF bus.dev[HubOf(p)].speed = "high"
  THEN [addr |-> dev[HubOf(p)].addr, port |-> bus.port[p].n]
  ELSE dev[HubOf(p)].tt
(* op->disconnect and the unlock after a failed reset or set_address: at a *)
(* root hub a register, at another hub a request.                          *)
Refuse(p, given) ==
  IF OnHub(p) THEN Goto(p, "disable") /\ cn' = given /\ UNCHANGED hub
  ELSE /\ Finish(p, 0)
       /\ cn' = [given EXCEPT ![CntlOf(p)].lock = "none"]

(* usb_set_address up to its transfer, for a device that has just been     *)
(* reset: it answers at address 0.  given: the controllers after the reset.*)
SetAddress(p, given) ==
  LET c == CntlOf(p)
      d == DevOf(p)
      reset == [dev EXCEPT ![d] = [@ EXCEPT !.en = TRUE, !.addr = 0]]
      refused == IF OnHub(p) THEN reset ELSE Off(d)
  IN  IF given[c].max >= MAXADDR
      THEN Fine /\ Refuse(p, given) /\ dev' = refused
      ELSE \/ /\ Fine /\ Goto(p, "address") /\ UNCHANGED hub
              /\ cn' = [given EXCEPT ![c].def = TRUE, ![c].tt = tt(p)]
              /\ dev' = reset
           \/ ~given[c].def /\ Fail /\ Refuse(p, given) /\ dev' = refused

(* mutex_lock of resetlock, and the start of op->reset; uhci_hub_reset is  *)
(* over at once.  A wrong one does not wait for the lock.                  *)
Locked(p) == [cn EXCEPT ![CntlOf(p)].lock = p]
Open(c) == cn[c].lock = "none"
lock_port(p) ==
  LET c == CntlOf(p)  IN
  /\ pt[p].pc = "lock" /\ Open(c)
  /\ IF OnHub(p) THEN Goto(p, "rst") /\ cn' = Locked(p) /\ UNCHANGED <<hub, dev, fails>>
     ELSE IF Kind(c) = "uhci" THEN SetAddress(p, Locked(p))
     ELSE Goto(p, "reset") /\ cn' = Locked(p) /\ UNCHANGED <<hub, dev, fails>>
  /\ UNCHANGED <<bus, setup, hid>>

(* The rest of ohci_hub_reset and of ehci_hub_reset.  A full speed device  *)
(* is given to the companion.                                              *)
reset(p) ==
  LET c == CntlOf(p)  IN
  /\ pt[p].pc = "reset"
  /\ IF Kind(c) = "ohci"
     THEN \/ SetAddress(p, cn)
          \/ Fail /\ Refuse(p, cn) /\ dev' = Off(DevOf(p))
     ELSE IF Speed(p) # "high"
     THEN Fine /\ Refuse(p, ehci_note_port(c, 1)) /\ dev' = GivenAway(c, DevOf(p))
     ELSE SetAddress(p, ehci_note_port(c, 0))
  /\ UNCHANGED <<bus, setup, hid>>

(* The end of the transfer of usb_set_address.  Without an answer the      *)
(* device may have got it or not.                                          *)
set_address(p) ==
  LET c == CntlOf(p)
      d == DevOf(p)
      moved == [dev EXCEPT ![d].addr = cn[c].max + 1]
  IN
  /\ pt[p].pc = "address"
  /\ \/ Fine /\ Goto(p, "addressed") /\ dev' = moved /\ UNCHANGED <<cn, hub>>
     \/ Fail /\ Refuse(p, cn) /\ (IF OnHub(p) THEN dev' \in {dev, moved} ELSE dev' = Off(d))
  /\ UNCHANGED <<bus, setup, hid>>

(* The rest of usb_set_address, and the unlock.                            *)
Counted(c) == [cn EXCEPT ![c].max = @ + 1]
usb_set_address(p) ==
  LET c == CntlOf(p)  IN
  /\ pt[p].pc = "addressed"
  /\ \/ /\ Fine /\ Goto(p, "info8") /\ UNCHANGED hub
        /\ cn' = [Counted(c) EXCEPT ![c].lock = "none"]
        /\ dev' = [dev EXCEPT ![DevOf(p)].tt = cn[c].tt]
     \/ /\ Fail /\ Refuse(p, Counted(c))
        /\ dev' = IF OnHub(p) THEN dev ELSE Off(DevOf(p))
  /\ UNCHANGED <<bus, setup, hid>>

(***************************************************************************)
(* Requests to a hub, one at a time under hub->lock                        *)
(***************************************************************************)
Requests == {"power", "status", "rst", "rststatus", "disable"}
HubFree_always(h) == TRUE
HubFree(h) == hub[h].lock = "none"
hub_request(p) ==
  /\ pt[p].pc \in Requests /\ ~pt[p].sent /\ HubFree(HubOf(p))
  /\ pt' = [pt EXCEPT ![p].sent = TRUE]
  /\ hub' = [hub EXCEPT ![HubOf(p)].lock = p]
  /\ UNCHANGED <<bus, setup, cn, dev, hid, fails>>

(* The answer, or none: what the port does next.                           *)
Answered(p, pc) ==
  /\ pt' = [pt EXCEPT ![p] = [@ EXCEPT !.pc = pc, !.sent = FALSE]]
  /\ hub' = [hub EXCEPT ![HubOf(p)].lock = "none"]
AnsweredLast(p) ==
  /\ pt' = [pt EXCEPT ![p] = [@ EXCEPT !.pc = "done", !.sent = FALSE]]
  /\ hub' = [hub EXCEPT ![HubOf(p)].lock = "none", ![HubOf(p)].left = @ - 1]
At(p, pc) == pt[p].pc = pc /\ pt[p].sent
Reset0(d) == [dev EXCEPT ![d] = [@ EXCEPT !.en = TRUE, !.addr = 0]]

(* usb_hub_detect: power, then the status until a device is there or the   *)
(* time is up.                                                             *)
usb_hub_detect(p) ==
  /\ \/ At(p, "power") /\ Fine /\ Answered(p, "status")
     \/ At(p, "status") /\ Fine /\ Connected(p) /\ Answered(p, "lock")
     \/ At(p, "status") /\ Fine /\ ~Connected(p) /\ pt[p].polls > 0
        /\ pt' = [pt EXCEPT ![p].polls = @ - 1, ![p].sent = FALSE]
        /\ hub' = [hub EXCEPT ![HubOf(p)].lock = "none"]
     \/ At(p, "status") /\ Fine /\ ~Connected(p) /\ pt[p].polls = 0 /\ AnsweredLast(p)
     \/ pt[p].pc \in {"power", "status"} /\ pt[p].sent /\ Fail /\ AnsweredLast(p)
  /\ UNCHANGED <<bus, setup, cn, dev, hid>>

(* usb_hub_reset: the reset, which the hub ends by enabling the port, the  *)
(* status, and after a failure the request to disable the port.            *)
usb_hub_reset(p) ==
  LET d == DevOf(p)  IN
  /\ \/ At(p, "rst") /\ Fine /\ Answered(p, "rststatus") /\ dev' = Reset0(d) /\ UNCHANGED cn
     \/ At(p, "rst") /\ Fail /\ Answered(p, "disable") /\ dev' \in {dev, Reset0(d)} /\ UNCHANGED cn
     \/ At(p, "rststatus") /\ Fail /\ Answered(p, "disable") /\ UNCHANGED <<cn, dev>>
     \/ /\ At(p, "rststatus") /\ Fine
        /\ Answered(p, IF cn[CntlOf(p)].max >= MAXADDR THEN "disable" ELSE "address")
        /\ cn' = IF cn[CntlOf(p)].max >= MAXADDR THEN cn
                 ELSE [cn EXCEPT ![CntlOf(p)].def = TRUE, ![CntlOf(p)].tt = tt(p)]
        /\ UNCHANGED dev
  /\ UNCHANGED <<bus, setup, hid>>

(* usb_hub_disconnect, and the end of the thread; a device whose hub was   *)
(* not reached stays on the bus (only a message tells).  A wrong one does  *)
(* not unlock.                                                             *)
Unlocked_not(p) == cn
Unlocked(p) == IF cn[CntlOf(p)].lock = p THEN [cn EXCEPT ![CntlOf(p)].lock = "none"] ELSE cn
usb_hub_disconnect(p) ==
  LET d == DevOf(p)  IN
  /\ At(p, "disable") /\ AnsweredLast(p)
  /\ \/ Fine /\ dev' = Off(d)
     \/ Fail /\ dev' \in {Off(d), [dev EXCEPT ![d].stuck = dev[d].en]}
  /\ cn' = Unlocked(p)
  /\ UNCHANGED <<bus, setup, hid>>

(***************************************************************************)
(* configure_usb_device and the drivers' setup                             *)
(***************************************************************************)
(* The transfers of a device's own pipe, and what follows each.            *)
ClassOf(p) == bus.dev[DevOf(p)].kind
Driver(p) ==
  CASE ClassOf(p) = "hub" -> "hubdesc"
    [] ClassOf(p) = "msc" -> "msc"
    [] ClassOf(p) = "kbd" -> IF hid.kbd # "none" THEN "drop" ELSE "protocol"
    [] ClassOf(p) = "mouse" -> IF hid.mouse # "none" THEN "drop" ELSE "protocol"
    [] OTHER -> "drop"
After(p) ==
  CASE pt[p].pc = "info8" -> "config8"
    [] pt[p].pc = "config8" -> "config"
    [] pt[p].pc = "config" -> IF ClassOf(p) = "other" THEN "drop" ELSE "setconfig"
    [] pt[p].pc = "setconfig" -> Driver(p)
    [] pt[p].pc = "msc" -> "used"
    [] pt[p].pc = "protocol" -> IF ClassOf(p) = "kbd" THEN "idle" ELSE "used"
    [] pt[p].pc = "idle" -> "used"
Transfers == {"info8", "config8", "config", "setconfig", "msc", "protocol", "idle"}

(* alloc_intr_pipe at the end of usb_kbd_init and usb_mouse_init.          *)
hidden(p) ==
  CASE After(p) = "used" /\ ClassOf(p) = "kbd" ->
         [hid EXCEPT !.kbd = DevOf(p), !.intr = @ \cup {DevOf(p)}]
    [] After(p) = "used" /\ ClassOf(p) = "mouse" ->
         [hid EXCEPT !.mouse = DevOf(p), !.intr = @ \cup {DevOf(p)}]
    [] OTHER -> hid

configure_usb_device(p) ==
  /\ pt[p].pc \in Transfers
  /\ \/ Fine /\ Goto(p, After(p)) /\ hid' = hidden(p)
     \/ Fail /\ Goto(p, "drop") /\ UNCHANGED hid
  /\ UNCHANGED <<bus, setup, cn, hub, dev>>

(* usb_hub_init: its descriptor, and its ports; the hub is in use when one *)
(* of them is.                                                             *)
usb_hub_init(p) ==
  /\ \/ pt[p].pc = "hubdesc" /\ Fail /\ Goto(p, "drop") /\ UNCHANGED hub
     \/ /\ pt[p].pc = "hubdesc" /\ Fine
        /\ hub' = [hub EXCEPT ![DevOf(p)].left = Cardinality(PortsOf(DevOf(p)))]
        /\ pt' = [q \in Port |-> IF q = p THEN [pt[q] EXCEPT !.pc = "hubports"]
                                 ELSE IF HubOf(q) = DevOf(p) THEN [pt[q] EXCEPT !.pc = "detect"]
                                 ELSE pt[q]]
     \/ /\ pt[p].pc = "hubports" /\ AllThrough(DevOf(p)) /\ Fine
        /\ Goto(p, IF hub[DevOf(p)].count > 0 THEN "used" ELSE "drop")
        /\ UNCHANGED hub
  /\ UNCHANGED <<bus, setup, cn, dev, hid>>

(* The end of usb_init_hub_port: free_pipe, and the port is disabled when  *)
(* nothing uses the device.                                                *)
Dropped(p) == Off(DevOf(p))
usb_init_hub_port(p) ==
  /\ \/ /\ pt[p].pc = "used" /\ Finish(p, 1)
        /\ dev' = [dev EXCEPT ![DevOf(p)].cfg = TRUE]
     \/ pt[p].pc = "drop" /\ OnHub(p) /\ Goto(p, "disable") /\ UNCHANGED <<hub, dev>>
     \/ pt[p].pc = "drop" /\ ~OnHub(p) /\ Finish(p, 0) /\ dev' = Dropped(p)
  /\ UNCHANGED <<bus, setup, cn, hid, fails>>

(***************************************************************************)
EnumInit ==
  /\ \E m \in DOMAIN Busses : bus = Busses[m]
  /\ setup = [pci |-> 1, ehci |-> 1]
  /\ cn = [c \in Cntl |-> [st |-> "off", inits |-> 0, comps |-> {}, lock |-> "none", max |-> 0,
                           def |-> FALSE, tt |-> NoTt, checks |-> 0, legacy |-> 0]]
  /\ hub = [h \in Hub |-> [left |-> 0, count |-> 0, lock |-> "none"]]
  /\ pt = [p \in Port |-> [pc |-> "off", sent |-> FALSE, polls |-> MaxPolls]]
  /\ dev = [d \in Device |->
              [owner |-> LET S == {c \in OwnersOf(d) : Kind(c) # "ehci"}
                         IN  IF S = {} THEN "none" ELSE CHOOSE c \in S : TRUE,
               en |-> FALSE, addr |-> 0, cfg |-> FALSE, tt |-> NoTt, stuck |-> FALSE]]
  /\ hid = [kbd |-> "none", mouse |-> "none", intr |-> {}]
  /\ fails = MaxFails

PortStep(p) ==
  \/ detect(p) \/ ehci_hub_detect(p) \/ lock_port(p) \/ reset(p) \/ set_address(p)
  \/ usb_set_address(p) \/ hub_request(p) \/ usb_hub_detect(p) \/ usb_hub_reset(p)
  \/ usb_hub_disconnect(p) \/ configure_usb_device(p) \/ usb_hub_init(p) \/ usb_init_hub_port(p)
EnumNext ==
  \/ usb_setup
  \/ \E c \in Cntl : configure(c) \/ configured(c)
  \/ \E p \in Port : PortStep(p)

EnumSpec == EnumInit /\ [][EnumNext]_enumVars

(***************************************************************************)
(* What enumeration promises                                               *)
(***************************************************************************)
(* Type correctness of enumeration: the states of the controllers, their   *)
(* addresses and locks, and the counts of ports.                           *)
EnumTypeOK ==
  /\ cn \in [Cntl -> [st : {"off", "start", "ports", "up", "down"}, inits : 0..2, comps : SUBSET Cntl,
                      lock : Port \cup {"none"}, max : 0..MAXADDR, def : BOOLEAN,
                      tt : [addr : 0..MAXADDR, port : 0..Cardinality(Port)],
                      checks : 0..Cardinality(Port), legacy : 0..Cardinality(Port)]]
  /\ hub \in [Hub -> [left : 0..Cardinality(Port), count : 0..Cardinality(Port),
                      lock : Port \cup {"none"}]]
  /\ \A d \in Device : dev[d].owner \in Cntl \cup {"none"} /\ dev[d].addr \in 0..MAXADDR
  /\ hid.kbd \in Device \cup {"none"} /\ hid.mouse \in Device \cup {"none"} /\ hid.intr \subseteq Device

(* Two devices of a controller that listen never have one address, the one *)
(* that is still at address 0 included: usb_set_address runs under the     *)
(* reset lock and counts the addresses (usb.c:245-303, 373-386).  Left out *)
(* is a device whose hub did not obey the request to disable its port.     *)
Listening(d) == dev[d].en /\ ~dev[d].stuck
RootCntl(d) == IF \E p \in Port : DevOf(p) = d /\ OnHub(p)
               THEN CntlOf(CHOOSE p \in Port : DevOf(p) = d) ELSE dev[d].owner
AddressesApart ==
  \A d, e \in Device : d # e /\ Listening(d) /\ Listening(e) /\ RootCntl(d) = RootCntl(e)
                       => dev[d].addr # dev[e].addr

(* A control pipe carries one transfer at a time: the default pipe of a    *)
(* controller is used under its resetlock and a hub's pipe under its lock  *)
(* (usb-hub.c:34).                                                         *)
PipeUsed(p) ==
  IF pt[p].pc = "address" THEN CntlOf(p)
  ELSE IF pt[p].sent THEN HubOf(p)
  ELSE IF pt[p].pc \in Transfers \cup {"hubdesc"} THEN DevOf(p) ELSE "none"
PipesApart ==
  \A p, q \in Port : p # q /\ PipeUsed(p) # "none" => PipeUsed(p) # PipeUsed(q)

(* Both: a transfer reaches the device it is for, and nobody else's.       *)
TransfersApart == AddressesApart /\ PipesApart

(* At any time a hub's thread count is the number of its ports that were   *)
(* started and are not through, and its device count that of the devices   *)
(* in use on them, however the threads of the ports take turns and         *)
(* whichever of their transfers fail (usb_init_hub_port, usb.c:381-401).   *)
InUse(p) == Connected(p) /\ dev[DevOf(p)].cfg
HubsCounted ==
  \A h \in Hub :
    /\ hub[h].left = Cardinality({p \in PortsOf(h) : pt[p].pc \notin {"off", "done"}})
    /\ hub[h].count = Cardinality({p \in PortsOf(h) : InUse(p)})

(* The counts are right at any time; and a controller is kept, and so is a *)
(* hub, just when a device on one of its ports is in use: what a device's  *)
(* pipes are reached through is not given up while the device is in use,   *)
(* nor kept when nothing is (the ends of configure_* and of usb_hub_init,  *)
(* which see only the device count).                                       *)
HubsKept ==
  /\ HubsCounted
  /\ \A c \in Cntl : cn[c].st \in {"up", "down"} =>
       (cn[c].st = "up" <=> \E p \in PortsOf(c) : InUse(p))
  /\ \A q \in Port : DevOf(q) \in Hub /\ Connected(q) /\ pt[q].pc = "done" =>
       (InUse(q) <=> \E p \in PortsOf(DevOf(q)) : InUse(p))

(* No controller is initialised twice, though both usb_setup and the last  *)
(* port of an ehci controller initialise companions, and which of them     *)
(* does is up to what is on the ports (usb.c:450, ehci_note_port).         *)
StartedOnce == \A c \in Cntl : cn[c].inits <= 1

(* When a controller's ports are through, only the devices in use still    *)
(* listen; and when nothing failed and there were addresses, every device  *)
(* that has a driver is in use, at the companion when it is too slow for   *)
(* ehci, but for a second keyboard and a hub with nothing in use           *)
(* (ehci_note_port, usb_enumerate).                                        *)
Through == \A c \in Cntl : cn[c].st \in {"off", "up", "down"}
Settled(c) ==
  cn[c].st \in {"up", "down"} =>
    \A p \in Port : CntlOf(p) = c /\ DevOf(p) # "none" /\ dev[DevOf(p)].owner \in {c, "none"}
                    => (Listening(DevOf(p)) => dev[DevOf(p)].cfg)
Wanted(d) ==
  \/ bus.dev[d].kind = "msc"
  \/ bus.dev[d].kind = "kbd" /\ hid.kbd \in {d, "none"}
  \/ bus.dev[d].kind = "mouse" /\ hid.mouse \in {d, "none"}
PortsSettled ==
  /\ EnumTypeOK
  /\ \A c \in Cntl : Settled(c)
  /\ (/\ setup.pci > Len(bus.list) /\ Through /\ fails = MaxFails
      /\ \A c \in Cntl : cn[c].max < MAXADDR)
       => \A d \in Device : Wanted(d) => dev[d].cfg
=============================================================================
