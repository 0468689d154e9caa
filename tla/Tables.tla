------------------------------- MODULE Tables -------------------------------
(***************************************************************************)
(* What the bios tells of the machine: pirtable.c, mptable.c, smbios.c and *)
(* acpi.c, for the devices that Pci has set up and the processors that     *)
(* Cpus has counted.  Memory is counted in K.                              *)
(***************************************************************************)
EXTENDS Pci, Cpus

CONSTANTS
  RamSize, RamSizeOver4G,
  Nodes,       \* the memory of each numa node
  Override,    \* qemu_cfg_irq0_override
  Package,     \* logical processors in a package
  Externals,   \* tables that qemu_cfg adds
  MaxTables,   \* MAX_ACPI_TABLES
  Scarce       \* board -> the stages at which memory can run out

VARIABLE tab
  \* [stage, pir, mp: <<>> or the table, smbios, acpi: tables in order, tmp: the bytes of the
  \*  ssdt, ext: [left, sync], rsdt: <<>> or the tables it points to]

TabNew ==
  [stage |-> "off", pir |-> FALSE, mp |-> <<>>, smbios |-> <<>>, acpi |-> <<>>,
   ext |-> [left |-> Externals, sync |-> TRUE], rsdt |-> <<>>]
TablesInit == tab = TabNew

malloc == IF tab.stage \in Scarce[pci.board] THEN BOOLEAN ELSE {TRUE}
Count(n) == [i \in 1 .. n |-> i - 1]

create_pirtable ==
  /\ tab.stage = "pir"
  /\ tab' = [tab EXCEPT !.pir = TRUE, !.stage = "mp"]
(* The links of the six slots of PIR_TABLE.                                *)
PirLink(slot, pin) ==
  LET first == <<96, 97, 98, 99, 96, 97>>[slot] IN 96 + ((first - 96 + pin - 1) % 4)
(* piix_isa_bridge_init: what a link is connected to.                      *)
PiixIrq(link) == pci_irqs[link - 95]

(***************************************************************************)
(* mptable_init                                                            *)
(***************************************************************************)
MpCpus ==
  LET first == SelectSeq(Count(cpu.max), LAMBDA i : i % Package = 0)
  IN [k \in DOMAIN first |-> [id |-> first[k], on |-> first[k] < cpu.count]]
Pin(i) == Devs[pci.list[i].dev].pin
Place(i) == <<pci.list[i].bus, Devs[pci.list[i].dev].slot>>
MpBusses ==
  LET first == SelectSeq([i \in DOMAIN pci.list |-> i],
                         LAMBDA i : i = 1 \/ pci.list[i - 1].bus # pci.list[i].bus)
  IN [k \in DOMAIN first |-> pci.list[first[k]].bus]
IsaBus == IF MpBusses = <<>> THEN 0 ELSE Last(MpBusses) + 1
(* One entry for each pin of a slot, by the first function that has it;    *)
(* the pins seen are forgotten where the pins of another slot begin.       *)
NewPin_all(i) == Pin(i) # 0         \* a wrong one, that adds an entry for every function
NewPin(i) ==
  /\ Pin(i) # 0
  /\ ~\E j \in 1 .. i - 1 :
       Pin(j) = Pin(i) /\ \A k \in j .. i : Pin(k) # 0 => Place(k) = Place(i)
PciIrqs ==
  LET own == SelectSeq([i \in DOMAIN pci.list |-> i], NewPin)
  IN [k \in DOMAIN own |-> [bus |-> Place(own[k])[1], slot |-> Place(own[k])[2], pin |-> Pin(own[k]),
                            irq |-> pci.cfg[pci.list[own[k]].dev].line]]
IsaIrqs ==
  LET taken == {PciIrqs[k].irq : k \in DOMAIN PciIrqs}
      free == SelectSeq(Count(16), LAMBDA i : i \notin taken /\ ~(Override /\ i = 2))
  IN [k \in DOMAIN free |-> [bus |-> IsaBus, slot |-> free[k], pin |-> 0,
                             irq |-> IF Override /\ free[k] = 0 THEN 2 ELSE free[k]]]
MpTable ==
  [cpus |-> MpCpus, busses |-> Append(MpBusses, IsaBus), ioapic |-> cpu.count,
   irqs |-> PciIrqs \o IsaIrqs,
   entries |-> Len(MpCpus) + Len(MpBusses) + 1 + 1 + Len(PciIrqs) + Len(IsaIrqs) + 2]
(* The temporary table, and the final one with its pointer: all or none.   *)
mptable_init ==
  /\ tab.stage = "mp"
  /\ \E ok \in malloc :
       tab' = [tab EXCEPT !.mp = IF ok THEN <<MpTable>> ELSE <<>>, !.stage = "smbios"]

(***************************************************************************)
(* smbios_init: memory in devices of 16G, and where they are mapped        *)
(***************************************************************************)
M == 1024
Low == RamSize \div M
High == RamSizeOver4G \div M
RamMb == (RamSize + RamSizeOver4G) \div M
DevMb == 16384
MemDevs == (RamMb + DevMb - 1) \div DevMb
DeviceMb(i) == IF i = MemDevs - 1 THEN ((RamMb - 1) % DevMb) + 1 ELSE DevMb
Mapped(i) == IF i = 0 THEN DeviceMb(i) - Low ELSE DeviceMb(i)
S(type, fields) == [type |-> type, f |-> fields]
Smbios ==
  <<S(0, <<>>), S(1, <<>>), S(3, <<>>)>>
  \o [i \in 1 .. cpu.max |-> S(4, <<i>>)]
  \o <<S(16, <<MemDevs>>)>>
  \o [i \in 1 .. MemDevs |-> S(17, <<DeviceMb(i - 1)>>)]
  \o <<S(19, <<0, Low>>)>> \o (IF High = 0 THEN <<>> ELSE <<S(19, <<4096, 4096 + High>>)>>)
  \o <<S(20, <<0, Low, 0>>)>>
  \o (IF High = 0 THEN <<>>
      ELSE LET Start(i) == 4096 + FoldLeft(LAMBDA n, j : n + Mapped(j), 0, Count(i))
           IN [i \in 1 .. MemDevs |-> S(20, <<Start(i - 1), Start(i - 1) + Mapped(i - 1), i - 1>>)])
  \o <<S(32, <<>>), S(127, <<>>)>>
smbios_init ==
  /\ tab.stage = "smbios"
  /\ \E ok \in malloc :
       tab' = [tab EXCEPT !.smbios = IF ok THEN Smbios ELSE <<>>, !.stage = "fadt"]

(***************************************************************************)
(* acpi_bios_init, where there is a piix4                                  *)
(***************************************************************************)
T(name, content) == [name |-> name, content |-> content]
(* ACPI_INIT_TABLE: a table that could not be built is left out.           *)
Table(stage, next, name, content) ==
  /\ tab.stage = stage
  /\ \E ok \in malloc :
       tab' = [tab EXCEPT !.acpi = IF ok THEN Append(@, T(name, content)) ELSE @, !.stage = next]

Pm == {d \in DOMAIN Devs : Devs[d].kind = "piix4_pm"}
build_fadt ==
  \/ Pm # {} /\ Table("fadt", "ssdt", "FACP", [sci |-> pci.cfg[CHOOSE d \in Pm : TRUE].line])
  \/ /\ tab.stage = "fadt" /\ Pm = {}
     /\ tab' = [tab EXCEPT !.stage = "done"]

(* The nibbles of a length, the count of bytes in front.                   *)
encodeLen(length, bytes) ==
  CASE bytes = 1 -> <<length % 64>>
    [] bytes = 2 -> <<64 + (length % 16), (length \div 16) % 256>>
    [] bytes = 3 -> <<128 + (length % 16), (length \div 16) % 256, (length \div 4096) % 256>>
ProcSize == 84       \* sizeof ssdt_proc
Str(n) == [i \in 1 .. n |-> "."]
build_ssdt(n) ==
  LET length == (1 + 3 + 4) + (n * ProcSize) + (1 + 2 + 5 + (12 * n)) + (6 + 2 + 1 + n)
  IN <<16>> \o encodeLen(length - 1, 3) \o Str(4) \o Str(n * ProcSize)
     \o <<20>> \o encodeLen(2 + 5 + (12 * n), 2) \o Str(5) \o Str(12 * n)
     \o <<8>> \o Str(4) \o <<18>> \o encodeLen(2 + 1 + n, 2) \o <<n>> \o Str(n)
acpi_cpus == IF cpu.max > 255 THEN 255 ELSE cpu.max
ssdt ==
  Table("ssdt", "madt", "SSDT",
        [cpus |-> [i \in 1 .. acpi_cpus |-> [id |-> i - 1, on |-> i - 1 < cpu.count]]])

IsaLevel == {5, 9, 10, 11}      \* PCI_ISA_IRQ_MASK
build_madt ==
  Table("madt", "hpet", "APIC",
        [cpus |-> [i \in 1 .. cpu.max |-> [id |-> i - 1, on |-> i - 1 < cpu.count]],
         ioapic |-> cpu.count,
         timer |-> IF Override THEN 2 ELSE 0, level |-> IsaLevel])
build_hpet == Table("hpet", "srat", "HPET", [timer |-> 0])

(* The memory of the nodes, around the hole below 4G.                      *)
FourG == 4194304
SratNode(s, i) ==
  LET base == s.next
      len == Nodes[i] - (IF i = 1 THEN M ELSE 0)
      end == base + len
      Piece(lo, n) == IF n > 0 THEN <<[lo |-> lo, hi |-> lo + n, node |-> i - 1]>> ELSE <<>>
  IN IF base <= RamSize /\ end > RamSize
     THEN [out |-> s.out \o Piece(base, RamSize - base) \o Piece(FourG, end - RamSize),
           next |-> end + FourG - RamSize]
     ELSE [out |-> s.out \o Piece(base, len), next |-> end]
Srat ==
  FoldLeft(SratNode, [out |-> <<[lo |-> 0, hi |-> 640, node |-> 0]>>, next |-> M],
           [i \in 1 .. Len(Nodes) |-> i]).out
build_srat ==
  IF Nodes # <<>> THEN Table("srat", "external", "SRAT", [ranges |-> Srat])
  ELSE tab.stage = "srat" /\ tab' = [tab EXCEPT !.stage = "external"]

(* The next length is read from the stream, and the table behind it unless *)
(* there is no memory: then the table itself is taken for the next length. *)
external_table ==
  /\ tab.stage = "external"
  /\ IF tab.ext.left = <<>> \/ Len(tab.acpi) >= MaxTables
     THEN tab' = [tab EXCEPT !.stage = "rsdt"]
     ELSE \E ok \in malloc :
            tab' = [tab EXCEPT
              !.ext = [left |-> Tail(@.left), sync |-> @.sync /\ ok],
              !.acpi = IF ok THEN Append(@, T("external", IF tab.ext.sync THEN Head(tab.ext.left) ELSE "noise"))
                       ELSE @]
rsdt ==
  /\ tab.stage = "rsdt"
  /\ \E ok \in malloc :
       tab' = [tab EXCEPT !.rsdt = IF ok THEN <<tab.acpi>> ELSE <<>>, !.stage = "done"]

find_resume_vector == tab.rsdt # <<>> /\ \E i \in DOMAIN tab.rsdt[1] : tab.rsdt[1][i].name = "FACP"

TablesNext ==
  \/ create_pirtable \/ mptable_init \/ smbios_init \/ build_fadt \/ ssdt \/ build_madt
  \/ build_hpet \/ build_srat \/ external_table \/ rsdt

(***************************************************************************)
(* The tables tell the same                                                *)
(***************************************************************************)
Content(name) ==
  LET x == SelectSeq(tab.acpi, LAMBDA t : t.name = name) IN IF x = <<>> THEN <<>> ELSE <<x[1].content>>

(* A pin of a device on the host bus has one interrupt, whoever is asked:  *)
(* the device, the routing table and the router, the mp table; the madt    *)
(* has it as level triggered.  The interrupts of isa that no device uses   *)
(* have an entry as well.                                                  *)
IrqsAgree ==
  tab.stage = "done" /\ tab.pir =>
    \A d \in On(0) :
      LET dev == Devs[d]
          line == pci.cfg[d].line
      IN dev.pin # 0 =>
        /\ dev.kind # "piix4_pm" /\ dev.slot \in 1 .. 6 => line = PiixIrq(PirLink(dev.slot, dev.pin))
        /\ tab.mp # <<>> =>
             /\ Cardinality({i \in DOMAIN tab.mp[1].irqs :
                   LET e == tab.mp[1].irqs[i]
                   IN e.bus = 0 /\ e.slot = dev.slot /\ e.pin = dev.pin /\ e.irq = line}) = 1
             /\ \A q \in 3 .. 15 : \E i \in DOMAIN tab.mp[1].irqs : tab.mp[1].irqs[i].irq = q
        /\ Content("APIC") # <<>> => line \in Content("APIC")[1].level

(* Every table counts the same processors.                                 *)
CpusAgree ==
  LET ids == {[id |-> i, on |-> i < cpu.count] : i \in 0 .. cpu.max - 1}
  IN tab.stage = "done" =>
       /\ Content("APIC") # <<>> => ToSet(Content("APIC")[1].cpus) = ids
       /\ Content("SSDT") # <<>> => ToSet(Content("SSDT")[1].cpus) = ids
       /\ tab.mp # <<>> =>
            /\ ToSet(tab.mp[1].cpus) = {c \in ids : c.id % Package = 0}
            /\ tab.mp[1].ioapic = cpu.count

(* What the tables say of memory is what there is: without gaps, overlaps  *)
(* or anything else.                                                       *)
Covers(ranges, lo, hi) ==
  lo < hi => \E f \in [1 .. Cardinality(ranges) -> ranges] :
    /\ f[1].lo = lo /\ f[Cardinality(ranges)].hi = hi
    /\ \A i \in 1 .. Cardinality(ranges) - 1 : f[i].hi = f[i + 1].lo
    /\ \A i \in DOMAIN f : f[i].lo < f[i].hi
MemoryTold ==
  tab.stage = "done" =>
    /\ Content("SRAT") # <<>> =>
         LET r == ToSet(Content("SRAT")[1].ranges) IN
         /\ Covers({x \in r : x.lo < FourG /\ x.lo > 0}, M, RamSize)
         /\ Covers({x \in r : x.lo >= FourG}, FourG, FourG + RamSizeOver4G)
    /\ tab.smbios # <<>> =>
         LET Of(type) == {i \in DOMAIN tab.smbios : tab.smbios[i].type = type}
             above == {[lo |-> tab.smbios[i].f[1], hi |-> tab.smbios[i].f[2]] :
                         i \in {j \in Of(20) : tab.smbios[j].f[1] > 0}}
         IN Covers(above, 4096, 4096 + High)

(* The lengths in the ssdt reach to the end of what they are lengths of.   *)
LengthAt(bytes, i) ==
  LET n == bytes[i] \div 64
  IN IF n = 0 THEN bytes[i]
     ELSE (bytes[i] % 16) + (16 * bytes[i + 1]) + (IF n = 2 THEN 4096 * bytes[i + 2] ELSE 0)
SsdtWhole ==
  Content("SSDT") # <<>> =>
    LET n == acpi_cpus
        b == build_ssdt(n)
        ntfy == 9 + (n * ProcSize)
        cpon == ntfy + 1 + LengthAt(b, ntfy + 1)
    IN /\ 1 + LengthAt(b, 2) = Len(b)
       /\ b[ntfy] = 20 /\ b[cpon] = 8
       /\ cpon + 5 + LengthAt(b, cpon + 6) = Len(b)

(* All of them, and the processors are alike when they are told of.        *)
TablesAgree == IrqsAgree /\ CpusAgree /\ CpusAlike /\ MemoryTold /\ SsdtWhole
=============================================================================
