-------------------------------- MODULE Post --------------------------------
(***************************************************************************)
(* post.c and resume.c: from the reset of a machine to the boot of a       *)
(* system, and back.  The parts are set up in the order of maininit, with  *)
(* the other processors and the threads of the drivers beside it; the code *)
(* runs from a copy in ram, that outlives a reset and tells by HaveRunPost *)
(* whether the reset is one.                                               *)
(***************************************************************************)
EXTENDS Detect, Roms, Tables

CONSTANT
  Machine    \* board -> [threads: of the drivers, early: CONFIG_THREAD_OPTIONROMS, xen]

VARIABLE post
  \* [at, ran: HaveRunPost, fseg: the code in ram, "rom", "rw" or "ro", code: CMOS_RESET_CODE,
  \*  list: is the memory of PCIDevices still that of the list?]

postVars == <<boot, det, pci, roms, cpu, tab, post>>
Self == Machine[pci.board]
Fixed32 == Self.xen       \* no shadow, no system management: xen, or coreboot

PostInit ==
  post = [at |-> "entry", ran |-> FALSE, fseg |-> "rom", code |-> 0, list |-> FALSE]
Init ==
  \E m \in DOMAIN Machine :
    /\ PciInit(m) /\ DetectInit(Machine[m].threads) /\ BootInit /\ RomsInit /\ CpuInit /\ TablesInit
    /\ PostInit

Goto(at) == post' = [post EXCEPT !.at = at]
Keep(v) == UNCHANGED v

(***************************************************************************)
(* Shadow ram and the copy of the code                                     *)
(***************************************************************************)
Unlocked == IF Fixed32 THEN roms.pam ELSE make_bios_writable
Locked(found) == IF Fixed32 \/ ~found THEN roms.pam ELSE make_bios_readonly(roms.pam)
Fseg(to) == IF Fixed32 THEN post.fseg ELSE to

(* The copy in ram is that of the flash again, if there is flash: the data *)
(* of an earlier run is gone.                                              *)
qemu_prep_reset_none == [post EXCEPT !.fseg = Fseg("rw")]    \* a wrong one, that copies nothing
qemu_prep_reset == [post EXCEPT !.fseg = Fseg("rw"), !.ran = Fixed32 /\ @]

(***************************************************************************)
(* handle_post and maininit                                                *)
(***************************************************************************)
handle_post ==
  /\ post.at = "entry" /\ ~post.ran
  /\ post' = [post EXCEPT !.at = "mtrr", !.code = 0, !.ran = TRUE, !.fseg = Fseg("rw")]
  /\ roms' = [roms EXCEPT !.pam = Unlocked]
  /\ cpu' = [cpu EXCEPT !.stage = "mtrr"]
  /\ Keep(<<boot, det, pci, tab>>)

pci_setup ==
  /\ post.at = "mtrr" /\ cpu.stage = "mtrr_done"
  /\ post' = [post EXCEPT !.at = "pci", !.list = TRUE] /\ Keep(<<boot, det, pci, roms, cpu, tab>>)
Smm == Pm # {} /\ ~Fixed32
smm_init ==
  /\ post.at = "pci" /\ pci.phase = "done" /\ Goto("smm")
  /\ cpu' = [cpu EXCEPT !.stage = IF Smm THEN "smm" ELSE "smm_done"]
  /\ Keep(<<boot, det, pci, roms, tab>>)
(* The threads begin here, if they are to run while option roms do.        *)
boot_setup ==
  /\ post.at = "smm" /\ cpu.stage = "smm_done" /\ Goto("smp")
  /\ boot' = [boot EXCEPT !.hw = Self.early] /\ cpu' = [cpu EXCEPT !.stage = "probe"]
  /\ Keep(<<det, pci, roms, tab>>)
init_bios_tables ==
  /\ post.at = "smp" /\ cpu.stage = "probed" /\ Goto("tables")
  /\ tab' = [tab EXCEPT !.stage = IF Fixed32 THEN "done" ELSE "pir"]
  /\ Keep(<<boot, det, pci, roms, cpu>>)
vga ==
  /\ post.at = "tables" /\ tab.stage = "done" /\ Goto("vga")
  /\ roms' = [roms EXCEPT !.stage = "vga"] /\ Keep(<<boot, det, pci, cpu, tab>>)
init_hw ==
  /\ post.at = "vga" /\ roms.stage = "ready" /\ Goto("hw")
  /\ boot' = [boot EXCEPT !.hw = TRUE] /\ Keep(<<det, pci, roms, cpu, tab>>)
wait_threads_early == TRUE       \* a wrong one, that does not wait
wait_threads == AllFound
optionroms ==
  /\ post.at = "hw" /\ (Self.early \/ wait_threads) /\ Goto("roms")
  /\ roms' = [roms EXCEPT !.stage = "roms"] /\ Keep(<<boot, det, pci, cpu, tab>>)
menu ==
  /\ post.at = "roms" /\ roms.stage = "done" /\ Goto("prep")
  /\ boot' = [boot EXCEPT !.phase = "menu"] /\ Keep(<<det, pci, roms, cpu, tab>>)
map ==
  /\ boot.phase = "wait" /\ wait_threads
  /\ boot' = [boot EXCEPT !.phase = "map"] /\ Keep(<<det, pci, roms, cpu, tab, post>>)
(* The rest of maininit: the bios is write protected, and int 19 begins.   *)
startBoot ==
  /\ post.at = "prep" /\ boot.phase = "boot"
  /\ post' = [post EXCEPT !.at = "run", !.fseg = Fseg("ro"), !.list = FALSE]
  /\ roms' = [roms EXCEPT !.pam = Locked(TRUE)]
  /\ Keep(<<boot, det, pci, cpu, tab>>)

(***************************************************************************)
(* A reset                                                                 *)
(***************************************************************************)
(* The system resets the machine, in the way it has left in the cmos.      *)
reset ==
  /\ post.at = "run" /\ boot.phase \in {"system", "nothing"}
  /\ \E code \in {0, 1, 5, 254} : post' = [post EXCEPT !.at = "entry", !.code = code]
  /\ \E smram \in {cpu.smram, "none"} : cpu' = [cpu EXCEPT !.smram = smram]
  /\ Keep(<<boot, det, pci, roms, tab>>)

(* The ways that need the processor as it is, after the code is cleared:   *)
(* panic, or a jump that the system has prepared.                          *)
handle_resume ==
  /\ post.at = "entry" /\ post.ran
  /\ post' = [post EXCEPT !.code = 0,
                !.at = CASE post.code \in (1 .. 4) \cup (6 .. 9) -> "panic"
                         [] post.code \in {5} \cup (10 .. 12) -> "run"
                         [] OTHER -> IF post.code = 254 /\ find_resume_vector THEN "s3"
                                     ELSE "reboot"]
  /\ Keep(<<boot, det, pci, roms, cpu, tab>>)

(* smm_init and make_bios_readonly look for their device in PCIDevices,    *)
(* which was memory for the time of the post: who knows what is there now. *)
InList == IF post.list THEN {TRUE} ELSE BOOLEAN
s3_resume ==
  /\ post.at = "s3" /\ Goto("s3_vga")
  /\ \E found \in InList :
       cpu' = [cpu EXCEPT !.stage = IF Smm /\ found THEN "resume_smm" ELSE "resumed"]
  /\ Keep(<<boot, det, pci, roms, tab>>)
s3_resume_vector ==
  /\ post.at = "s3_vga" /\ cpu.stage = "resumed"
  /\ \E found \in InList :
       /\ roms' = [s3_resume_vga_init EXCEPT !.pam = Locked(found)]
       /\ post' = [post EXCEPT !.at = "run", !.fseg = IF found THEN Fseg("ro") ELSE @]
  /\ cpu' = [cpu EXCEPT !.stage = "probed"]
  /\ Keep(<<boot, det, pci, tab>>)

(* The code that runs is still that of the last run: power off.            *)
tryReboot ==
  /\ post.at = "reboot"
  /\ post' = [qemu_prep_reset EXCEPT !.at = IF qemu_prep_reset.ran THEN "off" ELSE "reset"]
(* i8042_reboot, pci_reboot or a triple fault: only the ram is what it was. *)
hard_reset ==
  /\ post.at = "reset"
  /\ post' = [post EXCEPT !.at = "entry", !.list = FALSE]
  /\ pci' = PciNew(pci.board) /\ det' = DetectNew(Threads) /\ boot' = BootNew
  /\ cpu' = CpuNew /\ tab' = TabNew /\ roms' = [RomsNew EXCEPT !.pam = roms.pam]

(***************************************************************************)
(* Next                                                                    *)
(***************************************************************************)
(* Panic, or power off: nothing goes on.                                   *)
Stopped == post.at \in {"off", "panic"} \/ pci.phase = "panic"
Halted == Stopped /\ UNCHANGED postVars

Maininit ==
  \/ handle_post \/ pci_setup \/ smm_init \/ boot_setup \/ init_bios_tables \/ vga \/ init_hw
  \/ optionroms \/ menu \/ map \/ startBoot \/ handle_resume \/ s3_resume \/ s3_resume_vector
  \/ tryReboot /\ Keep(<<boot, det, pci, roms, cpu, tab>>)
  \/ hard_reset
Parts ==
  \/ post.at = "pci" /\ PciNext /\ Keep(<<boot, det, roms, cpu, tab, post>>)
  \/ (\/ mtrr_setup \/ smp_probe \/ send_sipi \/ smp_wait
      \/ smm_save_and_copy \/ smm_relocate_and_restore)
     /\ Keep(<<boot, det, pci, roms, tab, post>>)
  \/ TablesNext /\ Keep(<<boot, det, pci, roms, cpu, post>>)
  \/ (vga_setup \/ vga_rom \/ vga_finish \/ optionrom_setup \/ init_pcirom \/ find_deployed)
     /\ Keep(<<boot, det, pci, cpu, tab, post>>)
  \/ scan_roms /\ Keep(<<det, pci, cpu, tab, post>>)
  \/ (\/ interactive_bootmenu(AllFound) \/ boot_prep
      \/ post.at = "run" /\ (handle_19 \/ handle_18 \/ boot_attempt))
     /\ Keep(<<det, pci, roms, cpu, tab, post>>)
Bsp == Maininit \/ Parts
ApStep == (ap_jump \/ ap_mtrr \/ ap_count) /\ Keep(<<boot, det, pci, roms, tab, post>>)
Drivers == DetectNext /\ Keep(<<pci, roms, cpu, tab, post>>)

Next == Bsp \/ ApStep \/ Drivers \/ reset \/ Halted
Spec == Init /\ [][Next]_postVars
(* The processors run, and the scheduler runs every thread again and again.*)
FairSpec == Spec /\ WF_postVars(Bsp) /\ WF_postVars(ApStep) /\ WF_postVars(Drivers)

(***************************************************************************)
(* What the start of a machine promises                                    *)
(***************************************************************************)
TypeOK ==
  /\ post.at \in {"entry", "mtrr", "pci", "smm", "smp", "tables", "vga", "hw", "roms", "prep", "run",
                  "s3", "s3_vga", "reboot", "reset", "off", "panic"}
  /\ post.fseg \in {"rom", "rw", "ro"} /\ post.ran \in BOOLEAN /\ post.list \in BOOLEAN
  /\ DOMAIN det = Self.threads
  /\ \A t \in Threads : det[t].owns \subseteq {"tmp", "low"} /\ det[t].cmd \subseteq {"fis", "start"}
  /\ \A i \in DOMAIN boot.list : boot.list[i].name \in DOMAIN Entry
  /\ DOMAIN roms.pam = Sections /\ cpu.count \in 0 .. Cardinality(Aps) + 1

(* When the drives are mapped, each that answered is in the list, or in the *)
(* map already, once, and no other is; and the list is in order whichever  *)
(* thread came first, until someone chooses.                               *)
Listed(name) ==
  Cardinality({i \in DOMAIN boot.list : boot.list[i].name = name})
  + Cardinality({x \in {<<m, i>> \in {boot.floppy, boot.hd, boot.cd} \X (1 .. 9) : i \in DOMAIN m} :
                   x[1][x[2]] = name})
Found(t, u) ==
  IF u = NoUnit \/ u \in det[t].dead \/ Unit[u].kind = "other" THEN 0 ELSE 1
DrivesFound ==
  /\ boot.phase \in {"map", "boot"} =>
       \A t \in Threads : \A i \in DOMAIN Probe[t].units :
         LET u == Probe[t].units[i] IN u # NoUnit => Listed(u) = Found(t, u)
  /\ boot.phase \in {"post", "menu"} =>
       \A i, j \in DOMAIN boot.list : i < j =>
         LET a == boot.list[i]
             b == boot.list[j]
             x == Entry[a.name]
             y == Entry[b.name]
         IN /\ a.prio <= b.prio
            /\ a.prio = b.prio => x.type <= y.type
            /\ a.prio = b.prio /\ x.type = y.type /\ x.type <= CDROM => x.drive[1] <= y.drive[1]

(* An ahci port that may write to memory was given that memory, and still  *)
(* has it; after the probe, a port that runs has memory that stays.        *)
PortOwned ==
  \A t \in Threads :
    /\ det[t].cmd # {} => det[t].lst \in det[t].owns
    /\ det[t].pc = "done" => det[t].owns \in {{}, {"low"}}

(* Both, for the probing threads.                                          *)
ProbesSound == DrivesFound /\ PortOwned

(* Each class and each other entry is tried once before the bios gives up, *)
(* in the order of the list, and the first floppy and the first hard drive *)
(* even without an entry.                                                  *)
AttemptsInOrder ==
  /\ boot.phase = "nothing" /\ boot.seq > 0 => boot.tried = boot.bev
  /\ boot.phase \in {"boot", "try", "system", "nothing"} =>
       /\ \A type \in {FLOPPY, HARDDISK} :
            Cardinality({i \in DOMAIN boot.bev : boot.bev[i].type = type}) = 1
       /\ \A i \in DOMAIN boot.cd : \E j \in DOMAIN boot.bev : boot.bev[j].name = boot.cd[i]
       /\ \A i, j \in DOMAIN boot.bev : boot.bev[i] = boot.bev[j] => i = j

(* Every rom that was initialised has its entries in the list, once and at *)
(* its own place; and when a system runs, after a resume too, the roms and *)
(* the bios are write protected and the rest of the space is not.          *)
RomNames == {<<c, k>> \in (DOMAIN roms.copies) \X (1 .. 3) :
               /\ HeaderAt(roms, roms.copies[c].at) = roms.copies[c].rom
               /\ is_valid_rom(roms, roms.copies[c].at) /\ roms.copies[c].at >= roms.start
               /\ k \in DOMAIN Names(Rom[roms.copies[c].rom])}
RomsOK ==
  /\ roms.stage = "done" /\ boot.phase \in {"post", "menu"} =>
       \A x \in RomNames :
         LET name == Names(Rom[roms.copies[x[1]].rom])[x[2]]
             at == {i \in DOMAIN boot.list : boot.list[i].name = name}
         IN /\ Cardinality(at) = 1
            /\ Deployed = <<>> /\ Entry[name].prio >= 0 =>
                 \A i \in at : boot.list[i].prio = Entry[name].prio
  /\ post.at = "run" /\ ~Fixed32 =>
       /\ post.fseg = "ro"
       /\ \A i \in Sections : roms.pam[i] = (IF i * 32 < roms.end THEN "ro" ELSE "rw")

(* After a reset a system runs again, or the bios panics, or someone has to *)
(* choose; only where there is no flash the machine is powered off.        *)
EntryEnds ==
  (post.at = "entry") ~>
    \/ post.at \in {"run", "panic"} \/ pci.phase = "panic" \/ boot.phase = "select"
    \/ post.at = "off" /\ Fixed32
=============================================================================
