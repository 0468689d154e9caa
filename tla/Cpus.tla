-------------------------------- MODULE Cpus --------------------------------
(***************************************************************************)
(* smp.c, mtrr.c and smm.c: the other processors are started through a     *)
(* jump put over low memory, copy the msrs of the first one and halt; and  *)
(* the handler of system management mode is moved out of the same memory.  *)
(***************************************************************************)
EXTENDS Integers, Sequences, SequencesExt

CONSTANTS
  Aps,       \* the other processors
  Cmos,      \* how many of them CMOS_BIOS_SMP_COUNT tells
  Apic,      \* has the first one an apic?
  MaxCpus,   \* what qemu_cfg_get_max_cpus tells, 0 without
  Vcnt,      \* variable mtrrs, or 0 without mtrrs
  SmpMtrr    \* entries of smp_mtrr

VARIABLE cpu
  \* [stage, ap: where each other processor is, msr: what was written to each one's msrs,
  \*  list: smp_mtrr, count: CountCPUs, max: MaxCountCPUs, low: what BUILD_AP_BOOT_ADDR
  \*  holds, init: what BUILD_SMM_INIT_ADDR holds, smram: its place, handler and save area]

BSP == "bsp"
CpuNew ==
  [stage |-> "off", ap |-> [p \in Aps |-> "off"], msr |-> [p \in Aps \cup {BSP} |-> <<>>],
   list |-> <<>>, count |-> 0, max |-> 0, low |-> "old", init |-> "old",
   smram |-> "none", saved |-> "none"]
CpuInit == cpu = CpuNew

(* Every write goes to the msr, and to the list while there is room.       *)
wrmsr_smp(c, index) ==
  [c EXCEPT !.msr[BSP] = Append(@, index),
            !.list = IF Len(@) >= SmpMtrr THEN @ ELSE Append(@, index)]
Fixed == <<"deftype off", "64K 0", "16K 8", "16K A", "4K C0", "4K C8", "4K D0", "4K D8", "4K E0",
           "4K E8", "4K F0", "4K F8">>
Variable == [i \in 1 .. 2 * Vcnt |-> <<"phys", i - 1, "clear">>]
mtrr_setup ==
  /\ cpu.stage = "mtrr"
  /\ cpu' = [(IF Vcnt = 0 THEN cpu
              ELSE FoldLeft(wrmsr_smp, cpu,
                     Fixed \o Variable \o << <<"phys", 0, "pci hole">>, <<"phys", 1, "pci hole">>,
                       "deftype on" >>)) EXCEPT !.stage = "mtrr_done"]

smp_probe ==
  /\ cpu.stage = "probe"
  /\ cpu' = IF ~Apic THEN [cpu EXCEPT !.count = 1, !.max = 1, !.stage = "probed"]
            ELSE [cpu EXCEPT !.count = 1, !.low = "jump", !.stage = "sipi"]
(* The broadcast starts all of them.                                       *)
send_sipi ==
  /\ cpu.stage = "sipi"
  /\ cpu' = [cpu EXCEPT !.stage = "wait", !.ap = [p \in Aps |-> "start"]]
Counted == cpu.count = Cmos + 1
smp_wait ==
  /\ cpu.stage = "wait" /\ Counted
  /\ cpu' = [cpu EXCEPT !.low = "old", !.stage = "probed",
                        !.max = IF MaxCpus = 0 \/ MaxCpus < cpu.count THEN cpu.count ELSE MaxCpus]

(* smp_ap_boot_code, after whatever is at BUILD_AP_BOOT_ADDR.              *)
ap_jump ==
  \E p \in Aps :
    /\ cpu.ap[p] = "start"
    /\ cpu' = [cpu EXCEPT !.ap[p] = IF cpu.low = "jump" THEN "mtrr" ELSE "lost"]
ap_mtrr ==
  \E p \in Aps :
    /\ cpu.ap[p] = "mtrr"
    /\ cpu' = IF Len(cpu.msr[p]) < Len(cpu.list)
              THEN [cpu EXCEPT !.msr[p] = cpu.list]
              ELSE [cpu EXCEPT !.ap[p] = "count"]
ap_count_again ==      \* a wrong one, that comes back instead of halting
  \E p \in Aps : cpu.ap[p] = "count" /\ cpu' = [cpu EXCEPT !.count = @ + 1]
ap_count ==
  \E p \in Aps :
    /\ cpu.ap[p] = "count"
    /\ cpu' = [cpu EXCEPT !.count = @ + 1, !.ap[p] = "halt"]

(* smm_init, unless it was done: the window is opened, the memory below is *)
(* saved, the handler that moves the base is run, and all is put back.     *)
smm_save_and_copy ==
  /\ cpu.stage \in {"smm", "resume_smm"}
  /\ cpu' = IF cpu.smram = "ready"
            THEN [cpu EXCEPT !.stage = IF @ = "smm" THEN "smm_done" ELSE "resumed"]
            ELSE [cpu EXCEPT !.saved = cpu.init, !.init = "relocation",
                             !.stage = IF @ = "smm" THEN "smi" ELSE "resume_smi"]
smm_relocate_and_restore ==
  /\ cpu.stage \in {"smi", "resume_smi"}
  /\ cpu' = [cpu EXCEPT !.init = cpu.saved, !.saved = "handler", !.smram = "ready",
                        !.stage = IF @ = "smi" THEN "smm_done" ELSE "resumed"]

(* When the first processor goes on, the others have its msrs and halt     *)
(* (the jump is not there any more), and low memory is what it was.        *)
CpusAlike ==
  /\ cpu.stage \notin {"sipi", "wait"} => cpu.low = "old"
  /\ cpu.stage = "probed" /\ Apic =>
       \A p \in Aps : cpu.ap[p] = "halt" /\ (Len(cpu.list) < SmpMtrr => cpu.msr[p] = cpu.msr[BSP])
  /\ cpu.stage \notin {"smi", "resume_smi"} => cpu.init # "relocation"
=============================================================================
