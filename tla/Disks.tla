------------------------------- MODULE Disks -------------------------------
(***************************************************************************)
(* The disk services: int 13, the emulated cdrom and the drivers, over the *)
(* drives of one machine.  The caller makes one call after another, and    *)
(* between them the boot loop may try a cdrom.                             *)
(***************************************************************************)
EXTENDS CdEmu, Ata, Ahci, Virtio, Msc, Floppy

diskVars == <<opVars, bios, call, cd, ata, ahci, vq, msc, floppy>>

Init ==
  /\ OpInit /\ CdInit /\ AtaInit /\ AhciInit /\ VirtioInit /\ MscInit /\ FloppyInit
  /\ \E m \in DOMAIN Machines : BiosInit(m)

HasFloppy == \E i \in DOMAIN bios.floppy : bios.floppy[i] \in Floppies

(* What the processor does while a call is served, and what goes on anyway.*)
Step ==
  \/ (\/ cd.stage = "none" /\ cd.boot = "none" /\ handle_13_return
      \/ iret)
     /\ UNCHANGED <<cd, ata, ahci, vq, msc, floppy>>
  \/ (cdemu_read \/ cdemu_more \/ process_cdemu_op \/ atapi_is_ready
      \/ cdrom_boot_descriptor \/ cdrom_boot_catalog \/ cdrom_boot_image
      \/ ramdisk_copy \/ process_ramdisk_op)
     /\ UNCHANGED <<ata, ahci, vq, msc, floppy>>
  \/ AtaNext /\ UNCHANGED <<bios, call, cd, ahci, vq, msc, floppy>>
  \/ AhciNext /\ UNCHANGED <<bios, call, cd, ata, vq, msc, floppy>>
  \/ (virtio_blk_op \/ virtio_reply \/ process_virtio_op)
     /\ UNCHANGED <<bios, call, cd, ata, ahci, msc, floppy>>
  \/ MscNext /\ UNCHANGED <<bios, call, cd, ata, ahci, vq, floppy>>
  \/ (floppy_start \/ floppy_reset_wait \/ floppy_drive_recal \/ floppy_cmd \/ floppy_wait
      \/ floppy_reset \/ process_floppy_op)
     /\ UNCHANGED <<bios, call, cd, ata, ahci, vq, msc>>
Host == virtio_host /\ UNCHANGED <<bios, call, cd, ata, ahci, msc, floppy>>
Tick == HasFloppy /\ floppy_tick /\ UNCHANGED <<bios, call, cd, ata, ahci, vq, msc>>
Irq == HasFloppy /\ (fdc_step \/ handle_0e) /\ UNCHANGED <<bios, call, cd, ata, ahci, vq, msc>>
Caller ==
  /\ \/ Int13Next /\ UNCHANGED cd
     \/ cdemu_134b \/ cdrom_boot
  /\ UNCHANGED <<ata, ahci, vq, msc, floppy>>

Next == Step \/ Host \/ Tick \/ Irq \/ Caller
Spec == Init /\ [][Next]_diskVars
(* The processor goes on, the host of a virtio disk answers and the timer  *)
(* ticks; no other device has to do anything.                              *)
FairSpec == Spec /\ WF_diskVars(Step) /\ WF_diskVars(Host) /\ WF_diskVars(Tick)

(***************************************************************************)
(* What int 13 promises                                                    *)
(***************************************************************************)
DiskOpOK(o) ==
  /\ o.drive \in DOMAIN Drive \cup {"none"}
  /\ o.command \in {"read", "write", "format", "verify", "seek", "reset", "isready"}
  /\ o.lba >= 0 /\ o.count >= 0 /\ o.odd \in BOOLEAN

(* The state is well formed, the ids of the drives included: no drive has  *)
(* two (block.c add_drive), and the number of hard drives is that of the   *)
(* map, and one more under an emulated one.                                *)
TypeOK ==
  /\ DiskOpOK(op) /\ DiskOpOK(cd.outer) /\ DOMAIN mem = Addr
  /\ ret \in Rets /\ at \in {"idle", "op", "ret", "done", "cd_ready", "ata_send", "ata_wait", "ata_cdb",
       "ata_pio", "ata_dma", "ahci_issue", "ahci_wait", "ahci_next", "virtio", "usb_cbw",
       "usb_data", "usb_csw", "fl_reset", "fl_recal", "fl_do", "fl_wait"}
  /\ \A m \in {bios.floppy, bios.hd, bios.cd} :
       Len(m) <= MaxExt /\ \A i, j \in DOMAIN m : m[i] = m[j] => i = j
  /\ bios.hdcount - Len(bios.hd) \in {0, 1}
  /\ \A i \in DOMAIN bios.locks : bios.locks[i] \in 0 .. MaxLocks
  /\ floppy.motor \in 0 .. MotorTicks /\ ata.done \in Nat

(* The drives as the caller of int 13 sees them: an emulated drive comes   *)
(* before the real ones of its kind.                                       *)
Seen(kind, map) ==
  (IF bios.emu.active /\ kind = (IF IsFloppy(bios.emu.ext) THEN "floppy" ELSE "hd")
   THEN <<"cdemu">> ELSE <<>>) \o map
SeenDrive(dl) ==
  LET s == IF IsFloppy(dl) THEN Seen("floppy", bios.floppy)
           ELSE IF IsCd(dl) THEN bios.cd ELSE Seen("hd", bios.hd)
      n == (dl % 128) - (IF IsCd(dl) THEN 96 ELSE 0) + 1
  IN IF n \in DOMAIN s THEN s[n] ELSE "none"

(* Where on a disk a request starts, and how many sectors it wants.        *)
First(r) ==
  LET d == SeenDrive(r.dl)
      g == IF d = "cdemu" THEN bios.emu.lchs ELSE bios.lchs[d]
      n == IF r.ah \in {2, 3} THEN r.chs.s - 1 + g.s * (r.chs.h + g.h * r.chs.c)
           ELSE r.lba * Drive[d].blk
  IN IF d = "cdemu" THEN <<bios.emu.drive, bios.emu.ilba * 4 + n>> ELSE <<d, n>>
Many(r) == IF r.ah \in {2, 3} THEN r.al ELSE r.count * Drive[SeenDrive(r.dl)].blk

(* A transfer that succeeded moved exactly the sectors asked for, each to  *)
(* or from its place (disk.c basic_access and extended_access, the shift   *)
(* of ids under emulation, cdemu_read and every driver).                   *)
DataMoved ==
  LET r == call.req
      Sectors == 0 .. Many(r) - 1
  IN at = "done" /\ call.code = "success" =>
     /\ r.ah \in {2, 66} => \A i \in Sectors : mem[r.buf + i] = <<First(r)[1], First(r)[2] + i>>
     /\ r.ah \in {3, 67} =>
          wrote = {<<First(r)[1], First(r)[2] + i, <<"mem", r.buf + i>> >> : i \in Sectors}

(* Whatever happens, errors and other functions included, no memory but    *)
(* the buffer of a read changes, and no sector but those of a write.       *)
NothingBeyond ==
  LET r == call.req IN
  /\ \A a \in 0 .. Slots - 1 :
       mem[a] # <<"mem", a>> => r.ah \in {2, 66} /\ a \in r.buf .. r.buf + Many(r) - 1
  /\ \A w \in wrote :
       /\ r.ah \in {3, 67} /\ w[1] = First(r)[1]
       /\ w[2] \in First(r)[2] .. First(r)[2] + Many(r) - 1

(* Both: a transfer is what was asked for, nothing less and nothing more.  *)
TransferExact == DataMoved /\ NothingBeyond

(* When the caller goes on, no device works on a command of his: channels  *)
(* are free and their interrupt is on, slots and descriptors are free, and *)
(* the motor of a floppy stops by itself.                                  *)
Quiet ==
  /\ at \in {"idle", "done"} => AtaQuiet /\ AhciQuiet /\ VirtioQuiet /\ MscQuiet
  /\ FloppyQuiet

AsTold ==
  LET r == call.req
      d == SeenDrive(r.dl)
      g == fillLCHS(d)
      i == call.info
      seen == IF IsFloppy(r.dl) THEN Seen("floppy", bios.floppy) ELSE Seen("hd", bios.hd)
  IN at = "done" /\ call.code = "success" /\ r.ah = 8 =>
     /\ i[1] < g.c /\ i[2] < g.h /\ i[3] <= g.s
     /\ d # "cdemu" => (i[1] + 1) * (i[2] + 1) * i[3] <= Drive[d].sectors
     /\ bios.hdcount = Len(bios.hd) => i[4] = Min({2, Len(seen)})

(* No drive has two ids and the hard drives are counted (TypeOK); and what *)
(* ah=08h tells is true: the last sector it names is accepted by           *)
(* basic_access and is on the disk, and as many drives of the kind answer  *)
(* (unless an emulated hard drive was ever counted in).                    *)
Parameters == TypeOK /\ AsTold

(* Every call ends, whatever the device does or does not do.               *)
OpEnds == at # "idle" ~> at = "idle"
=============================================================================
