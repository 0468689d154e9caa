------------------------------- MODULE CdEmu -------------------------------
(***************************************************************************)
(* cdrom.c and ramdisk.c: a cdrom that stands in for a floppy or a hard    *)
(* drive, the boot from a cdrom that sets this up, and the floppy in       *)
(* flash.  An emulated read is up to three reads of the cdrom, two of them *)
(* through the bounce buffer; a boot is three reads.                       *)
(***************************************************************************)
EXTENDS Int13

CONSTANTS
  Discs,      \* what a cdrom may hold: [torito, bootable, media, ilba, sectors, lchs]
  MaxBoots,   \* how often the boot loop tries a cdrom
  ReadyTime,  \* seconds to become ready,
  MoreTime    \* and after the drive says that it works on it

VARIABLE cd
  \* [stage: of an emulated read, outer: its op, left: sectors to go, boot: step
  \*  of cdrom_boot, disc, wait, more, boots]

NoDisc == CHOOSE d \in Discs : TRUE      \* none is being looked at
CdInit == cd = [stage |-> "none", outer |-> NoOp, left |-> 0, boot |-> "none",
                disc |-> NoDisc, wait |-> 0, more |-> FALSE, boots |-> 0]

Elsewhere == 1000                 \* memory that is none of the caller's

(***************************************************************************)
(* The emulated drive                                                      *)
(***************************************************************************)

(* The next read of the cdrom for what is left of o; to end returns it.    *)
NextPart(o, left, lba) ==
  LET part == IF o.lba % 4 # 0 /\ o.count = 0 THEN "first"
              ELSE IF left > 3 THEN "middle" ELSE IF left > 0 THEN "last" ELSE "none"
  IN
  IF part = "none"
  THEN /\ cd' = [cd EXCEPT !.stage = "none", !.outer = NoOp, !.left = 0]
       /\ op' = o /\ at' = "ret" /\ ret' = "success"
  ELSE /\ cd' = [cd EXCEPT !.stage = part, !.outer = o, !.left = left]
       /\ op' = [drive |-> bios.emu.drive, command |-> "read", lba |-> lba,
                 count |-> IF part = "middle" THEN left \div 4 ELSE 1,
                 buf |-> IF part = "middle" THEN o.buf ELSE Bounce,
                 odd |-> part = "middle" /\ o.odd]
       /\ at' = "op" /\ ret' = ret

cdemu_read ==
  /\ Running({"cdemu"}) /\ op.command = "read"
  /\ NextPart([op EXCEPT !.count = 0], op.count, bios.emu.ilba + op.lba \div 4)
  /\ NoTransfer /\ UNCHANGED <<bios, call>>

FromBounce(to, from, k) ==
  [x \in Addr |-> IF x \in to .. to + k - 1 THEN mem[Bounce + from + x - to] ELSE mem[x]]

(* The cdrom has answered: what it brought goes to the caller.             *)
cdemu_part_bounced(o, k, from) == FromBounce(o.buf, 0, k)   \* a wrong one, from its start
cdemu_part(o, k, from) == FromBounce(o.buf, from, k)
cdemu_more ==
  /\ at = "ret" /\ cd.stage # "none"
  /\ LET o == cd.outer
         from == IF cd.stage = "first" THEN o.lba % 4 ELSE 0
         k == IF cd.stage = "middle" THEN op.count * 4
              ELSE Min({4 - from, cd.left})
         failed == ret # "success"
         count == IF failed /\ cd.stage # "middle" THEN o.count ELSE o.count + k
     IN
     /\ mem' = IF failed \/ cd.stage = "middle" THEN mem ELSE cdemu_part(o, k, from)
     /\ IF failed
        THEN /\ cd' = [cd EXCEPT !.stage = "none", !.outer = NoOp, !.left = 0]
             /\ op' = [o EXCEPT !.count = count] /\ UNCHANGED <<at, ret>>
        ELSE NextPart([o EXCEPT !.count = count, !.buf = @ + k], cd.left - k,
                      op.lba + (IF cd.stage = "middle" THEN cd.left \div 4 ELSE 1))
  /\ UNCHANGED <<wrote, bios, call>>

process_cdemu_op ==
  /\ op.command # "read" /\ UNCHANGED <<cd, bios, call>>
  /\ Running({"cdemu"}) /\ NoTransfer
  /\ IF op.command \in {"write", "format"} THEN Return("writeprotect", op.count)
     ELSE Return("success", op.count)

(* Int 13h ah=4bh: tell about the emulation, and with al=0 end it.         *)
cdemu_134b ==
  /\ Begin /\ cd.boot = "none"
  /\ \E r \in Requests :
       /\ r.ah = 75
       /\ call' = [req |-> r, code |-> "success", info |-> <<bios.emu>>]
       /\ bios' = disk_ret([bios EXCEPT !.emu.active = @ /\ r.al # 0], r, "success")
  /\ at' = "done" /\ UNCHANGED <<op, ret, cd>>

(***************************************************************************)
(* Booting from a cdrom                                                    *)
(***************************************************************************)
cdrom_boot ==
  /\ at = "idle" /\ cd.boot = "none" /\ bios.found = <<>> /\ cd.boots < MaxBoots
  /\ \E d \in DOMAIN Drive, disc \in Discs :
       /\ getDriveId(bios.cd, d) >= 0
       /\ op' = [drive |-> d, command |-> "read", lba |-> 17, count |-> 1,
                 buf |-> Elsewhere, odd |-> FALSE]
       /\ cd' = [cd EXCEPT !.boot = "ready", !.disc = disc, !.wait = ReadyTime,
                           !.more = FALSE, !.boots = @ + 1]
  /\ at' = "cd_ready" /\ UNCHANGED <<ret, mem, wrote, bios, call>>

(* READ CAPACITY until it is answered, there is no disc or the time is up; *)
(* the boot goes on in any case.                                           *)
atapi_is_ready ==
  /\ at = "cd_ready"
  /\ \/ /\ cd' = [cd EXCEPT !.boot = "descriptor", !.wait = 0, !.more = FALSE]
        /\ at' = "op"
     \/ /\ cd.wait > 0 /\ at' = at
        /\ \/ cd' = [cd EXCEPT !.wait = @ - 1]
           \/ ~cd.more /\ cd' = [cd EXCEPT !.wait = MoreTime, !.more = TRUE]
  /\ UNCHANGED <<op, ret, mem, wrote, bios, call>>

BootEnd == at' = "done" /\ cd' = [cd EXCEPT !.boot = "none", !.disc = NoDisc] /\ UNCHANGED op
BootRead(step, lba, count) ==
  /\ cd' = [cd EXCEPT !.boot = step] /\ at' = "op"
  /\ op' = [op EXCEPT !.lba = lba, !.count = count]
Booting(step) ==
  /\ at = "ret" /\ cd.stage = "none" /\ cd.boot = step
  /\ UNCHANGED <<ret, mem, wrote, call>>

cdrom_boot_descriptor ==
  /\ Booting("descriptor") /\ UNCHANGED bios
  /\ IF ret = "success" /\ cd.disc.torito THEN BootRead("catalog", 18, 1) ELSE BootEnd
cdrom_boot_catalog ==
  /\ Booting("catalog")
  /\ IF ret = "success" /\ cd.disc.bootable
     THEN /\ BootRead("image", cd.disc.ilba, (cd.disc.sectors + 3) \div 4)
          /\ bios' = [bios EXCEPT !.emu.media = cd.disc.media, !.emu.drive = op.drive,
                                  !.emu.sectors = cd.disc.sectors, !.emu.ilba = cd.disc.ilba]
     ELSE BootEnd /\ UNCHANGED bios

EmuFloppy(media) ==
  [c |-> 80, h |-> 2, s |-> CASE media = 1 -> 15 [] media = 2 -> 18 [] OTHER -> 36]
cdrom_boot_image ==
  /\ Booting("image") /\ BootEnd
  /\ LET e == bios.emu IN
     bios' =
       IF ret # "success" THEN bios
       ELSE IF e.media = 0
       THEN [bios EXCEPT !.emu.ext = EXTSTART_CD + getDriveId(bios.cd, e.drive)]
       ELSE IF e.media < 4
       THEN [bios EXCEPT !.emu.ext = 0, !.emu.active = TRUE, !.equip = 2,
                         !.emu.lchs = EmuFloppy(e.media)]
       ELSE [bios EXCEPT !.emu.ext = EXTSTART_HD, !.emu.active = TRUE,
                         !.hdcount = @ + 1, !.emu.lchs = cd.disc.lchs]

(***************************************************************************)
(* The floppy in flash: int 15h ah=87h moves the data                      *)
(***************************************************************************)
ramdisk_copy ==
  /\ Running({"ramdisk"}) /\ op.command \in {"read", "write"}
  /\ \/ Transfer(op.command, op.drive, op.lba, op.buf, op.count) /\ Return("success", op.count)
     \/ NoTransfer /\ Return("badtrack", op.count)
  /\ UNCHANGED <<bios, call, cd>>
process_ramdisk_op ==
  /\ op.command \notin {"read", "write"}
  /\ Answer({"ramdisk"}, {"verify", "format", "reset"}, {})
  /\ UNCHANGED <<bios, call, cd>>

=============================================================================
