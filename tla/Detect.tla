------------------------------- MODULE Detect -------------------------------
(***************************************************************************)
(* How the drivers find their drives: ata.c, ahci.c, virtio-blk.c,         *)
(* usb-msc.c, floppy.c and ramdisk.c.  Every channel and every port has a  *)
(* thread of its own, which yields while it waits; what it finds goes to   *)
(* the boot list.                                                          *)
(***************************************************************************)
EXTENDS Boot

CONSTANTS
  Probe,    \* thread -> [bus, units: what hangs on it, in order of the slave]
  Unit,     \* what hangs there -> [kind: "disk", "cd" or "other", blk]
  Spinup    \* may a drive not become ready before SpinupEnd?

VARIABLE det
  \* [pc, slave, reset: of an ata channel, owns: memory of an ahci port, lst: where its
  \*  registers point, cmd: FIS_RX and START, pipes: of an usb device, dead: units that
  \*  did not answer] by thread

Threads == DOMAIN det
NoUnit == "none"
DetectNew(threads) ==
  [t \in threads |-> [pc |-> "start", slave |-> 0, reset |-> FALSE, owns |-> {},
                      lst |-> "none", cmd |-> {}, dead |-> {}]]
DetectInit(threads) == det = DetectNew(threads)

At(t, bus, pc) == boot.hw /\ Probe[t].bus = bus /\ det[t].pc = pc
Set(t, d) == det' = [det EXCEPT ![t] = d]
Unit1(t) == Probe[t].units[1]
(* Does the unit answer, this time?                                        *)
Answers(u) == IF u = NoUnit THEN {FALSE} ELSE IF Spinup THEN BOOLEAN ELSE {TRUE}
Register(u) == bootentry_add(u)
NoEntry == UNCHANGED boot
Done(t, u) ==
  /\ Set(t, [det[t] EXCEPT !.pc = "done", !.dead = @ \cup (IF u = NoUnit THEN {} ELSE {u})])
  /\ NoEntry

(***************************************************************************)
(* ata: two places on a channel; the first drive that answers resets it    *)
(***************************************************************************)
Slave(t) == Probe[t].units[det[t].slave + 1]
NextSlave(t, d) == [d EXCEPT !.slave = @ + 1, !.pc = IF d.slave = 1 THEN "done" ELSE "start"]
Skip(t) == [det[t] EXCEPT !.dead = IF Slave(t) = NoUnit THEN @ ELSE @ \cup {Slave(t)}]

(* Nobody there, busy for too long, or registers that do not hold a value. *)
powerup_await_non_bsy ==
  \E t \in Threads :
    /\ At(t, "ata", "start")
    /\ NoEntry
    /\ \E ok \in Answers(Slave(t)) :
         Set(t, IF ok THEN [det[t] EXCEPT !.pc = "atapi", !.reset = TRUE]
                ELSE NextSlave(t, Skip(t)))

(* A drive that answers IDENTIFY PACKET is taken for atapi; only a cdrom is *)
(* registered.                                                             *)
init_drive_atapi ==
  \E t \in Threads :
    /\ At(t, "ata", "atapi")
    /\ LET u == Slave(t) IN
       IF Unit[u].kind = "disk"
       THEN Set(t, [det[t] EXCEPT !.pc = "ata"]) /\ NoEntry
       ELSE /\ Set(t, NextSlave(t, det[t]))
            /\ IF Unit[u].kind = "cd" THEN Register(u) ELSE NoEntry

(* Word 93 of the first drive may tell that it answers for the second.     *)
init_drive_ata ==
  \E t \in Threads :
    /\ At(t, "ata", "ata")
    /\ \E ready \in Answers(Slave(t)) :
         IF ready
         THEN /\ Register(Slave(t))
              /\ Set(t, IF det[t].slave = 0 /\ Probe[t].units[2] = NoUnit
                        THEN [det[t] EXCEPT !.pc = "done"] ELSE NextSlave(t, det[t]))
         ELSE Set(t, NextSlave(t, Skip(t))) /\ NoEntry

(***************************************************************************)
(* ahci: the port works on temporary memory while it is probed, and is     *)
(* given low memory when a drive is found                                  *)
(***************************************************************************)
ahci_port_alloc ==
  \E t \in Threads :
    /\ At(t, "ahci", "start") /\ NoEntry
    /\ \/ Set(t, [det[t] EXCEPT !.pc = "reset", !.owns = {"tmp"}, !.lst = "tmp"])
       \/ Set(t, [det[t] EXCEPT !.pc = "done", !.dead = {Unit1(t)} \ {NoUnit}])   \* no memory

(* The port is made to stop, and FIS_RX and START go away.                 *)
ahci_port_reset(d) == [d EXCEPT !.cmd = {}]
ahci_port_detect ==
  \E t \in Threads :
    /\ At(t, "ahci", "reset") /\ NoEntry
    /\ Set(t, [ahci_port_reset(det[t]) EXCEPT !.pc = "link"])

ahci_port_release(t) ==
  Set(t, [ahci_port_reset(det[t]) EXCEPT !.pc = "done", !.owns = {},
                                         !.dead = {Unit1(t)} \ {NoUnit}])

(* FIS_RX, the link, the device, START: a failure gives everything back.   *)
ahci_port_init_link ==
  \E t \in Threads :
    /\ At(t, "ahci", "link") /\ NoEntry
    /\ Set(t, [det[t] EXCEPT !.cmd = {"fis"}, !.pc = "ready"])
ahci_port_init_ready ==
  \E t \in Threads :
    /\ At(t, "ahci", "ready") /\ NoEntry
    /\ \E ok \in Answers(Unit1(t)) :
         IF ok THEN Set(t, [det[t] EXCEPT !.cmd = {"fis", "start"}, !.pc = "identify"])
         ELSE ahci_port_release(t)
ahci_port_init_identify ==
  \E t \in Threads :
    /\ At(t, "ahci", "identify") /\ NoEntry
    /\ \E ok \in Answers(Unit1(t)) :
         IF ok /\ Unit[Unit1(t)].kind # "other"
         THEN Set(t, [det[t] EXCEPT !.pc = "realloc"]) ELSE ahci_port_release(t)

ahci_port_realloc ==
  \E t \in Threads :
    /\ At(t, "ahci", "realloc")
    /\ Set(t, [ahci_port_reset(det[t]) EXCEPT !.pc = "done", !.owns = {"low"}, !.lst = "low",
                                              !.cmd = {"fis", "start"}])
    /\ Register(Unit1(t))

(***************************************************************************)
(* virtio, usb, floppies and the floppy in flash                           *)
(***************************************************************************)
(* No memory, no queue, or blocks of another size.                         *)
init_virtio_blk ==
  \E t \in Threads :
    /\ At(t, "virtio", "start")
    /\ \/ /\ Unit[Unit1(t)].blk = 1 /\ Register(Unit1(t))
          /\ Set(t, [det[t] EXCEPT !.pc = "done"])
       \/ (Spinup \/ Unit[Unit1(t)].blk # 1) /\ Done(t, Unit1(t))

(* Two bulk pipes, an inquiry, and for a disk its capacity: with blocks of *)
(* a cdrom it is taken for one.                                            *)
usb_msc_init ==
  \E t \in Threads :
    /\ At(t, "usb", "start")
    /\ \E ok \in Answers(Unit1(t)) :
         IF ~ok THEN Done(t, Unit1(t))
         ELSE Set(t, [det[t] EXCEPT !.pc = IF Unit[Unit1(t)].kind = "cd" THEN "setup" ELSE "capacity"])
              /\ NoEntry
setup_drive_hd ==
  \E t \in Threads :
    /\ At(t, "usb", "capacity")
    /\ \E ok \in Answers(Unit1(t)) :
         IF ok /\ Unit[Unit1(t)].blk \in {1, 4}
         THEN Set(t, [det[t] EXCEPT !.pc = "setup"]) /\ NoEntry
         ELSE Done(t, Unit1(t))
setup_drive_cdrom ==
  \E t \in Threads :
    /\ At(t, "usb", "setup")
    /\ Register(Unit1(t))
    /\ Set(t, [det[t] EXCEPT !.pc = "done"])

floppy_setup ==
  \E t \in Threads :
    /\ At(t, "fdc", "start")
    /\ Register(Unit1(t))
    /\ Set(t, [det[t] EXCEPT !.pc = "done"])
ramdisk_setup ==
  \E t \in Threads :
    /\ At(t, "flash", "start")
    /\ IF Unit[Unit1(t)].blk = 1        \* an image of a known size, and memory for it
       THEN Register(Unit1(t)) /\ Set(t, [det[t] EXCEPT !.pc = "done"])
       ELSE Done(t, Unit1(t))

AllFound == \A t \in Threads : det[t].pc = "done"

DetectNext ==
  \/ powerup_await_non_bsy \/ init_drive_atapi \/ init_drive_ata
  \/ ahci_port_alloc \/ ahci_port_detect \/ ahci_port_init_link \/ ahci_port_init_ready
  \/ ahci_port_init_identify \/ ahci_port_realloc
  \/ init_virtio_blk \/ usb_msc_init \/ setup_drive_hd \/ setup_drive_cdrom
  \/ floppy_setup \/ ramdisk_setup
=============================================================================
