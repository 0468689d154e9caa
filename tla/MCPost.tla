------------------------------- MODULE MCPost -------------------------------
(***************************************************************************)
(* Six machines: an ordinary one, one with bridges whose numbers were set  *)
(* before and are taken, one whose option roms run beside the threads,     *)
(* two without enough memory for their tables, and a guest of xen.         *)
(***************************************************************************)
EXTENDS Post

Bar(type, exp) == [type |-> type, exp |-> exp, is64 |-> FALSE]
Dev(up, kind, slot, pin, bars) ==
  [up |-> up, kind |-> kind, slot |-> slot, pin |-> pin, bars |-> bars, sec |-> 0, sub |-> 0,
   line |-> 0]
Bridge(up, slot, sec, sub) ==
  [up |-> up, kind |-> "bridge", slot |-> slot, pin |-> 0, bars |-> <<>>, sec |-> sec,
   sub |-> sub, line |-> 0]
Chipset ==
  <<Dev(0, "host", 0, 0, <<>>), Dev(0, "isa", 1, 0, <<>>),
    Dev(0, "ide", 1, 0, <<Bar("io", 3), Bar("io", 2), Bar("io", 3), Bar("io", 2), Bar("io", 4)>>),
    Dev(0, "piix4_pm", 1, 1, <<>>)>>
Vga == Dev(0, "vga", 2, 1, <<Bar("pref", 25), Bar("mem", 12), Bar("mem", 16)>>)
Small == <<Dev(0, "host", 0, 0, <<>>), Dev(0, "piix4_pm", 1, 1, <<>>), Vga>>
Net(slot, pin) == Dev(0, "net", slot, pin, <<Bar("mem", 17), Bar("io", 6), Bar("mem", 16)>>)
MCBoard ==
  [pc |-> [set |-> FALSE, devs |-> Chipset \o <<Vga, Net(3, 1), Net(3, 1), Net(4, 1)>>],
   bridges |-> [set |-> FALSE, devs |->
     <<Bridge(0, 2, 1, 3), Bridge(1, 0, 2, 2), Dev(1, "net", 1, 1, <<Bar("mem", 17), Bar("io", 6), Bar("mem", 5)>>),
       Dev(2, "vga", 3, 1, <<Bar("pref", 26), Bar("mem", 20)>>), Dev(0, "net", 3, 1, <<Bar("io", 5)>>),
       Bridge(0, 4, 1, 2), Dev(6, "net", 1, 2, <<Bar("mem", 20), Bar("pref", 12)>>)>>],
   early |-> [set |-> FALSE, devs |-> <<Vga, Net(3, 1)>>],
   scarce |-> [set |-> FALSE, devs |-> Small], scarcer |-> [set |-> FALSE, devs |-> Small],
   guest |-> [set |-> TRUE, devs |-> Chipset \o <<Vga>>]]
MCMachine ==
  [pc |-> [threads |-> {"ata0", "fdc"}, early |-> FALSE, xen |-> FALSE],
   bridges |-> [threads |-> {"usb", "ahci0"}, early |-> FALSE, xen |-> FALSE],
   early |-> [threads |-> {"ahci0", "virtio"}, early |-> TRUE, xen |-> FALSE],
   scarce |-> [threads |-> {}, early |-> FALSE, xen |-> FALSE],
   scarcer |-> [threads |-> {}, early |-> FALSE, xen |-> FALSE],
   guest |-> [threads |-> {"flash", "ata0", "ata1"}, early |-> FALSE, xen |-> TRUE]]

MCProbe ==
  [ata0 |-> [bus |-> "ata", units |-> <<"hda", "cda">>], ata1 |-> [bus |-> "ata", units |-> <<"none", "tape">>],
   fdc |-> [bus |-> "fdc", units |-> <<"fd0">>], ahci0 |-> [bus |-> "ahci", units |-> <<"sata">>],
   usb |-> [bus |-> "usb", units |-> <<"stick">>], virtio |-> [bus |-> "virtio", units |-> <<"vda">>],
   flash |-> [bus |-> "flash", units |-> <<"img">>]]
MCUnit ==
  [hda |-> [kind |-> "disk", blk |-> 1], cda |-> [kind |-> "cd", blk |-> 4],
   tape |-> [kind |-> "other", blk |-> 1], fd0 |-> [kind |-> "disk", blk |-> 1],
   sata |-> [kind |-> "disk", blk |-> 1], stick |-> [kind |-> "disk", blk |-> 1],
   vda |-> [kind |-> "disk", blk |-> 1], img |-> [kind |-> "disk", blk |-> 1]]
E2(type, prio, drive) == [type |-> type, prio |-> prio, drive |-> drive]
MCEntry ==
  [hda |-> E2(HARDDISK, -1, <<2, 0>>), cda |-> E2(CDROM, 3, <<3, 0>>), fd0 |-> E2(FLOPPY, -1, <<1, 0>>),
   sata |-> E2(HARDDISK, -1, <<4, 0>>), stick |-> E2(HARDDISK, -1, <<6, 0>>),
   vda |-> E2(HARDDISK, -1, <<5, 0>>), img |-> E2(FLOPPY, 1, <<7, 0>>),
   pxe |-> E2(BEV, 2, <<>>), scsi1 |-> E2(BCV, 5, <<>>), scsi2 |-> E2(BCV, -1, <<>>),
   old |-> E2(BCV, -1, <<>>), pxe2 |-> E2(BEV, -1, <<>>)]

R(file, size, after, pnp, bev, bcv) ==
  [file |-> file, size |-> size, after |-> after, sum |-> TRUE, pnp |-> pnp, bev |-> bev, bcv |-> bcv]
MCRom ==
  [vgabios |-> R(80, 80, 77, TRUE, "none", <<>>),
   nic |-> R(64, 64, 21, TRUE, "pxe", <<>>), nic2 |-> R(40, 40, 40, TRUE, "pxe2", <<>>),
   hba |-> R(30, 30, 14, TRUE, "none", <<"scsi1", "scsi2">>),
   legacy |-> R(10, 10, 6, FALSE, "none", <<"old">>),
   broken |-> [R(8, 8, 8, TRUE, "none", <<>>) EXCEPT !.sum = FALSE],
   huge |-> R(180, 180, 20, TRUE, "none", <<>>)]
None == [pci |-> <<>>, vga |-> <<>>, gen |-> <<>>, drivers |-> {}, enforce |-> TRUE, there |-> <<>>]
MCRomPlan ==
  [pc |-> [None EXCEPT !.pci = << <<5, "vgabios", "bar">>, <<6, "nic", "file">>, <<8, "nic2", "bar">> >>,
                       !.gen = << <<0, "legacy", "file">>, <<0, "huge", "file">> >>],
   bridges |-> [None EXCEPT !.pci = << <<4, "vgabios", "bar">>, <<3, "hba", "bar">> >>,
                            !.gen = << <<0, "broken", "file">>, <<0, "legacy", "file">> >>],
   early |-> [None EXCEPT !.pci = << <<2, "nic", "file">> >>, !.drivers = {2}],
   scarce |-> None, scarcer |-> None,
   guest |-> [None EXCEPT !.there = <<[at |-> 0, rom |-> "vgabios"], [at |-> 80, rom |-> "hba"],
                                      [at |-> 120, rom |-> "nic"]>>]]

(* Memory may be out for each of these tables alone: no two that tell of   *)
(* the same depend on each other but through the rsdt.                     *)
MCScarce ==
  [b \in DOMAIN MCBoard |-> CASE b = "scarce" -> {"mp", "smbios", "hpet", "srat", "rsdt"}
                              [] b = "scarcer" -> {"fadt", "ssdt", "madt", "external", "rsdt"}
                              [] OTHER -> {}]

MCNvram == <<>>
(* Three nodes, the second around the hole below 4G (in K).                *)
MCNodes == <<2097152, 8388608, 12058624>>
MCExternals == <<"slic", "other">>
=============================================================================
