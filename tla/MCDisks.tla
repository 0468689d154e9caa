------------------------------ MODULE MCDisks ------------------------------
(* Small machines for Disks: which drives, which discs, which calls.       *)
EXTENDS Disks

Chs(c, h, s) == [c |-> c, h |-> h, s |-> s]
D(type, blk, sectors, chs) ==
  [type |-> type, blk |-> blk, sectors |-> sectors, lchs |-> chs, pchs |-> chs, slave |-> 0, chan |-> 0,
   dma |-> TRUE, cmos |-> 0, established |-> TRUE]
MCDrive ==
  [fd0 |-> D("floppy", 1, 12, Chs(2, 2, 3)),
   fd1 |-> [D("floppy", 1, 12, Chs(2, 2, 3)) EXCEPT !.established = FALSE],
   rd0 |-> D("ramdisk", 1, 36, Chs(3, 2, 6)),
   hd0 |-> [D("ata", 1, 4193280, Chs(4160, 16, 63)) EXCEPT !.cmos = 2],
   hd1 |-> [D("ata", 1, 4193280, Chs(4160, 16, 63)) EXCEPT !.cmos = 3, !.chan = 1, !.slave = 1],
   hd2 |-> [D("ata", 1, 4193280, Chs(4160, 16, 63)) EXCEPT !.cmos = 1, !.chan = 1, !.dma = FALSE],
   cd0 |-> [D("atapi", 4, 1000000, Chs(0, 0, 0)) EXCEPT !.slave = 1],
   sd0 |-> D("ahci", 1, 20000000, Chs(16383, 16, 63)),
   sd1 |-> D("ahci", 4, 1000000, Chs(0, 0, 0)),
   vd0 |-> D("virtio", 1, 4096, Chs(8, 8, 63)),
   vd1 |-> D("virtio", 1, 2100000, Chs(0, 0, 0)),
   vd2 |-> D("virtio", 1, 4096, Chs(8, 8, 63)),
   us0 |-> D("usb", 1, 300000, Chs(0, 0, 0)),
   us1 |-> D("usb", 4, 1000000, Chs(0, 0, 0)),
   cdemu |-> D("cdemu", 1, 2000000000, Chs(0, 0, 0))]

Disc(torito, bootable, media) ==
  [torito |-> torito, bootable |-> bootable, media |-> media, ilba |-> 5, sectors |-> 4,
   lchs |-> Chs(2, 2, 9)]
MCDiscs == {Disc(FALSE, FALSE, 0), Disc(TRUE, FALSE, 0), Disc(TRUE, TRUE, 0), Disc(TRUE, TRUE, 1),
            Disc(TRUE, TRUE, 4)}

R(ah, dl, al, chs, lba, count, buf, odd) ==
  [ah |-> ah, dl |-> dl, al |-> al, chs |-> chs, lba |-> lba, count |-> count, buf |-> buf,
   odd |-> odd]
Simple(ah, dl, al) == R(ah, dl, al, Chs(0, 0, 1), 0, 0, 0, FALSE)
Basic(ahs, dls, al, chs, buf, odd) ==
  {R(ah, dl, al, chs, 0, 0, buf, o) : ah \in ahs, dl \in dls, o \in odd}
Extended(ahs, dls, lbas, counts, odd) ==
  {R(ah, dl, 0, Chs(0, 0, 0), lba, n, 2, o) :
     ah \in ahs, dl \in dls, lba \in lbas, n \in counts, o \in odd}
Others(ahs, dls, al) == {Simple(ah, dl, al) : ah \in ahs, dl \in dls}

FloppyCalls ==
  Basic({2, 3}, {0}, 2, Chs(1, 1, 2), 0, {FALSE}) \cup Basic({2}, {1}, 1, Chs(1, 0, 3), 3, {FALSE})
  \cup Basic({2}, {0}, 2, Chs(0, 0, 1), 3, {FALSE})
  \cup Others({0, 1, 4, 5, 8, 16, 22}, {0}, 1)
EmuCalls ==
  Basic({2}, {0, 1, 128, 129}, 6, Chs(0, 0, 4), 1, BOOLEAN) \cup Basic({3}, {0, 128, 129}, 1, Chs(1, 0, 3), 3, {FALSE})
  \cup Extended({66}, {128, 224}, {9}, {1, 2}, {FALSE}) \cup Others({8, 75}, {0, 128}, 0)
AtaCalls ==
  Extended({66, 67}, {128, 129}, {13, 62}, {1, 4}, BOOLEAN) \cup Basic({2}, {128, 129}, 6, Chs(1, 1, 2), 2, {FALSE})
  \cup Others({0, 8, 16, 21, 68, 71}, {128, 129}, 1)
  \cup {[Simple(72, 128, 0) EXCEPT !.count = n] : n \in {20, 26, 74}}
AhciCalls ==
  Extended({66, 67}, {128}, {13, 62}, {1, 4}, BOOLEAN) \cup Extended({66}, {224}, {9}, {1, 2}, BOOLEAN)
  \cup Others({0, 8, 69, 70, 73}, {128, 224}, 0) \cup Others({69}, {224}, 1) \cup Others({69}, {224}, 2)
VirtioCalls ==
  Extended({66, 67}, {128, 129}, {13}, {2}, {FALSE}) \cup Basic({2}, {128, 130}, 3, Chs(1, 1, 2), 2, {FALSE})
  \cup Others({8, 12, 24, 78}, {128}, 1)
UsbCalls ==
  Extended({66, 67}, {128}, {13, 2000000001}, {2}, {FALSE}) \cup Extended({66}, {224}, {9}, {1, 2}, {FALSE})
  \cup Basic({2}, {128}, 3, Chs(1, 1, 2), 2, {FALSE}) \cup Others({8, 16, 21}, {128}, 0)

Machine(found, calls) == [found |-> found, calls |-> calls]
MCMachines ==
  [floppies |-> Machine(<<"fd0", "fd1">>, FloppyCalls),
   cdrom |-> Machine(<<"rd0", "hd0", "cd0">>, EmuCalls),
   ata |-> Machine(<<"hd1", "hd2">>, AtaCalls),
   ahci |-> Machine(<<"sd0", "sd1">>, AhciCalls),
   virtio |-> Machine(<<"vd0", "vd1", "vd2">>, VirtioCalls),
   usb |-> Machine(<<"us0", "us1">>, UsbCalls)]
=============================================================================
