------------------------------- MODULE Int13 -------------------------------
(***************************************************************************)
(* disk.c and block.c: the drives by their int 13 numbers, and int 13      *)
(* itself.  A call is a record of the registers that matter; its results   *)
(* are put beside them.  A call that reads, writes or asks a device goes   *)
(* through the drivers as op; the others answer at once.                   *)
(***************************************************************************)
EXTENDS DiskOp, FiniteSetsExt

CONSTANTS
  MaxExt,     \* CONFIG_MAX_EXTDRIVE
  Machines,   \* by name: [found: the drives in the order they are mapped,
              \*  calls: the calls made, [ah, dl, al, chs, lba, count, buf, odd]]
  MaxLocks    \* 255

VARIABLES
  bios,   \* [machine, found: drives still to be mapped, floppy, hd, cd: IDMap, hdcount,
          \*  lchs, fdpt, equip, emu: cdemu in the ebda, locks, floppy_last, disk_last]
  call    \* the call being served, or served last, with its code and its info

EXTSTART_HD == 128
EXTSTART_CD == 224
IsFloppy(dl) == dl < EXTSTART_HD
IsCd(dl) == dl >= EXTSTART_CD
SameKind(a, b) == IsFloppy(a) <=> IsFloppy(b)

(***************************************************************************)
(* The geometry int 13 shows of a hard drive (block.c).  A drive d has     *)
(* pchs, what the device says; sectors; and cmos, the translation that an  *)
(* emulator left in nvram for an ata disk.                                 *)
(***************************************************************************)
NONE == 0
LBA == 1
LARGE == 2
RECHS == 3

get_translation(d) ==
  LET p == d.pchs IN
  IF d.type = "ata" THEN d.cmos
  ELSE IF 0 \in {p.c, p.h, p.s} \/ p.c * p.h * p.s > d.sectors THEN LBA
  ELSE IF p.c <= 1024 /\ p.h <= 16 /\ p.s <= 63 THEN NONE
  ELSE IF p.c * p.h <= 131072 THEN LARGE
  ELSE LBA

(* Halve the cylinders and double the heads, up to the limit of either.    *)
Shrink(c, h) ==
  LET Enough(k) == c \div 2^k <= 1024 \/ (k > 0 /\ h * 2^k > 127)
      k == CHOOSE n \in 0 .. 6 : Enough(n) /\ \A m \in 0 .. n - 1 : ~Enough(m)
  IN [c |-> c \div 2^k, h |-> h * 2^k]

LbaHeads(sect) ==
  LET h == sect \div 1024 IN
  IF h > 128 THEN 255 ELSE IF h > 64 THEN 128 ELSE IF h > 32 THEN 64
  ELSE IF h > 16 THEN 32 ELSE 16

Clip(g) == [g EXCEPT !.c = IF @ > 1024 THEN 1024 ELSE @]

setup_translation(d) ==
  LET p == d.pchs
      t == get_translation(d)
      big == IF p.c > 61439 THEN 61439 ELSE p.c
  IN Clip(
       CASE t = NONE -> p
         [] t = LBA ->
              IF d.sectors > 63 * 255 * 1024 THEN [c |-> 1024, h |-> 255, s |-> 63]
              ELSE LET sect == d.sectors \div 63
                       h == LbaHeads(sect)
                   IN [c |-> sect \div h, h |-> h, s |-> 63]
         [] OTHER ->
              LET g == IF t = RECHS /\ p.h = 16
                       THEN Shrink(((big * 16) \div 15) % 65536, 15)
                       ELSE Shrink(p.c, p.h)
              IN [c |-> g.c, h |-> g.h, s |-> p.s])

(* The fixed disk parameter table of one of the first two hard drives.     *)
fill_fdpt(l, p) ==
  [logical |-> l, landing |-> p.c, many |-> p.h > 8,
   physical |-> IF l # p THEN p ELSE [c |-> 0, h |-> 0, s |-> 0]]

(***************************************************************************)
(* The map of the drives                                                   *)
(***************************************************************************)
NoChs == [c |-> 0, h |-> 0, s |-> 0]
NoEmu == [active |-> FALSE, ext |-> 0, drive |-> "none", media |-> 0, ilba |-> 0,
          sectors |-> 0, lchs |-> NoChs]
Requests == Machines[bios.machine].calls
NoCall == [req |-> [ah |-> 1, dl |-> 0], code |-> "none", info |-> <<>>]
BiosInit(machine) ==
  /\ bios = [machine |-> machine, found |-> Machines[machine].found, floppy |-> <<>>, hd |-> <<>>, cd |-> <<>>, hdcount |-> 0,
             lchs |-> [d \in DOMAIN Drive |-> Drive[d].lchs],
             fdpt |-> [i \in {0, 1} |-> fill_fdpt(NoChs, NoChs)], equip |-> 0,
             emu |-> NoEmu, locks |-> [i \in 0 .. MaxExt - 1 |-> 0],
             floppy_last |-> "success", disk_last |-> "success"]
  /\ call = NoCall

add_drive(map, d) == IF Len(map) >= MaxExt THEN map ELSE Append(map, d)
Mapping(kind) ==
  /\ at = "idle" /\ bios.found # <<>>
  /\ LET d == Head(bios.found) IN
     kind = IF Type(d) \in {"floppy", "ramdisk"} THEN "floppy"
            ELSE IF Drive[d].blk = 4 THEN "cd" ELSE "hd"
  /\ UNCHANGED <<opVars, call>>

map_hd_drive ==
  /\ Mapping("hd")
  /\ LET d == Head(bios.found)
         l == setup_translation(Drive[d])
         id == bios.hdcount
     IN bios' = [bios EXCEPT
          !.found = Tail(@), !.hd = add_drive(@, d), !.lchs[d] = l,
          !.hdcount = IF @ >= MaxExt THEN @ ELSE @ + 1,
          !.fdpt = IF id > 1 THEN @ ELSE [@ EXCEPT ![id] = fill_fdpt(l, Drive[d].pchs)]]
map_cd_drive ==
  /\ Mapping("cd")
  /\ bios' = [bios EXCEPT !.found = Tail(@), !.cd = add_drive(@, Head(bios.found))]
map_floppy_drive ==
  /\ Mapping("floppy")
  /\ LET map == add_drive(bios.floppy, Head(bios.found)) IN
     bios' = [bios EXCEPT !.found = Tail(@), !.floppy = map,
                          !.equip = IF Len(map) = 1 THEN 1 ELSE 2]

getDrive(map, id) == IF id \in 0 .. Len(map) - 1 THEN map[id + 1] ELSE "none"
getDriveId(map, d) ==
  IF \E i \in DOMAIN map : map[i] = d
  THEN Min({i - 1 : i \in {j \in DOMAIN map : map[j] = d}}) ELSE -1

(***************************************************************************)
(* The call                                                                *)
(***************************************************************************)
Hidden(dl) == bios.emu.active /\ dl # bios.emu.ext /\ ~IsCd(dl) /\ SameKind(bios.emu.ext, dl)
legacy_drive(id) ==
  IF IsFloppy(id) THEN getDrive(bios.floppy, id)
  ELSE IF IsCd(id) THEN getDrive(bios.cd, id - EXTSTART_CD)
  ELSE getDrive(bios.hd, id - EXTSTART_HD)
handle_13(dl) ==
  IF bios.emu.active /\ dl = bios.emu.ext THEN "cdemu"
  ELSE legacy_drive(IF Hidden(dl) THEN dl - 1 ELSE dl)

disk_13_functions == {0, 1, 2, 3, 4, 5, 8, 9, 12, 13, 16, 17, 20, 21, 22} \cup (65 .. 73) \cup {78}
floppy_13_functions == {0, 1, 2, 3, 4, 5, 8, 21, 22}
Served(r) ==
  LET d == handle_13(r.dl) IN
  IF d = "none" THEN {}
  ELSE IF d = "cdemu" THEN {f \in disk_13_functions : f <= 22}
  ELSE IF IsFloppy(IF Hidden(r.dl) THEN r.dl - 1 ELSE r.dl) THEN floppy_13_functions
  ELSE disk_13_functions

disk_ret(b, r, code) ==
  IF IsFloppy(r.dl) THEN [b EXCEPT !.floppy_last = code] ELSE [b EXCEPT !.disk_last = code]

Calls(fs) == {r \in Requests : r.ah \in fs /\ r.ah \in Served(r)}
Begin == at = "idle" /\ bios.found = <<>> /\ NoTransfer
Reply(r, code, info) ==
  /\ call' = [req |-> r, code |-> code, info |-> info]
  /\ bios' = disk_ret(bios, r, code)
  /\ at' = "done" /\ UNCHANGED <<op, ret>>
send_disk_op(r, command, lba, count) ==
  /\ op' = [drive |-> handle_13(r.dl), command |-> command, lba |-> lba,
            count |-> count, buf |-> r.buf, odd |-> r.odd]
  /\ at' = "op" /\ UNCHANGED <<ret, bios>>
  /\ call' = [req |-> r, code |-> "success", info |-> <<>>]

fillLCHS(d) == IF d = "cdemu" THEN bios.emu.lchs ELSE bios.lchs[d]

basic_access ==
  /\ Begin
  /\ \E r \in Calls({2, 3, 4}) :
       LET g == fillLCHS(handle_13(r.dl))
           x == r.chs
       IN IF r.al > 128 \/ r.al = 0 \/ x.s = 0 \/ x.c >= g.c \/ x.h >= g.h \/ x.s > g.s
          THEN Reply(r, "param", <<>>)
          ELSE send_disk_op(r, CASE r.ah = 2 -> "read" [] r.ah = 3 -> "write"
                                 [] OTHER -> "verify",
                            (x.c * g.h + x.h) * g.s + x.s - 1, r.al)

extended_access ==
  /\ Begin
  /\ \E r \in Calls({66, 67, 68, 71}) :
       IF r.lba >= Drive[handle_13(r.dl)].sectors
       THEN Reply(r, "param", <<>>)
       ELSE send_disk_op(r, CASE r.ah = 66 -> "read" [] r.ah = 67 -> "write"
                              [] r.ah = 68 -> "verify" [] OTHER -> "seek",
                         r.lba, r.count)

disk_1305 ==
  /\ Begin
  /\ \E r \in Calls({5}) :
       LET g == fillLCHS(handle_13(r.dl)) IN
       IF r.chs.h >= g.h \/ r.al = 0 \/ r.al > g.s THEN Reply(r, "param", <<>>)
       ELSE send_disk_op(r, "format", r.chs.h, r.al)

disk_1300 == Begin /\ \E r \in Calls({0}) : send_disk_op(r, "reset", 0, 0)
disk_1310 == Begin /\ \E r \in Calls({16}) : send_disk_op(r, "isready", 0, 0)

(* The status of the last call; it is not one itself.                      *)
disk_1301 ==
  /\ Begin
  /\ \E r \in Calls({1}) :
       call' = [req |-> r, code |-> IF IsFloppy(r.dl) THEN bios.floppy_last ELSE bios.disk_last,
                     info |-> <<>>]
  /\ at' = "done" /\ UNCHANGED <<op, ret, bios>>

disk_1308_all(r) ==      \* a wrong one, that keeps no cylinder back
  LET g == fillLCHS(handle_13(r.dl)) IN
  <<g.c, g.h - 1, g.s, bios.hdcount>>
(* Last cylinder and head, sectors per track, number of drives.            *)
disk_1308_info(r) ==
  LET d == handle_13(r.dl)
      g == fillLCHS(d)
      own == IF IsFloppy(r.dl) THEN Len(bios.floppy) ELSE bios.hdcount
      more == own + (IF bios.emu.active /\ SameKind(bios.emu.ext, r.dl) THEN 1 ELSE 0)
      last == IF IsFloppy(r.dl) THEN g.c - 1 ELSE g.c - 2
  IN <<last % 1024, (g.h - 1) % 256, g.s % 64,
       IF IsFloppy(r.dl) /\ bios.emu.active /\ more > 2 THEN 2 ELSE more>>
disk_1308 ==
  /\ Begin
  /\ \E r \in Calls({8}) : IF IsCd(r.dl) THEN Reply(r, "param", <<>>)
                           ELSE Reply(r, "success", disk_1308_info(r))

(* Functions that do nothing, and what they claim.                         *)
disk_stub ==
  /\ Begin
  /\ \E r \in Calls({9, 12, 13, 17, 20, 65}) : Reply(r, "success", <<>>)

disk_1315 ==
  /\ Begin
  /\ \E r \in Calls({21}) :
       LET g == fillLCHS(handle_13(r.dl)) IN
       Reply(r, "success", IF IsFloppy(r.dl) \/ IsCd(r.dl) THEN <<1>>
                           ELSE <<3, (g.c - 1) * g.h * g.s>>)

(* Media change: a floppy always, a cd always, and a hard drive never.     *)
disk_1316 ==
  /\ Begin
  /\ \E r \in Calls({22}) : Reply(r, IF IsFloppy(r.dl) THEN "changed" ELSE "param", <<>>)
disk_1349 ==
  /\ Begin
  /\ \E r \in Calls({73}) :
       IF IsCd(r.dl)
       THEN call' = [req |-> r, code |-> "changed", info |-> <<>>] /\ at' = "done" /\ UNCHANGED <<op, ret, bios>>
       ELSE Reply(r, "success", <<>>)

disk_134e ==
  /\ Begin
  /\ \E r \in Calls({78}) : Reply(r, IF r.al \in {1, 3, 4, 6} THEN "success" ELSE "param", <<>>)

(* Locks of a cd: lock, unlock, status; a hard drive needs none.           *)
LockReply(r, n, code) ==
  /\ call' = [req |-> r, code |-> code, info |-> <<IF n = 0 THEN 0 ELSE 1>>]
  /\ bios' = disk_ret([bios EXCEPT !.locks[r.dl - EXTSTART_CD] = n], r, code)
  /\ at' = "done" /\ UNCHANGED <<op, ret>>
disk_1345 ==
  /\ Begin
  /\ \E r \in Calls({69}) :
       IF ~IsCd(r.dl) THEN Reply(r, "success", <<>>)
       ELSE LET n == bios.locks[r.dl - EXTSTART_CD] IN
            CASE r.al = 0 -> IF n = MaxLocks THEN LockReply(r, n, "toomanylocks")
                             ELSE LockReply(r, n + 1, "success")
              [] r.al = 1 -> IF n = 0 THEN LockReply(r, n, "notlocked")
                             ELSE LockReply(r, n - 1, "success")
              [] r.al = 2 -> LockReply(r, n, "success")
              [] OTHER -> Reply(r, "param", <<>>)

(* An eject asks int 15h ah=52h, which somebody may have hooked.           *)
disk_1346 ==
  /\ Begin
  /\ \E r \in Calls({70}) :
       IF ~IsCd(r.dl) THEN Reply(r, "notremovable", <<>>)
       ELSE IF bios.locks[r.dl - EXTSTART_CD] # 0 THEN Reply(r, "locked", <<>>)
       ELSE \E code \in {"locked", "success"} : Reply(r, code, <<>>)

(* EDD: r.count is the size of the caller's buffer; info says how much of  *)
(* it was filled, the geometry, and where the drive is.                    *)
EddSize(size, type) ==
  IF size < 30 \/ type \notin {"ata", "atapi", "virtio"} THEN 26 ELSE IF size < 66 THEN 30 ELSE 66
EddGeometry(d) ==
  LET p == Drive[d].pchs IN
  IF Drive[d].type = "atapi" THEN [valid |-> FALSE, chs |-> NoChs, sectors |-> -1]
  ELSE IF Drive[d].sectors > p.s * p.h * 16383
  THEN [valid |-> FALSE, chs |-> [p EXCEPT !.c = 16383], sectors |-> Drive[d].sectors]
  ELSE [valid |-> TRUE, chs |-> p, sectors |-> Drive[d].sectors]
EddPath(d) ==
  IF Drive[d].type = "virtio" THEN [iface |-> "SCSI", slave |-> 0, translated |-> FALSE]
  ELSE [iface |-> "ATA", slave |-> Drive[d].slave,
        translated |-> Drive[d].type = "ata" /\ get_translation(Drive[d]) # NONE]
disk_1348 ==
  /\ Begin
  /\ \E r \in Calls({72}) :
       LET d == handle_13(r.dl)
           size == EddSize(r.count, Drive[d].type)
       IN IF r.count < 26 THEN Reply(r, "param", <<>>)
          ELSE Reply(r, "success", <<size, Drive[d].blk, EddGeometry(d),
                                     IF size = 26 THEN <<>> ELSE <<EddPath(d)>> >>)

disk_13XX ==
  /\ Begin
  /\ \E r \in Requests : r.ah \notin Served(r) \cup {75} /\ Reply(r, "param", <<>>)

(* The device has answered; a transfer tells how far it came.              *)
Transfers == {2, 3, 4, 66, 67, 68, 71}
handle_13_return ==
  /\ at = "ret"
  /\ call' = [call EXCEPT !.code = ret,
                          !.info = IF call.req.ah \in Transfers THEN <<op.count>> ELSE <<>>]
  /\ bios' = disk_ret(bios, call.req, ret)
  /\ at' = "done" /\ UNCHANGED <<op, ret, mem, wrote>>

(* The caller has seen the results and goes on.                            *)
iret ==
  /\ at = "done" /\ at' = "idle" /\ call' = NoCall
  /\ op' = NoOp /\ ret' = "success" /\ mem' = Untouched /\ wrote' = {} /\ UNCHANGED bios

Int13Next ==
  \/ map_hd_drive \/ map_cd_drive \/ map_floppy_drive
  \/ basic_access \/ extended_access \/ disk_1300 \/ disk_1301 \/ disk_1305 \/ disk_1308
  \/ disk_stub \/ disk_1310 \/ disk_1315 \/ disk_1316 \/ disk_1345 \/ disk_1346
  \/ disk_1348 \/ disk_1349 \/ disk_134e \/ disk_13XX
=============================================================================
