------------------------------- MODULE DiskOp -------------------------------
(***************************************************************************)
(* A disk_op_s on its way through block.c and a driver.  The module holds  *)
(* what every driver shares: the request, the step it has reached, the     *)
(* status it returns, and what the request has done so far to the memory   *)
(* of the caller and to the disk.  Memory and disks are counted in         *)
(* sectors of 512 bytes; a block of a cdrom is four of them.               *)
(***************************************************************************)
EXTENDS Integers, Sequences, FiniteSets

CONSTANTS
  Drive,   \* drive_s by name: [type, blk, sectors, lchs] and what its driver keeps
  Slots,   \* the memory of the caller: addresses 0 .. Slots - 1
  Seg64,   \* sectors in 64KiB, which no dma descriptor crosses
  Late     \* may a device still finish a command the driver gave up?

VARIABLES
  op,      \* the disk_op_s: [drive, command, lba, count, buf, odd]
  at,      \* "idle", "op" (in process_op), a step of a driver, or "ret"
  ret,     \* the DISK_RET_ code returned last
  mem,     \* what each address holds: <<"mem", address>> or <<drive, sector>>
  wrote    \* what this call wrote: <<drive, sector, content>>

opVars == <<op, at, ret, mem, wrote>>

Bounce == 100                               \* bounce_buf_fl, one cdrom block
Addr == (0 .. Slots - 1) \cup (Bounce .. Bounce + 3)
Untouched == [a \in Addr |-> <<"mem", a>>]
Rets == {"success", "param", "badtrack", "writeprotect", "notready",
         "timeout", "controller", "boundary", "failed"}

NoOp == [drive |-> "none", command |-> "reset", lba |-> 0, count |-> 0,
         buf |-> 0, odd |-> FALSE]
OpInit ==
  /\ op = NoOp
  /\ at = "idle" /\ ret = "success" /\ mem = Untouched /\ wrote = {}

Type(d) == Drive[d].type
Blk(o) == Drive[o.drive].blk                \* blksize, in sectors
Running(types) == at = "op" /\ Type(op.drive) \in types

(* k sectors of drive d from sector s on go to memory at a, or back.       *)
Fill(m, a, d, s, k) ==
  [x \in Addr |-> IF x \in a .. a + k - 1 THEN <<d, s + x - a>> ELSE m[x]]
At(m, a) == IF a \in Addr THEN m[a] ELSE <<"mem", a>>
Transfer(command, d, s, a, k) ==
  IF command = "read"
  THEN mem' = Fill(mem, a, d, s, k) /\ wrote' = wrote
  ELSE /\ wrote' = wrote \cup {<<d, s + i, At(mem, a + i)>> : i \in 0 .. k - 1}
       /\ mem' = mem
NoTransfer == UNCHANGED <<mem, wrote>>

(* The driver returns code with op->count set to count. *)
Return(code, count) ==
  /\ at' = "ret" /\ ret' = code /\ op' = [op EXCEPT !.count = count]
Goto(step) == at' = step /\ UNCHANGED <<op, ret>>

(* A driver answers the commands that move no data from a table; a command *)
(* that is in no table is unknown.                                         *)
Answer(types, ok, protected) ==
  /\ Running(types)
  /\ IF op.command \in ok THEN Return("success", op.count)
     ELSE IF op.command \in protected THEN Return("writeprotect", op.count)
     ELSE Return("param", 0)
  /\ NoTransfer

(* Task file of a read or write of o: 28 bit commands when the sector and  *)
(* the count fit, 48 bit ones otherwise.  A register holds RegMax values,  *)
(* the three low LBA registers LowMax, all of a 28 bit address Lba28.      *)
CONSTANTS RegMax, LowMax, Lba28
TaskFile(o) ==
  LET ext == o.count >= RegMax \/ o.lba + o.count >= Lba28 IN
  [ext |-> ext, write |-> o.command = "write",
   sc |-> o.count % RegMax, sc2 |-> IF ext THEN o.count \div RegMax ELSE 0,
   low |-> o.lba % LowMax, high |-> IF ext THEN o.lba \div LowMax ELSE 0,
   dev |-> IF ext THEN 0 ELSE (o.lba \div LowMax) % (Lba28 \div LowMax)]

(* What the disk reads from a task file; a count of 0 stands for the most. *)
Sector(t) == (IF t.ext THEN t.high ELSE t.dev) * LowMax + t.low
Count(t) ==
  LET c == IF t.ext THEN t.sc2 * RegMax + t.sc ELSE t.sc IN
  IF c # 0 THEN c ELSE IF t.ext THEN RegMax * RegMax ELSE RegMax
=============================================================================
