-------------------------------- MODULE Ahci --------------------------------
(***************************************************************************)
(* ahci.c: a port with one command slot.  A caller's buffer at an odd      *)
(* address goes block by block through the bounce buffer.  A command is    *)
(* fetched by the controller when it is issued to a free slot; one that    *)
(* timed out stays in the slot (Late), and its end is then taken for the   *)
(* end of the next one.                                                    *)
(***************************************************************************)
EXTENDS DiskOp

VARIABLE ahci   \* [block: of an unaligned transfer, slot: the command issued, if any]

FreeSlot == <<>>
AhciInit == ahci = [block |-> 0, slot |-> FreeSlot]

Atapi(d) == Blk([drive |-> d]) = 4

(* sata_prep_readwrite or sata_prep_atapi, and the one entry of the prdt.  *)
AhciCommand(o) ==
  LET t == TaskFile(o) IN
  IF Atapi(o.drive)
  THEN [write |-> FALSE, lba |-> o.lba * 4, count |-> o.count * 4,
        buf |-> o.buf, size |-> o.count * 4]
  ELSE [write |-> t.write, lba |-> Sector(t), count |-> Count(t),
        buf |-> o.buf, size |-> o.count]

(* What ahci_command is asked for: the whole request, or its next block.   *)
Part == IF op.odd /\ ~Atapi(op.drive)
        THEN [op EXCEPT !.buf = Bounce, !.count = 1, !.lba = @ + ahci.block]
        ELSE op
Unaligned == Part # op

ahci_disk_readwrite ==
  /\ Running({"ahci"})
  /\ op.command \in (IF Atapi(op.drive) THEN {"read"} ELSE {"read", "write"})
  /\ ahci' = [ahci EXCEPT !.block = 0]
  /\ Goto("ahci_issue") /\ NoTransfer

ahci_command ==
  /\ at = "ahci_issue"
  /\ ahci' = [ahci EXCEPT !.slot = IF @ = FreeSlot THEN <<AhciCommand(Part)>> ELSE @]
  /\ Goto("ahci_wait")
  /\ IF Unaligned /\ op.command = "write"
     THEN mem' = [mem EXCEPT ![Bounce] = At(mem, op.buf + ahci.block)] /\ wrote' = wrote
     ELSE NoTransfer

(* The controller moves k of the sectors of the command in the slot.       *)
Port(k) ==
  Transfer(IF ahci.slot[1].write THEN "write" ELSE "read",
           op.drive, ahci.slot[1].lba, ahci.slot[1].buf, k)

ahci_done ==
  /\ at = "ahci_wait" /\ ahci.slot # FreeSlot
  /\ ahci.slot[1].count = ahci.slot[1].size /\ Port(ahci.slot[1].count)
  /\ ahci' = [ahci EXCEPT !.slot = FreeSlot]
  /\ IF Unaligned THEN Goto("ahci_next") ELSE Return("success", op.count)

(* The error recovery frees the slot; a timeout does nothing about it.     *)
ahci_error ==
  /\ at = "ahci_wait"
  /\ \E k \in {0, ahci.slot[1].size - 1} : Port(k)
  /\ \E s \in (IF Late THEN {ahci.slot, FreeSlot} ELSE {FreeSlot}) :
       ahci' = [block |-> 0, slot |-> s]
  /\ Return("badtrack", op.count)

(* The loop of ahci_disk_readwrite over the blocks.                        *)
ahci_next_block ==
  /\ at = "ahci_next"
  /\ LET b == ahci.block + 1 IN
     /\ ahci' = [ahci EXCEPT !.block = IF b = op.count THEN 0 ELSE b]
     /\ IF b = op.count THEN Return("success", op.count) ELSE Goto("ahci_issue")
  /\ wrote' = wrote
  /\ mem' = IF op.command = "read"
            THEN [x \in Addr |-> IF x = op.buf + ahci.block THEN mem[Bounce] ELSE mem[x]]
            ELSE mem

process_ahci_op ==
  /\ Running({"ahci"}) /\ op.command # "read"
  /\ \/ Atapi(op.drive) /\ Answer({"ahci"}, {"reset", "verify", "seek"}, {"write", "format"})
     \/ /\ ~Atapi(op.drive) /\ op.command # "write"
        /\ Answer({"ahci"}, {"reset", "format", "verify", "seek"}, {})
  /\ UNCHANGED ahci

AhciNext ==
  \/ ahci_disk_readwrite \/ ahci_command \/ ahci_done \/ ahci_error
  \/ ahci_next_block \/ process_ahci_op
AhciQuiet == ahci.slot = FreeSlot
=============================================================================
