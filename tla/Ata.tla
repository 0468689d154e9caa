-------------------------------- MODULE Ata --------------------------------
(***************************************************************************)
(* ata.c: one channel, a disk and a cdrom on it, PIO and bus master        *)
(* transfers.  The channel obeys whichever drive is selected; a command    *)
(* that the driver gives up is dead, unless Late, when the drive may still *)
(* be working on it, and then ignores the next command.                    *)
(***************************************************************************)
EXTENDS DiskOp

CONSTANT MaxPrd   \* bus master descriptors

VARIABLE ata   \* [dh, nien, pio, cmd, done, job]

NoJob == [drive |-> "none", lba |-> 0, left |-> 0]
AtaTypes == {"ata", "atapi"}
AtaDrives == {d \in DOMAIN Drive : Type(d) \in AtaTypes}
Slave(d) == Drive[d].slave

AtaIdle == [dh |-> 0, nien |-> FALSE, pio |-> TRUE, cmd |-> TaskFile(NoOp),
            done |-> 0, job |-> NoJob]
AtaInit == ata = AtaIdle

(* The drive that obeys: none when the selected place is empty.            *)
Selected(dh) ==
  LET S == {d \in AtaDrives : Slave(d) = dh /\ Drive[d].chan = Drive[op.drive].chan}
  IN IF S = {} THEN "none" ELSE CHOOSE d \in S : TRUE

ata_try_dma(o) ==
  /\ ~o.odd /\ Drive[o.drive].dma /\ o.count > 0
  /\ (o.buf + o.count - 1) \div Seg64 - o.buf \div Seg64 < MaxPrd

ata_readwrite ==
  /\ Running({"ata"}) /\ op.command \in {"read", "write"}
  /\ LET pio == ~ata_try_dma(op) IN
     ata' = [ata EXCEPT !.pio = pio, !.nien = pio \/ @, !.cmd = TaskFile(op), !.done = 0]
  /\ Goto("ata_send") /\ NoTransfer

atapi_cmd_data ==
  /\ Running({"atapi"}) /\ op.command = "read"
  /\ ata' = [ata EXCEPT !.pio = TRUE, !.nien = TRUE, !.done = 0]
  /\ Goto("ata_send") /\ NoTransfer

(* Every way out of a command turns the interrupt of the channel on again; *)
(* every failure is a bad track to the caller.  job is what the drive is   *)
(* left with.                                                              *)
AtaReturn(code, count, job) ==
  /\ ata' = [AtaIdle EXCEPT !.dh = ata.dh, !.job = job]
  /\ Return(code, count)
GivenUp == IF Late THEN {ata.job, NoJob} ELSE {NoJob}

Accept(d) ==
  IF ata.job # NoJob THEN ata.job
  ELSE IF d = "none" THEN NoJob
  ELSE IF Type(d) = "ata"
  THEN [drive |-> d, lba |-> Sector(ata.cmd), left |-> Count(ata.cmd)]
  ELSE [drive |-> d, lba |-> 0, left |-> 1]           \* wants its cdb

send_cmd ==
  /\ at = "ata_send"
  /\ \/ LET dh == Slave(op.drive) IN
        /\ ata' = [ata EXCEPT !.dh = dh, !.job = Accept(Selected(dh))]
        /\ Goto(IF ata.pio THEN "ata_wait" ELSE "ata_dma")
     \/ \E j \in GivenUp : AtaReturn("badtrack", op.count, j)
  /\ NoTransfer

(* Busy for too long, an error, or no data wanted: the command failed.     *)
ata_wait_data ==
  /\ at = "ata_wait"
  /\ \/ /\ ata.job # NoJob
        /\ Goto(IF Type(op.drive) = "ata" THEN "ata_pio" ELSE "ata_cdb")
        /\ UNCHANGED ata
     \/ \E j \in GivenUp : AtaReturn("badtrack", op.count, j)
  /\ NoTransfer

(* The drive reads the cdb of cdb_read and answers with data or an error.  *)
send_cdb ==
  /\ at = "ata_cdb"
  /\ \/ /\ ata' = [ata EXCEPT !.job.lba = op.lba, !.job.left = op.count]
        /\ Goto("ata_pio")
     \/ \E j \in GivenUp : AtaReturn("badtrack", op.count, j)
  /\ NoTransfer

(* One block, then the status: it tells whether the drive has another one. *)
ata_pio_transfer ==
  /\ at = "ata_pio"
  /\ LET j == ata.job
         blk == IF Type(j.drive) = "ata" THEN 1 ELSE 4
         rest == [j EXCEPT !.lba = @ + 1, !.left = @ - 1]
         n == ata.done + 1
         after == IF rest.left = 0 THEN NoJob ELSE rest
     IN
     /\ Transfer(op.command, j.drive, j.lba * blk, op.buf + ata.done * blk, blk)
     /\ \/ \E g \in (IF Late THEN {after, NoJob} ELSE {NoJob}) :
             AtaReturn("badtrack", ata.done, g)                  \* busy for ever
        \/ n = op.count /\ after = NoJob /\ AtaReturn("success", op.count, NoJob)
        \/ n = op.count /\ AtaReturn("badtrack", op.count, after)       \* error
        \/ /\ n # op.count /\ after # NoJob                             \* drq
           /\ ata' = [ata EXCEPT !.done = n, !.job = rest] /\ UNCHANGED <<op, at, ret>>
        \/ n # op.count /\ AtaReturn("badtrack", n, NoJob)

ata_dma_transfer ==
  /\ at = "ata_dma"
  /\ \/ /\ ata.job # NoJob /\ ata.job.left = op.count
        /\ Transfer(op.command, ata.job.drive, ata.job.lba, op.buf, op.count)
        /\ AtaReturn("success", op.count, NoJob)
     \/ \E k \in {0, op.count - 1}, j \in GivenUp :
          /\ IF ata.job = NoJob THEN NoTransfer
             ELSE Transfer(op.command, ata.job.drive, ata.job.lba, op.buf, k)
          /\ AtaReturn("badtrack", 0, j)

(* SRST ends what both drives do; a reset that times out is not reported.  *)
ata_reset ==
  /\ Running(AtaTypes) /\ op.command = "reset"
  /\ \E dh \in {0, Slave(op.drive)} :
       ata' = [ata EXCEPT !.dh = dh, !.nien = FALSE, !.job = NoJob]
  /\ Return("success", op.count) /\ NoTransfer

isready ==
  /\ Running(AtaTypes) /\ op.command = "isready"
  /\ \E code \in {"success", "notready"} : Return(code, op.count)
  /\ NoTransfer /\ UNCHANGED ata

process_ata_misc_op ==
  /\ op.command \notin {"read", "reset", "isready"}
  /\ \/ op.command # "write" /\ Answer({"ata"}, {"format", "verify", "seek"}, {})
     \/ Answer({"atapi"}, {"verify", "seek"}, {"write", "format"})
  /\ UNCHANGED ata

AtaNext ==
  \/ ata_readwrite \/ atapi_cmd_data \/ send_cmd \/ ata_wait_data \/ send_cdb
  \/ ata_pio_transfer \/ ata_dma_transfer
  \/ ata_reset \/ isready \/ process_ata_misc_op

(* Nothing is left of a command: the drives wait for the next one.         *)
AtaQuiet == ata.job = NoJob /\ ~ata.nien
=============================================================================
