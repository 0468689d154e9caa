-------------------------------- MODULE Msc --------------------------------
(***************************************************************************)
(* usb-msc.c and blockcmd.c: the bulk-only protocol, one transfer out with *)
(* the command and two in, data and status.  A drive that was given up     *)
(* goes back to waiting for a command, unless Late.                        *)
(***************************************************************************)
EXTENDS DiskOp

VARIABLE msc   \* [phase: what the drive does next, lba, count]

MscIdle == [phase |-> "cbw", lba |-> 0, count |-> 0]
MscInit == msc = MscIdle

cdb_read ==
  /\ Running({"usb"}) /\ op.command = "read"
  /\ Goto("usb_cbw") /\ NoTransfer /\ UNCHANGED msc

MscFail ==
  /\ \E m \in (IF Late THEN {msc, MscIdle} ELSE {MscIdle}) : msc' = m
  /\ Return("badtrack", 0)

usb_send_cbw ==
  /\ at = "usb_cbw" /\ NoTransfer
  /\ \/ /\ msc.phase = "cbw"
        /\ msc' = [phase |-> "data", lba |-> op.lba, count |-> op.count]
        /\ Goto("usb_data")
     \/ MscFail

usb_data_in ==
  /\ at = "usb_data" /\ msc.phase = "data"
  /\ LET blk == Blk(op) IN
     \/ /\ Transfer("read", op.drive, msc.lba * blk, op.buf, msc.count * blk)
        /\ msc' = [msc EXCEPT !.phase = "csw"] /\ Goto("usb_csw")
     \/ /\ \E k \in {0, msc.count * blk - 1} :
             Transfer("read", op.drive, msc.lba * blk, op.buf, k)
        /\ MscFail

(* Good, failed with blocks missing, or a phase error.                     *)
usb_csw_in ==
  /\ at = "usb_csw" /\ msc.phase = "csw" /\ NoTransfer
  /\ \/ msc' = MscIdle /\ Return("success", op.count)
     \/ msc' = MscIdle /\ \E r \in 1 .. op.count : Return("badtrack", op.count - r)
     \/ MscFail

process_usb_op ==
  /\ op.command # "read"
  /\ Answer({"usb"}, {"reset", "isready", "verify", "seek"}, {"write", "format"})
  /\ UNCHANGED msc

MscNext == cdb_read \/ usb_send_cbw \/ usb_data_in \/ usb_csw_in \/ process_usb_op
MscQuiet == msc = MscIdle
=============================================================================
