------------------------------- MODULE Floppy -------------------------------
(***************************************************************************)
(* floppy.c: commands to the controller, its irq 6 and the tick that stops *)
(* the motor.  The waits of a command yield, and only there, or between    *)
(* two calls, do the irqs arrive; a command ends with its irq or when the  *)
(* tick has counted the motor down.                                        *)
(***************************************************************************)
EXTENDS DiskOp

CONSTANT MotorTicks   \* FLOPPY_MOTOR_TICKS

VARIABLE floppy
  \* [timeout: FRS_TIMEOUT, recal, media: drives with their bit set, motor:
  \*  floppy_motor_counter, dor: [on, run], irq: latched, fdc: what the
  \*  controller does, chs: of the last command, cyl: floppy_track]

Floppies == {d \in DOMAIN Drive : Type(d) = "floppy"}
FloppyInit ==
  floppy = [timeout |-> FALSE, recal |-> {}, media |-> {}, motor |-> 0,
            dor |-> [on |-> FALSE, run |-> FALSE], irq |-> FALSE, fdc |-> "idle",
            chs |-> <<0, 0, 1>>, cyl |-> [d \in Floppies |-> 0]]

Geometry(d) == Drive[d].lchs               \* [c, h, s]: cylinders, heads, spt

lba2chs(o) ==
  LET g == Geometry(o.drive) IN
  <<((o.lba + 1) \div g.s) \div g.h, ((o.lba + 1) \div g.s) % g.h, (o.lba + 1) % g.s>>

(* A controller in reset first raises an irq of its own, which is awaited. *)
floppy_prepare_controller(f) ==
  [f EXCEPT !.timeout = FALSE, !.motor = MotorTicks, !.dor = [on |-> TRUE, run |-> TRUE],
            !.irq = @ \/ ~f.dor.run]

check_recal_drive == op.drive \in floppy.recal \cap floppy.media
Moving == {"read", "write", "verify", "format"}

floppy_start ==
  /\ Running({"floppy"}) /\ op.command \in Moving
  /\ IF check_recal_drive
     THEN Goto("fl_do") /\ UNCHANGED floppy
     ELSE /\ Goto(IF floppy.dor.run THEN "fl_recal" ELSE "fl_reset")
          /\ floppy' = floppy_prepare_controller([floppy EXCEPT !.fdc = "recal"])
  /\ NoTransfer

(* wait_floppy_irq: 0, or -1 when the motor counter ran out.               *)
Answered == floppy.motor # 0 /\ floppy.timeout
GaveUp == floppy.motor = 0

floppy_reset_wait ==
  /\ at = "fl_reset" /\ (Answered \/ GaveUp)
  /\ floppy' = [floppy EXCEPT !.timeout = GaveUp /\ @]
  /\ Goto(IF floppy.fdc = "recal" THEN "fl_recal" ELSE "fl_wait") /\ NoTransfer

floppy_reset_controller(f) == [f EXCEPT !.irq = TRUE, !.fdc = "idle", !.dor.run = TRUE]

(* floppy_drive_recal and floppy_media_sense: a recalibration that timed   *)
(* out is taken for done.                                                  *)
floppy_drive_recal ==
  /\ at = "fl_recal" /\ (Answered \/ GaveUp)
  /\ LET f == IF GaveUp THEN floppy_reset_controller(floppy)
              ELSE [floppy EXCEPT !.timeout = FALSE]
     IN floppy' = [f EXCEPT !.recal = @ \cup {op.drive}, !.cyl[op.drive] = 0,
                            !.media = IF Drive[op.drive].established
                                      THEN @ \cup {op.drive} ELSE @ \ {op.drive}]
  /\ Goto("fl_do") /\ NoTransfer

(* The dma of one command cannot cross 64KiB.                              *)
Crosses(o) == o.buf \div Seg64 # (o.buf + o.count - 1) \div Seg64

floppy_cmd ==
  /\ at = "fl_do"
  /\ IF op.command = "verify"
     THEN /\ floppy' = [floppy EXCEPT !.cyl[op.drive] = lba2chs(op)[1]]
          /\ Return("success", op.count)
     ELSE IF op.command # "format" /\ Crosses(op)
     THEN Return("boundary", 0) /\ UNCHANGED floppy
     ELSE /\ floppy' = floppy_prepare_controller(
                         [floppy EXCEPT !.fdc = "busy", !.chs = lba2chs(op)])
          /\ Goto(IF floppy.dor.run THEN "fl_wait" ELSE "fl_reset")
  /\ NoTransfer

FloppyReturn(code) ==
  Return(code, IF code = "success" \/ op.command = "format" THEN op.count ELSE 0)

floppy_wait ==
  /\ at = "fl_wait" /\ (Answered \/ GaveUp) /\ NoTransfer
  /\ IF GaveUp
     THEN floppy' = floppy_reset_controller(floppy) /\ FloppyReturn("timeout")
     ELSE /\ floppy' = [floppy EXCEPT !.timeout = FALSE, !.fdc = "idle",
                          !.cyl[op.drive] = IF floppy.fdc # "result" THEN @
                                            ELSE IF op.command = "format" THEN 0
                                            ELSE floppy.chs[1]]
          /\ CASE floppy.fdc = "result" -> FloppyReturn("success")
               [] floppy.fdc = "error" ->
                    \E c \in {"controller"} \cup (IF op.command = "read" THEN {}
                                                  ELSE {"writeprotect"}) : FloppyReturn(c)
               [] OTHER -> FloppyReturn("controller")

floppy_reset ==
  /\ Running({"floppy"}) /\ op.command = "reset"
  /\ floppy' = [floppy EXCEPT !.cyl[op.drive] = 0]
  /\ Return("success", op.count) /\ NoTransfer

process_floppy_op ==
  /\ op.command \notin Moving \cup {"reset"}
  /\ Answer({"floppy"}, {}, {}) /\ UNCHANGED floppy

(* The controller: a recalibration always ends, a transfer may find no     *)
(* disk and never end.  A sector 0 is looked for in vain or, by some, is   *)
(* the one before sector 1.  An irq left over from a reset has handle_0e   *)
(* ask in the middle of a command: it waits (for ever with a controller    *)
(* that never ends, which is left out) and may take the result for itself. *)
Ended(result) ==
  \E f \in {result} \cup (IF floppy.irq THEN {"idle"} ELSE {}) :
    floppy' = [floppy EXCEPT !.fdc = f, !.irq = TRUE]
fdc_step ==
  /\ floppy.fdc \in {"recal", "busy"} /\ at \in {"fl_recal", "fl_wait"}
  /\ \/ floppy.fdc = "recal" /\ NoTransfer
        /\ floppy' = [floppy EXCEPT !.fdc = "idle", !.irq = TRUE]
     \/ /\ floppy.fdc = "busy"
        /\ LET g == Geometry(op.drive)
               s == (floppy.chs[1] * g.h + floppy.chs[2]) * g.s + floppy.chs[3] - 1
           IN \/ /\ op.command # "format" /\ floppy.chs[3] + op.count - 1 <= g.s
                 /\ Transfer(op.command, op.drive, s, op.buf, op.count) /\ Ended("result")
              \/ op.command = "format" /\ NoTransfer /\ Ended("result")
              \/ NoTransfer /\ Ended("error")
  /\ UNCHANGED <<op, at, ret>>

Yielding == at \in {"idle", "fl_reset", "fl_recal", "fl_wait"}

(* A controller without a result is asked for its interrupt status.        *)
handle_0e ==
  /\ floppy.irq /\ Yielding /\ floppy.fdc # "busy"
  /\ floppy' = [floppy EXCEPT !.irq = FALSE, !.timeout = TRUE]
  /\ UNCHANGED opVars

floppy_tick_last ==      \* a wrong one, that never counts down to zero
  /\ floppy.motor > 1 /\ Yielding
  /\ floppy' = [floppy EXCEPT !.motor = @ - 1]
  /\ UNCHANGED opVars
floppy_tick ==
  /\ floppy.motor > 0 /\ Yielding
  /\ floppy' = [floppy EXCEPT !.motor = @ - 1, !.dor.on = @ /\ floppy.motor # 1]
  /\ UNCHANGED opVars

(* Without a command the motor stops by itself: it runs only as long as    *)
(* the counter does.                                                       *)
FloppyQuiet == floppy.dor.on <=> floppy.motor > 0
=============================================================================
