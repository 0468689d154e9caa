-------------------------------- MODULE Ps2 --------------------------------
(***************************************************************************)
(* ps2port.c and mouse.c: commands to the keyboard and the mouse through   *)
(* the i8042, polled with its irqs turned off, against the irqs 1 and 12   *)
(* that deliver keys and mouse packets.  A command lets irqs in at every   *)
(* yield.  Commands do not nest (no irq handler of the model starts one),  *)
(* and a device answers in time or not at all.  Bounds: one key or packet  *)
(* at a time waits in its device.                                          *)
(***************************************************************************)
EXTENDS Naturals, Sequences

VARIABLES
  ps2ctr,            (* EBDA *)
  ctr,               (* the command byte of the i8042 *)
  obf, irqs,         (* its output buffer, << >> or one byte; latched irqs *)
  kbdq, auxq,        (* bytes the keyboard and the mouse are going to send *)
  reporting,         (* the mouse sends packets *)
  cmd,               (* the __ps2_command() under way *)
  init,              (* where keyboard_init() is *)
  packet,            (* EBDA: mouse_data, as far as mouse_flag1 has come *)
  package_count, far_call,         (* EBDA: mouse_flag2 *)
  typed,             (* history: what process_key() got last *)
  cut, torn          (* history: a mouse command or a new handler came in the middle
                        of a packet; before that, a handler got a wrong packet *)

i8042Vars == <<ctr, obf, irqs>>
deviceVars == <<kbdq, auxq, reporting>>
mouseVars == <<packet, package_count, far_call>>
ps2Vars == <<ps2ctr, i8042Vars, deviceVars, cmd, init, mouseVars, typed, cut, torn>>

NoCommand == [name |-> "none", aux |-> FALSE, pc |-> "none", send |-> 0, receive |-> 0, old |-> {}]

(* Bytes to send, bytes to receive (reset is taken as one, without delay). *)
Parameters == [reset |-> <<1, 1>>, disable |-> <<1, 0>>, scanset |-> <<2, 0>>, enable |-> <<1, 0>>, remove |-> <<1, 0>>,
               setleds |-> <<2, 0>>, setrate |-> <<2, 0>>, getid |-> <<1, 1>>]

Ps2Init ==
  /\ ps2ctr = {"KBDDIS", "AUXDIS"} /\ ctr = ps2ctr
  /\ obf = << >> /\ irqs = {} /\ kbdq = << >> /\ auxq = << >> /\ reporting = FALSE
  /\ cmd = NoCommand /\ init = "reset"
  /\ packet = << >> /\ package_count = 0 /\ far_call = FALSE
  /\ typed = "key" /\ cut = FALSE /\ torn = FALSE

-----------------------------------------------------------------------------
(* The i8042 and the devices behind it.                                    *)

(* A byte in the buffer raises its irq if that is enabled. *)
Raised(buffer, control) ==
  IF buffer = << >> THEN {}
  ELSE IF buffer[1].aux THEN {12} \cap (IF "AUXINT" \in control THEN {12} ELSE {})
  ELSE IF "KBDINT" \in control THEN {1} ELSE {}

WriteControl(control) == ctr' = control /\ irqs' = irqs \cup Raised(obf, control)

deliver_key ==
  /\ obf = << >> /\ kbdq # << >> /\ "KBDDIS" \notin ctr
  /\ obf' = <<[aux |-> FALSE, byte |-> Head(kbdq)]>> /\ kbdq' = Tail(kbdq)
  /\ irqs' = irqs \cup Raised(obf', ctr)
  /\ UNCHANGED <<ps2ctr, ctr, auxq, reporting, cmd, init, mouseVars, typed, cut, torn>>

deliver_aux ==
  /\ obf = << >> /\ auxq # << >> /\ "AUXDIS" \notin ctr
  /\ obf' = <<[aux |-> TRUE, byte |-> Head(auxq)]>> /\ auxq' = Tail(auxq)
  /\ irqs' = irqs \cup Raised(obf', ctr)
  /\ UNCHANGED <<ps2ctr, ctr, kbdq, reporting, cmd, init, mouseVars, typed, cut, torn>>

press_key ==
  /\ kbdq = << >> /\ kbdq' = <<"key">>
  /\ UNCHANGED <<ps2ctr, i8042Vars, auxq, reporting, cmd, init, mouseVars, typed, cut, torn>>

move_mouse ==
  /\ reporting /\ auxq = << >> /\ auxq' = <<"m0", "m1", "m2">>
  /\ UNCHANGED <<ps2ctr, i8042Vars, kbdq, reporting, cmd, init, mouseVars, typed, cut, torn>>

-----------------------------------------------------------------------------
(* The irqs.                                                               *)

(* process_mouse(): a whole packet goes to the program's handler (after    *)
(* int 15/c205 it has three bytes, before that one).                       *)
process_mouse(v) ==
  IF ~far_call THEN UNCHANGED <<mouseVars, torn>>
  ELSE LET data == Append(packet, v)
           more == Len(data) < package_count
       IN /\ packet' = IF more THEN data ELSE << >>
          /\ torn' = (torn \/ (~more /\ ~cut /\ package_count = 3 /\ data # <<"m0", "m1", "m2">>))
          /\ UNCHANGED <<package_count, far_call>>

IrqsOn == cmd.pc # "send"

(* The port side of handle_09(); what process_key() does is in Kbd.  The   *)
(* status is only looked at for mouse data: with an empty buffer the last  *)
(* byte would be read again.                                               *)
handle_09_port ==
  /\ IrqsOn /\ 1 \in irqs /\ irqs' = irqs \ {1}
  /\ IF obf # << >> /\ obf[1].aux THEN UNCHANGED <<obf, typed>>
     ELSE /\ obf' = << >>
          /\ typed' = IF "KBDINT" \notin ps2ctr THEN typed
                      ELSE IF obf = << >> THEN "old" ELSE obf[1].byte
  /\ UNCHANGED <<ps2ctr, ctr, deviceVars, cmd, init, mouseVars, cut, torn>>

handle_74 ==
  /\ IrqsOn /\ 12 \in irqs /\ irqs' = irqs \ {12}
  /\ IF obf = << >> \/ ~obf[1].aux THEN UNCHANGED <<obf, mouseVars, torn>>
     ELSE /\ obf' = << >>
          /\ IF "AUXINT" \in ps2ctr THEN process_mouse(obf[1].byte)
             ELSE UNCHANGED <<mouseVars, torn>>
  /\ UNCHANGED <<ps2ctr, ctr, deviceVars, cmd, init, typed, cut>>

-----------------------------------------------------------------------------
(* __ps2_command()                                                         *)

Quiet(control) == (control \cup {"KBDDIS", "AUXDIS"}) \ {"KBDINT", "AUXINT"}

start(name, aux, control) ==
  /\ cmd = NoCommand
  /\ cmd' = [name |-> name, aux |-> aux, pc |-> "flush", old |-> control,
             send |-> Parameters[name][1], receive |-> Parameters[name][2]]
  /\ ps2ctr' = control
  /\ WriteControl(Quiet(control))

flush_skip ==  \* a wrong flush: a latched irq is not waited for
  cmd.pc = "flush"

(* The yield after the irqs are turned off delivers those latched before. *)
flush == cmd.pc = "flush" /\ irqs = {}

enable_port ==
  /\ flush
  /\ WriteControl(ctr \ (IF cmd.aux THEN {"AUXDIS"} ELSE {"KBDDIS"}))
  /\ cmd' = [cmd EXCEPT !.pc = "send"]
  /\ UNCHANGED <<ps2ctr, obf, deviceVars, init, mouseVars, typed, cut, torn>>

(* The device answers with an ack or a nak, or not at all; with the ack of *)
(* the last byte come the parameters it returns.  A mouse gives up the     *)
(* packet it was sending.                                                  *)
Answer(a) ==
  IF a = "none" THEN << >>
  ELSE IF a = "ack" /\ cmd.send = 1 /\ cmd.receive > 0 THEN <<"ack", "param">> ELSE <<a>>

MidPacket == packet # << >> \/ auxq # << >> \/ (obf # << >> /\ obf[1].aux)

ps2_sendbyte(a) ==
  /\ cmd.pc = "send"
  /\ IF cmd.aux
     THEN /\ auxq' = Answer(a) /\ UNCHANGED kbdq
          /\ cut' = (cut \/ MidPacket)
          /\ reporting' = IF a # "ack" THEN reporting
                          ELSE CASE cmd.name = "enable" -> TRUE
                                 [] cmd.name \in {"disable", "remove", "reset"} -> FALSE
                                 [] OTHER -> reporting
     ELSE /\ kbdq' = kbdq \o Answer(a) /\ UNCHANGED <<auxq, reporting, cut>>
  /\ cmd' = [cmd EXCEPT !.pc = "ack", !.send = @ - 1]
  /\ UNCHANGED <<ps2ctr, i8042Vars, init, mouseVars, typed, torn>>

(* The end, by "fail:" as well.  keyboard_init() goes on with its next     *)
(* command, or gives up (it may retry the reset).                          *)
AfterInit(ok) ==
  CASE ~ok /\ init = "reset" -> {"reset", "failed"}
    [] ~ok /\ init \notin {"reset", "done"} -> {"failed"}
    [] ok /\ init = "reset" -> {"disable"}
    [] ok /\ init = "disable" -> {"scanset"}
    [] ok /\ init = "scanset" -> {"enable"}
    [] OTHER -> {IF init = "failed" THEN "failed" ELSE "done"}

Finish(ok, buffer) ==
  /\ cmd' = NoCommand
  /\ ctr' = cmd.old /\ irqs' = irqs \cup Raised(buffer, cmd.old)
  /\ init' \in AfterInit(ok)
  /\ far_call' = (far_call /\ cmd.name # "remove")
  /\ UNCHANGED <<packet, package_count>>

(* ps2_recvbyte(): what is not part of the command is discarded. *)
ps2_recvbyte ==
  /\ cmd.pc \in {"ack", "receive"} /\ obf # << >> /\ obf' = << >>
  /\ LET b == obf[1]
         part == b.aux = cmd.aux /\ (cmd.pc = "receive" \/ b.byte \in {"ack", "nak"})
         left == IF cmd.pc = "receive" THEN cmd.receive - 1 ELSE cmd.receive
     IN CASE ~part -> UNCHANGED <<cmd, ctr, irqs, init, mouseVars>>
          [] part /\ cmd.pc = "ack" /\ b.byte = "nak" -> Finish(FALSE, << >>)
          [] part /\ b.byte # "nak" /\ cmd.send = 0 /\ left = 0 -> Finish(TRUE, << >>)
          [] OTHER -> /\ cmd' = [cmd EXCEPT !.receive = left,
                                            !.pc = IF cmd.send > 0 THEN "send" ELSE "receive"]
                      /\ UNCHANGED <<ctr, irqs, init, mouseVars>>
  /\ UNCHANGED <<ps2ctr, deviceVars, typed, cut, torn>>

timeout ==
  /\ cmd.pc \in {"ack", "receive"}
  /\ obf = << >> /\ (IF cmd.aux THEN auxq ELSE kbdq) = << >>
  /\ Finish(FALSE, obf)
  /\ UNCHANGED <<ps2ctr, obf, deviceVars, typed, cut, torn>>

-----------------------------------------------------------------------------
(* Who gives commands: keyboard_init(), once the controller has passed its *)
(* tests, and after it int 16 and int 15/c2.                               *)

keyboard_init ==
  /\ init \in {"reset", "disable", "scanset", "enable"}
  /\ start(init, FALSE, IF init = "enable" THEN {"AUXDIS", "KBDINT"} ELSE ps2ctr)
  /\ UNCHANGED <<obf, deviceVars, init, mouseVars, typed, cut, torn>>

(* int 16: the LEDs, the id of the keyboard. *)
ps2_kbd_command(name) ==
  /\ init \in {"done", "failed"}
  /\ start(name, FALSE, ps2ctr)
  /\ UNCHANGED <<obf, deviceVars, init, mouseVars, typed, cut, torn>>

(* int 15/c2: enable and disable change ps2ctr before the command. *)
Control(name) ==
  CASE name = "enable" -> (ps2ctr \cup {"AUXINT"}) \ {"AUXDIS"}
    [] name \in {"disable", "remove"} -> (ps2ctr \cup {"AUXDIS"}) \ {"AUXINT"}
    [] OTHER -> ps2ctr

ps2_mouse_command(name) == start(name, TRUE, Control(name))

mouse_15c200(name) ==
  /\ init \in {"done", "failed"}
  /\ name = "enable" => far_call
  /\ ps2_mouse_command(name)
  /\ UNCHANGED <<obf, deviceVars, init, mouseVars, typed, cut, torn>>

(* Reset, set the rate or the resolution, read the id or the status. *)
mouse_15c201(name) ==
  /\ init \in {"done", "failed"}
  /\ ps2_mouse_command(name)
  /\ UNCHANGED <<obf, deviceVars, init, mouseVars, typed, cut, torn>>

(* Initialise: packets of three bytes, no handler, and a reset. *)
mouse_15c205 ==
  /\ init \in {"done", "failed"}
  /\ packet' = << >> /\ package_count' = 3 /\ far_call' = FALSE
  /\ ps2_mouse_command("reset")
  /\ UNCHANGED <<obf, deviceVars, init, typed, cut, torn>>

(* Install a handler; or remove it, which disables the mouse first.        *)
mouse_15c207(install) ==
  /\ init \in {"done", "failed"} /\ cmd = NoCommand
  /\ IF far_call /\ ~install
     THEN ps2_mouse_command("remove") /\ UNCHANGED <<far_call, cut>>
     ELSE /\ far_call' = install /\ cut' = (cut \/ (install /\ MidPacket))
          /\ UNCHANGED <<cmd, ps2ctr, ctr, irqs>>
  /\ UNCHANGED <<obf, deviceVars, init, packet, package_count, typed, torn>>

Ps2Next ==
  \/ deliver_key \/ deliver_aux \/ press_key \/ move_mouse
  \/ handle_09_port \/ handle_74
  \/ enable_port \/ (\E a \in {"ack", "nak", "none"} : ps2_sendbyte(a)) \/ ps2_recvbyte \/ timeout
  \/ keyboard_init
  \/ \E name \in {"setleds", "getid"} : ps2_kbd_command(name)
  \/ \E name \in {"enable", "disable"} : mouse_15c200(name)
  \/ \E name \in {"reset", "setrate", "getid"} : mouse_15c201(name)
  \/ mouse_15c205
  \/ \E install \in BOOLEAN : mouse_15c207(install)

Ps2Spec == Ps2Init /\ [][Ps2Next]_ps2Vars

-----------------------------------------------------------------------------
Controls == SUBSET {"KBDINT", "AUXINT", "KBDDIS", "AUXDIS"}
Bytes == {"key", "ack", "nak", "param", "m0", "m1", "m2"}

(* Type correctness of the EBDA fields and of the i8042. *)
Ps2TypeOK ==
  /\ ps2ctr \in Controls /\ ctr \in Controls /\ cmd.old \in Controls
  /\ Len(obf) <= 1 /\ irqs \subseteq {1, 12}
  /\ Len(packet) \in 0..2 /\ package_count \in {0, 3} /\ far_call \in BOOLEAN
  /\ typed \in Bytes \cup {"old"}
  /\ init \in {"reset", "disable", "scanset", "enable", "done", "failed"}

(* No answer of the keyboard to a command, and no byte that was read       *)
(* before, is taken for a key: handle_09() only ever gets keys.            *)
OnlyKeysTyped == typed = "key"

(* A command never throws away a byte of the other device that is enabled: *)
(* what was in the buffer went to its irq handler before, in the yield     *)
(* after the irqs were turned off.  (Of the device it is sent to, a        *)
(* command discards what comes before the ack.)                            *)
OtherDeviceKept ==
  cmd.pc \in {"ack", "receive"} /\ obf # << >> /\ obf[1].aux # cmd.aux =>
    (IF cmd.aux THEN "KBDINT" ELSE "AUXINT") \notin cmd.old

(* The handler of a program gets whole packets: keyboard commands between  *)
(* two bytes of a packet neither lose nor disorder any.  Only a mouse      *)
(* command or a new handler in the middle of a packet, after which         *)
(* mouse_flag1 stays where it was, can cut one.                            *)
PacketsWhole == ~torn

(* Commands that are polled leave alone what the irqs deliver: no byte of  *)
(* a key or packet is lost to a command of the other device, none is taken *)
(* for another (__ps2_command, handle_09, handle_74).                      *)
PortShared == OnlyKeysTyped /\ OtherDeviceKept /\ PacketsWhole
=============================================================================
