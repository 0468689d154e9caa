-------------------------------- MODULE Kbd --------------------------------
(***************************************************************************)
(* kbd.c: the scancode machine of __process_key() with its three flag      *)
(* bytes, the key buffer of the BDA, and int 16.  Scancodes come from the  *)
(* keyboard irq, which is let in while int 16 waits and between two calls; *)
(* the keyboard (not in src/) sends the codes of its keys one by one.      *)
(***************************************************************************)
EXTENDS Naturals, Sequences

CONSTANTS KeySets,    (* the sets of keys that are tried together *)
          Slots       (* entries of kbd_buf *)

VARIABLES
  kbd_buf, kbd_buf_head, kbd_buf_tail,
  kbd_flag0, kbd_flag1, kbd_flag2,   (* sets of the KF0_, KF1_, KF2_ bits *)
  kbd_led, ledparam,   (* lock bits last sent, and those being sent *)
  int16,               (* the int 16 service under way *)
  keys, held, codes,   (* the keyboard: its keys, those down, codes to send *)
  stray                (* history: an e0 outlived the code it belongs to *)

bufVars == <<kbd_buf, kbd_buf_head, kbd_buf_tail>>
flagVars == <<kbd_flag0, kbd_flag1, kbd_flag2>>
keyboardVars == <<keys, held, codes>>
kbdVars == <<bufVars, flagVars, kbd_led, ledparam, int16, keyboardVars, stray>>

(* The codes of a key (set 1, as the controller translates them); win is   *)
(* any key beyond the end of scan_to_scanascii.                            *)
Down == [lctrl |-> <<"1d">>, rctrl |-> <<"e0", "1d">>, lalt |-> <<"38">>, ralt |-> <<"e0", "38">>,
         lshift |-> <<"2a">>, rshift |-> <<"36">>, caps |-> <<"3a">>, num |-> <<"45">>,
         pause |-> <<"e1", "1d", "45", "e1", "9d", "c5">>,
         key |-> <<"1e">>, home |-> <<"e0", "47">>, win |-> <<"e0", "5b">>]
Up == [lctrl |-> <<"9d">>, rctrl |-> <<"e0", "9d">>, lalt |-> <<"b8">>, ralt |-> <<"e0", "b8">>,
       lshift |-> <<"aa">>, rshift |-> <<"b6">>, caps |-> <<"ba">>, num |-> <<"c5">>,
       pause |-> << >>, key |-> <<"9e">>, home |-> <<"e0", "c7">>, win |-> <<"e0", "db">>]

ASSUME KbdAssumption == KeySets \subseteq SUBSET DOMAIN Down /\ Slots \in Nat \ {0, 1}

(* An entry: the code and the column of scan_to_scanascii it came from, or *)
(* what a program stored itself with int 16/05.                            *)
Stroke == {"1e", "47"} \X {"alt", "control", "extended", "shift", "normal"} \cup {<<"00", "int16">>}

KbdInit ==
  /\ kbd_buf = [i \in 0..(Slots - 1) |-> <<"00", "int16">>]
  /\ kbd_buf_head = 0 /\ kbd_buf_tail = 0
  /\ kbd_flag0 = {} /\ kbd_flag1 = {} /\ kbd_flag2 = {}
  /\ kbd_led = {} /\ ledparam = {}
  /\ int16 = "none"
  /\ keys \in KeySets /\ held = {} /\ codes = << >> /\ stray = FALSE

-----------------------------------------------------------------------------
(* The buffer.                                                             *)

After(slot) == IF slot + 1 >= Slots THEN 0 ELSE slot + 1

enqueue_over(s) ==  \* a wrong enqueue: the buffer is never full
  /\ kbd_buf' = [kbd_buf EXCEPT ![kbd_buf_tail] = s]
  /\ kbd_buf_tail' = After(kbd_buf_tail)
  /\ UNCHANGED kbd_buf_head

enqueue_key(s) ==
  IF After(kbd_buf_tail) = kbd_buf_head
  THEN UNCHANGED bufVars
  ELSE /\ kbd_buf' = [kbd_buf EXCEPT ![kbd_buf_tail] = s]
       /\ kbd_buf_tail' = After(kbd_buf_tail)
       /\ UNCHANGED kbd_buf_head

(* int 16/00 and 10 wait for a stroke (01 and 11 only look). *)
dequeue_key ==
  /\ int16 = "read" /\ kbd_buf_head # kbd_buf_tail
  /\ kbd_buf_head' = After(kbd_buf_head)
  /\ int16' = "none"
  /\ UNCHANGED <<kbd_buf, kbd_buf_tail, flagVars, kbd_led, ledparam, keyboardVars, stray>>

-----------------------------------------------------------------------------
(* handle_16(): every call first brings the LEDs up to date, which means   *)
(* waiting for the keyboard with the irqs let in, and may fail.            *)
Locks == kbd_flag0 \cap {"caps", "num", "scroll"}

set_leds ==
  /\ int16 = "none"
  /\ IF Locks = kbd_led THEN int16' = "ready" /\ UNCHANGED ledparam
                        ELSE int16' = "leds" /\ ledparam' = Locks
  /\ UNCHANGED <<bufVars, flagVars, kbd_led, keyboardVars, stray>>

kbd_command(ok) ==
  /\ int16 = "leds" /\ int16' = "ready"
  /\ kbd_led' = IF ok THEN ledparam ELSE kbd_led
  /\ UNCHANGED <<bufVars, flagVars, ledparam, keyboardVars, stray>>

(* A service that only looks at the buffer or the flags, or one that reads. *)
handle_16(service) ==
  /\ int16 = "ready" /\ int16' = service
  /\ UNCHANGED <<bufVars, flagVars, kbd_led, ledparam, keyboardVars, stray>>

handle_1605 ==
  /\ int16 = "ready" /\ int16' = "none"
  /\ enqueue_key(<<"00", "int16">>)
  /\ UNCHANGED <<flagVars, kbd_led, ledparam, keyboardVars, stray>>

-----------------------------------------------------------------------------
(* __process_key()                                                         *)

(* Flag bits set, flipped and cleared by a key: {KF0, KF1} for its code    *)
(* without and with an e0 before it.                                       *)
Shift(bit, down) ==
  /\ kbd_flag0' = IF down THEN kbd_flag0 \cup {bit} ELSE kbd_flag0 \ {bit}
  /\ kbd_flag2' = kbd_flag2 \ {"LAST_E0"}
  /\ UNCHANGED <<kbd_flag1, bufVars, stray>>

Lock(bit, down) ==
  /\ kbd_flag0' = IF ~down THEN kbd_flag0
                  ELSE (kbd_flag0 \cup {bit}) \ (kbd_flag0 \cap {bit})
  /\ kbd_flag1' = IF down THEN kbd_flag1 \cup {bit} ELSE kbd_flag1 \ {bit}
  /\ kbd_flag2' = kbd_flag2 \ {"LAST_E0"}
  /\ UNCHANGED <<bufVars, stray>>

(* Ctrl and Alt: the active bit in KF0, the left key in KF1, the right one *)
(* in KF2.                                                                 *)
Modifier(bit, down) ==
  LET right == "LAST_E0" \in kbd_flag2
      Put(f) == IF down THEN f \cup {bit} ELSE f \ {bit}
  IN /\ kbd_flag0' = Put(kbd_flag0)
     /\ kbd_flag1' = IF right THEN kbd_flag1 ELSE Put(kbd_flag1)
     /\ kbd_flag2' = (IF right THEN Put(kbd_flag2) ELSE kbd_flag2) \ {"LAST_E0"}
     /\ UNCHANGED <<bufVars, stray>>

Prefix(bit) ==
  /\ kbd_flag2' = IF bit = "LAST_E1" THEN (kbd_flag2 \cup {bit}) \ {"LAST_E0"}
                                     ELSE kbd_flag2 \cup {bit}
  /\ UNCHANGED <<kbd_flag0, kbd_flag1, bufVars, stray>>

Column(code) ==
  CASE "alt" \in kbd_flag0 -> "alt"
    [] "alt" \notin kbd_flag0 /\ "ctrl" \in kbd_flag0 -> "control"
    [] kbd_flag0 \cap {"alt", "ctrl"} = {} /\ "LAST_E0" \in kbd_flag2 /\ code = "47" -> "extended"
    [] OTHER -> LET shifted == kbd_flag0 \cap {"lshift", "rshift"} # {}
                    locked == (IF code = "47" THEN "num" ELSE "caps") \in kbd_flag0
                IN IF shifted # locked THEN "shift" ELSE "normal"

Press(code) ==
  /\ enqueue_key(<<code, Column(code)>>)
  /\ kbd_flag2' = kbd_flag2 \ {"LAST_E0"}
  /\ UNCHANGED <<kbd_flag0, kbd_flag1, stray>>

Release ==
  /\ kbd_flag2' = kbd_flag2 \ {"LAST_E0"}
  /\ UNCHANGED <<kbd_flag0, kbd_flag1, bufVars, stray>>

(* A press the table has no entry for: a return that leaves LAST_E0 set.   *)
Unknown ==
  /\ stray' = (stray \/ "LAST_E0" \in kbd_flag2)
  /\ UNCHANGED <<flagVars, bufVars>>

Pause_once(code) ==  \* a wrong pause: the code after e1 is all of it
  /\ kbd_flag2' = kbd_flag2 \ {"LAST_E1"}
  /\ UNCHANGED <<kbd_flag0, kbd_flag1, bufVars, stray>>

(* Inside the pause sequence: 1d and 9d are its second code. *)
Pause(code) ==
  /\ kbd_flag2' = IF code \in {"1d", "9d"} THEN kbd_flag2 ELSE kbd_flag2 \ {"LAST_E1"}
  /\ UNCHANGED <<kbd_flag0, kbd_flag1, bufVars, stray>>

process_key(code) ==
  IF "LAST_E1" \in kbd_flag2 THEN Pause(code)
  ELSE CASE code \in {"2a", "aa"} -> Shift("lshift", code = "2a")
         [] code \in {"36", "b6"} -> Shift("rshift", code = "36")
         [] code \in {"1d", "9d"} -> Modifier("ctrl", code = "1d")
         [] code \in {"38", "b8"} -> Modifier("alt", code = "38")
         [] code \in {"3a", "ba"} -> Lock("caps", code = "3a")
         [] code \in {"45", "c5"} -> Lock("num", code = "45")
         [] code = "e0" -> Prefix("LAST_E0")
         [] code = "e1" -> Prefix("LAST_E1")
         [] code \in {"1e", "47"} -> Press(code)
         [] code = "5b" -> Unknown
         [] OTHER -> Release

(* The irq 1 (or a usb keyboard, polled by irq 0). *)
handle_09 ==
  /\ codes # << >>
  /\ codes' = Tail(codes)
  /\ process_key(Head(codes))
  /\ UNCHANGED <<kbd_led, ledparam, int16, keys, held>>

(* A key goes down, or up.  The codes of two keys never mix, so the next   *)
(* key waits until those of the last one are taken.                        *)
keyboard(k) ==
  /\ codes = << >>
  /\ codes' = IF k \in held THEN Up[k] ELSE Down[k]
  /\ held' = IF k \in held THEN held \ {k} ELSE held \cup {k}
  /\ UNCHANGED <<bufVars, flagVars, kbd_led, ledparam, int16, keys, stray>>

KbdNext ==
  \/ set_leds \/ (\E ok \in BOOLEAN : kbd_command(ok))
  \/ handle_16("none") \/ handle_16("read") \/ handle_1605
  \/ dequeue_key
  \/ handle_09
  \/ \E k \in keys : keyboard(k)

KbdSpec == KbdInit /\ [][KbdNext]_kbdVars

-----------------------------------------------------------------------------
(* Type correctness of the BDA keyboard fields. *)
KbdTypeOK ==
  /\ kbd_buf \in [0..(Slots - 1) -> Stroke]
  /\ kbd_buf_head \in 0..(Slots - 1) /\ kbd_buf_tail \in 0..(Slots - 1)
  /\ kbd_flag0 \subseteq {"lshift", "rshift", "ctrl", "alt", "caps", "num"}
  /\ kbd_flag1 \subseteq {"ctrl", "alt", "caps", "num"}
  /\ kbd_flag2 \subseteq {"ctrl", "alt", "LAST_E0", "LAST_E1"}
  /\ kbd_led \subseteq {"caps", "num"} /\ ledparam \subseteq {"caps", "num"}
  /\ int16 \in {"none", "leds", "ready", "read"}
  /\ held \subseteq keys /\ stray \in BOOLEAN

(* The circular buffer implements the queue of KeyQueue, with int 16/05    *)
(* and the irq both putting strokes in and the reader waiting for either.  *)
Strokes == [i \in 1..((kbd_buf_tail + Slots - kbd_buf_head) % Slots) |->
              kbd_buf[(kbd_buf_head + i - 1) % Slots]]
KeyBuffer == INSTANCE KeyQueue WITH queue <- Strokes, Capacity <- Slots - 1
KeysInOrder == KeyBuffer!Spec

(* Between two keys the flag bytes tell which modifiers are down: the      *)
(* prefixes e0 and e1 are always matched up with the code they belong to,  *)
(* unless one was left over by a key the table does not know.  The 45 and  *)
(* c5 inside pause are not taken for num lock.                             *)
ModifiersMatch ==
  codes = << >> /\ ~stray =>
    /\ \A s \in {"lshift", "rshift"} : s \in kbd_flag0 <=> s \in held
    /\ \A l \in {"caps", "num"} : l \in kbd_flag1 <=> l \in held
    /\ "num" \in kbd_flag0 => "num" \in keys
    /\ "ctrl" \in kbd_flag1 <=> "lctrl" \in held
    /\ "ctrl" \in kbd_flag2 <=> "rctrl" \in held
    /\ "alt" \in kbd_flag1 <=> "lalt" \in held
    /\ "alt" \in kbd_flag2 <=> "ralt" \in held
    /\ "ctrl" \in kbd_flag0 => held \cap {"lctrl", "rctrl"} # {}
    /\ "alt" \in kbd_flag0 => held \cap {"lalt", "ralt"} # {}
=============================================================================
