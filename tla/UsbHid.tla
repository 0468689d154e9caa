------------------------------- MODULE UsbHid -------------------------------
(***************************************************************************)
(* The reports of a usb keyboard and mouse, turned into the bytes that a   *)
(* ps/2 keyboard and mouse would send (usb-hid.c).  A report names the     *)
(* keys that are down; the old one is kept in the ebda, and keys, modi-    *)
(* fiers and repeats are passed to process_key byte by byte.  typed is     *)
(* what a reader of those bytes knows, as ps/2 defines them.               *)
(***************************************************************************)
EXTENDS Integers, Sequences, FiniteSets, SequencesExt

CONSTANTS Code,        (* KeyToScanCode of the keys used, by usb key id *)
          ModCode,     (* ModifierToScanCode of the modifiers used *)
          KeySlots,    (* keys of a report; 6 in the code *)
          RepeatWait,  (* KEYREPEATWAITMS / KEYREPEATMS + 1 *)
          Motions,     (* bytes of motion the mouse reports *)
          MaxIdle      (* reports without a change that the reader counts *)

ASSUME HidAssumption ==
  /\ \A k \in DOMAIN Code : Code[k] \in 0..65535
  /\ \A m \in DOMAIN ModCode : ModCode[m] \in 0..65535
  /\ KeySlots \in Nat \ {0} /\ RepeatWait \in Nat \ {0} /\ Motions \subseteq 0..255

VARIABLES last_key,  (* usbkey_last: modifiers, keys and repeatcount *)
          report,    (* the report the keyboard sent last *)
          typed,     (* the codes that are down for a reader of the bytes *)
          repeats,   (* the codes that were repeated by the last report *)
          held,      (* the key pressed last, until it is released, and 0 then *)
          idle,      (* reports since the last key was pressed, up to MaxIdle *)
          packet     (* what process_mouse got for the last motion, and the motion *)

hidVars == <<last_key, report, typed, repeats, held, idle, packet>>

RELEASEBIT == 128
Still == [x |-> 0, y |-> 0, buttons |-> 0, bytes |-> <<8, 0, 0>>]
NoRepeat == 255

(***************************************************************************)
(* To the ps/2 bytes                                                       *)
(***************************************************************************)
(* prockeys: a prefix in the high byte; the pause key has one of its own   *)
(* and a sequence of three.  The release bit is in the low byte.           *)
prockeys(keys) ==
  LET high == keys \div 256
      low == keys % 256
      release == IF low >= RELEASEBIT THEN RELEASEBIT ELSE 0
  IN  IF high = 225 THEN <<225, 29 + release, 69 + release>>
      ELSE IF high # 0 THEN <<high, low>> ELSE <<low>>
procscankey(key, flags) ==
  IF Code[key] = 0 THEN <<>> ELSE prockeys(Code[key] + flags)
procmodkey(mods, flags) ==
  FlattenSeq(SetToSeq({prockeys(ModCode[m] + flags) : m \in mods}))
Bytes(keys, flags) == FlattenSeq([i \in 1..Len(keys) |-> procscankey(keys[i], flags)])

(***************************************************************************)
(* handle_key                                                              *)
(***************************************************************************)
InKeys(k, keys) == \E i \in 1..Len(keys) : keys[i] = k
Stay(old, keys) == SelectSeq(old, LAMBDA k : InKeys(k, keys))
Gone(old, keys) == SelectSeq(old, LAMBDA k : ~InKeys(k, keys))
Fresh(old, keys) == SelectSeq(keys, LAMBDA k : k # 0 /\ ~InKeys(k, old))

(* What becomes of the repeat count before the repeat: the release of the  *)
(* key pressed last turns it off, a new key sets it.  Wrong one: any       *)
(* release turns it off.                                                   *)
Count_any(old, keys) ==
  IF Fresh(old.keys, keys) # <<>> THEN RepeatWait
  ELSE IF Gone(old.keys, keys) # <<>> THEN NoRepeat ELSE old.repeatcount
Count(old, keys) ==
  IF Fresh(old.keys, keys) # <<>> THEN RepeatWait
  ELSE IF old.keys # <<>> /\ ~InKeys(Last(old.keys), keys) THEN NoRepeat
  ELSE old.repeatcount

(* The bytes of a report and the record that is kept.                      *)
NowDown(old, keys) == Stay(old.keys, keys) \o Fresh(old.keys, keys)
Repeated(old, keys) ==
  IF NowDown(old, keys) # <<>> /\ Count(old, keys) = 0
  THEN <<Last(NowDown(old, keys))>> ELSE <<>>
KeyBytes(old, mods, keys) ==
  Bytes(Gone(old.keys, keys), RELEASEBIT) \o procmodkey(old.mods \ mods, RELEASEBIT)
  \o procmodkey(mods \ old.mods, 0) \o Bytes(Fresh(old.keys, keys), 0)
Kept(old, mods, keys) ==
  LET n == Count(old, keys)
  IN  [mods |-> mods, keys |-> NowDown(old, keys),
       repeatcount |-> IF NowDown(old, keys) # <<>> /\ n \notin {0, NoRepeat} THEN n - 1 ELSE n]

(* A reader of the bytes: e0 and e1 belong to the code that follows.       *)
Reads(bytes) ==
  LET n == Len(bytes)
      f[i \in 0..n] ==
        IF i = 0 THEN [down |-> typed, prefix |-> 0]
        ELSE LET s == f[i - 1]
                 b == bytes[i]
                 code == s.prefix * 256 + (b % RELEASEBIT)
             IN  IF b \in {224, 225} THEN [s EXCEPT !.prefix = b]
                 ELSE IF s.prefix = 225 THEN   (* the first byte of two *)
                   [down |-> s.down, prefix |-> 481]
                 ELSE IF s.prefix = 481 THEN
                   [down |-> IF b >= RELEASEBIT THEN s.down \ {57629} ELSE s.down \cup {57629}, prefix |-> 0]
                 ELSE [down |-> IF b >= RELEASEBIT THEN s.down \ {code} ELSE s.down \cup {code}, prefix |-> 0]
  IN  f[n].down

(* usb_check_key: a report was there to poll.                              *)
handle_key(mods, keys) ==
  /\ report' = [mods |-> mods, keys |-> keys]
  /\ last_key' = Kept(last_key, mods, keys)
  /\ typed' = Reads(KeyBytes(last_key, mods, keys) \o Bytes(Repeated(last_key, keys), 0))
  /\ repeats' = Repeated(last_key, keys)
  /\ held' = IF Fresh(last_key.keys, keys) # <<>> THEN Last(Fresh(last_key.keys, keys))
             ELSE IF InKeys(held, keys) THEN held ELSE 0
  /\ idle' = IF Fresh(last_key.keys, keys) # <<>> THEN 0
             ELSE IF idle < MaxIdle THEN idle + 1 ELSE idle
  /\ packet' = Still

(***************************************************************************)
(* handle_mouse: the flags, x and y, as the bytes of a ps/2 packet         *)
(***************************************************************************)
Signed(b) == IF b >= 128 THEN b - 256 ELSE b
Turned(y) == (256 - y) % 256
handle_mouse(buttons, x, y) ==
  /\ last_key.keys = <<>>   (* a bound: the two share nothing *)
  /\ packet' = [x |-> x, y |-> y, buttons |-> buttons,
                bytes |-> <<buttons + 8 + (IF x >= 128 THEN 16 ELSE 0)
                              + (IF Turned(y) >= 128 THEN 32 ELSE 0), x, Turned(y)>>]
  /\ UNCHANGED <<last_key, report, typed, repeats, held, idle>>

(***************************************************************************)
HidInit ==
  /\ last_key = [mods |-> {}, keys |-> <<>>, repeatcount |-> 0]
  /\ report = [mods |-> {}, keys |-> [i \in 1..KeySlots |-> 0]]
  /\ typed = {} /\ repeats = <<>> /\ held = 0 /\ idle = MaxIdle
  /\ packet = Still
(* The reports a keyboard sends: no key twice.                             *)
Reports ==
  {keys \in [1..KeySlots -> DOMAIN Code \cup {0}] :
     \A i, j \in 1..KeySlots : i # j /\ keys[i] # 0 => keys[i] # keys[j]}
HidNext ==
  \/ \E mods \in SUBSET DOMAIN ModCode, keys \in Reports : handle_key(mods, keys)
  \/ \E buttons \in 0..1, x \in Motions, y \in Motions : handle_mouse(buttons, x, y)

(***************************************************************************)
(* What the translation promises                                           *)
(***************************************************************************)
(* Type correctness of the records of keys and motions.                    *)
HidTypeOK ==
  /\ last_key.repeatcount \in (0..RepeatWait) \cup {NoRepeat}
  /\ \A i \in 1..Len(last_key.keys) : last_key.keys[i] \in DOMAIN Code
  /\ \A i \in 1..3 : packet.bytes[i] \in 0..255

(* After every report the codes that are down for a reader of the bytes    *)
(* are those of the report's keys and modifiers, and the key pressed last  *)
(* is repeated, and no other, from RepeatWait reports after that until it  *)
(* is released (handle_key, usb-hid.c:217-283).  A motion reads as the one *)
(* the mouse reported with y turned, but for y = -128, whose turn does not *)
(* fit the byte.                                                           *)
DownCodes ==
  {Code[k] : k \in {k \in DOMAIN Code : Code[k] # 0 /\ InKeys(k, report.keys)}}
  \cup {ModCode[m] : m \in report.mods}
EventsMatch ==
  /\ HidTypeOK
  /\ typed = DownCodes
  /\ Len(last_key.keys) <= KeySlots
  /\ repeats = IF held # 0 /\ idle >= RepeatWait THEN <<held>> ELSE <<>>
  /\ packet.y # 128 =>
       LET b == packet.bytes
           Axis(low, sign) == low - (IF (b[1] \div sign) % 2 = 1 THEN 256 ELSE 0)
       IN  /\ Axis(b[2], 16) = Signed(packet.x)
           /\ Axis(b[3], 32) = -Signed(packet.y)
           /\ b[1] % 8 = packet.buttons
=============================================================================
