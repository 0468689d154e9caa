---------------------------- MODULE InputProofs -----------------------------
(***************************************************************************)
(* The keyboard and the controller it shares with the mouse.  For any      *)
(* length of the buffer and any set of keys: the circular buffer is the    *)
(* queue of KeyQueue, and the flag bytes follow the keys through every     *)
(* sequence of codes.  For any commands between any irqs: what each device *)
(* sends reaches the handler or the command it is for.                     *)
(***************************************************************************)
EXTENDS Kbd, Ps2, Integers, SequenceTheorems, TLAPS

-----------------------------------------------------------------------------
(***************************************************************************)
(* kbd.c                                                                   *)
(***************************************************************************)

USE KbdAssumption DEF KbdAssumption

Slot == 0..(Slots - 1)

-----------------------------------------------------------------------------
(* The buffer.                                                             *)

(* Remainders of a multiple and something small. *)
LEMMA ModMultiple ==
  ASSUME NEW m \in Nat \ {0}, NEW k \in Int, NEW a \in 0..(m - 1)
  PROVE  (k * m + a) % m = a
OBVIOUS

(* A number below twice the length, folded into the buffer. *)
LEMMA Folded ==
  ASSUME NEW a \in 0..(2 * Slots - 1)
  PROVE  a % Slots = (IF a < Slots THEN a ELSE a - Slots) /\ a % Slots \in Slot
<1>1. CASE a < Slots
  <2>1. a \in 0..(Slots - 1) /\ a = 0 * Slots + a /\ Slots \in Nat \ {0}
    BY <1>1
  <2>2. (0 * Slots + a) % Slots = a
    BY ONLY <2>1, ModMultiple
  <2> QED BY <1>1, <2>1, <2>2 DEF Slot
<1>2. CASE ~(a < Slots)
  <2> DEFINE b == a - Slots
  <2>1. b \in 0..(Slots - 1) /\ a = 1 * Slots + b /\ Slots \in Nat \ {0}
    BY <1>2
  <2> HIDE DEF b
  <2>2. (1 * Slots + b) % Slots = b
    BY ONLY <2>1, ModMultiple
  <2> QED BY <1>2, <2>1, <2>2 DEF Slot, b
<1> QED BY <1>1, <1>2

(* How many strokes are between two pointers, and where the i-th is. *)
Count(h, t) == (t + Slots - h) % Slots
Place(h, i) == (h + i - 1) % Slots

(* What the two are without a remainder. *)
LEMMA CountIs ==
  ASSUME NEW h \in Slot, NEW t \in Slot
  PROVE  Count(h, t) = (IF t >= h THEN t - h ELSE t + Slots - h) /\ Count(h, t) \in Slot
<1> DEFINE a == t + Slots - h
<1>1. a \in 0..(2 * Slots - 1)
  BY DEF Slot
<1> HIDE DEF a
<1>2. a % Slots = (IF a < Slots THEN a ELSE a - Slots) /\ a % Slots \in Slot
  BY <1>1, Folded
<1> QED BY <1>2 DEF a, Count, Slot

(* The places wrap round at the end of the buffer. *)
LEMMA PlaceIs ==
  ASSUME NEW h \in Slot, NEW i \in 1..Slots
  PROVE  Place(h, i) = (IF h + i <= Slots THEN h + i - 1 ELSE h + i - 1 - Slots) /\ Place(h, i) \in Slot
<1> DEFINE a == h + i - 1
<1>1. a \in 0..(2 * Slots - 1)
  BY DEF Slot
<1> HIDE DEF a
<1>2. a % Slots = (IF a < Slots THEN a ELSE a - Slots) /\ a % Slots \in Slot
  BY <1>1, Folded
<1> QED BY <1>2 DEF a, Place, Slot

(* The strokes between two pointers of a buffer. *)
Between(buf, h, t) == [i \in 1..Count(h, t) |-> buf[Place(h, i)]]

(* The strokes that wait are those between the two pointers. *)
LEMMA StrokesBetween == Strokes = Between(kbd_buf, kbd_buf_head, kbd_buf_tail)
BY DEF Strokes, Between, Count, Place

(* They are a sequence of strokes. *)
LEMMA BetweenIs ==
  ASSUME NEW buf \in [Slot -> Stroke], NEW h \in Slot, NEW t \in Slot
  PROVE  /\ Between(buf, h, t) \in Seq(Stroke) /\ Len(Between(buf, h, t)) = Count(h, t)
         /\ \A i \in 1..Count(h, t) : Between(buf, h, t)[i] = buf[Place(h, i)]
<1>1. Count(h, t) \in Nat /\ Count(h, t) <= Slots
  <2>1. Count(h, t) \in Slot
    BY CountIs
  <2> QED BY <2>1 DEF Slot
<1>2. \A i \in 1..Count(h, t) : Place(h, i) \in Slot
  BY <1>1, PlaceIs
<1> QED BY <1>1, <1>2 DEF Between

(* A pointer moves on, or back to the start of the buffer. *)
LEMMA AfterIs ==
  ASSUME NEW t \in Slot
  PROVE  After(t) \in Slot /\ After(t) = (IF t = Slots - 1 THEN 0 ELSE t + 1)
BY DEF After, Slot

(* enqueue_key(), where there is room. *)
LEMMA Enqueued ==
  ASSUME NEW buf \in [Slot -> Stroke], NEW h \in Slot, NEW t \in Slot, NEW s \in Stroke,
         After(t) # h
  PROVE  /\ Len(Between(buf, h, t)) < Slots - 1
         /\ Between([buf EXCEPT ![t] = s], h, After(t)) = Append(Between(buf, h, t), s)
<1> DEFINE buf2 == [buf EXCEPT ![t] = s]
           old == Between(buf, h, t)
           new == Between(buf2, h, After(t))
           c == Count(h, t)
<1>0. /\ c = (IF t >= h THEN t - h ELSE t + Slots - h) /\ c \in Slot
      /\ After(t) \in Slot /\ After(t) = (IF t = Slots - 1 THEN 0 ELSE t + 1)
  BY CountIs, AfterIs
<1>1. buf2 \in [Slot -> Stroke] /\ After(t) \in Slot
  BY <1>0
<1>2. Count(h, After(t)) = c + 1 /\ c < Slots - 1 /\ c \in Nat
  <2> HIDE DEF c
  <2> DEFINE u == After(t)
  <2>1. Count(h, u) = (IF u >= h THEN u - h ELSE u + Slots - h)
    BY <1>0, CountIs
  <2>2. u \in Slot /\ u = (IF t = Slots - 1 THEN 0 ELSE t + 1) /\ u # h
    BY <1>0
  <2> HIDE DEF u
  <2>3. Count(h, u) = c + 1 /\ c < Slots - 1 /\ c \in Nat
    BY <1>0, <2>1, <2>2 DEF Slot
  <2> QED BY <2>3 DEF u
<1> HIDE DEF c
<1>3. Place(h, c + 1) = t
  <2>1. c + 1 \in 1..Slots /\ h + (c + 1) - 1 = h + c
    BY <1>2 DEF Slot
  <2>2. Place(h, c + 1) = IF h + (c + 1) <= Slots THEN h + (c + 1) - 1 ELSE h + (c + 1) - 1 - Slots
    BY <2>1, PlaceIs
  <2> QED BY <1>0, <2>2 DEF Slot
<1>4. ASSUME NEW i \in 1..c PROVE Place(h, i) # t /\ Place(h, i) \in Slot
  <2>1. i \in 1..Slots
    BY <1>2
  <2>2. /\ Place(h, i) = IF h + i <= Slots THEN h + i - 1 ELSE h + i - 1 - Slots
        /\ Place(h, i) \in Slot
    BY <2>1, PlaceIs
  <2> QED BY <1>0, <1>2, <2>2 DEF Slot
<1>5. /\ old \in Seq(Stroke) /\ Len(old) = c
      /\ \A i \in 1..c : old[i] = buf[Place(h, i)]
  BY BetweenIs DEF c
<1>6. /\ new \in Seq(Stroke) /\ Len(new) = c + 1
      /\ \A i \in 1..(c + 1) : new[i] = buf2[Place(h, i)]
  <2> DEFINE u == After(t)
  <2>1. u \in Slot /\ Count(h, u) = c + 1
    BY <1>1, <1>2
  <2> HIDE DEF buf2, u
  <2>2. /\ Between(buf2, h, u) \in Seq(Stroke) /\ Len(Between(buf2, h, u)) = Count(h, u)
        /\ \A i \in 1..Count(h, u) : Between(buf2, h, u)[i] = buf2[Place(h, i)]
    BY <1>1, <2>1, BetweenIs
  <2> QED BY <2>1, <2>2 DEF u
<1> HIDE DEF old, new
<1>7. \A i \in 1..c : new[i] = old[i]
  <2>1. \A i \in 1..c : Place(h, i) # t /\ Place(h, i) \in Slot /\ i \in 1..(c + 1)
    BY <1>2, <1>4
  <2>2. \A i \in 1..c : buf2[Place(h, i)] = buf[Place(h, i)]
    BY <2>1
  <2> HIDE DEF buf2
  <2> QED BY <1>5, <1>6, <2>1, <2>2
<1>8. new[c + 1] = s
  <2>1. buf2[t] = s /\ c + 1 \in 1..(c + 1)
    BY <1>2
  <2> HIDE DEF buf2
  <2> QED BY <1>3, <1>6, <2>1
<1> HIDE DEF buf2
<1>9. /\ Append(old, s) \in Seq(Stroke) /\ Len(Append(old, s)) = c + 1
      /\ \A i \in 1..c : Append(old, s)[i] = old[i]
      /\ Append(old, s)[c + 1] = s
  BY <1>5, AppendProperties
<1>10. \A i \in 1..(c + 1) : new[i] = Append(old, s)[i]
  <2>1. ASSUME NEW i \in 1..(c + 1) PROVE i \in 1..c \/ i = c + 1
    BY <1>2
  <2> QED BY <1>7, <1>8, <1>9, <2>1
<1>11. new = Append(old, s)
  BY <1>6, <1>9, <1>10, SeqEqual
<1> QED BY <1>2, <1>5, <1>11 DEF old, new, buf2

(* dequeue_key(), where there is a stroke. *)
LEMMA Dequeued ==
  ASSUME NEW buf \in [Slot -> Stroke], NEW h \in Slot, NEW t \in Slot, h # t
  PROVE  /\ Between(buf, h, t) # << >>
         /\ Between(buf, After(h), t) = Tail(Between(buf, h, t))
<1> DEFINE c == Count(h, t)
           u == After(h)
           old == Between(buf, h, t)
           new == Between(buf, u, t)
<1>0. /\ c = (IF t >= h THEN t - h ELSE t + Slots - h) /\ c \in Slot
      /\ u \in Slot /\ u = (IF h = Slots - 1 THEN 0 ELSE h + 1)
  BY CountIs, AfterIs
<1> HIDE DEF c, u
<1>1. Count(u, t) = c - 1 /\ c \in 1..Slots /\ u \in Slot
  <2>1. Count(u, t) = (IF t >= u THEN t - u ELSE t + Slots - u)
    BY <1>0, CountIs
  <2> QED BY <1>0, <2>1 DEF Slot
<1>2. ASSUME NEW i \in 1..(c - 1) PROVE Place(u, i) = Place(h, i + 1)
  <2>1. i \in 1..Slots /\ i + 1 \in 1..Slots
    BY <1>1
  <2>2. /\ Place(u, i) = IF u + i <= Slots THEN u + i - 1 ELSE u + i - 1 - Slots
        /\ Place(h, i + 1) = IF h + (i + 1) <= Slots THEN h + (i + 1) - 1 ELSE h + (i + 1) - 1 - Slots
    BY <1>0, <2>1, PlaceIs
  <2> QED BY <1>0, <1>1, <2>1, <2>2 DEF Slot
<1>3. /\ old \in Seq(Stroke) /\ Len(old) = c
      /\ \A i \in 1..c : old[i] = buf[Place(h, i)]
  BY BetweenIs DEF c
<1>4. /\ new \in Seq(Stroke) /\ Len(new) = c - 1
      /\ \A i \in 1..(c - 1) : new[i] = buf[Place(u, i)]
  <2>1. u \in Slot
    BY <1>1
  <2> HIDE DEF new
  <2>2. /\ new \in Seq(Stroke) /\ Len(new) = Count(u, t)
        /\ \A i \in 1..Count(u, t) : new[i] = buf[Place(u, i)]
    BY <2>1, BetweenIs DEF new
  <2> QED BY <1>1, <2>2
<1> HIDE DEF old, new
<1>5. old # << >>
  BY <1>1, <1>3, EmptySeq
<1>6. /\ Tail(old) \in Seq(Stroke) /\ Len(Tail(old)) = c - 1
      /\ \A i \in 1..(c - 1) : Tail(old)[i] = old[i + 1]
  BY <1>3, <1>5, HeadTailProperties
<1>7. \A i \in 1..(c - 1) : new[i] = Tail(old)[i]
  BY <1>1, <1>2, <1>3, <1>4, <1>6
<1>8. new = Tail(old)
  BY <1>4, <1>6, <1>7, SeqEqual
<1> QED BY <1>5, <1>8 DEF old, new, u

-----------------------------------------------------------------------------
(* What every step does to the buffer.                                     *)
BufTypes == kbd_buf \in [Slot -> Stroke] /\ kbd_buf_head \in Slot /\ kbd_buf_tail \in Slot

(* A stroke goes in at the end, or is dropped. *)
LEMMA EnqueueStep ==
  ASSUME BufTypes, NEW s \in Stroke, enqueue_key(s)
  PROVE  BufTypes' /\ [KeyBuffer!Put]_Strokes
<1>1. CASE UNCHANGED bufVars
  BY <1>1 DEF bufVars, BufTypes, Strokes
<1>2. CASE /\ After(kbd_buf_tail) # kbd_buf_head
           /\ kbd_buf' = [kbd_buf EXCEPT ![kbd_buf_tail] = s]
           /\ kbd_buf_tail' = After(kbd_buf_tail) /\ kbd_buf_head' = kbd_buf_head
  <2>1. BufTypes'
    BY <1>2, AfterIs DEF BufTypes
  <2>2. Strokes' = Between(kbd_buf', kbd_buf_head', kbd_buf_tail')
    BY DEF Strokes, Between, Count, Place
  <2>3. Len(Strokes) < Slots - 1 /\ Strokes' = Append(Strokes, s)
    BY <1>2, <2>2, StrokesBetween, Enqueued DEF BufTypes
  <2> QED BY <2>1, <2>3 DEF KeyBuffer!Put
<1> QED BY <1>1, <1>2 DEF enqueue_key

(* The first stroke is taken out. *)
LEMMA DequeueStep ==
  ASSUME BufTypes, dequeue_key
  PROVE  BufTypes' /\ KeyBuffer!Get
<1>1. BufTypes'
  BY AfterIs DEF BufTypes, dequeue_key
<1>2. Strokes' = Between(kbd_buf, After(kbd_buf_head), kbd_buf_tail)
  BY DEF dequeue_key, Strokes, Between, Count, Place
<1>3. Strokes # << >> /\ Strokes' = Tail(Strokes)
  BY <1>2, StrokesBetween, Dequeued DEF BufTypes, dequeue_key
<1> QED BY <1>1, <1>3 DEF KeyBuffer!Get

(* The irq puts in at most one stroke. *)
LEMMA CodeStep ==
  ASSUME BufTypes, NEW code, process_key(code)
  PROVE  BufTypes' /\ [KeyBuffer!Put]_Strokes
<1>1. CASE UNCHANGED bufVars
  BY <1>1 DEF bufVars, BufTypes, Strokes
<1>2. CASE code \in {"1e", "47"} /\ Press(code)
  <2>1. Column(code) \in {"alt", "control", "extended", "shift", "normal"}
    BY DEF Column
  <2>2. <<code, Column(code)>> \in Stroke
    BY <1>2, <2>1 DEF Stroke
  <2> QED BY <1>2, <2>2, EnqueueStep DEF Press
<1>3. UNCHANGED bufVars \/ (code \in {"1e", "47"} /\ Press(code))
  BY DEF process_key, Pause, Shift, Modifier, Lock, Prefix, Unknown, Release
<1> QED BY <1>1, <1>2, <1>3

(* Every step is a step of the queue, or leaves it alone. *)
LEMMA BufferStep ==
  ASSUME BufTypes, [KbdNext]_kbdVars
  PROVE  BufTypes' /\ [KeyBuffer!Put \/ KeyBuffer!Get]_Strokes
<1>1. CASE UNCHANGED bufVars
  BY <1>1 DEF bufVars, BufTypes, Strokes
<1>2. CASE handle_1605
  BY <1>2, EnqueueStep DEF handle_1605, Stroke
<1>3. CASE handle_09
  BY <1>3, CodeStep DEF handle_09
<1>4. CASE dequeue_key
  BY <1>4, DequeueStep
<1>5. UNCHANGED bufVars \/ handle_1605 \/ handle_09 \/ dequeue_key
  BY DEF KbdNext, kbdVars, set_leds, kbd_command, handle_16, keyboard
<1> QED BY <1>1, <1>2, <1>3, <1>4, <1>5

(* The circular buffer of the BDA is a queue: strokes are read in the      *)
(* order they came, each once, and a full one drops what comes, for every  *)
(* length of the buffer (enqueue_key, dequeue_key, handle_1605).           *)
THEOREM BufferIsQueue == KbdSpec => KeysInOrder
<1>1. KbdInit => BufTypes /\ KeyBuffer!Init
  <2> SUFFICES ASSUME KbdInit PROVE BufTypes /\ KeyBuffer!Init
    OBVIOUS
  <2>1. BufTypes
    BY DEF KbdInit, BufTypes, Slot, Stroke
  <2>2. Strokes \in Seq(Stroke) /\ Len(Strokes) = 0
    <3>1. 0 \in Slot /\ kbd_buf_head = 0 /\ kbd_buf_tail = 0
      BY DEF KbdInit, Slot
    <3>2. Count(0, 0) = 0
      BY <3>1, CountIs
    <3>3. Between(kbd_buf, 0, 0) \in Seq(Stroke) /\ Len(Between(kbd_buf, 0, 0)) = Count(0, 0)
      BY <2>1, <3>1, BetweenIs DEF BufTypes
    <3> QED BY <3>1, <3>2, <3>3, StrokesBetween
  <2> QED BY <2>1, <2>2, EmptySeq DEF KeyBuffer!Init
<1>2. BufTypes /\ [KbdNext]_kbdVars => BufTypes' /\ [KeyBuffer!Put \/ KeyBuffer!Get]_Strokes
  BY BufferStep
<1> QED BY <1>1, <1>2, PTL DEF KbdSpec, KeysInOrder, KeyBuffer!Spec

-----------------------------------------------------------------------------
(* The flags.                                                              *)

(* The flag bytes tell which modifiers of h are down. *)
Match(h) ==
  /\ \A s \in {"lshift", "rshift"} : s \in kbd_flag0 <=> s \in h
  /\ \A l \in {"caps", "num"} : l \in kbd_flag1 <=> l \in h
  /\ "num" \in kbd_flag0 => "num" \in keys
  /\ "ctrl" \in kbd_flag1 <=> "lctrl" \in h
  /\ "ctrl" \in kbd_flag2 <=> "rctrl" \in h
  /\ "alt" \in kbd_flag1 <=> "lalt" \in h
  /\ "alt" \in kbd_flag2 <=> "ralt" \in h
  /\ "ctrl" \in kbd_flag0 => h \cap {"lctrl", "rctrl"} # {}
  /\ "alt" \in kbd_flag0 => h \cap {"lalt", "ralt"} # {}

(* The prefixes that wait for their code. *)
E0 == "LAST_E0" \in kbd_flag2
E1 == "LAST_E1" \in kbd_flag2

(* The keyboard before key k moved, and the codes of that. *)
Before(k) == IF k \in held THEN held \ {k} ELSE held \cup {k}
Sent(k) == IF k \in held THEN Down[k] ELSE Up[k]
Prefixed == {"rctrl", "ralt", "home", "win"}

(* What may be left of the codes of key k, and with which prefix. *)
Whole(k) == codes = Sent(k) /\ ~E0 /\ ~E1
Second(k) == k \in Prefixed /\ codes = Tail(Sent(k)) /\ E0 /\ ~E1
InPause ==
  /\ ~E0
  /\ \/ codes = <<"1d", "45", "e1", "9d", "c5">> /\ E1
     \/ codes = <<"45", "e1", "9d", "c5">> /\ E1
     \/ codes = <<"e1", "9d", "c5">> /\ ~E1
     \/ codes = <<"9d", "c5">> /\ E1
     \/ codes = <<"c5">> /\ E1

Settled == codes = << >> /\ ~E0 /\ ~E1 /\ Match(held)
Sending(k) ==
  /\ codes # << >> /\ Match(Before(k))
  /\ Whole(k) \/ Second(k) \/ (k = "pause" /\ k \in held /\ InPause)

FlagInv ==
  /\ keys \subseteq DOMAIN Down
  /\ ~stray => Settled \/ \E k \in keys : Sending(k)

(* The bits of Ctrl and Alt: left in KF1, right in KF2, and the active one *)
(* goes with whichever was released last.                                  *)
LEMMA ModifierStep ==
  ASSUME NEW k \in {"lctrl", "rctrl", "lalt", "ralt"}, Match(Before(k)), ~E1,
         E0 <=> k \in {"rctrl", "ralt"},
         Modifier(IF k \in {"lctrl", "rctrl"} THEN "ctrl" ELSE "alt", k \in held),
         codes' = << >>, held' = held, keys' = keys
  PROVE  Settled'
<1> DEFINE bit == IF k \in {"lctrl", "rctrl"} THEN "ctrl" ELSE "alt"
<1> USE DEF E0, E1, Before
<1>1. ~E0' /\ ~E1'
  BY DEF Modifier
<1>2. \A s : s # bit =>
        /\ s \in kbd_flag0' <=> s \in kbd_flag0
        /\ s \in kbd_flag1' <=> s \in kbd_flag1
        /\ s # "LAST_E0" => (s \in kbd_flag2' <=> s \in kbd_flag2)
  BY DEF Modifier
<1>3. /\ bit \in kbd_flag0' <=> k \in held
      /\ k \in {"lctrl", "lalt"} => (bit \in kbd_flag1' <=> k \in held)
                                   /\ (bit \in kbd_flag2' <=> bit \in kbd_flag2)
      /\ k \in {"rctrl", "ralt"} => (bit \in kbd_flag2' <=> k \in held)
                                   /\ (bit \in kbd_flag1' <=> bit \in kbd_flag1)
  BY DEF Modifier
<1>4. Match(held)'
  <2>1. CASE k \in {"lctrl", "rctrl"}
    BY <1>2, <1>3, <2>1 DEF Match
  <2>2. CASE k \in {"lalt", "ralt"}
    BY <1>2, <1>3, <2>2 DEF Match
  <2> QED BY <2>1, <2>2
<1> QED BY <1>1, <1>4 DEF Settled

(* A key of one code: Shift, Lock, Modifier, Press or Release. *)
LEMMA SingleCode ==
  ASSUME NEW k \in keys, keys \subseteq DOMAIN Down, Sending(k), Whole(k), handle_09,
         k \notin Prefixed, k # "pause"
  PROVE  Settled'
<1> USE DEF Sending, Whole, E0, E1, Before, Sent, Prefixed, handle_09, process_key, Down, Up
<1>1. k \in {"lctrl", "lalt", "lshift", "rshift", "caps", "num", "key"}
  OBVIOUS
<1>2. CASE k \in {"lshift", "rshift"}
  <2>1. Shift(k, k \in held) /\ codes' = << >> /\ held' = held /\ keys' = keys
    <3>1. CASE k = "lshift"
      BY <3>1
    <3>2. CASE k = "rshift"
      BY <3>2
    <3> QED BY <1>2, <3>1, <3>2
  <2>2. /\ ~E0' /\ ~E1' /\ kbd_flag1' = kbd_flag1
        /\ \A s : s # "LAST_E0" => (s \in kbd_flag2' <=> s \in kbd_flag2)
        /\ \A s : s \in kbd_flag0' <=> IF s = k THEN k \in held ELSE s \in kbd_flag0
    BY <2>1 DEF Shift
  <2> HIDE DEF E0, E1
  <2>3. Match(held)'
    BY SMTT(30), <1>2, <2>1, <2>2 DEF Match
  <2> QED BY <2>1, <2>2, <2>3 DEF Settled
<1>3. CASE k \in {"caps", "num"}
  <2>1. Lock(k, k \in held) /\ codes' = << >> /\ held' = held /\ keys' = keys
    <3>1. CASE k = "caps"
      BY <3>1
    <3>2. CASE k = "num"
      BY <3>2
    <3> QED BY <1>3, <3>1, <3>2
  <2>2. /\ ~E0' /\ ~E1'
        /\ \A s : s # "LAST_E0" => (s \in kbd_flag2' <=> s \in kbd_flag2)
        /\ \A s : s # k => (s \in kbd_flag0' <=> s \in kbd_flag0)
        /\ \A s : s \in kbd_flag1' <=> IF s = k THEN k \in held ELSE s \in kbd_flag1
    BY <2>1 DEF Lock
  <2> HIDE DEF E0, E1
  <2>3. Match(held)'
    BY SMTT(30), <1>3, <2>1, <2>2 DEF Match
  <2> QED BY <2>1, <2>2, <2>3 DEF Settled
<1>4. CASE k = "lctrl"
  <2>1. Modifier("ctrl", "lctrl" \in held) /\ codes' = << >> /\ held' = held /\ keys' = keys
    BY <1>4
  <2> QED BY <1>4, <2>1, ModifierStep
<1>5. CASE k = "lalt"
  <2>1. Modifier("alt", "lalt" \in held) /\ codes' = << >> /\ held' = held /\ keys' = keys
    BY <1>5
  <2> QED BY <1>5, <2>1, ModifierStep
<1>6. CASE k = "key"
  BY <1>6 DEF Press, Release, Settled, Match
<1> QED BY <1>1, <1>2, <1>3, <1>4, <1>5, <1>6

(* The codes of the grey keys begin with e0. *)
LEMMA PrefixCodes ==
  ASSUME NEW k \in Prefixed
  PROVE  /\ Head(Down[k]) = "e0" /\ Tail(Down[k]) # << >>
         /\ Head(Up[k]) = "e0" /\ Tail(Up[k]) # << >>
<1>1. CASE k = "rctrl"
  BY <1>1 DEF Down, Up
<1>2. CASE k = "ralt"
  BY <1>2 DEF Down, Up
<1>3. CASE k = "home"
  BY <1>3 DEF Down, Up
<1>4. CASE k = "win"
  BY <1>4 DEF Down, Up
<1> QED BY <1>1, <1>2, <1>3, <1>4 DEF Prefixed

(* The e0 before a code. *)
LEMMA FirstCode ==
  ASSUME NEW k \in keys, Sending(k), Whole(k), handle_09, k \in Prefixed
  PROVE  Sending(k)'
<1>1. /\ Head(codes) = "e0" /\ codes = Sent(k) /\ ~E0 /\ ~E1
      /\ Tail(Sent(k)) # << >>
  <2>1. Sent(k) \in {Down[k], Up[k]} /\ codes = Sent(k) /\ ~E0 /\ ~E1
    BY DEF Whole, Sent
  <2> QED BY <2>1, PrefixCodes
<1>2. /\ codes' = Tail(Sent(k)) /\ Prefix("LAST_E0")
      /\ UNCHANGED <<kbd_led, ledparam, int16, keys, held>>
  BY <1>1 DEF handle_09, process_key, E0, E1
<1>3. E0' /\ ~E1' /\ Sent(k)' = Sent(k) /\ Before(k)' = Before(k)
  BY <1>1, <1>2 DEF Prefix, E0, E1, Sent, Before
<1>4. Match(Before(k))'
  <2>1. kbd_flag0' = kbd_flag0 /\ kbd_flag1' = kbd_flag1 /\ kbd_flag2' = kbd_flag2 \cup {"LAST_E0"}
        /\ keys' = keys
    BY <1>2 DEF Prefix
  <2> QED BY <1>3, <2>1 DEF Sending, Match
<1> QED BY <1>1, <1>2, <1>3, <1>4 DEF Sending, Second

(* The code behind an e0: the right Ctrl and Alt, the grey keys, or a code *)
(* the table does not know.                                                *)
LEMMA SecondCode ==
  ASSUME NEW k \in keys, Sending(k), Second(k), handle_09, ~stray'
  PROVE  Settled'
<1> USE DEF Sending, Second, E0, E1, Before, Sent, Prefixed, handle_09, process_key, Down, Up
<1>1. CASE k = "rctrl"
  <2>1. Modifier("ctrl", "rctrl" \in held) /\ codes' = << >> /\ held' = held /\ keys' = keys
    BY <1>1
  <2> QED BY <1>1, <2>1, ModifierStep
<1>2. CASE k = "ralt"
  <2>1. Modifier("alt", "ralt" \in held) /\ codes' = << >> /\ held' = held /\ keys' = keys
    BY <1>2
  <2> QED BY <1>2, <2>1, ModifierStep
<1>3. CASE k = "home"
  BY <1>3 DEF Press, Release, Settled, Match
<1>4. CASE k = "win"
  <2>1. codes = IF k \in held THEN <<"5b">> ELSE <<"db">>
    BY <1>4
  <2>2. process_key(Head(codes)) /\ codes' = Tail(codes) /\ held' = held /\ keys' = keys
    OBVIOUS
  <2> HIDE DEF handle_09, process_key, Down, Up, Sent, Sending, Second
  <2>3. k \notin held
    <3>1. SUFFICES ASSUME k \in held PROVE FALSE
      OBVIOUS
    <3>2. E0 /\ ~E1
      BY DEF Second
    <3>3. codes = <<"5b">> /\ Head(codes) = "5b"
      BY <2>1, <3>1
    <3>4. process_key("5b")
      BY <2>2, <3>3
    <3>5. Unknown
      BY ONLY <3>2, <3>4 DEF process_key, E1
    <3> QED BY <3>2, <3>5 DEF Unknown
  <2>4. Release /\ codes' = << >> /\ held' = held /\ keys' = keys
    <3>1. codes = <<"db">> /\ ~E1
      BY <2>1, <2>3 DEF Second
    <3>2. process_key("db") /\ codes' = << >>
      BY <2>2, <3>1
    <3>3. Release
      BY ONLY <3>1, <3>2 DEF process_key, E1
    <3> QED BY <2>2, <3>2, <3>3
  <2>5. ~E0' /\ ~E1'
    BY <2>4 DEF Release, Second
  <2>6. Match(held)'
    BY <1>4, <2>3, <2>4 DEF Release, Sending, Match
  <2> QED BY <2>4, <2>5, <2>6 DEF Settled
<1> QED BY <1>1, <1>2, <1>3, <1>4

(* The six codes of pause. *)
LEMMA PauseCode ==
  ASSUME "pause" \in keys, "pause" \in held, Sending("pause"),
         Whole("pause") \/ InPause, handle_09
  PROVE  Settled' \/ Sending("pause")'
<1>1. /\ codes' = Tail(codes) /\ process_key(Head(codes)) /\ codes # << >>
      /\ keys' = keys /\ held' = held /\ Match(Before("pause"))
  BY DEF handle_09, Sending
<1>2. Before("pause") = held \ {"pause"} /\ Before("pause")' = Before("pause")
  BY <1>1 DEF Before
<1>3. CASE codes = <<"e1", "1d", "45", "e1", "9d", "c5">> /\ ~E0 /\ ~E1
  <2>1. codes' = <<"1d", "45", "e1", "9d", "c5">> /\ Prefix("LAST_E1")
    BY <1>1, <1>3 DEF process_key, E1
  <2>2. InPause' /\ codes' # << >>
    BY <1>3, <2>1 DEF Prefix, InPause, E0, E1
  <2>3. Match(Before("pause"))'
    BY <1>1, <1>2, <2>1 DEF Prefix, Match
  <2> QED BY <1>1, <2>2, <2>3 DEF Sending
<1>4. CASE InPause /\ codes = <<"e1", "9d", "c5">>
  <2>1. codes' = <<"9d", "c5">> /\ Prefix("LAST_E1")
    BY <1>1, <1>4 DEF process_key, InPause, E1
  <2>2. InPause' /\ codes' # << >>
    BY <1>4, <2>1 DEF Prefix, InPause, E0, E1
  <2>3. Match(Before("pause"))'
    BY <1>1, <1>2, <2>1 DEF Prefix, Match
  <2> QED BY <1>1, <2>2, <2>3 DEF Sending
<1>5. CASE InPause /\ codes # <<"e1", "9d", "c5">>
  <2>1. Pause(Head(codes)) /\ E1 /\ ~E0
    BY <1>1, <1>5 DEF process_key, InPause, E1
  <2>2. Match(Before("pause"))'
    BY <1>1, <1>2, <2>1 DEF Pause, Match
  <2>3. CASE codes \in {<<"1d", "45", "e1", "9d", "c5">>, <<"45", "e1", "9d", "c5">>, <<"9d", "c5">>}
    <3>1. ~E0' /\ (E1' <=> Head(codes) \in {"1d", "9d"})
      BY <2>1 DEF Pause, E0, E1
    <3>2. \/ codes' = <<"45", "e1", "9d", "c5">> /\ Head(codes) = "1d"
          \/ codes' = <<"e1", "9d", "c5">> /\ Head(codes) = "45"
          \/ codes' = <<"c5">> /\ Head(codes) = "9d"
      <4>1. CASE codes = <<"1d", "45", "e1", "9d", "c5">>
        BY <1>1, <4>1
      <4>2. CASE codes = <<"45", "e1", "9d", "c5">>
        BY <1>1, <4>2
      <4>3. CASE codes = <<"9d", "c5">>
        BY <1>1, <4>3
      <4> QED BY <2>3, <4>1, <4>2, <4>3
    <3>3. InPause' /\ codes' # << >>
      BY <3>1, <3>2 DEF InPause
    <3> QED BY <1>1, <2>2, <3>3 DEF Sending
  <2>4. CASE codes = <<"c5">>
    <3>1. codes' = << >> /\ ~E0' /\ ~E1'
      BY <1>1, <2>1, <2>4 DEF Pause, E0, E1
    <3>2. Match(held)'
      BY <1>1, <1>2, <2>2 DEF Match
    <3> QED BY <3>1, <3>2 DEF Settled
  <2> QED BY <1>5, <2>3, <2>4 DEF InPause
<1> QED BY <1>3, <1>4, <1>5 DEF Whole, Sent, Down

(* A key moves: its codes are to be sent.  Pause sends none when released. *)
LEMMA KeyStep ==
  ASSUME FlagInv, NEW k \in keys, keyboard(k)
  PROVE  FlagInv'
<1>1. /\ codes = << >> /\ keys' = keys /\ stray' = stray
      /\ kbd_flag0' = kbd_flag0 /\ kbd_flag1' = kbd_flag1 /\ kbd_flag2' = kbd_flag2
      /\ codes' = IF k \in held THEN Up[k] ELSE Down[k]
      /\ held' = IF k \in held THEN held \ {k} ELSE held \cup {k}
  BY DEF keyboard, flagVars
<1>2. ASSUME ~stray PROVE Settled' \/ Sending(k)'
  <2>1. Settled
    BY <1>1, <1>2 DEF FlagInv, Sending
  <2>2. ~E0' /\ ~E1' /\ codes' = Sent(k)' /\ Before(k)' = held
    BY <1>1, <2>1 DEF Settled, E0, E1, Sent, Before
  <2>3. Match(Before(k))'
    BY <1>1, <2>1, <2>2 DEF Settled, Match
  <2>4. CASE codes' # << >>
    BY <2>2, <2>3, <2>4 DEF Sending, Whole
  <2>5. CASE codes' = << >>
    <3>1. k = "pause"
      BY <1>1, <2>5 DEF FlagInv, Down, Up
    <3>2. Match(held)'
      BY <1>1, <2>1, <3>1 DEF Settled, Match
    <3> QED BY <2>2, <2>5, <3>2 DEF Settled
  <2> QED BY <2>4, <2>5
<1> QED BY <1>1, <1>2 DEF FlagInv

(* Nothing else touches the flags or the keys. *)
LEMMA FlagStep ==
  ASSUME FlagInv, [KbdNext]_kbdVars
  PROVE  FlagInv'
<1>1. CASE UNCHANGED <<flagVars, keyboardVars, stray>>
  BY <1>1 DEF FlagInv, Settled, Sending, Match, Whole, Second, InPause, E0, E1, Before, Sent,
              flagVars, keyboardVars
<1>2. CASE handle_09
  <2>1. keys' = keys /\ (stray => stray') /\ codes # << >>
    BY <1>2 DEF handle_09, process_key, Pause, Shift, Modifier, Lock, Prefix, Press, Unknown, Release
  <2>2. ASSUME ~stray', NEW k \in keys, Sending(k) PROVE Settled' \/ Sending(k)'
    <3>1. CASE Whole(k) /\ k \notin Prefixed /\ k # "pause"
      BY <1>2, <2>2, <3>1, SingleCode DEF FlagInv
    <3>2. CASE Whole(k) /\ k \in Prefixed
      BY <1>2, <2>2, <3>2, FirstCode
    <3>3. CASE Second(k)
      BY <1>2, <2>2, <3>3, SecondCode
    <3>4. CASE k = "pause" /\ (Whole(k) \/ (k \in held /\ InPause))
      <4>1. k \in held
        BY <2>1, <3>4 DEF Whole, Sent, Up
      <4> QED BY <1>2, <2>2, <3>4, <4>1, PauseCode
    <3> QED BY <2>2, <3>1, <3>2, <3>3, <3>4 DEF Sending
  <2> QED BY <2>1, <2>2 DEF FlagInv, Settled
<1>3. CASE \E k \in keys : keyboard(k)
  BY <1>3, KeyStep
<1>4. UNCHANGED <<flagVars, keyboardVars, stray>> \/ handle_09 \/ \E k \in keys : keyboard(k)
  BY DEF KbdNext, kbdVars, set_leds, kbd_command, handle_16, handle_1605, dequeue_key
<1> QED BY <1>1, <1>2, <1>3, <1>4

(* Between two keys the flag bytes of the BDA tell which modifiers are     *)
(* down, whatever the keyboard has and whatever was typed before, prefixes *)
(* and the six codes of pause included (__process_key).                    *)
THEOREM FlagsFollowKeys == KbdSpec => []ModifiersMatch
<1>1. KbdInit => FlagInv
  BY DEF KbdInit, FlagInv, Settled, Match, E0, E1
<1>2. FlagInv /\ [KbdNext]_kbdVars => FlagInv'
  BY FlagStep
<1>3. FlagInv => ModifiersMatch
  BY DEF FlagInv, ModifiersMatch, Settled, Sending, Match
<1> QED BY <1>1, <1>2, <1>3, PTL DEF KbdSpec

HIDE KbdAssumption DEF KbdAssumption

-----------------------------------------------------------------------------
(***************************************************************************)
(* ps2port.c, mouse.c: commands and irqs on the one output buffer of the   *)
(* i8042.  The invariant (Ps2Inv) follows what shares it: the control byte *)
(* and the latched irqs, the bytes of the keyboard with the answer to a    *)
(* command among them, and those of the mouse with what the handler already *)
(* has of its packet.                                                      *)
(***************************************************************************)

(* The byte of either device in the output buffer. *)
KbdByte == IF obf # << >> /\ ~obf[1].aux THEN obf[1].byte ELSE "none"
AuxByte == IF obf # << >> /\ obf[1].aux THEN obf[1].byte ELSE "none"

Polled == cmd.pc \in {"send", "ack", "receive"}
Wants == cmd.send = 0 /\ cmd.receive = 1

Names == {"none", "reset", "disable", "scanset", "enable", "remove", "setleds", "setrate", "getid"}

Types ==
  /\ obf = << >> \/ \E a \in BOOLEAN, b \in Bytes : obf = <<[aux |-> a, byte |-> b]>>
  /\ cmd \in [name : Names, aux : BOOLEAN,
              pc : {"none", "flush", "send", "ack", "receive"},
              send : 0..2, receive : Int, old : Controls]
  /\ cmd.pc = "none" => cmd = NoCommand
  /\ cmd.pc \in {"flush", "send"} => cmd.send > 0
  /\ IF cmd.pc = "receive" THEN cmd.send = 0 ELSE cmd.receive \in 0..1
  /\ cmd.name = "remove" => cmd.aux
  /\ auxq \in Seq(Bytes)
  /\ ps2ctr \in Controls /\ package_count \in {0, 3} /\ far_call \in BOOLEAN /\ cut \in BOOLEAN
  /\ init \in {"reset", "disable", "scanset", "enable", "done", "failed"}

(* ctr is what ps2ctr and the command say, and a port that is disabled has *)
(* its irq off.                                                            *)
ControlLine ==
  /\ "KBDINT" \in ps2ctr <=> "KBDDIS" \notin ps2ctr
  /\ "AUXINT" \in ps2ctr <=> "AUXDIS" \notin ps2ctr
  /\ init \notin {"done", "failed"} => "AUXINT" \notin ps2ctr
  /\ cmd.pc # "none" => cmd.old = ps2ctr
  /\ ctr = CASE cmd.pc = "none" -> ps2ctr
             [] cmd.pc = "flush" -> Quiet(ps2ctr)
             [] OTHER -> Quiet(ps2ctr) \ {IF cmd.aux THEN "AUXDIS" ELSE "KBDDIS"}

(* A byte has its irq latched until a handler has taken it, and the port   *)
(* that is polled has none and no byte of the other device.                *)
IrqLine ==
  /\ ~Polled => irqs = IF obf = << >> THEN {} ELSE IF obf[1].aux THEN {12} ELSE {1}
  /\ Polled => irqs = {} /\ (obf # << >> => obf[1].aux = cmd.aux)
  /\ ~cmd.aux /\ "AUXINT" \notin ps2ctr => AuxByte = "none"

(* What the keyboard has sent: keys, and in a command to it the answer.    *)
KeyBytes(q) == q = << >> \/ q = <<"key">>
OnlyKeys(b, q) == b \in {"none", "key"} /\ KeyBytes(q)
KbdAnswer(b, q, w) ==
  \/ OnlyKeys(b, q)
  \/ b \in {"none", "key"} /\ (q = <<"nak">> \/ q = <<"key", "nak">>)
  \/ b = "nak" /\ KeyBytes(q)
  \/ ~w /\ b \in {"none", "key"} /\ (q = <<"ack">> \/ q = <<"key", "ack">>)
  \/ ~w /\ b = "ack" /\ KeyBytes(q)
  \/ w /\ b \in {"none", "key"} /\ (q = <<"ack", "param">> \/ q = <<"key", "ack", "param">>)
  \/ w /\ b = "ack" /\ q = <<"param">>
KbdParam(b, q) == (b = "none" /\ q = <<"param">>) \/ (b = "param" /\ KeyBytes(q))

KbdLine ==
  /\ cmd.pc = "ack" /\ ~cmd.aux => KbdAnswer(KbdByte, kbdq, Wants)
  /\ cmd.pc = "receive" /\ ~cmd.aux => Wants /\ KbdParam(KbdByte, kbdq)
  /\ cmd.pc \notin {"ack", "receive"} \/ cmd.aux => OnlyKeys(KbdByte, kbdq)

(* What the mouse has sent: the rest of a packet, after what the handler   *)
(* has of it, or in a command to it the answer and then a packet.          *)
WholePacket == <<"m0", "m1", "m2">>
PacketQueue(q) == q = << >> \/ q = WholePacket
Rest(b, q) ==
  \/ b = "none" /\ (PacketQueue(q) \/ q = <<"m1", "m2">> \/ q = <<"m2">>)
  \/ b = "m0" /\ q = <<"m1", "m2">>
  \/ b = "m1" /\ q = <<"m2">>
  \/ b = "m2" /\ PacketQueue(q)
Aligned(p, b, q) ==
  \/ p = << >> /\ b = "none" /\ PacketQueue(q)
  \/ p = << >> /\ b = "m0" /\ q = <<"m1", "m2">>
  \/ p = <<"m0">> /\ b = "none" /\ q = <<"m1", "m2">>
  \/ p = <<"m0">> /\ b = "m1" /\ q = <<"m2">>
  \/ p = <<"m0", "m1">> /\ b = "none" /\ q = <<"m2">>
  \/ p = <<"m0", "m1">> /\ b = "m2" /\ PacketQueue(q)
AuxAnswer(b, q, w) ==
  \/ Rest(b, q)
  \/ b = "none" /\ q = <<"nak">>
  \/ b = "nak" /\ PacketQueue(q)
  \/ ~w /\ b = "none" /\ q = <<"ack">>
  \/ ~w /\ b = "ack" /\ PacketQueue(q)
  \/ w /\ b = "none" /\ q = <<"ack", "param">>
  \/ w /\ b = "ack" /\ q = <<"param">>
AuxParam(b, q) == (b = "none" /\ q = <<"param">>) \/ (b = "param" /\ PacketQueue(q))

InStep ==
  IF far_call /\ package_count = 3
  THEN Aligned(packet, AuxByte, auxq)
  ELSE packet = << >> /\ Rest(AuxByte, auxq)

(* A mouse command that finds the mouse in a packet is going to say so.    *)
AboutToCut == cmd.aux /\ (cmd.pc = "send" \/ (cmd.pc = "flush" /\ "AUXINT" \notin ps2ctr))

AuxLine ==
  ~cut =>
    /\ cmd.pc = "ack" /\ cmd.aux => packet = << >> /\ AuxAnswer(AuxByte, auxq, Wants)
    /\ cmd.pc = "receive" /\ cmd.aux => Wants /\ packet = << >> /\ AuxParam(AuxByte, auxq)
    /\ (cmd.pc \notin {"ack", "receive"} \/ ~cmd.aux) /\ ~AboutToCut => InStep

Ps2Inv ==
  /\ Types /\ ControlLine /\ IrqLine /\ KbdLine /\ AuxLine
  /\ typed = "key" /\ ~torn

(* The properties follow. *)
LEMMA InvImplies == ASSUME Ps2Inv PROVE PortShared
<1>1. OtherDeviceKept
  BY DEF Ps2Inv, IrqLine, Polled, OtherDeviceKept
<1> QED BY <1>1 DEF Ps2Inv, PortShared, OnlyKeysTyped, PacketsWhole

LEMMA InitInv == Ps2Init => Ps2Inv
<1> SUFFICES ASSUME Ps2Init PROVE Ps2Inv
  OBVIOUS
<1> USE DEF Ps2Init, NoCommand
<1>1. Types
  <2>1. cmd \in [name : Names, aux : BOOLEAN, pc : {"none", "flush", "send", "ack", "receive"},
                 send : 0..2, receive : Int, old : Controls]
    BY DEF Names, Controls
  <2>2. auxq \in Seq(Bytes)
    OBVIOUS
  <2>3. cmd.pc = "none" /\ cmd.receive = 0 /\ cmd.name = "none"
    OBVIOUS
  <2>4. ps2ctr \in Controls
    BY DEF Controls
  <2>5. obf = << >> /\ package_count \in {0, 3} /\ far_call \in BOOLEAN /\ cut \in BOOLEAN
        /\ init \in {"reset", "disable", "scanset", "enable", "done", "failed"}
    OBVIOUS
  <2>6. cmd = NoCommand
    OBVIOUS
  <2> HIDE DEF Ps2Init, NoCommand
  <2> QED BY <2>1, <2>2, <2>3, <2>4, <2>5, <2>6 DEF Types
<1>2. ControlLine /\ IrqLine
  BY DEF ControlLine, IrqLine, Polled, AuxByte
<1>3. KbdLine /\ AuxLine
  BY DEF KbdLine, OnlyKeys, KeyBytes, KbdByte, AuxLine, AboutToCut, InStep, Rest, PacketQueue, AuxByte
<1> QED BY <1>1, <1>2, <1>3 DEF Ps2Inv

-----------------------------------------------------------------------------
(* The devices.                                                            *)

(* The output buffer, when it is empty and when it is not. *)
LEMMA Buffer ==
  ASSUME Types
  PROVE  \/ obf = << >> /\ KbdByte = "none" /\ AuxByte = "none"
         \/ obf # << >> /\ obf[1].aux = FALSE /\ obf[1].byte \in Bytes
              /\ KbdByte = obf[1].byte /\ AuxByte = "none"
         \/ obf # << >> /\ obf[1].aux = TRUE /\ obf[1].byte \in Bytes
              /\ KbdByte = "none" /\ AuxByte = obf[1].byte
BY DEF Types, KbdByte, AuxByte

(* The next byte leaves what is sent what it is. *)
LEMMA KbdHead ==
  ASSUME NEW q, q # << >>, NEW w
  PROVE  /\ OnlyKeys("none", q) => Head(q) \in Bytes /\ OnlyKeys(Head(q), Tail(q))
         /\ KbdParam("none", q) => Head(q) \in Bytes /\ KbdParam(Head(q), Tail(q))
         /\ KbdAnswer("none", q, w) => Head(q) \in Bytes /\ KbdAnswer(Head(q), Tail(q), w)
<1> USE DEF KeyBytes, OnlyKeys, KbdParam, KbdAnswer, Bytes
<1>1. CASE q = <<"key">>
  BY <1>1
<1>2. CASE q = <<"nak">>
  BY <1>2
<1>3. CASE q = <<"key", "nak">>
  BY <1>3
<1>4. CASE q = <<"ack">>
  BY <1>4
<1>5. CASE q = <<"key", "ack">>
  BY <1>5
<1>6. CASE q = <<"ack", "param">>
  BY <1>6
<1>7. CASE q = <<"key", "ack", "param">>
  BY <1>7
<1>8. CASE q = <<"param">>
  BY <1>8
<1> QED BY <1>1, <1>2, <1>3, <1>4, <1>5, <1>6, <1>7, <1>8

LEMMA AuxHead ==
  ASSUME NEW q, q # << >>, NEW p, NEW w
  PROVE  /\ Rest("none", q) => Rest(Head(q), Tail(q))
         /\ Aligned(p, "none", q) => Aligned(p, Head(q), Tail(q))
         /\ AuxParam("none", q) => AuxParam(Head(q), Tail(q))
         /\ AuxAnswer("none", q, w) => AuxAnswer(Head(q), Tail(q), w)
<1> USE DEF PacketQueue, WholePacket, Rest, Aligned, AuxParam, AuxAnswer
<1>1. CASE q = <<"m0", "m1", "m2">>
  BY <1>1
<1>2. CASE q = <<"m1", "m2">>
  BY <1>2
<1>3. CASE q = <<"m2">>
  BY <1>3
<1>4. CASE q = <<"nak">>
  BY <1>4
<1>5. CASE q = <<"ack">>
  BY <1>5
<1>6. CASE q = <<"ack", "param">>
  BY <1>6
<1>7. CASE q = <<"param">>
  BY <1>7
<1> QED BY <1>1, <1>2, <1>3, <1>4, <1>5, <1>6, <1>7

(* A byte of the keyboard arrives in the empty buffer. *)
LEMMA KeyArrives == ASSUME Ps2Inv, deliver_key PROVE Ps2Inv'
<1> USE DEF Ps2Inv
<1>1. /\ obf = << >> /\ kbdq # << >> /\ "KBDDIS" \notin ctr
      /\ obf' = <<[aux |-> FALSE, byte |-> Head(kbdq)]>> /\ kbdq' = Tail(kbdq)
      /\ irqs' = irqs \cup Raised(obf', ctr)
      /\ UNCHANGED <<ps2ctr, ctr, auxq, reporting, cmd, init, packet, package_count, far_call,
                     typed, cut, torn>>
  BY DEF deliver_key, mouseVars
<1>2. Head(kbdq) \in Bytes
  <2>1. KbdByte = "none"
    BY <1>1 DEF KbdByte
  <2>2. KbdAnswer("none", kbdq, Wants) \/ KbdParam("none", kbdq) \/ OnlyKeys("none", kbdq)
    BY <2>1 DEF KbdLine, Types
  <2> QED BY <1>1, <2>2, KbdHead
<1>3. /\ KbdByte = "none" /\ AuxByte = "none" /\ KbdByte' = Head(kbdq) /\ AuxByte' = "none"
      /\ obf' # << >> /\ obf'[1].aux = FALSE
  BY <1>1 DEF KbdByte, AuxByte
<1>4. Types'
  BY <1>1, <1>2 DEF Types
<1>5. ControlLine'
  BY <1>1 DEF ControlLine
<1>6. IrqLine'
  <2>1. Raised(obf', ctr) = IF "KBDINT" \in ctr THEN {1} ELSE {}
    BY <1>3 DEF Raised
  <2> QED BY <1>1, <1>3, <2>1 DEF IrqLine, Polled, ControlLine, Quiet, Types
<1>7. KbdLine'
  <2>1. CASE cmd.pc = "ack" /\ ~cmd.aux
    <3>1. KbdAnswer(Head(kbdq), Tail(kbdq), Wants)
      BY <1>1, <1>3, <2>1, KbdHead DEF KbdLine
    <3> QED BY <1>1, <1>3, <2>1, <3>1 DEF KbdLine, Wants
  <2>2. CASE cmd.pc = "receive" /\ ~cmd.aux
    <3>1. KbdParam(Head(kbdq), Tail(kbdq))
      BY <1>1, <1>3, <2>2, KbdHead DEF KbdLine
    <3> QED BY <1>1, <1>3, <2>2, <3>1 DEF KbdLine, Wants
  <2>3. CASE cmd.pc \notin {"ack", "receive"} \/ cmd.aux
    <3>1. OnlyKeys(Head(kbdq), Tail(kbdq))
      BY <1>1, <1>3, <2>3, KbdHead DEF KbdLine
    <3> QED BY <1>1, <1>3, <2>3, <3>1 DEF KbdLine
  <2> QED BY <2>1, <2>2, <2>3
<1>8. AuxLine'
  BY <1>1, <1>3 DEF AuxLine, AboutToCut, InStep, Wants
<1> QED BY <1>1, <1>4, <1>5, <1>6, <1>7, <1>8

(* And a byte of the mouse. *)
LEMMA AuxArrives == ASSUME Ps2Inv, deliver_aux PROVE Ps2Inv'
<1> USE DEF Ps2Inv
<1>1. /\ obf = << >> /\ auxq # << >> /\ "AUXDIS" \notin ctr
      /\ obf' = <<[aux |-> TRUE, byte |-> Head(auxq)]>> /\ auxq' = Tail(auxq)
      /\ irqs' = irqs \cup Raised(obf', ctr)
      /\ UNCHANGED <<ps2ctr, ctr, kbdq, reporting, cmd, init, packet, package_count, far_call,
                     typed, cut, torn>>
  BY DEF deliver_aux, mouseVars
<1>2. Head(auxq) \in Bytes /\ Tail(auxq) \in Seq(Bytes)
  BY <1>1 DEF Types
<1>3. /\ KbdByte = "none" /\ AuxByte = "none" /\ AuxByte' = Head(auxq) /\ KbdByte' = "none"
      /\ obf' # << >> /\ obf'[1].aux = TRUE
  BY <1>1 DEF KbdByte, AuxByte
<1>4. Types'
  BY <1>1, <1>2 DEF Types
<1>5. ControlLine'
  BY <1>1 DEF ControlLine
<1>6. IrqLine'
  <2>1. Raised(obf', ctr) = IF "AUXINT" \in ctr THEN {12} ELSE {}
    BY <1>3 DEF Raised
  <2> QED BY <1>1, <1>3, <2>1 DEF IrqLine, Polled, ControlLine, Quiet, Types
<1>7. KbdLine'
  BY <1>1, <1>3 DEF KbdLine, Wants
<1>8. AuxLine'
  <2>1. Rest("none", auxq) => Rest(Head(auxq), Tail(auxq))
    BY <1>1, AuxHead
  <2>2. Aligned(packet, "none", auxq) => Aligned(packet, Head(auxq), Tail(auxq))
    BY <1>1, AuxHead
  <2>3. AuxParam("none", auxq) => AuxParam(Head(auxq), Tail(auxq))
    BY <1>1, AuxHead
  <2>4. AuxAnswer("none", auxq, Wants) => AuxAnswer(Head(auxq), Tail(auxq), Wants)
    BY <1>1, AuxHead
  <2>5. InStep => InStep'
    BY <1>1, <1>3, <2>1, <2>2 DEF InStep
  <2>6. Wants' = Wants
    BY <1>1 DEF Wants
  <2> QED BY <1>1, <1>3, <2>3, <2>4, <2>5, <2>6 DEF AuxLine, AboutToCut
<1> QED BY <1>1, <1>4, <1>5, <1>6, <1>7, <1>8

(* A key is pressed, or the mouse moves. *)
LEMMA DeviceStep == ASSUME Ps2Inv, press_key \/ move_mouse PROVE Ps2Inv'
<1> USE DEF Ps2Inv
<1>1. CASE press_key
  <2>1. /\ kbdq = << >> /\ kbdq' = <<"key">>
        /\ UNCHANGED <<ps2ctr, ctr, obf, irqs, auxq, cmd, init, packet, package_count, far_call,
                       typed, cut, torn>>
    BY <1>1 DEF press_key, mouseVars, i8042Vars
  <2>2. KbdByte' = KbdByte /\ AuxByte' = AuxByte
    BY <2>1 DEF KbdByte, AuxByte
  <2>3. KbdLine'
    BY <2>1, <2>2 DEF KbdLine, KbdAnswer, KbdParam, OnlyKeys, KeyBytes, Wants
  <2>4. Types' /\ ControlLine' /\ IrqLine'
    BY <2>1, <2>2 DEF Types, ControlLine, IrqLine, Polled
  <2>5. AuxLine'
    BY <2>1, <2>2 DEF AuxLine, AboutToCut, InStep, Wants
  <2> QED BY <2>1, <2>3, <2>4, <2>5
<1>2. CASE move_mouse
  <2>1. /\ auxq = << >> /\ auxq' = WholePacket
        /\ UNCHANGED <<ps2ctr, ctr, obf, irqs, kbdq, cmd, init, packet, package_count, far_call,
                       typed, cut, torn>>
    BY <1>2 DEF move_mouse, mouseVars, i8042Vars, WholePacket
  <2>2. KbdByte' = KbdByte /\ AuxByte' = AuxByte
    BY <2>1 DEF KbdByte, AuxByte
  <2>3. AuxLine'
    <3>1. Rest(AuxByte, << >>) => Rest(AuxByte, WholePacket)
      BY DEF Rest, PacketQueue, WholePacket
    <3>2. Aligned(packet, AuxByte, << >>) => Aligned(packet, AuxByte, WholePacket)
      BY DEF Aligned, PacketQueue, WholePacket
    <3>3. AuxAnswer(AuxByte, << >>, Wants) => AuxAnswer(AuxByte, WholePacket, Wants)
      BY <3>1 DEF AuxAnswer, PacketQueue
    <3>4. AuxParam(AuxByte, << >>) => AuxParam(AuxByte, WholePacket)
      BY DEF AuxParam, PacketQueue
    <3>5. InStep => InStep'
      BY <2>1, <2>2, <3>1, <3>2 DEF InStep
    <3> QED BY <2>1, <2>2, <3>3, <3>4, <3>5 DEF AuxLine, AboutToCut, Wants
  <2>4. Types' /\ ControlLine' /\ IrqLine'
    <3>1. auxq' \in Seq(Bytes)
      BY <2>1 DEF WholePacket, Bytes
    <3> QED BY <2>1, <2>2, <3>1 DEF Types, ControlLine, IrqLine, Polled
  <2>5. KbdLine'
    BY <2>1, <2>2 DEF KbdLine, Wants
  <2> QED BY <2>1, <2>3, <2>4, <2>5
<1> QED BY <1>1, <1>2

-----------------------------------------------------------------------------
(* The irqs.                                                               *)

(* Irq 1 finds the key it was raised for. *)
LEMMA KeyIrq == ASSUME Ps2Inv, handle_09_port PROVE Ps2Inv'
<1> USE DEF Ps2Inv
<1>1. 1 \in irqs /\ irqs' = irqs \ {1}
      /\ UNCHANGED <<ps2ctr, ctr, kbdq, auxq, reporting, cmd, init, packet, package_count,
                     far_call, cut, torn>>
  BY DEF handle_09_port, deviceVars, mouseVars
<1>2. ~Polled /\ obf # << >> /\ obf[1].aux = FALSE /\ irqs = {1}
  BY <1>1, Buffer DEF IrqLine
<1>3. KbdByte = "key" /\ AuxByte = "none" /\ obf[1].byte = "key"
  <2>1. OnlyKeys(KbdByte, kbdq)
    BY <1>2 DEF KbdLine, Polled
  <2> QED BY <1>2, <2>1, Buffer DEF OnlyKeys, Bytes
<1>4. obf' = << >> /\ typed' = "key"
  BY <1>2, <1>3 DEF handle_09_port
<1>5. KbdByte' = "none" /\ AuxByte' = "none"
  BY <1>4 DEF KbdByte, AuxByte
<1>6. Types' /\ ControlLine'
  BY <1>1, <1>4 DEF Types, ControlLine
<1>7. IrqLine'
  BY <1>1, <1>2, <1>4, <1>5 DEF IrqLine, Polled
<1>8. KbdLine'
  BY <1>1, <1>2, <1>3, <1>5 DEF KbdLine, OnlyKeys, Polled
<1>9. AuxLine'
  BY <1>1, <1>2, <1>3, <1>5 DEF AuxLine, AboutToCut, InStep, Polled
<1> QED BY <1>1, <1>4, <1>6, <1>7, <1>8, <1>9

(* What Append makes of the bytes of a packet. *)
LEMMA TwoBytes ==
  ASSUME NEW S, NEW a \in S, NEW b \in S
  PROVE  Append(<<a>>, b) = <<a, b>>
<1> DEFINE s == <<a>>
           t == <<a, b>>
<1>1. s \in Seq(S) /\ Len(s) = 1 /\ s[1] = a
  OBVIOUS
<1>2. t \in Seq(S) /\ Len(t) = 2 /\ t[1] = a /\ t[2] = b
  OBVIOUS
<1> HIDE DEF s, t
<1> DEFINE u == Append(s, b)
<1>3. u \in Seq(S) /\ Len(u) = Len(s) + 1 /\ (\A i \in 1..Len(s) : u[i] = s[i]) /\ u[Len(s) + 1] = b
  BY ZenonT(60), <1>1, AppendProperties
<1> HIDE DEF u
<1>4. Len(u) = 2 /\ u[1] = a /\ u[2] = b
  BY <1>1, <1>3
<1>6. \A i \in 1..Len(u) : u[i] = t[i]
  BY <1>2, <1>4
<1>5. u = t
   BY <1>2, <1>3, <1>4, <1>6, SeqEqual
<1> QED BY <1>5 DEF s, t, u

LEMMA ThreeBytes ==
  ASSUME NEW S, NEW a \in S, NEW b \in S, NEW c \in S
  PROVE  Append(<<a, b>>, c) = <<a, b, c>>
<1> DEFINE s == <<a, b>>
           t == <<a, b, c>>
<1>1. s \in Seq(S) /\ Len(s) = 2 /\ s[1] = a /\ s[2] = b
  OBVIOUS
<1>2. t \in Seq(S) /\ Len(t) = 3 /\ t[1] = a /\ t[2] = b /\ t[3] = c
  OBVIOUS
<1> HIDE DEF s, t
<1> DEFINE u == Append(s, c)
<1>3. u \in Seq(S) /\ Len(u) = Len(s) + 1 /\ (\A i \in 1..Len(s) : u[i] = s[i]) /\ u[Len(s) + 1] = c
  <2>1. s \in Seq(S) /\ c \in S
    BY <1>1
  <2> QED BY ONLY <2>1, AppendProperties
<1> HIDE DEF u
<1>4. Len(u) = 3 /\ u[1] = a /\ u[2] = b /\ u[3] = c
  BY <1>1, <1>3
<1>6. \A i \in 1..Len(u) : u[i] = t[i]
  BY <1>2, <1>4
<1>5. u = t
   BY <1>2, <1>3, <1>4, <1>6, SeqEqual
<1> QED BY <1>5 DEF s, t, u

(* Irq 12 finds a byte of the mouse; a handler gets it in its place of the *)
(* packet.                                                                 *)
LEMMA MouseIrq == ASSUME Ps2Inv, handle_74 PROVE Ps2Inv'
<1> USE DEF Ps2Inv
<1>1. 12 \in irqs /\ irqs' = irqs \ {12}
      /\ UNCHANGED <<ps2ctr, ctr, kbdq, auxq, reporting, cmd, init, typed, cut>>
  BY DEF handle_74, deviceVars
<1>2. ~Polled /\ obf # << >> /\ obf[1].aux = TRUE /\ irqs = {12}
  BY <1>1, Buffer DEF IrqLine
<1>3. KbdByte = "none" /\ AuxByte = obf[1].byte
  BY <1>2, Buffer
<1>4. /\ obf' = << >>
      /\ IF "AUXINT" \in ps2ctr THEN process_mouse(AuxByte) ELSE UNCHANGED <<mouseVars, torn>>
  BY <1>2, <1>3 DEF handle_74
<1>5. package_count' = package_count /\ far_call' = far_call
  BY <1>4 DEF process_mouse, mouseVars
<1>6. KbdByte' = "none" /\ AuxByte' = "none"
  BY <1>4 DEF KbdByte, AuxByte
<1>7. Types' /\ ControlLine' /\ KbdLine'
  BY <1>1, <1>3, <1>4, <1>5, <1>6 DEF Types, ControlLine, KbdLine, Wants
<1>8. IrqLine'
  BY <1>1, <1>2, <1>4, <1>6 DEF IrqLine, Polled
<1>9. CASE cut
  BY <1>1, <1>4, <1>7, <1>8, <1>9 DEF AuxLine, process_mouse, mouseVars
<1>10. CASE ~cut /\ "AUXINT" \notin ps2ctr
  <2>1. cmd.aux /\ AboutToCut
    BY <1>2, <1>3, <1>10, Buffer DEF IrqLine, AboutToCut, Polled, Types, Bytes, NoCommand
  <2> QED BY <1>1, <1>2, <1>4, <1>7, <1>8, <1>10, <2>1 DEF AuxLine, AboutToCut, Polled, mouseVars
<1>11. CASE ~cut /\ "AUXINT" \in ps2ctr
  <2>1. InStep /\ ~AboutToCut /\ ~AboutToCut' /\ cmd.pc \notin {"ack", "receive"}
    BY <1>1, <1>2, <1>11 DEF AuxLine, AboutToCut, Polled, Types
  <2>2. InStep' /\ ~torn'
    <3>1. CASE ~far_call
      BY <1>1, <1>3, <1>4, <1>5, <1>6, <1>11, <2>1, <3>1 DEF InStep, Rest, PacketQueue, WholePacket, process_mouse, mouseVars
    <3>2. CASE far_call /\ package_count = 3
      <4>1. Aligned(packet, AuxByte, auxq) /\ AuxByte # "none"
        BY <1>2, <1>3, <2>1, <3>2, Buffer DEF InStep, Bytes
      <4> DEFINE seen == Append(packet, AuxByte)
      <4>2. /\ packet' = IF Len(seen) < 3 THEN seen ELSE << >>
            /\ torn' = (torn \/ (~(Len(seen) < 3) /\ ~cut /\ seen # WholePacket))
        BY <1>4, <1>11, <3>2 DEF process_mouse, WholePacket
      <4>3. CASE packet = << >> /\ AuxByte = "m0" /\ auxq = <<"m1", "m2">>
        <5>1. Append(<< >>, "m0") = <<"m0">> /\ Len(<<"m0">>) = 1
          BY DEF WholePacket
        <5>2. seen = <<"m0">> /\ Len(seen) = 1
          BY <4>3, <5>1
        <5> HIDE DEF seen
        <5>3. packet' = <<"m0">>
          BY <4>2, <5>2
        <5>4. ~torn'
          <6>1. ~(~(Len(seen) < 3) /\ ~cut /\ seen # WholePacket)
            BY <5>2
          <6> QED BY <4>2, <6>1, Zenon
        <5> QED BY <1>1, <1>5, <1>6, <3>2, <4>3, <5>3, <5>4 DEF InStep, Aligned
      <4>4. CASE packet = <<"m0">> /\ AuxByte = "m1" /\ auxq = <<"m2">>
        <5>1. Append(<<"m0">>, "m1") = <<"m0", "m1">> /\ Len(<<"m0", "m1">>) = 2
          <6>1. "m0" \in Bytes /\ "m1" \in Bytes
            BY DEF Bytes
          <6>2. Append(<<"m0">>, "m1") = <<"m0", "m1">>
            BY ONLY <6>1, TwoBytes
          <6> QED BY <6>2
        <5>2. seen = <<"m0", "m1">> /\ Len(seen) = 2
          BY <4>4, <5>1
        <5> HIDE DEF seen
        <5>3. packet' = <<"m0", "m1">>
          BY <4>2, <5>2
        <5>4. ~torn'
          <6>1. ~(~(Len(seen) < 3) /\ ~cut /\ seen # WholePacket)
            BY <5>2
          <6> QED BY <4>2, <6>1, Zenon
        <5> QED BY <1>1, <1>5, <1>6, <3>2, <4>4, <5>3, <5>4 DEF InStep, Aligned
      <4>5. CASE packet = <<"m0", "m1">> /\ AuxByte = "m2" /\ PacketQueue(auxq)
        <5>1. Append(<<"m0", "m1">>, "m2") = WholePacket /\ Len(WholePacket) = 3
          <6>1. "m0" \in Bytes /\ "m1" \in Bytes /\ "m2" \in Bytes
            BY DEF Bytes
          <6>2. Append(<<"m0", "m1">>, "m2") = <<"m0", "m1", "m2">>
            BY ONLY <6>1, ThreeBytes
          <6> QED BY <6>2 DEF WholePacket
        <5>2. seen = WholePacket /\ Len(seen) = 3
          BY <4>5, <5>1
        <5> HIDE DEF seen
        <5>3. packet' = << >>
          BY <4>2, <5>2
        <5>4. ~torn'
          <6>1. ~(~(Len(seen) < 3) /\ ~cut /\ seen # WholePacket)
            BY <5>2
          <6> QED BY <4>2, <6>1, Zenon
        <5> QED BY <1>1, <1>5, <1>6, <3>2, <4>5, <5>3, <5>4 DEF InStep, Aligned, PacketQueue
      <4> QED BY <4>1, <4>3, <4>4, <4>5 DEF Aligned
    <3>3. CASE far_call /\ package_count = 0
      <4>1. packet = << >> /\ Rest(AuxByte, auxq) /\ AuxByte # "none"
        <5>1. ~(far_call /\ package_count = 3)
          BY <3>3
        <5>2. packet = << >> /\ Rest(AuxByte, auxq)
          BY <2>1, <5>1 DEF InStep
        <5>3. AuxByte # "none"
          BY <1>2, <1>3, Buffer DEF Bytes
        <5> QED BY <5>2, <5>3
      <4> DEFINE seen == Append(packet, AuxByte)
      <4>2. Len(seen) = 1
        BY <4>1
      <4>3. packet' = << >> /\ ~torn'
        <5>1. process_mouse(AuxByte)
          BY <1>4, <1>11
        <5>2. /\ packet' = IF Len(seen) < package_count THEN seen ELSE << >>
              /\ torn' = (torn \/ (~(Len(seen) < package_count) /\ ~cut /\ package_count = 3
                                    /\ seen # <<"m0", "m1", "m2">>))
          BY <3>3, <5>1 DEF process_mouse
        <5> HIDE DEF seen
        <5>3. packet' = << >>
          BY <3>3, <4>2, <5>2
        <5>4. ~torn'
          <6>1. ~(~(Len(seen) < package_count) /\ ~cut /\ package_count = 3 /\ seen # <<"m0", "m1", "m2">>)
            BY <3>3
          <6> QED BY <5>2, <6>1, Zenon
        <5> QED BY <5>3, <5>4
      <4>4. Rest("none", auxq)
        BY <4>1 DEF Rest
      <4> QED BY <1>1, <1>5, <1>6, <3>3, <4>3, <4>4 DEF InStep, Rest, PacketQueue
    <3> QED BY <3>1, <3>2, <3>3 DEF Types
  <2> QED BY <1>1, <1>7, <1>8, <2>1, <2>2 DEF AuxLine
<1> QED BY <1>9, <1>10, <1>11

-----------------------------------------------------------------------------
(* The commands.                                                           *)

(* A packet that is in step with the handler is the rest of one.           *)
LEMMA AlignedRest == ASSUME NEW p, NEW b, NEW q, Aligned(p, b, q) PROVE Rest(b, q)
BY DEF Aligned, Rest

(* What start() sets.                                                      *)
LEMMA Starts ==
  ASSUME NEW name \in Names \ {"none"}, NEW aux \in BOOLEAN, NEW control \in Controls,
         start(name, aux, control)
  PROVE  /\ cmd = NoCommand /\ ps2ctr' = control /\ ctr' = Quiet(control) /\ irqs' = irqs
         /\ cmd' \in [name : Names, aux : BOOLEAN, pc : {"none", "flush", "send", "ack", "receive"},
                      send : 0..2, receive : Int, old : Controls]
         /\ cmd'.name = name /\ cmd'.aux = aux /\ cmd'.pc = "flush" /\ cmd'.old = control
         /\ cmd'.send > 0 /\ cmd'.receive \in 0..1
<1>1. /\ cmd = NoCommand /\ ps2ctr' = control /\ ctr' = Quiet(control)
      /\ irqs' = irqs \cup Raised(obf, Quiet(control))
  BY DEF start, WriteControl
<1>2. Raised(obf, Quiet(control)) = {}
  BY DEF Raised, Quiet
<1>3. Parameters[name][1] \in 1..2 /\ Parameters[name][2] \in 0..1
  BY DEF Parameters, Names
<1>4. cmd' = [name |-> name, aux |-> aux, pc |-> "flush", old |-> control,
              send |-> Parameters[name][1], receive |-> Parameters[name][2]]
  BY DEF start
<1> HIDE DEF Parameters
<1> QED BY <1>1, <1>2, <1>3, <1>4

(* Every command starts like this: a keyboard command leaves the mouse     *)
(* enabled, a mouse command that enables it waits for a packet to end.     *)
LEMMA StartStep ==
  ASSUME Ps2Inv, NEW name \in Names \ {"none"}, NEW aux \in BOOLEAN, NEW control \in Controls,
         start(name, aux, control), name = "remove" => aux,
         "KBDINT" \in control <=> "KBDDIS" \notin control,
         "AUXINT" \in control <=> "AUXDIS" \notin control,
         init \notin {"done", "failed"} => "AUXINT" \notin control,
         ~aux /\ "AUXINT" \in ps2ctr => "AUXINT" \in control,
         UNCHANGED <<obf, deviceVars, init, typed, cut, torn>>,
         \/ UNCHANGED mouseVars
         \/ packet' = << >> /\ package_count' = 3 /\ far_call' = FALSE
  PROVE  Ps2Inv'
<1> USE DEF Ps2Inv
<1>1. /\ cmd = NoCommand /\ ps2ctr' = control /\ ctr' = Quiet(control) /\ irqs' = irqs
      /\ cmd'.name = name /\ cmd'.aux = aux /\ cmd'.pc = "flush" /\ cmd'.old = control
      /\ cmd'.send > 0 /\ cmd'.receive \in 0..1
  BY Starts
<1>2. cmd.pc = "none" /\ cmd.aux = FALSE
  BY <1>1 DEF NoCommand
<1>3. KbdByte' = KbdByte /\ AuxByte' = AuxByte /\ kbdq' = kbdq /\ auxq' = auxq
  BY DEF KbdByte, AuxByte, deviceVars
<1>4. Types'
  <2>1. cmd' \in [name : Names, aux : BOOLEAN, pc : {"none", "flush", "send", "ack", "receive"},
                  send : 0..2, receive : Int, old : Controls]
    BY Starts
  <2>2. package_count' \in {0, 3} /\ far_call' \in BOOLEAN
    BY DEF Types, mouseVars
  <2> QED BY <1>1, <1>3, <2>1, <2>2 DEF Types
<1>5. ControlLine'
  BY <1>1 DEF ControlLine
<1>6. IrqLine'
  BY <1>1, <1>2, <1>3 DEF IrqLine, Polled
<1>7. KbdLine'
  BY <1>1, <1>2, <1>3 DEF KbdLine
<1>8. AuxLine'
  <2>1. CASE cut
    BY <2>1 DEF AuxLine
  <2>2. CASE ~cut
    <3>1. InStep
      BY <1>2, <2>2 DEF AuxLine, AboutToCut
    <3>2. Rest(AuxByte, auxq)
      BY <3>1, AlignedRest DEF InStep
    <3>3. InStep'
      BY <1>3, <3>1, <3>2 DEF InStep, mouseVars
    <3> QED BY <1>1, <3>3 DEF AuxLine
  <2> QED BY <2>1, <2>2
<1> QED BY <1>4, <1>5, <1>6, <1>7, <1>8

(* The commands to the keyboard.                                           *)
LEMMA KeyboardStarts ==
  ASSUME Ps2Inv, keyboard_init \/ \E name \in {"setleds", "getid"} : ps2_kbd_command(name)
  PROVE  Ps2Inv'
<1> USE DEF Ps2Inv
<1>1. CASE keyboard_init
  <2> DEFINE control == IF init = "enable" THEN {"AUXDIS", "KBDINT"} ELSE ps2ctr
  <2>1. /\ init \in {"reset", "disable", "scanset", "enable"} /\ start(init, FALSE, control)
        /\ UNCHANGED <<obf, deviceVars, init, mouseVars, typed, cut, torn>>
    BY <1>1 DEF keyboard_init
  <2>2. "AUXINT" \notin ps2ctr
    BY <2>1 DEF ControlLine
  <2>3. /\ control \in Controls /\ init \in Names \ {"none"} /\ init # "remove"
        /\ "KBDINT" \in control <=> "KBDDIS" \notin control
        /\ "AUXINT" \in control <=> "AUXDIS" \notin control
        /\ "AUXINT" \notin control
    BY <2>1, <2>2 DEF ControlLine, Types, Controls, Names
  <2> HIDE DEF control
  <2> QED BY <2>1, <2>2, <2>3, StartStep
<1>2. ASSUME NEW name \in {"setleds", "getid"}, ps2_kbd_command(name) PROVE Ps2Inv'
  <2>1. start(name, FALSE, ps2ctr) /\ UNCHANGED <<obf, deviceVars, init, mouseVars, typed, cut, torn>>
    BY <1>2 DEF ps2_kbd_command
  <2>2. ps2ctr \in Controls /\ name \in Names \ {"none"} /\ name # "remove"
    BY DEF Types, Names
  <2> QED BY <2>1, <2>2, StartStep DEF ControlLine
<1> QED BY <1>1, <1>2

(* What a mouse command does to the irqs.                                  *)
LEMMA Controlled ==
  ASSUME Types, ControlLine, NEW name
  PROVE  /\ Control(name) \in Controls
         /\ "KBDINT" \in Control(name) <=> "KBDDIS" \notin Control(name)
         /\ "AUXINT" \in Control(name) <=> "AUXDIS" \notin Control(name)
<1>1. CASE name = "enable"
  BY <1>1 DEF Control, Controls, Types, ControlLine
<1>2. CASE name \in {"disable", "remove"}
  BY <1>2 DEF Control, Controls, Types, ControlLine
<1>3. CASE name \notin {"enable", "disable", "remove"}
  BY <1>3 DEF Control, Controls, Types, ControlLine
<1> QED BY <1>1, <1>2, <1>3

(* The commands to the mouse.                                              *)
LEMMA MouseStarts ==
  ASSUME Ps2Inv, NEW name \in Names \ {"none"}, ps2_mouse_command(name), init \in {"done", "failed"},
         UNCHANGED <<obf, deviceVars, init, typed, cut, torn>>,
         \/ UNCHANGED mouseVars
         \/ packet' = << >> /\ package_count' = 3 /\ far_call' = FALSE
  PROVE  Ps2Inv'
<1>1. Types /\ ControlLine
  BY DEF Ps2Inv
<1>2. start(name, TRUE, Control(name))
  BY DEF ps2_mouse_command
<1> QED BY <1>1, <1>2, Controlled, StartStep

(* A handler is installed or removed.                                      *)
LEMMA HandlerStep == ASSUME Ps2Inv, NEW install \in BOOLEAN, mouse_15c207(install) PROVE Ps2Inv'
<1> USE DEF Ps2Inv
<1>1. /\ init \in {"done", "failed"} /\ cmd = NoCommand
      /\ UNCHANGED <<obf, deviceVars, init, packet, package_count, typed, torn>>
  BY DEF mouse_15c207
<1>2. CASE far_call /\ ~install
  <2>1. ps2_mouse_command("remove") /\ UNCHANGED <<far_call, cut>>
    BY <1>2 DEF mouse_15c207
  <2> QED BY <1>1, <2>1, MouseStarts DEF mouseVars, Names
<1>3. CASE ~(far_call /\ ~install)
  <2>1. far_call' = install /\ cut' = (cut \/ (install /\ MidPacket)) /\ UNCHANGED <<cmd, ps2ctr, ctr, irqs>>
    BY <1>3 DEF mouse_15c207
  <2>2. KbdByte' = KbdByte /\ AuxByte' = AuxByte /\ kbdq' = kbdq /\ auxq' = auxq
    BY <1>1 DEF KbdByte, AuxByte, deviceVars
  <2>3. cut' \in BOOLEAN
    BY <2>1
  <2>4. Types' /\ ControlLine' /\ IrqLine' /\ KbdLine'
    BY <1>1, <2>1, <2>2, <2>3 DEF Types, ControlLine, IrqLine, KbdLine, Polled, Wants
  <2>5. ASSUME ~cut' PROVE InStep'
    <3>1. ~cut /\ (install => ~MidPacket)
      BY <2>1, <2>5
    <3>2. InStep
      BY <1>1, <3>1 DEF AuxLine, AboutToCut, NoCommand
    <3>3. CASE install
      <4>1. packet = << >> /\ auxq = << >> /\ AuxByte = "none"
        BY <3>1, <3>3 DEF MidPacket, AuxByte
      <4> QED BY <1>1, <2>2, <4>1 DEF InStep, Aligned, Rest, PacketQueue
    <3>4. CASE ~install
      BY <1>1, <1>3, <2>1, <2>2, <3>2, <3>4 DEF InStep, Types
    <3> QED BY <3>3, <3>4
  <2>6. AuxLine'
    BY <1>1, <2>1, <2>5 DEF AuxLine, NoCommand
  <2> QED BY <1>1, <2>4, <2>6
<1> QED BY <1>2, <1>3

(* The irqs are through: the port of the device is enabled.                *)
LEMMA Enabled == ASSUME Ps2Inv, enable_port PROVE Ps2Inv'
<1> USE DEF Ps2Inv
<1>1. /\ cmd.pc = "flush" /\ irqs = {} /\ cmd' = [cmd EXCEPT !.pc = "send"]
      /\ ctr' = ctr \ (IF cmd.aux THEN {"AUXDIS"} ELSE {"KBDDIS"})
      /\ irqs' = irqs \cup Raised(obf, ctr')
      /\ UNCHANGED <<ps2ctr, obf, kbdq, auxq, reporting, init, packet, package_count, far_call,
                     typed, cut, torn>>
  BY DEF enable_port, flush, WriteControl, deviceVars, mouseVars
<1>2. obf = << >>
  BY <1>1, Buffer DEF IrqLine, Polled
<1>3. irqs' = {}
  BY <1>1, <1>2 DEF Raised
<1>4. /\ cmd'.pc = "send" /\ cmd'.aux = cmd.aux /\ cmd'.old = cmd.old /\ cmd'.name = cmd.name
      /\ cmd'.send = cmd.send /\ cmd'.receive = cmd.receive
  BY <1>1 DEF Types
<1>5. KbdByte' = KbdByte /\ AuxByte' = "none" /\ AuxByte = "none"
  BY <1>1, <1>2 DEF KbdByte, AuxByte
<1>6. Types'
  <2>1. cmd' \in [name : Names, aux : BOOLEAN, pc : {"none", "flush", "send", "ack", "receive"},
                  send : 0..2, receive : Int, old : Controls]
    BY <1>1 DEF Types
  <2> QED BY <1>1, <1>4, <2>1 DEF Types
<1>7. ControlLine'
  BY <1>1, <1>4 DEF ControlLine, Types
<1>8. IrqLine'
  BY <1>1, <1>2, <1>3, <1>4, <1>5 DEF IrqLine, Polled
<1>9. KbdLine'
  BY <1>1, <1>4, <1>5 DEF KbdLine
<1>10. AuxLine'
  BY <1>1, <1>4, <1>5 DEF AuxLine, AboutToCut, InStep
<1> QED BY <1>1, <1>6, <1>7, <1>8, <1>9, <1>10

(* What is added to the bytes of the keyboard.                             *)
LEMMA Behind ==
  ASSUME NEW k \in Bytes, NEW a \in Bytes, NEW b \in Bytes
  PROVE  /\ << >> \o << >> = << >> /\ << >> \o <<a>> = <<a>> /\ << >> \o <<a, b>> = <<a, b>>
         /\ <<k>> \o << >> = <<k>> /\ <<k>> \o <<a>> = <<k, a>> /\ <<k>> \o <<a, b>> = <<k, a, b>>
<1>1. /\ << >> \in Seq(Bytes) /\ <<a>> \in Seq(Bytes) /\ <<k>> \in Seq(Bytes)
      /\ <<a, b>> \in Seq(Bytes) /\ <<k, a>> \in Seq(Bytes)
  OBVIOUS
<1>2. << >> \o << >> = << >> /\ << >> \o <<a>> = <<a>> /\ << >> \o <<a, b>> = <<a, b>> /\ <<k>> \o << >> = <<k>>
  BY <1>1, ConcatEmptySeq
<1>3. <<k>> \o <<a>> = <<k, a>>
  BY <1>1, AppendIsConcat, TwoBytes
<1>4. <<k>> \o <<a, b>> = <<k, a, b>>
  <2>1. <<a, b>> = <<a>> \o <<b>> /\ <<k, a>> = <<k>> \o <<a>>
    BY <1>1, AppendIsConcat, TwoBytes
  <2>2. <<k, a>> \o <<b>> = <<k, a, b>>
    BY <1>1, AppendIsConcat, ThreeBytes
  <2>3. <<k>> \o (<<a>> \o <<b>>) = (<<k>> \o <<a>>) \o <<b>>
    BY <1>1, ConcatAssociative
  <2> QED BY <2>1, <2>2, <2>3
<1> QED BY <1>2, <1>3, <1>4

(* A byte is sent, and the device is going to answer.                      *)
LEMMA SendStep == ASSUME Ps2Inv, NEW a \in {"ack", "nak", "none"}, ps2_sendbyte(a) PROVE Ps2Inv'
<1> USE DEF Ps2Inv
<1>1. /\ cmd.pc = "send" /\ cmd' = [cmd EXCEPT !.pc = "ack", !.send = @ - 1]
      /\ UNCHANGED <<ps2ctr, ctr, obf, irqs, init, packet, package_count, far_call, typed, torn>>
  BY DEF ps2_sendbyte, i8042Vars, mouseVars
<1>2. /\ cmd'.pc = "ack" /\ cmd'.aux = cmd.aux /\ cmd'.old = cmd.old /\ cmd'.name = cmd.name
      /\ cmd'.send = cmd.send - 1 /\ cmd'.receive = cmd.receive /\ cmd.send \in 1..2
  BY <1>1 DEF Types
<1>3. cmd' \in [name : Names, aux : BOOLEAN, pc : {"none", "flush", "send", "ack", "receive"},
                send : 0..2, receive : Int, old : Controls]
  <2>1. cmd.send - 1 \in 0..2
    BY <1>2
  <2>2. cmd' = [cmd EXCEPT !.pc = "ack", !.send = cmd.send - 1]
    BY <1>1
  <2> QED BY <2>1, <2>2 DEF Types
<1>4. KbdByte' = KbdByte /\ AuxByte' = AuxByte
  BY <1>1 DEF KbdByte, AuxByte
<1>5. ControlLine' /\ IrqLine'
  BY <1>1, <1>2, <1>4 DEF ControlLine, IrqLine, Polled
<1>6. OnlyKeys(KbdByte, kbdq)
  BY <1>1 DEF KbdLine
<1>7. CASE cmd.aux
  <2>1. auxq' = Answer(a) /\ kbdq' = kbdq /\ cut' = (cut \/ MidPacket)
    BY <1>7 DEF ps2_sendbyte
  <2>2. Answer(a) \in Seq(Bytes) /\ cut' \in BOOLEAN
    <3>1. Answer(a) \in {<< >>, <<"ack">>, <<"nak">>, <<"ack", "param">>}
      BY DEF Answer
    <3>2. << >> \in Seq(Bytes) /\ <<"ack">> \in Seq(Bytes) /\ <<"nak">> \in Seq(Bytes) /\ <<"ack", "param">> \in Seq(Bytes)
      <4>1. "ack" \in Bytes /\ "nak" \in Bytes /\ "param" \in Bytes
        BY DEF Bytes
      <4> QED BY ONLY <4>1
    <3>3. cut' \in BOOLEAN
      BY <2>1
    <3> QED BY <3>1, <3>2, <3>3
  <2>3. Types'
    BY <1>1, <1>2, <1>3, <2>1, <2>2 DEF Types
  <2>4. KbdLine'
    BY <1>2, <1>4, <1>6, <1>7, <2>1 DEF KbdLine
  <2>5. ASSUME ~cut' PROVE packet' = << >> /\ AuxAnswer(AuxByte', auxq', Wants')
    <3>1. packet = << >> /\ AuxByte = "none"
      BY <2>1, <2>5 DEF MidPacket, AuxByte
    <3>2. Wants' <=> cmd.send - 1 = 0 /\ cmd.receive = 1
      BY <1>2 DEF Wants
    <3>3. AuxAnswer("none", Answer(a), Wants')
      <4>1. Wants' <=> cmd.send = 1 /\ cmd.receive > 0
        <5>1. cmd.receive \in 0..1
          BY <1>1 DEF Types
        <5> QED BY ONLY <1>2, <3>2, <5>1
      <4>2. CASE a = "ack" /\ Wants'
        BY <4>1, <4>2 DEF Answer, AuxAnswer
      <4>3. CASE a = "ack" /\ ~Wants'
        BY <4>1, <4>3 DEF Answer, AuxAnswer
      <4>4. CASE a = "nak"
        BY <4>4 DEF Answer, AuxAnswer
      <4>5. CASE a = "none"
        BY <4>5 DEF Answer, AuxAnswer, Rest, PacketQueue
      <4> QED BY <4>2, <4>3, <4>4, <4>5
    <3> QED BY <1>1, <1>4, <2>1, <3>1, <3>3
  <2>6. AuxLine'
    BY <1>2, <1>7, <2>5 DEF AuxLine
  <2> QED BY <1>1, <1>5, <2>3, <2>4, <2>6
<1>8. CASE ~cmd.aux
  <2>1. kbdq' = kbdq \o Answer(a) /\ auxq' = auxq /\ cut' = cut
    BY <1>8 DEF ps2_sendbyte
  <2>2. Types'
    BY <1>1, <1>2, <1>3, <2>1 DEF Types
  <2>3. AuxLine'
    BY <1>1, <1>2, <1>4, <1>8, <2>1 DEF AuxLine, AboutToCut, InStep
  <2>4. KbdAnswer(KbdByte', kbdq', Wants')
    <3>1. Wants' <=> cmd.send - 1 = 0 /\ cmd.receive = 1
      BY <1>2 DEF Wants
    <3>2. "key" \in Bytes /\ "ack" \in Bytes /\ "nak" \in Bytes /\ "param" \in Bytes
      BY DEF Bytes
    <3>3. /\ << >> \o << >> = << >> /\ << >> \o <<"ack">> = <<"ack">> /\ << >> \o <<"nak">> = <<"nak">>
          /\ << >> \o <<"ack", "param">> = <<"ack", "param">>
          /\ <<"key">> \o << >> = <<"key">> /\ <<"key">> \o <<"ack">> = <<"key", "ack">>
          /\ <<"key">> \o <<"nak">> = <<"key", "nak">>
          /\ <<"key">> \o <<"ack", "param">> = <<"key", "ack", "param">>
      <4>1. \A a1, b1 \in Bytes :
              /\ << >> \o << >> = << >> /\ << >> \o <<a1>> = <<a1>> /\ << >> \o <<a1, b1>> = <<a1, b1>>
              /\ <<"key">> \o << >> = <<"key">> /\ <<"key">> \o <<a1>> = <<"key", a1>>
              /\ <<"key">> \o <<a1, b1>> = <<"key", a1, b1>>
        BY ONLY <3>2, Behind
      <4> QED BY ONLY <3>2, <4>1
    <3>4. Wants' <=> cmd.send = 1 /\ cmd.receive > 0
      <4>1. cmd.receive \in 0..1
        BY <1>1 DEF Types
      <4> QED BY ONLY <1>2, <3>1, <4>1
    <3>5. KbdByte \in {"none", "key"} /\ (kbdq = << >> \/ kbdq = <<"key">>)
      BY <1>6 DEF OnlyKeys, KeyBytes
    <3>6. CASE a = "ack" /\ Wants'
      <4>1. Answer(a) = <<"ack", "param">>
        BY <3>4, <3>6 DEF Answer
      <4> QED BY <1>4, <2>1, <3>3, <3>5, <3>6, <4>1 DEF KbdAnswer
    <3>7. CASE a = "ack" /\ ~Wants'
      <4>1. Answer(a) = <<"ack">>
        BY <3>4, <3>7 DEF Answer
      <4> QED BY <1>4, <2>1, <3>3, <3>5, <3>7, <4>1 DEF KbdAnswer
    <3>8. CASE a = "nak"
      <4>1. Answer(a) = <<"nak">>
        BY <3>8 DEF Answer
      <4> QED BY <1>4, <2>1, <3>3, <3>5, <4>1 DEF KbdAnswer
    <3>9. CASE a = "none"
      <4>1. Answer(a) = << >>
        BY <3>9 DEF Answer
      <4> QED BY <1>4, <2>1, <3>3, <3>5, <4>1 DEF KbdAnswer, OnlyKeys, KeyBytes
    <3> QED BY <3>6, <3>7, <3>8, <3>9
  <2>5. KbdLine'
    BY <1>2, <1>8, <2>4 DEF KbdLine
  <2> QED BY <1>1, <1>5, <2>1, <2>2, <2>3, <2>5
<1> QED BY <1>7, <1>8

(* The end of a command, when its device has nothing left to answer.       *)
LEMMA FinishStep ==
  ASSUME Ps2Inv, NEW ok \in BOOLEAN, Finish(ok, << >>), Polled, obf' = << >>,
         UNCHANGED <<ps2ctr, deviceVars, typed, cut, torn>>,
         ~cmd.aux => KeyBytes(kbdq),
         cmd.aux /\ ~cut => packet = << >> /\ PacketQueue(auxq)
  PROVE  Ps2Inv'
<1> USE DEF Ps2Inv
<1>1. /\ cmd' = NoCommand /\ ctr' = cmd.old /\ irqs' = irqs \cup Raised(<< >>, cmd.old)
      /\ init' \in AfterInit(ok) /\ far_call' = (far_call /\ cmd.name # "remove")
      /\ UNCHANGED <<packet, package_count>>
  BY DEF Finish
<1>2. irqs' = {}
  BY <1>1 DEF IrqLine, Raised
<1>3. /\ kbdq' = kbdq /\ auxq' = auxq /\ cmd'.pc = "none" /\ cmd'.aux = FALSE
      /\ KbdByte' = "none" /\ AuxByte' = "none"
  BY <1>1 DEF deviceVars, NoCommand, KbdByte, AuxByte
<1>4. Types'
  <2>1. NoCommand \in [name : Names, aux : BOOLEAN, pc : {"none", "flush", "send", "ack", "receive"},
                       send : 0..2, receive : Int, old : Controls]
    BY DEF NoCommand, Names, Controls
  <2>2. far_call' \in BOOLEAN
    BY <1>1
  <2>3. init' \in {"reset", "disable", "scanset", "enable", "done", "failed"}
    BY <1>1 DEF AfterInit
  <2> QED BY <1>1, <1>3, <2>1, <2>2, <2>3 DEF Types, NoCommand
<1>5. ControlLine'
  <2>1. init \in {"done", "failed"} => init' \in {"done", "failed"}
    BY <1>1 DEF AfterInit
  <2> QED BY <1>1, <1>3, <2>1 DEF ControlLine, Polled
<1>6. IrqLine'
  BY <1>2, <1>3 DEF IrqLine, Polled
<1>7. KbdLine'
  <2>1. KeyBytes(kbdq)
    BY DEF KbdLine, OnlyKeys, Types
  <2> QED BY <1>3, <2>1 DEF KbdLine, OnlyKeys
<1>8. AuxLine'
  <2>1. CASE cmd.aux
    BY <1>1, <1>3, <2>1 DEF AuxLine, InStep, Aligned, Rest
  <2>2. CASE ~cmd.aux
    <3>1. AuxByte = "none"
      BY <2>2, Buffer DEF IrqLine
    <3>2. far_call' = far_call
      BY <1>1, <2>2 DEF Types
    <3> QED BY <1>1, <1>3, <2>2, <3>1, <3>2 DEF AuxLine, AboutToCut, InStep
  <2> QED BY <2>1, <2>2
<1> QED BY <1>4, <1>5, <1>6, <1>7, <1>8

(* The device does not answer.                                             *)
LEMMA TimeoutStep == ASSUME Ps2Inv, timeout PROVE Ps2Inv'
<1>1. /\ cmd.pc \in {"ack", "receive"} /\ obf = << >> /\ (IF cmd.aux THEN auxq ELSE kbdq) = << >>
      /\ Finish(FALSE, << >>) /\ UNCHANGED <<ps2ctr, obf, deviceVars, typed, cut, torn>>
  BY DEF timeout
<1>2. cmd.aux /\ ~cut => packet = << >>
  BY <1>1 DEF Ps2Inv, AuxLine
<1>3. Polled
  BY <1>1 DEF Polled
<1> QED BY <1>1, <1>2, <1>3, FinishStep DEF KeyBytes, PacketQueue

(* A byte of the answer, or one that came before it.                       *)
LEMMA ReceiveStep == ASSUME Ps2Inv, ps2_recvbyte PROVE Ps2Inv'
<1> USE DEF Ps2Inv
<1> DEFINE b == obf[1].byte
           part == cmd.pc = "receive" \/ b \in {"ack", "nak"}
           left == IF cmd.pc = "receive" THEN cmd.receive - 1 ELSE cmd.receive
<1>1. /\ cmd.pc \in {"ack", "receive"} /\ obf # << >> /\ obf' = << >>
      /\ UNCHANGED <<ps2ctr, deviceVars, typed, cut, torn>>
      /\ obf[1].aux = cmd.aux
  BY DEF ps2_recvbyte, IrqLine, Polled
<1>2. (CASE ~part -> UNCHANGED <<cmd, ctr, irqs, init, mouseVars>>
         [] part /\ cmd.pc = "ack" /\ b = "nak" -> Finish(FALSE, << >>)
         [] part /\ b # "nak" /\ cmd.send = 0 /\ left = 0 -> Finish(TRUE, << >>)
         [] OTHER -> /\ cmd' = [cmd EXCEPT !.receive = left,
                                           !.pc = IF cmd.send > 0 THEN "send" ELSE "receive"]
                     /\ UNCHANGED <<ctr, irqs, init, mouseVars>>)
  BY <1>1 DEF ps2_recvbyte
<1>3. /\ b \in Bytes /\ kbdq' = kbdq /\ auxq' = auxq /\ KbdByte' = "none" /\ AuxByte' = "none"
      /\ KbdByte = IF cmd.aux THEN "none" ELSE b
      /\ AuxByte = IF cmd.aux THEN b ELSE "none"
  <2>1. KbdByte' = "none" /\ AuxByte' = "none"
    BY <1>1 DEF KbdByte, AuxByte
  <2> QED BY <1>1, <2>1, Buffer DEF deviceVars, Types
<1>4. Polled /\ (cmd.pc = "receive" => part)
  BY <1>1 DEF Polled
<1>5. /\ ~cmd.aux /\ cmd.pc = "ack" => KbdAnswer(b, kbdq, Wants)
      /\ ~cmd.aux /\ cmd.pc = "receive" => Wants /\ KbdParam(b, kbdq)
      /\ cmd.aux => OnlyKeys("none", kbdq)
  BY <1>3 DEF KbdLine
<1>6. ~cut =>
        /\ cmd.pc = "ack" /\ cmd.aux => packet = << >> /\ AuxAnswer(b, auxq, Wants)
        /\ cmd.pc = "receive" /\ cmd.aux => Wants /\ packet = << >> /\ AuxParam(b, auxq)
        /\ ~cmd.aux => InStep
  BY <1>3 DEF AuxLine, AboutToCut
<1>7. cmd \in [name : Names, aux : BOOLEAN, pc : {"none", "flush", "send", "ack", "receive"},
               send : 0..2, receive : Int, old : Controls]
  BY DEF Types
<1>8. b # "none"
  BY <1>3 DEF Bytes
<1> HIDE DEF b
<1>9. CASE ~part
  <2>1. UNCHANGED <<cmd, ctr, irqs, init, mouseVars>> /\ cmd.pc = "ack"
    BY <1>1, <1>2, <1>4, <1>9
  <2>2. Types' /\ ControlLine' /\ IrqLine'
    BY <1>1, <1>3, <2>1 DEF Types, ControlLine, IrqLine, Polled, mouseVars
  <2>3. KbdLine'
    <3>1. CASE cmd.aux
      BY <1>3, <1>5, <2>1, <3>1 DEF KbdLine
    <3>2. CASE ~cmd.aux
      <4>1. KbdAnswer("none", kbdq, Wants)
        BY <1>5, <1>9, <2>1, <3>2 DEF KbdAnswer, OnlyKeys
      <4> QED BY <1>3, <2>1, <3>2, <4>1 DEF KbdLine, Wants
    <3> QED BY <3>1, <3>2
  <2>4. AuxLine'
    <3>1. CASE cmd.aux /\ ~cut
      <4>1. AuxAnswer("none", auxq, Wants)
        BY <1>6, <1>8, <1>9, <2>1, <3>1 DEF AuxAnswer, Rest
      <4> QED BY <1>1, <1>3, <1>6, <2>1, <3>1, <4>1 DEF AuxLine, Wants, mouseVars
    <3>2. CASE ~cmd.aux /\ ~cut
      BY <1>1, <1>3, <1>6, <2>1, <3>2 DEF AuxLine, InStep, mouseVars
    <3> QED BY <1>1, <3>1, <3>2 DEF AuxLine
  <2> QED BY <1>1, <2>2, <2>3, <2>4
<1>10. CASE part /\ cmd.pc = "ack" /\ b = "nak"
  <2>1. Finish(FALSE, << >>)
    BY <1>2, <1>10
  <2>2. ~cmd.aux => KeyBytes(kbdq)
    BY <1>5, <1>10 DEF KbdAnswer, OnlyKeys
  <2>3. cmd.aux /\ ~cut => packet = << >> /\ PacketQueue(auxq)
    BY <1>6, <1>10 DEF AuxAnswer, Rest
  <2> QED BY <1>1, <1>4, <2>1, <2>2, <2>3, FinishStep
<1>11. CASE part /\ b # "nak" /\ cmd.send = 0 /\ left = 0
  <2>1. Finish(TRUE, << >>)
    BY <1>2, <1>11
  <2>2. cmd.pc = "ack" => ~Wants /\ b = "ack"
    BY <1>11 DEF Wants
  <2>3. ~cmd.aux => KeyBytes(kbdq)
    BY <1>1, <1>5, <1>8, <2>2 DEF KbdAnswer, OnlyKeys, KbdParam
  <2>4. cmd.aux /\ ~cut => packet = << >> /\ PacketQueue(auxq)
    BY <1>1, <1>6, <1>8, <2>2 DEF AuxAnswer, Rest, AuxParam
  <2> QED BY <1>1, <1>4, <2>1, <2>3, <2>4, FinishStep
<1>12. CASE /\ part /\ ~(cmd.pc = "ack" /\ b = "nak")
            /\ ~(b # "nak" /\ cmd.send = 0 /\ left = 0)
  <2>1. /\ cmd' = [cmd EXCEPT !.receive = left, !.pc = IF cmd.send > 0 THEN "send" ELSE "receive"]
        /\ UNCHANGED <<ctr, irqs, init, mouseVars>>
    BY <1>2, <1>12
  <2>2. left \in Int
    BY <1>7
  <2>3. /\ cmd'.pc = IF cmd.send > 0 THEN "send" ELSE "receive"
        /\ cmd'.aux = cmd.aux /\ cmd'.old = cmd.old /\ cmd'.name = cmd.name
        /\ cmd'.send = cmd.send /\ cmd'.receive = left
        /\ cmd' \in [name : Names, aux : BOOLEAN, pc : {"none", "flush", "send", "ack", "receive"},
                     send : 0..2, receive : Int, old : Controls]
    BY <1>7, <2>1, <2>2
  <2>4. Types'
    BY <1>1, <1>3, <2>1, <2>3 DEF Types, mouseVars
  <2>5. ControlLine' /\ IrqLine'
    BY <1>1, <1>3, <1>4, <2>1, <2>3 DEF ControlLine, IrqLine, Polled
  <2>6. KbdLine'
    <3>1. CASE cmd.aux
      BY <1>3, <1>5, <2>3, <3>1 DEF KbdLine
    <3>2. CASE ~cmd.aux
      <4>1. cmd.pc = "ack" /\ b = "ack"
        BY <1>1, <1>5, <1>8, <1>12, <3>2 DEF Wants, KbdParam
      <4>2. CASE cmd.send > 0
        <5>1. KeyBytes(kbdq)
          BY <1>5, <3>2, <4>1, <4>2 DEF KbdAnswer, OnlyKeys, Wants
        <5> QED BY <1>3, <2>3, <4>2, <5>1 DEF KbdLine, OnlyKeys
      <4>3. CASE ~(cmd.send > 0)
        <5>1. cmd.send = 0 /\ left = 1 /\ cmd.receive = 1
          BY <1>7, <1>12, <4>1, <4>3 DEF Types
        <5>2. (Wants /\ kbdq = <<"param">>) \/ (~Wants /\ KeyBytes(kbdq))
          BY <1>5, <3>2, <4>1 DEF KbdAnswer, OnlyKeys
        <5> QED BY <1>3, <2>3, <3>2, <4>3, <5>1, <5>2 DEF KbdLine, KbdParam, Wants
      <4> QED BY <4>2, <4>3
    <3> QED BY <3>1, <3>2
  <2>7. AuxLine'
    <3>1. CASE cmd.aux /\ ~cut
      <4>1. cmd.pc = "ack" /\ b = "ack"
        BY <1>1, <1>6, <1>8, <1>12, <3>1 DEF Wants, AuxParam
      <4>2. CASE cmd.send > 0
        BY <2>3, <3>1, <4>2 DEF AuxLine, AboutToCut
      <4>3. CASE ~(cmd.send > 0)
        <5>1. cmd.send = 0 /\ left = 1 /\ cmd.receive = 1
          BY <1>7, <1>12, <4>1, <4>3 DEF Types
        <5>2. (Wants /\ auxq = <<"param">>) \/ (~Wants /\ PacketQueue(auxq))
          BY <1>6, <3>1, <4>1 DEF AuxAnswer, Rest
        <5> QED BY <1>3, <1>6, <2>1, <2>3, <3>1, <4>1, <4>3, <5>1, <5>2 DEF AuxLine, AuxParam, Wants, mouseVars
      <4> QED BY <4>2, <4>3
    <3>2. CASE ~cmd.aux /\ ~cut
      BY <1>1, <1>3, <1>6, <2>1, <2>3, <3>2 DEF AuxLine, AboutToCut, InStep, mouseVars
    <3> QED BY <1>1, <3>1, <3>2 DEF AuxLine
  <2> QED BY <1>1, <2>4, <2>5, <2>6, <2>7
<1> QED BY <1>9, <1>10, <1>11, <1>12

-----------------------------------------------------------------------------
(* Every step of the irqs, the devices and the commands.                   *)
LEMMA StepInv == ASSUME Ps2Inv, [Ps2Next]_ps2Vars PROVE Ps2Inv'
<1>1. CASE UNCHANGED ps2Vars
  BY <1>1 DEF ps2Vars, i8042Vars, deviceVars, mouseVars, Ps2Inv, Types, ControlLine, IrqLine, KbdLine,
              AuxLine, KbdByte, AuxByte, Polled, Wants, InStep, AboutToCut
<1>2. CASE deliver_key \/ deliver_aux \/ press_key \/ move_mouse \/ handle_09_port \/ handle_74
  BY <1>2, KeyArrives, AuxArrives, DeviceStep, KeyIrq, MouseIrq
<1>3. CASE enable_port \/ (\E a \in {"ack", "nak", "none"} : ps2_sendbyte(a)) \/ ps2_recvbyte \/ timeout
  BY <1>3, Enabled, SendStep, ReceiveStep, TimeoutStep
<1>4. CASE keyboard_init \/ \E name \in {"setleds", "getid"} : ps2_kbd_command(name)
  BY <1>4, KeyboardStarts
<1>5. ASSUME NEW name \in {"enable", "disable"}, mouse_15c200(name) PROVE Ps2Inv'
  BY <1>5, MouseStarts DEF mouse_15c200, Names
<1>6. ASSUME NEW name \in {"reset", "setrate", "getid"}, mouse_15c201(name) PROVE Ps2Inv'
  BY <1>6, MouseStarts DEF mouse_15c201, Names
<1>7. CASE mouse_15c205
  BY <1>7, MouseStarts DEF mouse_15c205, Names
<1>8. CASE \E install \in BOOLEAN : mouse_15c207(install)
  BY <1>8, HandlerStep
<1> QED BY <1>1, <1>2, <1>3, <1>4, <1>5, <1>6, <1>7, <1>8 DEF Ps2Next

(* handle_09() only gets keys and handle_74() whole packets, and no byte of*)
(* the other device is thrown away: whatever __ps2_command() is polling the*)
(* port for when they are called (ps2port.c, mouse.c).                     *)
THEOREM PortIsShared == Ps2Spec => []PortShared
<1>1. Ps2Spec => []Ps2Inv
  BY InitInv, StepInv, PTL DEF Ps2Spec
<1> QED BY <1>1, InvImplies, PTL
=============================================================================
