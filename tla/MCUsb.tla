------------------------------- MODULE MCUsb -------------------------------
(***************************************************************************)
(* The usb stack of a run in its three layers, side by side: what is on    *)
(* the busses (UsbEnum), the lists a controller shares with the code       *)
(* (UsbPipes), and what the reports of a keyboard and a mouse become       *)
(* (UsbHid).  The layers share no variable: of a pipe UsbEnum keeps who    *)
(* may use it, and UsbHid takes the reports one by one, as                 *)
(* TransfersInOrder has them come.  So it is enough to follow one of them, *)
(* chosen at the start.                                                    *)
(***************************************************************************)
EXTENDS UsbEnum, UsbPipes, UsbHid

VARIABLE layer

usbVars == <<layer, enumVars, pipesVars, hidVars>>

(* A layer nobody looks at stands in one of its initial states. *)
Init ==
  /\ layer \in {"enum", "pipes", "hid"}
  /\ EnumInit /\ PipesInit /\ HidInit
  /\ layer # "enum" => bus = Busses.bare
  /\ layer # "pipes" => kind = "uhci" /\ job = "lists"

EnumStep == layer = "enum" /\ EnumNext /\ UNCHANGED <<layer, pipesVars, hidVars>>

Next ==
  \/ EnumStep
  \/ layer = "pipes" /\ PipesNext /\ UNCHANGED <<layer, enumVars, hidVars>>
  \/ layer = "hid" /\ HidNext /\ UNCHANGED <<layer, enumVars, pipesVars>>

(* Nothing but that one of the threads of enumeration runs, while one can, *)
(* is assumed.                                                             *)
FairSpec == Init /\ [][Next]_usbVars /\ WF_usbVars(EnumStep)

(* Enumeration comes to an end, in whatever order its threads run and      *)
(* whichever transfers fail (usb_enumerate and configure_* wait until all  *)
(* their ports are through).                                               *)
EnumEnds ==
  (layer = "enum") => <>[](setup.pci > Len(bus.list) /\ Through /\ \A h \in Hub : hub[h].left = 0)

-----------------------------------------------------------------------------
(* Small machines. *)
F(cntl, which, slot) == [cntl |-> cntl, kind |-> which, slot |-> slot, wide |-> cntl = "w"]
P(hub_, cntl, n, d) == [hub |-> hub_, cntl |-> cntl, n |-> n, dev |-> d]
D(class, speed) == [kind |-> class, speed |-> speed]
MCBusses ==
  [full |-> [list |-> <<F("u", "uhci", 1)>>,
             port |-> [u0 |-> P("u", "u", 0, "h"), u1 |-> P("u", "u", 1, "k"),
                       h0 |-> P("h", "u", 0, "j"), h1 |-> P("h", "u", 1, "m")],
             dev |-> [h |-> D("hub", "full"), k |-> D("kbd", "low"), j |-> D("kbd", "full"),
                      m |-> D("mouse", "low")]],
   slow |-> [list |-> <<F("o", "ohci", 1), F("w", "ehci", 1), F("u", "uhci", 2), F("v", "uhci", 2)>>,
             port |-> [w0 |-> P("w", "w", 0, "x"), w1 |-> P("w", "w", 1, "m"),
                       o0 |-> P("o", "o", 0, "x"), o1 |-> P("o", "o", 1, "m"),
                       u0 |-> P("u", "u", 0, "s"), u1 |-> P("u", "u", 1, "none")],
             dev |-> [x |-> D("other", "full"), m |-> D("mouse", "low"), s |-> D("msc", "full")]],
   fast |-> [list |-> <<F("u", "uhci", 1), F("o", "ohci", 1), F("e", "ehci", 1)>>,
             port |-> [e0 |-> P("e", "e", 0, "h"), e1 |-> P("e", "e", 1, "k"), e2 |-> P("e", "e", 2, "s"),
                       u0 |-> P("u", "u", 0, "h"), u1 |-> P("u", "u", 1, "k"), o0 |-> P("o", "o", 0, "s"),
                       h0 |-> P("h", "e", 0, "m")],
             dev |-> [h |-> D("hub", "high"), k |-> D("kbd", "low"), s |-> D("msc", "full"),
                      m |-> D("mouse", "low")]],
   bare |-> [list |-> <<F("u", "uhci", 1), F("e", "ehci", 1)>>,
             port |-> [e0 |-> P("e", "e", 0, "h"), e1 |-> P("e", "e", 1, "k"),
                       u0 |-> P("u", "u", 0, "h"), u1 |-> P("u", "u", 1, "k"),
                       h0 |-> P("h", "u", 0, "none")],
             dev |-> [h |-> D("hub", "full"), k |-> D("kbd", "full")]]]

(* The keys a, Europe 1 (which has no code), pause and insert, and one     *)
(* modifier, the right control key, by their usb ids.                      *)
MCCode ==
  [k \in {4, 50, 72, 73} |-> CASE k = 4 -> 30 [] k = 50 -> 0 [] k = 72 -> 57629 [] k = 73 -> 57426]
MCModCode == [m \in {4} |-> 57373]
=============================================================================
