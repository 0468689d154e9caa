------------------------------ MODULE UsbPipes ------------------------------
(***************************************************************************)
(* The pipes of a usb controller: the lists of queue heads that            *)
(* usb-uhci.c, usb-ehci.c and usb-ohci.c share with the hardware, the      *)
(* descriptors a bulk transfer keeps on its stack, and the ring of an      *)
(* interrupt pipe.  A controller walks its lists by itself.  The threads   *)
(* change them between two yields; memory is a few blocks, and a block     *)
(* that was freed is handed out again.                                     *)
(***************************************************************************)
EXTENDS Integers, FiniteSets, Sequences

CONSTANTS Qh,         (* blocks of memory for pipes *)
          Thread,     (* threads that use control pipes *)
          MaxExp,     (* largest frameexp; the frame list has 2^MaxExp entries *)
          StackTds,   (* STACKTDS, STACKQTDS *)
          MaxPackets, (* packets of the largest bulk transfer *)
          RingTds,    (* descriptors of an interrupt pipe; uhci has an even number *)
          MaxReports  (* reports of a device, in all *)

ASSUME PipesNodes ==
  IsFiniteSet(Qh) /\ Qh \cap {"intr", "term", "async", "control", "end", "none"} = {}
ASSUME PipesBounds ==
  /\ MaxExp \in Nat /\ MaxPackets \in Nat /\ MaxReports \in Nat
  /\ StackTds \in Nat \ {0} /\ RingTds \in Nat \ {0, 1}

VARIABLES kind,      (* of the controller *)
          job,       (* what is looked at: the lists, a bulk transfer or an interrupt pipe *)
          qh,        (* the blocks: use, frameexp, element, its tds *)
          next,      (* the links of the queue heads *)
          frames,    (* the frame list *)
          last,      (* uhci: control_qh and bulk_qh *)
          hw,        (* the controller, and its registers *)
          th,        (* the threads *)
          bulk,      (* a bulk transfer *)
          ring       (* an interrupt pipe *)

listVars == <<qh, next, frames, last, hw, th>>
pipesVars == <<kind, job, qh, next, frames, last, hw, th, bulk, ring>>

FrameCount == 2 ^ MaxExp
(* intr_qh or intr_ed, term_qh, async_qh, and the register ed_controlhead. *)
Node == Qh \cup {"intr", "term", "async", "control"}
Free == {q \in Qh : qh[q].use = "free"}
Malloc == CHOOSE q \in Free : TRUE
(* Where control pipes are linked: uhci after control_qh.                  *)
ControlAt == CASE kind = "uhci" -> last.control [] kind = "ehci" -> "async" [] kind = "ohci" -> "control"
ListHead == CASE kind = "uhci" -> "intr" [] kind = "ehci" -> "async" [] kind = "ohci" -> "control"
Linked(n, q) == [next EXCEPT ![q] = next[n], ![n] = q]
(* The nodes the controller comes by from n on.                            *)
Path(n) ==
  LET f[k \in 0..Cardinality(Node)] ==
        IF k = 0 THEN <<n>>
        ELSE LET p == f[k - 1]
                 m == next[p[Len(p)]]
             IN  IF m = "end" \/ \E i \in 1..Len(p) : p[i] = m THEN p ELSE Append(p, m)
  IN  f[Cardinality(Node)]
OnPath(n) == LET path == Path(n) IN {path[i] : i \in 1..Len(path)}
Idle == [pc |-> "idle", q |-> "none", moved |-> FALSE, saved |-> FALSE, what |-> "tds"]
NewPipe(use, exp) ==
  [use |-> use, exp |-> exp, el |-> "term", skip |-> TRUE, tds |-> FALSE, late |-> FALSE]

(* uhci_, ehci_ and ohci_alloc_control_pipe.                               *)
alloc_control_pipe(t) ==
  LET q == Malloc  IN
  /\ th[t].pc = "idle" /\ Free # {}
  /\ qh' = [qh EXCEPT ![q] = NewPipe("control", 0)]
  /\ next' = Linked(ControlAt, q)
  /\ last' = IF kind = "uhci" /\ last.bulk = last.control THEN [last EXCEPT !.bulk = q] ELSE last
  /\ th' = [th EXCEPT ![t] = [@ EXCEPT !.pc = "open", !.q = q]]
  /\ UNCHANGED <<frames, hw>>

(* uhci_ and ehci_alloc_bulk_pipe, which ohci has not.                     *)
BulkAt == IF kind = "uhci" THEN last.bulk ELSE ControlAt
alloc_bulk_pipe(t) ==
  LET q == Malloc  IN
  /\ th[t].pc = "open" /\ Free # {} /\ kind # "ohci"
  /\ qh' = [qh EXCEPT ![q] = NewPipe("bulk", 0)]
  /\ next' = Linked(BulkAt, q)
  /\ UNCHANGED <<frames, last, hw, th>>

(* uhci_, ehci_ and ohci_alloc_intr_pipe: every 2^exp frames from 2^(exp-1)*)
(* on, or with exp 0 after the entry that every frame reaches.  A wrong    *)
(* one takes every frame from there.                                       *)
StartPos(e) == 2 ^ (e - 1)
InFrames(q, e) ==
  [k \in DOMAIN frames |->
     IF k >= StartPos(e) /\ (k - StartPos(e)) % (2 ^ e) = 0 THEN q ELSE frames[k]]
alloc_intr_pipe(t, e) ==
  LET q == Malloc  IN
  /\ th[t].pc = "open" /\ Free # {}
  /\ qh' = [qh EXCEPT ![q] = NewPipe("intr", e)]
  /\ IF e = 0
     THEN /\ next' = Linked("intr", q)
          /\ last' = [control |-> IF last.control = "intr" THEN q ELSE last.control,
                      bulk |-> IF last.bulk = "intr" THEN q ELSE last.bulk]
          /\ UNCHANGED frames
     ELSE /\ next' = [next EXCEPT ![q] = frames[StartPos(e)]]
          /\ frames' = InFrames(q, e)
          /\ UNCHANGED last
  /\ UNCHANGED <<hw, th>>

(* uhci_control, ehci_control and ohci_control up to the wait.             *)
control(t) ==
  /\ th[t].pc = "open"
  /\ qh' = [qh EXCEPT ![th[t].q] = [@ EXCEPT !.el = "td", !.skip = FALSE, !.tds = TRUE, !.late = FALSE]]
  /\ th' = [th EXCEPT ![t].pc = "wait"]
  /\ UNCHANGED <<next, frames, last, hw>>

(* The start of uhci_waittick, ehci_waittick or ohci_waittick; what: the   *)
(* memory that is freed afterwards.                                        *)
Wait(t, what) ==
  [th EXCEPT ![t] = [@ EXCEPT !.pc = IF kind = "ehci" THEN "bell" ELSE "tick",
                              !.moved = FALSE, !.saved = FALSE, !.what = what]]

(* wait_qh, ehci_wait_qh or wait_ed sees the end, and the tds are freed.   *)
control_done(t) ==
  LET q == th[t].q  IN
  /\ th[t].pc = "wait" /\ qh[q].el = "term"
  /\ qh' = [qh EXCEPT ![q] = [@ EXCEPT !.skip = kind # "uhci", !.tds = FALSE]]
  /\ th' = [th EXCEPT ![t].pc = "open"]
  /\ UNCHANGED <<next, frames, last, hw>>
(* Or it does not for half a second: the queue is emptied, and the tds are *)
(* freed in the next frame.                                                *)
control_timeout(t) ==
  LET q == th[t].q  IN
  /\ th[t].pc = "wait"
  /\ qh' = [qh EXCEPT ![q] = [@ EXCEPT !.skip = kind # "uhci", !.late = TRUE,
                                       !.el = IF kind = "ohci" THEN qh[q].el ELSE "term"]]
  /\ th' = Wait(t, "tds")
  /\ UNCHANGED <<next, frames, last, hw>>

(* uhci_, ehci_ and ohci_free_pipe: out of the list, and freed after a     *)
(* wait; ohci stops its lists meanwhile (signal_freelist), unless another  *)
(* thread has.  A wrong one: bulk_qh stays.                                *)
Pred(q) == CHOOSE n \in OnPath(ListHead) : next[n] = q
MovedBack_not(q) == last
MovedBack(q) ==
  [control |-> IF last.control = q THEN Pred(q) ELSE last.control,
   bulk |-> IF last.bulk = q THEN Pred(q) ELSE last.bulk]
Unlinked(q) == [next EXCEPT ![Pred(q)] = next[q]]
Stops == kind = "ohci" /\ hw.cle
free_pipe(t) ==
  LET q == th[t].q  IN
  /\ th[t].pc = "open"
  /\ next' = Unlinked(q)
  /\ last' = IF kind = "uhci" THEN MovedBack(q) ELSE last
  /\ hw' = IF Stops THEN [hw EXCEPT !.cle = FALSE] ELSE hw
  /\ th' = [Wait(t, "pipe") EXCEPT ![t].saved = Stops]
  /\ UNCHANGED <<qh, frames>>

(* After the wait the memory is freed.                                     *)
Freed(t) ==
  IF th[t].what = "tds"
  THEN /\ qh' = [qh EXCEPT ![th[t].q].tds = FALSE]
       /\ th' = [th EXCEPT ![t] = [Idle EXCEPT !.pc = "open", !.q = th[t].q]]
  ELSE /\ qh' = [qh EXCEPT ![th[t].q] = NewPipe("free", 0)]
       /\ th' = [th EXCEPT ![t] = Idle]
(* uhci_waittick and ohci_waittick see another frame number; whoever       *)
(* stopped the ohci lists clears the current entry and restarts them.      *)
Restart == [hw EXCEPT !.cle = TRUE, !.pos = "end"]
waittick(t) ==
  /\ th[t].pc = "tick" /\ th[t].moved
  /\ Freed(t)
  /\ hw' = IF th[t].saved THEN Restart ELSE hw
  /\ UNCHANGED <<next, frames, last>>

(* ehci_waittick: two registers are read, one after the other, until the   *)
(* doorbell is free; it is rung, and the answer acknowledged.              *)
BellFree == ~hw.iaa
ehci_waittick(t) ==
  /\ kind = "ehci"
  /\ \/ /\ th[t].pc = "bell" /\ BellFree
        /\ th' = [th EXCEPT ![t].pc = "bellcmd"]
        /\ UNCHANGED <<hw, qh>>
     \/ /\ th[t].pc = "bellcmd" /\ hw.iaad
        /\ th' = [th EXCEPT ![t].pc = "bell"]
        /\ UNCHANGED <<hw, qh>>
     \/ /\ th[t].pc = "bellcmd" /\ ~hw.iaad
        /\ hw' = [hw EXCEPT !.iaad = TRUE]
        /\ th' = [th EXCEPT ![t].pc = "rung"]
        /\ UNCHANGED qh
     \/ /\ th[t].pc = "rung" /\ hw.iaa
        /\ hw' = [hw EXCEPT !.iaa = FALSE]
        /\ Freed(t)
  /\ UNCHANGED <<next, frames, last>>

(***************************************************************************)
(* The controller.  It is at one queue head of its list, and holds a       *)
(* descriptor of that while it carries it out.  uhci and ohci end what     *)
(* they are at within the frame.                                           *)
(***************************************************************************)
Active == hw.pos # "end" /\ (kind = "ohci" => hw.on)
HwAt == IF Active THEN {hw.pos} ELSE {}

hw_move ==
  /\ ~hw.hold
  /\ \/ /\ kind # "ehci" /\ Active
        /\ hw' = [hw EXCEPT !.pos = next[hw.pos]]
     \/ /\ kind = "ohci" /\ hw.on /\ hw.pos = "end"
        /\ hw' = [hw EXCEPT !.pos = next["control"]]
     \/ /\ kind = "ehci"   (* the doorbell is answered at the head of the list *)
        /\ LET to == next[hw.pos]
               rings == hw.iaad /\ to = "async"
           IN  hw' = [hw EXCEPT !.pos = to, !.iaa = @ \/ rings, !.iaad = @ /\ ~rings]
  /\ UNCHANGED <<qh, next, frames, last, th>>
hw_frame ==
  /\ ~hw.hold /\ kind # "ehci"
  /\ \/ kind = "uhci" /\ \E k \in DOMAIN frames : hw' = [hw EXCEPT !.pos = frames[k]]
     \/ kind = "ohci" /\ hw' = [hw EXCEPT !.on = hw.cle]
  /\ th' = [t \in Thread |-> [th[t] EXCEPT !.moved = th[t].pc = "tick"]]
  /\ UNCHANGED <<qh, next, frames, last>>
(* A descriptor is fetched: with the last one ehci has the end in qtd_next.*)
hw_fetch ==
  /\ Active /\ ~hw.hold /\ hw.pos \in Qh
  /\ qh[hw.pos].el = "td" /\ ~qh[hw.pos].skip
  /\ hw' = [hw EXCEPT !.hold = TRUE]
  /\ \E e \in (IF kind = "ehci" THEN {"td", "term"} ELSE {"td"}) :
       qh' = [qh EXCEPT ![hw.pos].el = e]
  /\ UNCHANGED <<next, frames, last, th>>
(* It is over: uhci writes the link of the next one over the element, and  *)
(* ohci over its own pointer.                                              *)
hw_retire ==
  /\ hw.hold
  /\ hw' = [hw EXCEPT !.hold = FALSE]
  /\ \E e \in (IF kind = "ehci" THEN {qh[hw.pos].el} ELSE {"td", "term"}) :
       qh' = [qh EXCEPT ![hw.pos].el = e]
  /\ UNCHANGED <<next, frames, last, th>>

ListNext ==
  \/ \E t \in Thread :
       \/ alloc_control_pipe(t) \/ alloc_bulk_pipe(t)
       \/ \E e \in 0..MaxExp : alloc_intr_pipe(t, e)
       \/ control(t) \/ control_done(t) \/ control_timeout(t)
       \/ free_pipe(t) \/ waittick(t) \/ ehci_waittick(t)
  \/ hw_move \/ hw_frame \/ hw_fetch \/ hw_retire
ListInit ==
  /\ qh = [q \in Qh |-> NewPipe("free", 0)]
  /\ next = [n \in Node |-> CASE n = "intr" /\ kind = "uhci" -> "term"
                              [] n = "async" -> "async" [] OTHER -> "end"]
  /\ frames = [k \in 0..(FrameCount - 1) |-> "intr"]
  /\ last = [control |-> "intr", bulk |-> "intr"]
  /\ hw = [pos |-> IF kind = "ehci" THEN "async" ELSE "end", hold |-> FALSE, on |-> TRUE,
           cle |-> TRUE, iaad |-> FALSE, iaa |-> FALSE]
  /\ th = [t \in Thread |-> Idle]

(***************************************************************************)
(* uhci_send_bulk and ehci_send_bulk: a few descriptors on the stack, used *)
(* again and again; the queue head is set to the first before it is ready. *)
(***************************************************************************)
Td == [active |-> FALSE, end |-> FALSE, packet |-> 0, error |-> FALSE]
Slot(i) == (i % StackTds) + 1
send_bulk(n) ==
  /\ bulk.phase = "idle"
  /\ bulk' = [phase |-> "fill", n |-> n, pos |-> 0, drained |-> 0, at |-> 1, done |-> 0, order |-> TRUE,
              td |-> [i \in 1..StackTds |-> Td]]
(* wait_td or ehci_wait_td, and the next packet: the link before the flag. *)
send_bulk_fill ==
  LET i == Slot(bulk.pos)  IN
  /\ bulk.phase = "fill" /\ bulk.pos < bulk.n
  /\ ~bulk.td[i].active /\ ~bulk.td[i].error
  /\ bulk' = [bulk EXCEPT !.pos = @ + 1,
                !.td[i] = [active |-> TRUE, end |-> bulk.pos + 1 = bulk.n, packet |-> bulk.pos + 1,
                           error |-> FALSE]]
(* Then all the descriptors must be through.  A wrong one: all but one.    *)
DrainCount_less == StackTds - 1
DrainCount == StackTds
send_bulk_drain ==
  /\ bulk.phase = "fill" /\ bulk.pos = bulk.n
  /\ IF bulk.drained = DrainCount
     THEN bulk' = [bulk EXCEPT !.phase = "sent"]
     ELSE LET i == Slot(bulk.pos + bulk.drained)
          IN  ~bulk.td[i].active /\ ~bulk.td[i].error
              /\ bulk' = [bulk EXCEPT !.drained = @ + 1]
(* A descriptor failed, or is not through in five seconds: the queue head  *)
(* is emptied, and left by the controller in the next frame.               *)
send_bulk_fail ==
  /\ bulk.phase = "fill"
  /\ bulk' = [bulk EXCEPT !.phase = "failed", !.at = 0]
send_bulk_return == bulk.phase \in {"sent", "failed"} /\ bulk' = [bulk EXCEPT !.phase = "idle"]
hw_bulk ==
  /\ bulk.phase # "idle" /\ bulk.at # 0
  /\ LET td == bulk.td[bulk.at]  IN
     /\ td.active
     /\ \/ bulk' = [bulk EXCEPT !.td[bulk.at].active = FALSE, !.done = @ + 1,
                                !.order = @ /\ td.packet = bulk.done + 1,
                                !.at = IF td.end THEN 0 ELSE Slot(bulk.at)]
        \/ bulk' = [bulk EXCEPT !.td[bulk.at] = [@ EXCEPT !.active = FALSE, !.error = TRUE]]
BulkNext ==
  \/ \E n \in 1..MaxPackets : send_bulk(n)
  \/ send_bulk_fill \/ send_bulk_drain \/ send_bulk_fail \/ send_bulk_return \/ hw_bulk
BulkInit ==
  bulk = [phase |-> "idle", n |-> 0, pos |-> 0, drained |-> 0, at |-> 0, done |-> 0, order |-> TRUE,
          td |-> [i \in 1..StackTds |-> Td]]

(***************************************************************************)
(* The ring of an interrupt pipe.  uhci and ehci: the timer interrupt      *)
(* looks at next_td, and makes it active again.  ohci: between hwHeadP and *)
(* hwTailP the descriptors are the controller's, and the tail is the next  *)
(* to be handed over.  slot: the report that lies in each buffer.          *)
(***************************************************************************)
Mod(i) == i % RingTds
hw_report ==
  /\ ring.sent < MaxReports
  /\ IF kind = "ohci" THEN ring.hw # ring.sw ELSE ring.active[ring.hw]
  /\ ring' = [ring EXCEPT !.sent = @ + 1, !.slot[ring.hw] = ring.sent + 1, !.hw = Mod(@ + 1),
                          !.active[ring.hw] = FALSE]
(* ohci_poll_intr: pos, the entry after the tail.                          *)
TailNext == Mod(ring.sw + 1)
(* poll_intr: the report is copied.                                        *)
poll_intr ==
  LET pos == IF kind = "ohci" THEN TailNext ELSE ring.sw  IN
  /\ ~ring.polling
  /\ IF kind = "ohci" THEN ring.hw # pos ELSE ~ring.active[pos]
  /\ ring' = [ring EXCEPT !.polling = TRUE, !.got = ring.slot[pos], !.polls = @ + 1]
(* And the descriptor is the controller's again.                           *)
poll_intr_reenable ==
  /\ ring.polling
  /\ ring' = [ring EXCEPT !.polling = FALSE, !.sw = Mod(@ + 1), !.active[ring.sw] = TRUE]
RingNext == hw_report \/ poll_intr \/ poll_intr_reenable
RingInit ==
  ring = [hw |-> 0, sw |-> IF kind = "ohci" THEN RingTds - 1 ELSE 0, sent |-> 0, polls |-> 0, got |-> 0,
          polling |-> FALSE, active |-> [i \in 0..(RingTds - 1) |-> TRUE],
          slot |-> [i \in 0..(RingTds - 1) |-> 0]]

(***************************************************************************)
PipesInit ==
  /\ kind \in {"uhci", "ehci", "ohci"}
  /\ job \in {"lists", "ring"} \cup (IF kind = "ohci" THEN {} ELSE {"bulk"})
  /\ ListInit /\ BulkInit /\ RingInit
PipesNext ==
  /\ UNCHANGED <<kind, job>>
  /\ \/ job = "lists" /\ ListNext /\ UNCHANGED <<bulk, ring>>
     \/ job = "bulk" /\ BulkNext /\ UNCHANGED <<listVars, ring>>
     \/ job = "ring" /\ RingNext /\ UNCHANGED <<listVars, bulk>>

PipesSpec == PipesInit /\ [][PipesNext]_pipesVars

(***************************************************************************)
(* What the pipes promise                                                  *)
(***************************************************************************)
(* Type correctness of the pipes: links, frames and the places in rings.   *)
PipesTypeOK ==
  /\ next \in [Node -> Node \cup {"end"}]
  /\ frames \in [0..(FrameCount - 1) -> Node]
  /\ last.control \in Node /\ last.bulk \in Node
  /\ \A q \in Qh : qh[q].use \in {"free", "control", "bulk", "intr"} /\ qh[q].el \in {"td", "term"}
  /\ hw.pos \in Node \cup {"end"}
  /\ bulk.pos \in 0..MaxPackets /\ bulk.drained \in 0..StackTds /\ ring.sw \in 0..(RingTds - 1)

(* The controller is never at a queue head that was freed, and holds no    *)
(* descriptor that was: the pipe is unlinked and a frame, or a round of    *)
(* the list, awaited "for ensuring safe memory release" (usb-uhci.c:236,   *)
(* usb-ehci.c:323, usb-ohci.c:263).  Of the descriptors this is true for   *)
(* ohci, and for uhci until a transfer timed out.                          *)
NothingFreed ==
  /\ HwAt \cap Free = {}
  /\ (hw.hold /\ (kind = "ohci" \/ (kind = "uhci" /\ ~qh[hw.pos].late))) => qh[hw.pos].tds

(* Each pipe is where the controller finds it: an interrupt pipe in the    *)
(* frames of its period and in no other, the control and bulk pipes on the *)
(* way from every frame of uhci, the control pipes before those of bulk;   *)
(* and nothing that was freed is on the way (insertions at control_qh and  *)
(* bulk_qh, and free_pipe).                                                *)
Pipes(u) == {q \in Qh : qh[q].use = u}
Unlinking == {th[t].q : t \in {t \in Thread : th[t].pc \in {"tick", "bell", "bellcmd", "rung"}
                                                /\ th[t].what = "pipe"}}
Due(q, k) == IF qh[q].exp = 0 THEN TRUE ELSE k % (2 ^ qh[q].exp) = StartPos(qh[q].exp)
Before(p, q, path) ==
  \E i, j \in 1..Len(path) : i < j /\ path[i] = p /\ path[j] = q
Scheduled ==
  job = "lists" =>
    /\ \A k \in DOMAIN frames : OnPath(frames[k]) \cap Pipes("intr") = {q \in Pipes("intr") : Due(q, k)}
    /\ OnPath(ListHead) \cap (Pipes("control") \cup Pipes("bulk"))
         = (Pipes("control") \cup Pipes("bulk")) \ Unlinking
    /\ OnPath(ListHead) \cap (Free \cup Unlinking) = {}
    /\ kind = "uhci" =>
         /\ \A k \in DOMAIN frames : "intr" \in OnPath(frames[k])
         /\ \A p \in Pipes("control") \ Unlinking, q \in Pipes("bulk") : Before(p, q, Path("intr"))
         /\ \A p \in Pipes("intr"), q \in Pipes("control") \ Unlinking :
              qh[p].exp = 0 => Before(p, q, Path("intr"))

(* All three: the lists are right at any time, in the memory they are in.  *)
ListsSound == PipesTypeOK /\ NothingFreed /\ Scheduled

(* A bulk transfer that is reported sent was: every packet, in order, and  *)
(* the controller has left the descriptors on the stack (uhci_send_bulk    *)
(* and ehci_send_bulk).  Polling an interrupt pipe gives the reports of    *)
(* the device one by one, none twice and none left out (uhci_, ehci_ and   *)
(* ohci_poll_intr).                                                        *)
TransfersInOrder ==
  /\ bulk.order
  /\ bulk.phase = "sent" => bulk.done = bulk.n /\ bulk.at = 0
  /\ ring.got = ring.polls
=============================================================================
