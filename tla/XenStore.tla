------------------------------ MODULE XenStore ------------------------------
(***************************************************************************)
(* The xenstore client of xen-xs.c: xenbus_send() and the two rings it     *)
(* shares with the xenstore daemon of dom0.  The guest copies a chunk into *)
(* the request ring and then moves req_prod, kicks the daemon once the     *)
(* whole request is there, and pulls header and payload of the answer off  *)
(* the response ring; when a ring is full or empty it polls its event      *)
(* channel (ring_wait).  The daemon runs beside it at its own pace.        *)
(*                                                                         *)
(* A cell of a ring stands for the bytes that are always copied together:  *)
(* a whole header (struct xsd_sockmsg) is one cell, so a header is never   *)
(* split by the end of the ring here, only a payload is.                   *)
(***************************************************************************)
EXTENDS Naturals, Sequences, FiniteSetsExt

CONSTANTS RingSize,    (* XENSTORE_RING_SIZE, in cells *)
          IdxMod,      (* the ring indices are u32: they wrap at IdxMod *)
          QueryLens,   (* payload lengths of the requests *)
          ReplyLens,   (* payload lengths of the answers *)
          XENSTORE_PAYLOAD_MAX,  (* ring_write and ring_read panic at this length *)
          Errors       (* the XS_ERROR answers the daemon gives *)

ASSUME XenStoreAssumption ==
  /\ RingSize \in Nat \ {0} /\ IdxMod \in Nat /\ IdxMod > RingSize
  /\ IdxMod % RingSize = 0
  /\ XENSTORE_PAYLOAD_MAX \in Nat \ {0, 1}
  /\ QueryLens \cup ReplyLens \subseteq 1..(XENSTORE_PAYLOAD_MAX - 1)
  /\ Errors \subseteq {"EINVAL", "EACCES", "EIO", "EISCONN"}

VARIABLES
  req, rsp,                                   (* the shared page *)
  req_prod, req_cons, rsp_prod, rsp_cons,
  evtchn_pending,   (* the guest's bit for event *)
  kicked,           (* the daemon has an event from the guest *)
  pc, stage,        (* where the guest is in ring_write / ring_read *)
  data, len,        (* the arguments of that call *)
  part,             (* cells copied and not yet accounted for in the index *)
  id,               (* the request issued last *)
  hdr, payload,     (* what ring_read filled *)
  result,           (* what xenstore_read returned *)
  got, out          (* the daemon: cells read so far, cells still to write *)

ringVars == <<req, rsp, req_prod, req_cons, rsp_prod, rsp_cons>>
guestVars == <<pc, stage, data, len, part, id, hdr, payload, result>>
storeVars == <<ringVars, evtchn_pending, kicked, guestVars, got, out>>

Ids == {0, 1}
MaxLen == XENSTORE_PAYLOAD_MAX - 1
Hdr(i, n, t)  == [id |-> i, k |-> 0, len |-> n, type |-> t]
Byte(i, k) == [id |-> i, k |-> k, len |-> 0, type |-> "data"]
Blank == [id |-> 0, k |-> 0, len |-> 0, type |-> "blank"]
Cell == [id : Ids, k : 0..MaxLen, len : 0..MaxLen,
         type : {"ask", "answer", "data", "blank"} \cup Errors]
Message(i, n, t) == <<Hdr(i, n, t)>> \o [k \in 1..n |-> Byte(i, k)]

(* MASK_XENSTORE_IDX and the u32 subtraction of two indices. *)
Mask(i) == i % RingSize
Sub(a, b) == (a + IdxMod - b) % IdxMod
Add(a, n) == (a + n) % IdxMod

(* The cells of a ring from index c up to index p, in order. *)
Content(ring, c, p) == [i \in 1..Sub(p, c) |-> ring[Mask(c + i - 1)]]

StoreInit ==
  /\ req = [i \in 0..(RingSize - 1) |-> Blank]
  /\ rsp = [i \in 0..(RingSize - 1) |-> Blank]
  /\ req_prod = 0 /\ req_cons = 0 /\ rsp_prod = 0 /\ rsp_cons = 0
  /\ evtchn_pending = FALSE /\ kicked = FALSE
  /\ pc = "idle" /\ stage = "none"
  /\ data = << >> /\ len = 0 /\ part = 0
  /\ id = 0 /\ hdr = Blank /\ payload = << >> /\ result = "none"
  /\ got = << >> /\ out = << >>

-----------------------------------------------------------------------------
(* The guest.                                                              *)

(* xenstore_read/write/directory -> xenbus_send: ring_write of the header, *)
(* then of the payload (pc "write"), the kick, ring_read of both.          *)
xenbus_send(n) ==
  /\ pc = "idle"
  /\ id' = 1 - id
  /\ stage' = "whdr" /\ pc' = "write"
  /\ data' = Message(1 - id, n, "ask") /\ len' = 1
  /\ result' = "none"
  /\ UNCHANGED <<ringVars, evtchn_pending, kicked, part, hdr, payload, got, out>>

WritePartLong ==  \* a wrong bound: it ignores that the ring ends
  Min({RingSize - 1 - Mask(Sub(req_prod, req_cons)), len})

(* part of ring_write, after the three clamps (0: the ring is full). *)
WritePart ==
  Min({RingSize - 1 - Mask(Sub(req_prod, req_cons)), RingSize - Mask(req_prod), len})

(* memcpy(rings->req + MASK(req_prod), data, part): always from the start  *)
(* of data, also when an earlier round has copied a part of it.            *)
write_copy ==
  /\ pc = "write" /\ WritePart > 0
  /\ req' = [i \in DOMAIN req |->
               IF i \in Mask(req_prod)..(Mask(req_prod) + WritePart - 1)
               THEN data[i - Mask(req_prod) + 1] ELSE req[i]]
  /\ part' = WritePart
  /\ pc' = "written"
  /\ UNCHANGED <<rsp, req_prod, req_cons, rsp_prod, rsp_cons, evtchn_pending, kicked,
                 stage, data, len, id, hdr, payload, result, got, out>>

(* req_prod += part; len -= part; and on to the next call when len is 0.   *)
write_publish ==
  /\ pc = "written"
  /\ req_prod' = Add(req_prod, part)
  /\ part' = 0
  /\ CASE len > part ->
            /\ len' = len - part
            /\ pc' = "write" /\ UNCHANGED <<stage, data>>
       [] len = part /\ stage = "whdr" ->
            /\ stage' = "wdata" /\ pc' = "write"
            /\ data' = Tail(data) /\ len' = Len(data) - 1
       [] OTHER ->
            /\ len' = 0
            /\ pc' = "send" /\ data' = << >> /\ UNCHANGED stage
  /\ UNCHANGED <<req, rsp, req_cons, rsp_prod, rsp_cons, evtchn_pending, kicked,
                 id, hdr, payload, result, got, out>>

(* hypercall EVTCHNOP_send, then ring_read(&hdr). *)
evtchn_send ==
  /\ pc = "send"
  /\ kicked' = TRUE
  /\ stage' = "rhdr" /\ pc' = "read" /\ len' = 1
  /\ UNCHANGED <<ringVars, evtchn_pending, data, part, id, hdr, payload, result, got, out>>

ReadPart ==
  Min({Mask(Sub(rsp_prod, rsp_cons)), RingSize - Mask(rsp_cons), len})

(* memcpy(data, rings->rsp + MASK(rsp_cons), part), again to the start. *)
read_copy ==
  /\ pc = "read" /\ ReadPart > 0
  /\ IF stage = "rhdr"
     THEN hdr' = rsp[Mask(rsp_cons)] /\ UNCHANGED payload
     ELSE /\ payload' = [k \in 1..Len(payload) |->
                           IF k <= ReadPart THEN rsp[Mask(rsp_cons) + k - 1] ELSE payload[k]]
          /\ UNCHANGED hdr
  /\ part' = ReadPart
  /\ pc' = "taken"
  /\ UNCHANGED <<ringVars, evtchn_pending, kicked, stage, data, len, id, result, got, out>>

(* xsd_errors, EIO being what any other string gives, and XS_ERROR.        *)
errnum == [EINVAL |-> 22, EACCES |-> 13, EIO |-> 5, EISCONN |-> 106]
XS_ERROR == 16

(* xenbus_send returns hdr.type, or the errno of an error answer, which    *)
(* xenstore_read and its siblings compare with XS_ERROR: equal, they return*)
(* NULL; if not, they go on with the answer, which an error leaves unset.  *)
Returned(type) ==
  IF type \notin Errors THEN "answer"
  ELSE IF errnum[type] = XS_ERROR THEN "null" ELSE "nothing"

return_early(type) ==  \* a wrong order: an error header is returned with its payload unread
  IF type \in Errors
  THEN pc' = "idle" /\ stage' = "none" /\ result' = Returned(type) /\ UNCHANGED <<len, payload>>
  ELSE /\ stage' = "rdata" /\ pc' = "read" /\ len' = hdr.len
       /\ payload' = [k \in 1..hdr.len |-> Blank] /\ UNCHANGED result

(* The header is there: ring_read(payload, hdr.len). *)
after_header(type) ==
  /\ stage' = "rdata" /\ pc' = "read" /\ len' = hdr.len
  /\ payload' = [k \in 1..hdr.len |-> Blank] /\ UNCHANGED result

(* rsp_cons += part; len -= part; and on. *)
read_consume ==
  /\ pc = "taken"
  /\ rsp_cons' = Add(rsp_cons, part)
  /\ part' = 0
  /\ CASE len > part ->
            /\ len' = len - part
            /\ pc' = "read" /\ UNCHANGED <<stage, payload, result>>
       [] len = part /\ stage = "rhdr" -> after_header(hdr.type)
       [] OTHER ->
            /\ len' = 0
            /\ pc' = "idle" /\ stage' = "none" /\ result' = Returned(hdr.type)
            /\ UNCHANGED payload
  /\ UNCHANGED <<req, rsp, req_prod, req_cons, rsp_prod, evtchn_pending, kicked,
                 data, id, hdr, got, out>>

(* while (part == 0): the ring is full (empty). *)
ring_stuck ==
  /\ \/ pc = "write" /\ WritePart = 0
     \/ pc = "read" /\ ReadPart = 0
  /\ pc' = "stuck"
  /\ UNCHANGED <<ringVars, evtchn_pending, kicked, stage, data, len, part, id,
                 hdr, payload, result, got, out>>

ring_wait_clear ==  \* a wrong wait: it clears an event that may be the last one
  /\ pc = "stuck" /\ pc' = "wait"
  /\ evtchn_pending' = FALSE
  /\ UNCHANGED <<ringVars, kicked, stage, data, len, part, id, hdr, payload, result, got, out>>

(* ring_wait(): prepare the poll and sleep before the first look. *)
ring_wait ==
  /\ pc = "stuck" /\ pc' = "wait"
  /\ UNCHANGED <<ringVars, evtchn_pending, kicked, stage, data, len, part, id,
                 hdr, payload, result, got, out>>

(* test_and_clear_bit(event, shinfo->evtchn_pending) *)
wake_up ==
  /\ pc = "wait" /\ evtchn_pending
  /\ evtchn_pending' = FALSE
  /\ pc' = IF stage \in {"whdr", "wdata"} THEN "write" ELSE "read"
  /\ UNCHANGED <<ringVars, kicked, stage, data, len, part, id, hdr, payload, result, got, out>>

Guest ==
  \/ write_copy \/ write_publish \/ evtchn_send
  \/ read_copy \/ read_consume
  \/ ring_stuck \/ ring_wait \/ wake_up

-----------------------------------------------------------------------------
(* The daemon (not in src/): woken by the kick, it reads what there is in  *)
(* chunks of any size, answers a complete request, and notifies the guest  *)
(* after every read and every write.                                       *)
Complete == got # << >> /\ Len(got) = got[1].len + 1

daemon_read(n) ==
  /\ kicked /\ out = << >> /\ ~Complete
  /\ n \in 1..Sub(req_prod, req_cons)
  /\ got' = got \o SubSeq(Content(req, req_cons, req_prod), 1, n)
  /\ req_cons' = Add(req_cons, n)
  /\ evtchn_pending' = TRUE
  /\ UNCHANGED <<req, rsp, req_prod, rsp_prod, rsp_cons, kicked, guestVars, out>>

daemon_answer(n, t) ==
  /\ kicked /\ Complete
  /\ out' = Message(got[1].id, n, t)
  /\ got' = << >>
  /\ UNCHANGED <<ringVars, evtchn_pending, kicked, guestVars>>

daemon_write(n) ==
  /\ kicked /\ n \in 1..Len(out) /\ n <= RingSize - 1 - Sub(rsp_prod, rsp_cons)
  /\ rsp' = [i \in DOMAIN rsp |->
               LET k == Mask(i + RingSize - Mask(rsp_prod)) + 1
               IN IF k <= n THEN out[k] ELSE rsp[i]]
  /\ rsp_prod' = Add(rsp_prod, n)
  /\ out' = SubSeq(out, n + 1, Len(out))
  /\ evtchn_pending' = TRUE
  /\ UNCHANGED <<req, req_prod, req_cons, rsp_cons, kicked, guestVars, got>>

(* It sleeps when there is nothing it can do; only a kick wakes it again,  *)
(* so a request or an answer longer than the ring may never get through.   *)
daemon_sleep ==
  /\ kicked /\ ~Complete
  /\ \/ out = << >> /\ req_prod = req_cons
     \/ out # << >> /\ Sub(rsp_prod, rsp_cons) = RingSize - 1
  /\ kicked' = FALSE
  /\ UNCHANGED <<ringVars, evtchn_pending, guestVars, got, out>>

Daemon ==
  \/ \E n \in 1..RingSize : daemon_read(n) \/ daemon_write(n)
  \/ \E n \in ReplyLens, t \in {"answer"} \cup Errors : daemon_answer(n, t)
  \/ daemon_sleep

StoreNext == (\E n \in QueryLens : xenbus_send(n)) \/ Guest \/ Daemon

StoreSpec == StoreInit /\ [][StoreNext]_storeVars

-----------------------------------------------------------------------------
(* Types of the shared page and of the client's variables.                 *)
StoreTypeOK ==
  /\ req \in [0..(RingSize - 1) -> Cell] /\ rsp \in [0..(RingSize - 1) -> Cell]
  /\ {req_prod, req_cons, rsp_prod, rsp_cons} \subseteq 0..(IdxMod - 1)
  /\ evtchn_pending \in BOOLEAN /\ kicked \in BOOLEAN
  /\ pc \in {"idle", "write", "written", "send", "read", "taken", "stuck", "wait"}
  /\ stage \in {"none", "whdr", "wdata", "rhdr", "rdata"}
  /\ \A s \in {data, payload, got, out} : \A i \in DOMAIN s : s[i] \in Cell
  /\ len \in 0..MaxLen /\ part \in 0..len
  /\ id \in Ids /\ hdr \in Cell
  /\ result \in {"none", "answer", "nothing", "null"}

(* The daemon always finds the header of this request first and cells of   *)
(* its payload after it, and the guest those of its answer (Blank is what  *)
(* an earlier answer left in the static buffer), however the two copy in   *)
(* pieces and wait for each other.                                         *)
InOrder ==
  /\ \A i \in DOMAIN got :
       /\ got[i].id = id
       /\ got[i].type = IF i = 1 THEN "ask" ELSE "data"
  /\ stage = "rdata" => hdr.id = id /\ hdr.type \in {"answer"} \cup Errors
  /\ pc = "idle" => \A i \in DOMAIN payload :
                    payload[i] = Blank \/ (payload[i].id = id /\ payload[i].type = "data")

(* Both ends agree on where messages begin.  xen-xs.c:323: "We only ever   *)
(* issue one request at a time": when a call returns nothing of it is left *)
(* in either ring or in the daemon, and the header it returns is the       *)
(* answer to this request.                                                 *)
Framing ==
  /\ StoreTypeOK /\ InOrder
  /\ pc = "idle" /\ result # "none" =>
       /\ req_prod = req_cons /\ rsp_prod = rsp_cons /\ got = << >> /\ out = << >>
       /\ hdr.id = id /\ hdr.type \in {"answer"} \cup Errors

(* Between memcpy and the store to the index the chunk is in nobody's way: *)
(* the daemon neither reads unfinished cells nor overwrites unread ones.   *)
ChunkPrivate ==
  /\ pc = "written" =>
       /\ Sub(req_prod, req_cons) + part < RingSize
       /\ \A k \in 1..part : req[Mask(req_prod + k - 1)] = data[k]
  /\ pc = "taken" =>
       /\ part <= Sub(rsp_prod, rsp_cons)
       /\ stage = "rdata" => \A k \in 1..part : rsp[Mask(rsp_cons + k - 1)] = payload[k]

(* A request that fits the ring is answered, if the answer fits too: no    *)
(* wake-up is lost between the two ends.  (The kick comes only after the   *)
(* whole request, and taking an answer out is not announced at all.)       *)
AnswerArrives ==
  \A n \in QueryLens :
    n < RingSize - 1 =>
      (pc = "write" /\ stage = "whdr" /\ Len(data) = n + 1 ~> pc = "idle")

(* xen-xs.c:279: "reads response from xenstore ring". *)
AnswerIntact ==
  pc = "idle" /\ result = "answer" => payload = [k \in 1..hdr.len |-> Byte(id, k)]

=============================================================================
