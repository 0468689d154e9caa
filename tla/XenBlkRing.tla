----------------------------- MODULE XenBlkRing -----------------------------
(***************************************************************************)
(* Disk operations of the Xen block device: xen_blk_op_read() and          *)
(* xen_blk_op_write() of xen-blk.c, the request ring they share with the   *)
(* block backend (the ring macros of xen.h), and the backend (not in src/).*)
(* A slot of the ring is a union of a request and a response; what a       *)
(* reader of the response half finds in a slot that holds a request is     *)
(* part of the model, because the guest does not wait for the backend.     *)
(***************************************************************************)
EXTENDS Naturals

CONSTANTS Ents,      (* RING_SIZE: slots of the ring, at least one *)
          Sector,    (* sectors of the disk *)
          Data       (* contents of a sector or of a buffer *)

IdxMod == 4 * Ents   \* RING_IDX is unsigned: it wraps at a multiple of Ents

VARIABLES
  ring, req_prod, rsp_prod, req_event,   (* struct blkif_sring *)
  req_prod_pvt,                          (* struct blkif_front_ring *)
  buffer, disk,                          (* info.buffer, granted to the backend; the disk *)
  op, buf_fl, ret,                       (* the operation under way, its buffer, its result *)
  req_cons, kicked                       (* the backend *)

guestVars == <<op, buf_fl, ret, req_prod_pvt>>
vars == <<ring, req_prod, rsp_prod, req_event, buffer, disk, guestVars, req_cons, kicked>>

Blank == [half |-> "blank", cmd |-> "read", id |-> 0, lba |-> 0, status |-> 0]
NoOp == [cmd |-> "none", lba |-> 0, notify |-> FALSE]
Slot(i) == i % Ents
OKAY == 0
ids == [read |-> 8, write |-> 111]

Init ==
  /\ ring = [i \in 0..(Ents - 1) |-> Blank]
  /\ req_prod = 0 /\ rsp_prod = 0 /\ req_event = 1 /\ req_prod_pvt = 0
  /\ buffer \in Data /\ disk \in [Sector -> Data]
  /\ op = NoOp /\ buf_fl \in Data /\ ret = "none"
  /\ req_cons = 0 /\ kicked = FALSE

(* xen_blk_op_read/write up to the response: fill the slot of req_prod_pvt,*)
(* push (RING_PUSH_REQUESTS_AND_CHECK_NOTIFY: req_prod := req_prod_pvt),   *)
(* and kick the backend if it asked for an event between old and new.      *)
submit(cmd, lba) ==
  /\ op.cmd = "none"
  /\ ring' = [ring EXCEPT ![Slot(req_prod_pvt)] =
                [half |-> "req", cmd |-> cmd, id |-> ids[cmd], lba |-> lba, status |-> 0]]
  /\ LET old == req_prod
         new == req_prod_pvt
         notify == (new + IdxMod - req_event) % IdxMod < (new + IdxMod - old) % IdxMod
     IN /\ req_prod' = new
        /\ kicked' = (kicked \/ notify)
        /\ op' = [cmd |-> cmd, lba |-> lba, notify |-> notify]
  /\ ret' = "none"
  /\ UNCHANGED <<rsp_prod, req_event, req_prod_pvt, buffer, disk, buf_fl, req_cons>>

(* The response half of a slot: in one that holds a request, or nothing,   *)
(* the bytes of status are zero, and those of id are not the id.           *)
status(slot) == IF slot.half = "rsp" THEN slot.status ELSE OKAY
rsp_id(slot) == IF slot.half = "rsp" THEN slot.id ELSE 0

(* The rest: RING_GET_RESPONSE(rsp_prod++) at once, which moves the shared *)
(* index of the backend (twice for a write, which also kicks twice), the   *)
(* copy between the buffers when the id is right, and the status.          *)
complete ==
  /\ op.cmd # "none"
  /\ LET step == IF op.cmd = "write" THEN 2 ELSE 1
         slot == ring[Slot(rsp_prod + step - 1)]
         mine == rsp_id(slot) = ids[op.cmd]
     IN /\ rsp_prod' = (rsp_prod + step) % IdxMod
        /\ buf_fl' = IF mine /\ op.cmd = "read" THEN buffer ELSE buf_fl
        /\ buffer' = IF mine /\ op.cmd = "write" THEN buf_fl ELSE buffer
        /\ ret' = IF status(slot) = OKAY THEN "success" ELSE "fail"
        /\ kicked' = (kicked \/ (op.cmd = "write" /\ op.notify))
  /\ op' = [op EXCEPT !.cmd = "none"]
  /\ UNCHANGED <<ring, req_prod, req_event, req_prod_pvt, disk, req_cons>>

(* The backend, once kicked, serves every request up to req_prod. *)
backend ==
  /\ kicked /\ req_cons # req_prod
  /\ LET r == ring[Slot(req_cons)]
     IN /\ IF r.cmd = "read"
           THEN buffer' = disk[r.lba] /\ UNCHANGED disk
           ELSE disk' = [disk EXCEPT ![r.lba] = buffer] /\ UNCHANGED buffer
        /\ ring' = [ring EXCEPT ![Slot(rsp_prod)] =
                      [half |-> "rsp", cmd |-> r.cmd, id |-> r.id, lba |-> 0, status |-> OKAY]]
  /\ req_cons' = (req_cons + 1) % IdxMod
  /\ rsp_prod' = (rsp_prod + 1) % IdxMod
  /\ req_event' = (req_cons + 2) % IdxMod
  /\ UNCHANGED <<req_prod, kicked, guestVars>>

Next ==
  \/ \E lba \in Sector, cmd \in {"read", "write"} : submit(cmd, lba)
  \/ complete
  \/ backend

Spec == Init /\ [][Next]_vars

-----------------------------------------------------------------------------
(* xen-blk-op.c:15: "here the actual read or write is performed": a read   *)
(* that returns success has put the sector into the caller's buffer, and a *)
(* write has put the caller's buffer into the sector.                      *)
Performed == ret = "success" => buf_fl = disk[op.lba]
=============================================================================
