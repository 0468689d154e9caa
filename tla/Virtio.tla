------------------------------- MODULE Virtio -------------------------------
(***************************************************************************)
(* virtio-blk.c and virtio-ring.c: one request at a time, as a chain of    *)
(* three descriptors taken from the free list of the queue.  The driver    *)
(* waits for the host without a timeout.                                   *)
(***************************************************************************)
EXTENDS DiskOp

CONSTANTS
  Num,      \* descriptors of the queue
  IdxMod    \* the indices of the rings count modulo IdxMod (2^16)

ASSUME VirtioAssumption == Num \in Nat \ {0} /\ IdxMod % Num = 0

VARIABLE vq   \* the vring_virtqueue, and seen: how far the host is in avail

Desc == 0 .. Num - 1

VirtioInit ==
  vq = [next |-> [i \in Desc |-> (i + 1) % Num], flag |-> [i \in Desc |-> FALSE],
        what |-> [i \in Desc |-> "none"], free_head |-> 0,
        avail |-> 0, ring |-> [i \in Desc |-> 0], seen |-> 0,
        used |-> 0, ids |-> [i \in Desc |-> 0], last_used |-> 0, status |-> "unsupp"]

(* A chain as the host follows it: three links are enough.                 *)
Chain(q, h) ==
  IF ~q.flag[h] THEN <<h>>
  ELSE LET i == q.next[h] IN
       IF ~q.flag[i] THEN <<h, i>> ELSE <<h, i, q.next[i]>>

vring_add_buf(q, parts) ==
  LET a == q.free_head
      b == q.next[a]
      c == q.next[b]
  IN [q EXCEPT !.what[a] = parts[1], !.flag[a] = TRUE,
               !.what[b] = parts[2], !.flag[b] = TRUE,
               !.what[c] = parts[3], !.flag[c] = FALSE,
               !.free_head = q.next[c], !.ring[q.avail % Num] = a]
vring_kick(q) == [q EXCEPT !.avail = (@ + 1) % IdxMod]

virtio_blk_op ==
  /\ Running({"virtio"}) /\ op.command \in {"read", "write"}
  /\ vq' = vring_kick([vring_add_buf(vq, <<"hdr", "data", "status">>) EXCEPT !.status = "unsupp"])
  /\ Goto("virtio") /\ NoTransfer

(* The host serves the next chain of the ring and puts its head in used.   *)
virtio_host ==
  /\ vq.seen # vq.avail
  /\ LET h == vq.ring[vq.seen % Num]
         parts == [i \in 1 .. Len(Chain(vq, h)) |-> vq.what[Chain(vq, h)[i]]]
     IN \E ok \in BOOLEAN, k \in {0, op.count} :
        /\ ok => k = op.count /\ parts = <<"hdr", "data", "status">>
        /\ Transfer(op.command, op.drive, op.lba, op.buf, k)
        /\ vq' = [vq EXCEPT !.seen = (@ + 1) % IdxMod,
                            !.ids[vq.used % Num] = h, !.used = (@ + 1) % IdxMod,
                            !.status = IF ok THEN "ok" ELSE "ioerr"]
  /\ UNCHANGED <<op, at, ret>>

vring_more_used == vq.last_used # vq.used

vring_detach_head(q, h) ==     \* a wrong one, that gives back the head only
  [q EXCEPT !.next[h] = q.free_head, !.free_head = h]
(* The whole chain goes back in front of the free list.                    *)
vring_detach(q, h) ==
  LET c == Chain(q, h) IN
  [q EXCEPT !.next[c[Len(c)]] = q.free_head, !.free_head = h]
vring_get_buf(q) ==
  [vring_detach(q, q.ids[q.last_used % Num]) EXCEPT !.last_used = (@ + 1) % IdxMod]

virtio_reply ==
  /\ at = "virtio" /\ vring_more_used
  /\ vq' = vring_get_buf(vq)
  /\ Return(IF vq.status = "ok" THEN "success" ELSE "badtrack", op.count)
  /\ NoTransfer

process_virtio_op ==
  /\ op.command \notin {"read", "write"}
  /\ Answer({"virtio"}, {"format", "reset", "isready", "verify", "seek"}, {})
  /\ UNCHANGED vq

(* The queue is empty and the free list has every descriptor.              *)
FreeList ==
  LET nth[i \in Desc] == IF i = 0 THEN vq.free_head ELSE vq.next[nth[i - 1]]
  IN {nth[i] : i \in Desc}
VirtioQuiet == vq.last_used = vq.used /\ vq.seen = vq.avail /\ FreeList = Desc
=============================================================================
