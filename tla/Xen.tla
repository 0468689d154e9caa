-------------------------------- MODULE Xen --------------------------------
(***************************************************************************)
(* A guest of xen: its xenstore client and the setup of its block devices. *)
(* The setup reads and writes nodes through that client; here a node is    *)
(* read or written whole (what XenStore says of one call), so the two are  *)
(* followed one at a time, chosen at the start.                            *)
(***************************************************************************)
EXTENDS XenStore, XenVbd

VARIABLE used

vars == <<used, storeVars, vbdVars>>

(* The part that is not looked at stands in one of its initial states. *)
Init ==
  /\ used \in {"store", "vbd"}
  /\ StoreInit /\ VbdInit
  /\ used = "store" => type = [v \in Vbd |-> "disk"]

InStore(A) == used = "store" /\ A /\ UNCHANGED <<used, vbdVars>>
InVbd(A) == used = "vbd" /\ A /\ UNCHANGED <<used, storeVars>>

Next == InStore(StoreNext) \/ InVbd(VbdNext)

(* The guest runs, the daemon serves a domain that has kicked it, and the  *)
(* block backends answer.                                                  *)
FairSpec ==
  /\ Init /\ [][Next]_vars
  /\ WF_vars(InStore(Guest)) /\ WF_vars(InStore(Daemon))
  /\ WF_vars(InVbd(Frontend)) /\ \A v \in Vbd : WF_vars(InVbd(Backend(v)))

(* Nobody waits for ever for the other end: a request that fits the ring   *)
(* is answered (ring_wait), and xen_blk_setup() returns.                   *)
XenReturns == AnswerArrives /\ (used = "vbd" => SetupReturns)
=============================================================================
