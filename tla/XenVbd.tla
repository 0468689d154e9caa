------------------------------- MODULE XenVbd -------------------------------
(***************************************************************************)
(* Registration of the Xen virtual block devices by xen-blk.c: for each vbd*)
(* of the xenstore directory the guest allocates a ring and a buffer,      *)
(* grants both pages to dom0 (get_free_grant), and walks the xenbus        *)
(* handshake of xenstore_share_disk .. xenstore_share_disk7 with the block *)
(* backend, one xenstore operation at a time.  An operation is one step    *)
(* here: module XenStore shows that they happen one after the other.       *)
(***************************************************************************)
EXTENDS Naturals, FiniteSets

CONSTANTS Vbds,        (* the vbds are 0..Vbds-1, in directory order *)
          FirstPort,   (* the first event channel the hypervisor hands out *)
          MAX_DRIVES, MAX_GRANT_ENTRIES

(* The code checks neither bound here: a vbd too many is written past the  *)
(* end of xendrives_ptrs, and a drive without grants goes on with -1.      *)
ASSUME XenVbdAssumption ==
  /\ Vbds \in Nat /\ FirstPort \in Nat \ {0}
  /\ MAX_DRIVES \in Nat /\ Vbds <= MAX_DRIVES
  /\ MAX_GRANT_ENTRIES \in Nat /\ 2 * Vbds + 1 < MAX_GRANT_ENTRIES

(* xen-blk.h:59 has MAX_DRIVES 4.  With five drives a reference would have *)
(* two digits, and itoa() makes another number of those.                   *)
ASSUME DrivesAssumption == MAX_DRIVES <= 4

(* xenbus_state, as far as the two ends of this handshake go. *)
Initialising == 1
InitWait == 2
Initialised == 3
Connected == 4
Closing == 5

Vbd == 0..(Vbds - 1)
NoPage == [vbd |-> Vbds, what |-> "none"]
Page == [vbd : Vbd, what : {"ring", "buffer"}] \cup {NoPage}
Ref == 0..MAX_GRANT_ENTRIES
Port == 0..99

VARIABLES
  at, vbd,                   (* where xen_blk_setup is, and with which vbd *)
  type,                      (* the device-type node of each vbd *)
  grant_entries, count_grants,
  count_drives,
  drives,                    (* the local drives of xen_blk_setup: drives handed to boot.c *)
  ring_ref, port,   (* fields of struct xendrive_s *)
  nextport,                  (* the event channel EVTCHNOP_alloc_unbound returns next *)
  nstate, nring, nchannel,   (* frontend nodes of xenstore; 0 is not there *)
  bstate,                    (* the backend's state node *)
  bpage, bport               (* what the backend mapped and bound *)

frontVars == <<grant_entries, count_grants, count_drives, drives, ring_ref, port,
               nextport>>
nodeVars == <<nstate, nring, nchannel>>
backVars == <<bstate, bpage, bport>>
vbdVars == <<at, vbd, type, frontVars, nodeVars, backVars>>

VbdInit ==
  /\ at = "init" /\ vbd = 0
  /\ type \in [Vbd -> {"disk", "cdrom", "other"}]
  /\ grant_entries = [r \in Ref |-> NoPage] /\ count_grants = 1
  /\ count_drives = 0 /\ drives = 0
  /\ ring_ref = [v \in Vbd |-> 0] /\ port = [v \in Vbd |-> 0]
  /\ nextport = FirstPort
  /\ nstate = [v \in Vbd |-> 0] /\ nring = [v \in Vbd |-> 0]
  /\ nchannel = [v \in Vbd |-> 0]
  /\ bstate = [v \in Vbd |-> Initialising]
  /\ bpage = [v \in Vbd |-> NoPage] /\ bport = [v \in Vbd |-> 0]

-----------------------------------------------------------------------------
(* itoa() leaves the digits in the order it produced them, last digit first *)
(* (the call of reverse() is commented out); a reader gets this number.     *)
itoa(n) == IF n < 10 THEN n ELSE (n % 10) * 10 + n \div 10

get_free_grant_same(n) == count_grants + 1  \* a wrong counter: all grants of a drive are one

(* The reference get_free_grant() returns for the n-th call of a drive. *)
get_free_grant(n) == count_grants + n

(* One round of the loop of xen_blk_setup(): init_xen_blk() registers the  *)
(* drive, whatever its type, and grants its ring and its buffer.           *)
init_xen_blk ==
  /\ at = "init" /\ vbd < Vbds
  /\ count_drives' = count_drives + 1
  /\ grant_entries' = [grant_entries EXCEPT
       ![get_free_grant(1)] = [vbd |-> vbd, what |-> "ring"],
       ![get_free_grant(2)] = [vbd |-> vbd, what |-> "buffer"]]
  /\ count_grants' = get_free_grant(2)
  /\ ring_ref' = [ring_ref EXCEPT ![vbd] = get_free_grant(1)]
  /\ at' = "share"
  /\ UNCHANGED <<vbd, type, drives, port, nextport, nodeVars, backVars>>

(* xenstore_share_vbd(): a disk is shared, a cdrom is handed to boot.c at  *)
(* once (3), anything else is skipped (1).                                 *)
xenstore_share_vbd ==
  /\ at = "share"
  /\ IF type[vbd] = "disk"
     THEN at' = "initialising" /\ UNCHANGED <<vbd, drives>>
     ELSE /\ at' = "init" /\ vbd' = vbd + 1
          /\ drives' = IF type[vbd] = "cdrom" THEN drives + 1 ELSE drives
  /\ UNCHANGED <<type, grant_entries, count_grants, count_drives, ring_ref, port,
                 nextport, nodeVars, backVars>>

(* xenstore_share_disk2() *)
write_initialising ==
  /\ at = "initialising"
  /\ nstate' = [nstate EXCEPT ![vbd] = Initialising]
  /\ at' = "channel"
  /\ UNCHANGED <<vbd, type, frontVars, nring, nchannel, backVars>>

(* xenstore_share_disk3(): EVTCHNOP_alloc_unbound, then the event-channel  *)
(* node (and the port node, which the backend does not read).              *)
write_channel ==
  /\ at = "channel" /\ nextport \in Port
  /\ port' = [port EXCEPT ![vbd] = nextport]
  /\ nextport' = nextport + 1
  /\ nchannel' = [nchannel EXCEPT ![vbd] = itoa(nextport)]
  /\ at' = "ringref"
  /\ UNCHANGED <<vbd, type, grant_entries, count_grants, count_drives, drives, ring_ref,
                 nstate, nring, backVars>>

(* xenstore_share_disk4() (the backend state it reads is only printed) and *)
(* xenstore_share_disk5().                                                 *)
write_ring_ref ==
  /\ at \in {"ringref", "initialised"}
  /\ IF at = "ringref"
     THEN nring' = [nring EXCEPT ![vbd] = itoa(ring_ref[vbd])] /\ at' = "initialised" /\ UNCHANGED nstate
     ELSE nstate' = [nstate EXCEPT ![vbd] = Initialised] /\ at' = "poll" /\ UNCHANGED nring
  /\ UNCHANGED <<vbd, type, frontVars, nchannel, backVars>>

(* xenstore_share_disk6(): the loop leaves with the backend's state 4 only. *)
poll_backend ==
  /\ at = "poll" /\ bstate[vbd] = Connected
  /\ at' = "connected"
  /\ UNCHANGED <<vbd, type, frontVars, nodeVars, backVars>>

(* xenstore_share_disk7(): Connected, the geometry, and back to            *)
(* xen_blk_setup(), which calls boot_add_hd().                             *)
write_connected ==
  /\ at = "connected"
  /\ nstate' = [nstate EXCEPT ![vbd] = Connected]
  /\ drives' = drives + 1
  /\ vbd' = vbd + 1 /\ at' = "init"
  /\ UNCHANGED <<type, grant_entries, count_grants, count_drives, ring_ref, port,
                 nextport, nring, nchannel, backVars>>

(* All vbds examined: POST goes on. *)
setup_done ==
  /\ at = "init" /\ vbd = Vbds
  /\ at' = "done"
  /\ UNCHANGED <<vbd, type, frontVars, nodeVars, backVars>>

Frontend ==
  \/ init_xen_blk \/ xenstore_share_vbd \/ write_initialising \/ write_channel
  \/ write_ring_ref \/ poll_backend \/ write_connected \/ setup_done

-----------------------------------------------------------------------------
(* The block backend of one vbd (not in src/).  Once the frontend is       *)
(* Initialised it maps the page of ring-ref and binds event-channel; when  *)
(* it cannot, it closes the device.                                        *)
backend_wait(v) ==
  /\ bstate[v] = Initialising
  /\ bstate' = [bstate EXCEPT ![v] = InitWait]
  /\ UNCHANGED <<at, vbd, type, frontVars, nodeVars, bpage, bport>>

backend_connect(v) ==
  /\ bstate[v] = InitWait /\ nstate[v] \in {Initialised, Connected}
  /\ LET page == IF nring[v] \in Ref THEN grant_entries[nring[v]] ELSE NoPage
         ok == page # NoPage /\ \E u \in Vbd : port[u] # 0 /\ port[u] = nchannel[v]
     IN /\ bstate' = [bstate EXCEPT ![v] = IF ok THEN Connected ELSE Closing]
        /\ bpage' = [bpage EXCEPT ![v] = IF ok THEN page ELSE NoPage]
        /\ bport' = [bport EXCEPT ![v] = IF ok THEN nchannel[v] ELSE 0]
  /\ UNCHANGED <<at, vbd, type, frontVars, nodeVars>>

Backend(v) == backend_wait(v) \/ backend_connect(v)

Terminated == at = "done" /\ UNCHANGED vbdVars

VbdNext == Frontend \/ (\E v \in Vbd : Backend(v)) \/ Terminated

VbdSpec == VbdInit /\ [][VbdNext]_vbdVars

-----------------------------------------------------------------------------
(* Types, with the arrays of xen-blk.h within their bounds. *)
VbdTypeOK ==
  /\ at \in {"init", "share", "initialising", "channel", "ringref", "initialised", "poll",
             "connected", "done"}
  /\ vbd \in 0..Vbds
  /\ grant_entries \in [Ref -> Page] /\ count_grants \in Ref
  /\ count_drives \in 0..MAX_DRIVES /\ drives \in 0..MAX_DRIVES
  /\ ring_ref \in [Vbd -> Ref] /\ port \in [Vbd -> Port]
  /\ nring \in [Vbd -> Port] /\ nchannel \in [Vbd -> Port]
  /\ nstate \in [Vbd -> 0..Closing] /\ bstate \in [Vbd -> Initialising..Closing]
  /\ bpage \in [Vbd -> Page] /\ bport \in [Vbd -> Port]

(* A connected backend has the ring page and the event channel of its own  *)
(* vbd, never those of another one or the data buffer: the grant table,    *)
(* the grant counter and the two nodes fit together.  The frontend says    *)
(* Connected, and hands the disk to boot.c, only after that.               *)
OwnRing ==
  /\ VbdTypeOK
  /\ \A v \in Vbd : bstate[v] = Connected =>
       bpage[v] = [vbd |-> v, what |-> "ring"] /\ bport[v] = port[v]
  /\ \A v \in Vbd : nstate[v] = Connected => bstate[v] = Connected

(* xen_blk_setup() returns: the handshake has no state in which the two    *)
(* ends wait for each other.                                               *)
SetupReturns == <>(at = "done")

(* xen-xs.c:62: "itoa:  convert n to characters in s": the event channel   *)
(* the backend finds in xenstore is the one the guest allocated.           *)
ChannelNode == \A v \in Vbd : nchannel[v] # 0 => nchannel[v] = port[v]
=============================================================================
