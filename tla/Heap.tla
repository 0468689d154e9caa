-------------------------------- MODULE Heap --------------------------------
(***************************************************************************)
(* What an allocator promises: a block stays where it is, as it is, until  *)
(* it is freed; a new block is in free memory; one call makes or frees one *)
(* block at most.                                                          *)
(***************************************************************************)
EXTENDS Naturals, FiniteSets

CONSTANT Cells   (* the addresses *)

VARIABLE blocks  (* records [start, end] *)

Init == blocks = {}

Alloc ==
  \E b \in blocks' \ blocks :
    /\ blocks' = blocks \cup {b}
    /\ b.start < b.end /\ b.start..(b.end - 1) \subseteq Cells
    /\ \A other \in blocks : b.end <= other.start \/ other.end <= b.start

Free == \E b \in blocks \ blocks' : blocks' = blocks \ {b}

Spec == Init /\ [][Alloc \/ Free]_blocks
=============================================================================
