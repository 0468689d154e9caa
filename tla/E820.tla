-------------------------------- MODULE E820 --------------------------------
(***************************************************************************)
(* memmap.c: the e820 map, a sorted list of disjoint ranges.  add_e820()   *)
(* lays a range over what the list says so far.                            *)
(***************************************************************************)
EXTENDS Naturals, SequencesExt, FiniteSetsExt

CONSTANTS MAX_E820,    (* CONFIG_MAX_E820: entries of e820_list *)
          Top          (* bound: addresses whose type is followed are below it *)

ASSUME E820Assumption == MAX_E820 \in Nat \ {0} /\ Top \in Nat

VARIABLES
  e820_list,   (* records [start, end, type]; end stands for start + size *)
  declared,    (* history: the type declared last for each address *)
  dropped      (* history: the list was too full for both parts of a change *)

e820Vars == <<e820_list, declared, dropped>>

Types == {"RAM", "RESERVED", "HOLE"}
Span(start, end, type) == [start |-> start, end |-> end, type |-> type]

(* ram_probe() starts with an empty list. *)
E820Init == e820_list = << >> /\ declared = [a \in 0..(Top - 1) |-> "HOLE"] /\ dropped = FALSE

-----------------------------------------------------------------------------

insert_e820(list, i, e) == IF Len(list) >= MAX_E820 THEN list ELSE InsertAt(list, i, e)

(* The position of a new range, and the list after an item that starts     *)
(* before it has been split (of another type) or is to be merged with it.  *)
Position(list, start) ==
  Min({i \in 1..Len(list) : start <= list[i].end} \cup {Len(list) + 1})

Before(list, r) ==
  LET i == Position(list, r.start)
  IN i <= Len(list) /\ list[i].start < r.start

Split_short(list, r) ==  \* a wrong split: what is behind the new range is lost
  [list EXCEPT ![Position(list, r.start)].end = r.start]

Split(list, r) ==
  LET i == Position(list, r.start)
      e == list[i]
      cut == [list EXCEPT ![i].end = r.start]
  IN IF e.end > r.end THEN insert_e820(cut, i + 1, [e EXCEPT !.start = r.end]) ELSE cut

(* Without the items from position i on that the new range covers, up to   *)
(* the first that it does not.                                             *)
Cover(list, i, r) ==
  LET next == Min({k \in i..Len(list) : list[k].end > r.end} \cup {Len(list) + 1})
  IN SubSeq(list, 1, i - 1) \o SubSeq(list, next, Len(list))

(* The range goes in front of item i, which gives up its start or, if it   *)
(* is of the same type, becomes a part of the range.                       *)
Join(list, i, r) ==
  LET touches == i <= Len(list) /\ list[i].start <= r.end
      same == touches /\ list[i].type = r.type
      rest == IF same THEN RemoveAt(list, i)
              ELSE IF touches THEN [list EXCEPT ![i].start = r.end] ELSE list
  IN IF r.type = "HOLE" THEN rest
     ELSE insert_e820(rest, i, IF same THEN [r EXCEPT !.end = list[i].end] ELSE r)

add_e820(list, r) ==
  IF r.start = r.end THEN list
  ELSE LET i == Position(list, r.start)
           before == Before(list, r)
       IN IF before /\ list[i].type # r.type
          THEN LET split == Split(list, r) IN Join(Cover(split, i + 1, r), i + 1, r)
          ELSE Join(Cover(list, i, r), i, IF before THEN [r EXCEPT !.start = list[i].start] ELSE r)

(* The insertions of add_e820() may find the list full. *)
Overflows(list, r) ==
  LET parts == Len(list) + (IF Before(list, r) /\ list[Position(list, r.start)].end > r.end
                            THEN 2 ELSE 1)
  IN parts > MAX_E820

Add(r) ==
  /\ e820_list' = add_e820(e820_list, r)
  /\ declared' = [a \in DOMAIN declared |->
                    IF r.start <= a /\ a < r.end THEN r.type ELSE declared[a]]
  /\ dropped' = (dropped \/ Overflows(e820_list, r))

E820Next ==
  \E start, end \in 0..Top, type \in Types : start <= end /\ Add(Span(start, end, type))

E820Spec == E820Init /\ [][E820Next]_e820Vars

-----------------------------------------------------------------------------
TypeAt(list, a) ==
  IF \E i \in 1..Len(list) : list[i].start <= a /\ a < list[i].end
  THEN (CHOOSE e \in ToSet(list) : e.start <= a /\ a < e.end).type
  ELSE "HOLE"

(* Type correctness of the list, which never outgrows its array. *)
E820TypeOK ==
  /\ e820_list \in Seq([start : Nat, end : Nat, type : Types \ {"HOLE"}])
  /\ Len(e820_list) <= MAX_E820
  /\ \A a \in DOMAIN declared : a \in Nat /\ declared[a] \in Types
  /\ dropped \in BOOLEAN

(* Ranges are not empty, do not overlap and come in order; two that touch  *)
(* have different types (they would have been merged).                     *)
Sorted(list) ==
  /\ \A i \in 1..Len(list) : list[i].start < list[i].end
  /\ \A i \in 1..(Len(list) - 1) :
       \/ list[i].end < list[i + 1].start
       \/ list[i].end = list[i + 1].start /\ list[i].type # list[i + 1].type

(* add_e820() keeps the list sorted, as its comment at memmap.c:73 has it  *)
(* ("scans for overlaps and keeps the list sorted") and in its array, and  *)
(* as long as every piece found room it says of every address what was     *)
(* declared of it last.                                                    *)
MapFaithful ==
  /\ E820TypeOK
  /\ Sorted(e820_list)
  /\ ~dropped => \A a \in DOMAIN declared : TypeAt(e820_list, a) = declared[a]
=============================================================================
