-------------------------------- MODULE Pmm --------------------------------
(***************************************************************************)
(* pmm.c: the zones of the allocator used during POST, its tracked blocks, *)
(* the growth of ZoneLow by moving the EBDA, the PMM services option roms  *)
(* call, and what malloc_finalize() tells the e820 map.                    *)
(* Addresses count in units of half a MALLOC_MIN_ALIGN.                    *)
(***************************************************************************)
EXTENDS Integers, E820

CONSTANTS
  STACK_ADDR, EBDA_MINIMUM, LOWRAM_END, BIOS_ADDR, ONE_MB,   (* the memory layout *)
  MAX_BIOSTABLE, MAX_HIGHTABLE,
  KB, PAGE, MALLOC_MIN_ALIGN,
  DETAIL,        (* sizeof(struct allocdetail_s) *)
  EbdaSize,      (* ebda->size, in KB *)
  MemTop,        (* bound: every address is below it *)
  RamMaps,       (* what ram_probe() may leave in e820_list *)
  Sizes, Aligns, (* the allocations that are asked for *)
  Handles        (* PMM handles of option roms *)

ASSUME PmmAssumption ==
  /\ {STACK_ADDR, EBDA_MINIMUM, LOWRAM_END, BIOS_ADDR, ONE_MB} \subseteq Nat
  /\ {KB, PAGE, MALLOC_MIN_ALIGN, DETAIL, EbdaSize} \subseteq Nat \ {0}
  /\ Sizes \cup Aligns \subseteq Nat \ {0}

ZoneNames == {"TmpLow", "Low", "FSeg", "TmpHigh", "High"}
Default == "default"   (* PMM_DEFAULT_HANDLE *)
Unset == "unset"       (* what the memory of a detail held before *)

VARIABLES
  zones,       (* for each zone, its allocinfo_s in the order of the list: high to low *)
  mem_size, ebda,        (* BDA: end of memory (in units), address of the EBDA *)
  rom,         (* an option rom runs, preempted by threads *)
  waiting,     (* a pmm_malloc() in wait_preempt(): its detail and request *)
  taken,       (* low memory option roms took for themselves *)
  booted       (* malloc_finalize() is done *)

pmmVars == <<zones, mem_size, ebda, rom, waiting, taken, booted>>

NoWait == [at |-> 0, handle |-> Default, size |-> 0, align |-> 1]

-----------------------------------------------------------------------------
(* Zones.  An allocinfo_s holds a block (data to dataend) and the free     *)
(* space above it, up to allocend.  "at" is the address of the             *)
(* allocdetail_s it belongs to: the detailinfo of that, with its handle,   *)
(* or the datainfo, with "none".  A detailinfo describes its own memory.   *)

Info(data, dataend, allocend, at, handle) ==
  [data |-> data, dataend |-> dataend, allocend |-> allocend, at |-> at, handle |-> handle]

IsDetail(info) == info.handle # "none"

AlignDown(a, align) == (a \div align) * align

Place(info, size, align) == AlignDown(info.allocend - size, align)

Fits_loose(list, size, align) ==  \* a wrong test: it forgets the block itself
  {i \in 1..Len(list) : Place(list[i], size, align) \in list[i].data..list[i].allocend}

Fits(list, size, align) ==
  {i \in 1..Len(list) : Place(list[i], size, align) \in list[i].dataend..list[i].allocend}

HasSpace(z, zone, size, align) == Fits(z[zone], size, align) # {}

(* The address allocSpace() returns, the zones after it; at = 0 stands for *)
(* fill = NULL, where the block holds its own allocinfo_s.                 *)
NewData(z, zone, size, align) ==
  Place(z[zone][Min(Fits(z[zone], size, align))], size, align)

allocSpace(z, zone, size, align, at, handle) ==
  LET list == z[zone]
      i == Min(Fits(list, size, align))
      data == Place(list[i], size, align)
      fill == Info(data, data + size, list[i].allocend, IF at = 0 THEN data ELSE at, handle)
  IN [z EXCEPT ![zone] = InsertAt([list EXCEPT ![i].allocend = data], i, fill)]

(* A wrong release: the space is not given to the block below. *)
freeSpace_leak(z, zone, i) == [z EXCEPT ![zone] = RemoveAt(z[zone], i)]

freeSpace(z, zone, i) ==
  LET list == z[zone]
      merged == IF i < Len(list) /\ list[i + 1].allocend = list[i].data
                THEN [list EXCEPT ![i + 1].allocend = list[i].allocend] ELSE list
  IN [z EXCEPT ![zone] = RemoveAt(merged, i)]

(* Where a detail goes: ZoneTmpHigh, else ZoneTmpLow. *)
DetailZone(z) ==
  IF HasSpace(z, "TmpHigh", DETAIL, MALLOC_MIN_ALIGN) THEN "TmpHigh" ELSE "TmpLow"

DetailFits(z) == HasSpace(z, DetailZone(z), DETAIL, MALLOC_MIN_ALIGN)

allocDetail(z, handle) ==
  allocSpace(z, DetailZone(z), DETAIL, MALLOC_MIN_ALIGN, 0, handle)

(* New memory is a sentinel, first kept on the stack so that its detail    *)
(* can come from this memory itself.                                       *)
addSpace(z, zone, start, end) ==
  LET list == z[zone]
      i == Cardinality({k \in 1..Len(list) : list[k].data >= start}) + 1
      z1 == [z EXCEPT ![zone] = InsertAt(list, i, Info(start, start, end, -1, "none"))]
      at == NewData(z1, DetailZone(z1), DETAIL, MALLOC_MIN_ALIGN)
      z2 == allocDetail(z1, Default)
      k == CHOOSE k \in 1..Len(z2[zone]) : z2[zone][k].at = -1
  IN IF DetailFits(z1) THEN [z2 EXCEPT ![zone][k].at = at] ELSE z

SearchOrder == <<"TmpLow", "Low", "FSeg", "TmpHigh", "High">>

findAlloc(z, data) ==
  LET Found(zone) == {i \in 1..Len(z[zone]) : z[zone][i].data = data}
      hits == {n \in 1..Len(SearchOrder) : Found(SearchOrder[n]) # {}}
  IN IF hits = {} THEN << >>
     ELSE <<SearchOrder[Min(hits)], Min(Found(SearchOrder[Min(hits)]))>>

findLast(z, zone) == z[zone][Len(z[zone])]

-----------------------------------------------------------------------------
(* malloc_setup(), and malloc_fixupreloc() if the init code was relocated. *)

(* The entry ZoneHigh is cut from, 0 if there is none: the highest range   *)
(* of RAM below 4GB that is large enough.                                  *)
HighCut(e) == AlignDown(e.end - MAX_HIGHTABLE, MALLOC_MIN_ALIGN)

HighRam(list) ==
  LET fits == {i \in 1..Len(list) : /\ list[i].end >= ONE_MB /\ list[i].type = "RAM"
                                    /\ HighCut(list[i]) >= list[i].start}
  IN IF fits = {} THEN 0 ELSE Max(fits)

AddTmpHigh(z, list) ==
  LET Step(i, acc) ==
        LET e == list[i]
        IN IF e.end >= ONE_MB /\ e.type = "RAM"
           THEN addSpace(acc, "TmpHigh", e.start, IF i = HighRam(list) THEN HighCut(e) ELSE e.end)
           ELSE acc
  IN FoldRight(Step, [i \in 1..Len(list) |-> i], z)

malloc_setup(list, reloc) ==
  LET empty == [TmpLow |-> << >>, Low |-> << >>, FSeg |-> << >>, TmpHigh |-> << >>, High |-> << >>]
      z1 == AddTmpHigh(empty, list)
      z2 == addSpace(z1, "TmpLow", STACK_ADDR, EBDA_MINIMUM)
      z3 == addSpace(z2, "FSeg", BIOS_ADDR + MAX_BIOSTABLE, BIOS_ADDR + 2 * MAX_BIOSTABLE)
      z4 == addSpace(z3, "Low", LOWRAM_END, LOWRAM_END)
      highram == HighCut(list[HighRam(list)])
      z5 == IF HighRam(list) = 0 THEN z4
            ELSE addSpace(z4, "High", highram, highram + MAX_HIGHTABLE)
  IN IF reloc THEN addSpace(z5, "FSeg", BIOS_ADDR, BIOS_ADDR + MAX_BIOSTABLE \div 2) ELSE z5

PmmInit ==
  /\ \E list \in RamMaps, reloc \in BOOLEAN :
       LET i == HighRam(list)
           high == Span(HighCut(list[i]), HighCut(list[i]) + MAX_HIGHTABLE, "RESERVED")
       IN /\ zones = malloc_setup(list, reloc)
          /\ e820_list = IF i = 0 THEN list ELSE add_e820(list, high)
  /\ mem_size = LOWRAM_END - EbdaSize * KB /\ ebda = mem_size
  /\ declared = << >> /\ dropped = FALSE
  /\ rom = FALSE /\ waiting = NoWait /\ taken = {} /\ booted = FALSE

-----------------------------------------------------------------------------
(* Allocation.  A memory record holds what it changes.                     *)

Memory == [zones |-> zones, mem_size |-> mem_size, ebda |-> ebda]

(* The EBDA moves down unless something took the memory below it. *)
relocate_ebda(m, newebda) ==
  IF m.ebda # m.mem_size THEN m ELSE [m EXCEPT !.mem_size = newebda, !.ebda = newebda]

zonelow_expand(m, size, align) ==
  IF m.zones.Low = << >> THEN m
  ELSE
  LET list == m.zones.Low
      info == findLast(m.zones, "Low")
      ebda_end == m.ebda + EbdaSize * KB
      adjacent == ebda_end = info.dataend
      newpos == IF adjacent THEN Place(info, size, align) ELSE AlignDown(ebda_end - size, align)
      newbottom == AlignDown(newpos, KB)
      newebda == newbottom - EbdaSize * KB
      moved == relocate_ebda(m, newebda)
  IN IF Place(info, size, align) >= info.dataend \/ newebda < EBDA_MINIMUM \/ moved = m THEN m
     ELSE [moved EXCEPT !.zones =
             IF adjacent
             THEN [m.zones EXCEPT !.Low[Len(list)] = [info EXCEPT !.data = newbottom,
                                                                  !.dataend = newbottom]]
             ELSE addSpace(m.zones, "Low", newbottom, ebda_end)]

(* The entry of a detail, found by its address. *)
AtDetail(z, at) ==
  LET Here(n) == {i \in 1..Len(z[n]) : z[n][i].at = at /\ IsDetail(z[n][i])}
      n == CHOOSE n \in {"TmpHigh", "TmpLow"} : Here(n) # {}
  IN <<n, Min(Here(n))>>

(* allocExpandSpace() and the rest of pmm_malloc(), once the detail at     *)
(* address "at" is reserved: on failure it is released again.              *)
Complete(m, at, zone, handle, size, align) ==
  LET grown == IF zone = "Low" /\ ~HasSpace(m.zones, zone, size, align)
               THEN zonelow_expand(m, size, align) ELSE m
      d == AtDetail(grown.zones, at)
      named == [grown.zones EXCEPT ![d[1]][d[2]].handle = handle]
  IN IF HasSpace(grown.zones, zone, size, align)
     THEN [ok |-> TRUE, m |-> [grown EXCEPT !.zones = allocSpace(named, zone, size, align, at, "none")]]
     ELSE [ok |-> FALSE, m |-> [grown EXCEPT !.zones = freeSpace(@, d[1], d[2])]]

Reserved(m) == [m EXCEPT !.zones = allocDetail(@, Unset)]
DetailAt(m) == NewData(m.zones, DetailZone(m.zones), DETAIL, MALLOC_MIN_ALIGN)

pmm_malloc(m, zone, handle, size, align) ==
  IF DetailFits(m.zones)
  THEN Complete(Reserved(m), DetailAt(m), zone, handle, size, align)
  ELSE [ok |-> FALSE, m |-> m]

Set(m) == zones' = m.zones /\ mem_size' = m.mem_size /\ ebda' = m.ebda

(* malloc_low() and the others, called by POST or by a thread.  While a    *)
(* rom runs, a request that would have to move the EBDA waits.             *)
MustWait(zone, size, align) ==
  /\ rom /\ zone = "Low"
  /\ DetailFits(zones)
  /\ ~HasSpace(Reserved(Memory).zones, zone, size, align)

malloc(zone, size, align) ==
  /\ ~booted /\ ~MustWait(zone, size, align)
  /\ Set(pmm_malloc(Memory, zone, Default, size, align).m)
  /\ UNCHANGED <<rom, waiting, taken, booted, e820Vars>>

wait_preempt(size, align) ==
  /\ ~booted /\ waiting = NoWait /\ MustWait("Low", size, align)
  /\ Set(Reserved(Memory))
  /\ waiting' = [at |-> DetailAt(Memory), handle |-> Default, size |-> size, align |-> align]
  /\ UNCHANGED <<rom, taken, booted, e820Vars>>

after_preempt ==
  /\ waiting # NoWait /\ ~rom
  /\ Set(Complete(Memory, waiting.at, "Low", waiting.handle, waiting.size, waiting.align).m)
  /\ waiting' = NoWait
  /\ UNCHANGED <<rom, taken, booted, e820Vars>>

(* Neither a detail (data == info) nor a sentinel. *)
IsBlock(info) == ~IsDetail(info) /\ info.data # info.dataend

(* Any address may be passed, and is refused if it is not a block's. *)
pmm_free(data) ==
  LET hit == findAlloc(zones, data)
      info == zones[hit[1]][hit[2]]
      z == freeSpace(zones, hit[1], hit[2])
      d == AtDetail(z, info.at)
  IN /\ ~booted /\ hit # << >> /\ IsBlock(info)
     /\ zones' = freeSpace(z, d[1], d[2])
     /\ UNCHANGED <<mem_size, ebda, rom, waiting, taken, booted, e820Vars>>

-----------------------------------------------------------------------------
(* Option roms.                                                            *)

pmm_getspace(z, zone) ==
  LET maxspace == Max({0} \cup {z[zone][i].allocend - z[zone][i].dataend : i \in 1..Len(z[zone])})
      reserve == AlignDown(DETAIL + MALLOC_MIN_ALIGN - 1, MALLOC_MIN_ALIGN)
  IN IF zone \notin {"TmpHigh", "TmpLow"} THEN maxspace
     ELSE IF maxspace <= reserve THEN 0 ELSE maxspace - reserve

(* 1 << __ffs(size), and at least MALLOC_MIN_ALIGN. *)
Natural(size) ==
  Max({p \in {MALLOC_MIN_ALIGN * 2^k : k \in 0..3} : size % p = 0})

(* The alignment a request may ask for. *)
PmmAligns(length) == {MALLOC_MIN_ALIGN, Natural(length * MALLOC_MIN_ALIGN)}

(* The services do not wait: the rom that calls is the one that is running. *)
handle_pmm00(length, handle, permanent, low, high, align) ==
  LET size == length * MALLOC_MIN_ALIGN
      First == pmm_malloc(Memory, IF permanent THEN "Low" ELSE "TmpLow", handle, size, align)
      Second(m) == pmm_malloc(m, IF permanent THEN "High" ELSE "TmpHigh", handle, size, align)
  IN /\ rom /\ length > 0 /\ (low \/ high)
     /\ Set(CASE low /\ ~high -> First.m
              [] high /\ ~low -> Second(Memory).m
              [] OTHER -> IF First.ok THEN First.m ELSE Second(First.m).m)
     /\ UNCHANGED <<rom, waiting, taken, booted, e820Vars>>

(* An option rom takes low memory for itself: by lowering mem_size_kb only, *)
(* or by moving the EBDA down as well.                                      *)
rom_lowers_memory ==
  /\ rom /\ taken = {} /\ mem_size - KB >= EBDA_MINIMUM
  /\ mem_size' = mem_size - KB
  /\ taken' = mem_size'..(mem_size - 1)
  /\ UNCHANGED <<zones, ebda, rom, waiting, booted, e820Vars>>

rom_moves_ebda ==
  /\ rom /\ taken = {} /\ ebda = mem_size /\ ebda - KB >= EBDA_MINIMUM
  /\ mem_size' = mem_size - KB /\ ebda' = ebda - KB
  /\ taken' = (ebda' + EbdaSize * KB)..(ebda + EbdaSize * KB - 1)
  /\ UNCHANGED <<zones, rom, waiting, booted, e820Vars>>

(* The yield of finish_preempt() lets a waiting thread go on before the    *)
(* next rom starts.                                                        *)
start_rom ==
  /\ ~rom /\ ~booted /\ waiting = NoWait /\ rom' = TRUE
  /\ UNCHANGED <<zones, mem_size, ebda, waiting, taken, booted, e820Vars>>

end_rom ==
  /\ rom /\ rom' = FALSE
  /\ UNCHANGED <<zones, mem_size, ebda, waiting, taken, booted, e820Vars>>

Giveback(info) == AlignDown(info.allocend - info.dataend, PAGE)

(* Low memory above mem_size becomes reserved, what is left of ZoneHigh RAM. *)
malloc_finalize ==
  /\ ~booted /\ ~rom /\ waiting = NoWait
  /\ LET list == add_e820(e820_list, Span(mem_size, LOWRAM_END, "RESERVED"))
         info == findLast(zones, "High")
     IN e820_list' = IF zones.High = << >> THEN list
                     ELSE add_e820(list, Span(info.dataend, info.dataend + Giveback(info), "RAM"))
  /\ booted' = TRUE
  /\ UNCHANGED <<zones, mem_size, ebda, rom, waiting, taken, declared, dropped>>

PmmNext ==
  \/ \E zone \in ZoneNames, size \in Sizes, align \in Aligns : malloc(zone, size, align)
  \/ \E size \in Sizes, align \in Aligns : wait_preempt(size, align)
  \/ after_preempt
  \/ \E zone \in ZoneNames : \E i \in 1..Len(zones[zone]) : pmm_free(zones[zone][i].data)
  \/ \E length \in {1, 2}, handle \in Handles, permanent, low, high \in BOOLEAN :
       \E align \in PmmAligns(length) : handle_pmm00(length, handle, permanent, low, high, align)
  \/ rom_lowers_memory \/ rom_moves_ebda \/ start_rom \/ end_rom
  \/ malloc_finalize

-----------------------------------------------------------------------------
Infos(z, zone) == {z[zone][i] : i \in 1..Len(z[zone])}
AllInfos == UNION {Infos(zones, n) : n \in ZoneNames}
Details == {info \in AllInfos : IsDetail(info)}
Tracked == AllInfos \ Details   (* blocks and sentinels *)
Blocks == {info \in Tracked : info.data # info.dataend}

(* Type correctness of the zones and of the BDA fields. *)
PmmTypeOK ==
  /\ \A n \in ZoneNames : zones[n] \in
       Seq([data : 0..MemTop, dataend : 0..MemTop, allocend : 0..MemTop, at : 0..MemTop,
            handle : Handles \cup {Default, Unset, "none"}])
  /\ mem_size \in 0..LOWRAM_END /\ ebda \in EBDA_MINIMUM..LOWRAM_END
  /\ rom \in BOOLEAN /\ booted \in BOOLEAN
  /\ waiting = NoWait \/ \E info \in Details : info.at = waiting.at /\ info.handle = Unset
  /\ taken \subseteq EBDA_MINIMUM..LOWRAM_END

(* The lists tile the zones: no space is handed out twice, and none is     *)
(* lost, however blocks and details are allocated and freed.               *)
ZonesTile ==
  \A n \in ZoneNames :
    /\ \A info \in Infos(zones, n) : info.data <= info.dataend /\ info.dataend <= info.allocend
    /\ \A i \in 1..(Len(zones[n]) - 1) :
         LET info == zones[n][i] next == zones[n][i + 1]
         IN IF info.data = info.dataend THEN next.allocend <= info.data
                                        ELSE next.allocend = info.data

(* Bookkeeping: every block has its own detail and, but for the one of a   *)
(* waiting request, every detail its block; looking for a block by its     *)
(* address, as pmm_free() does, finds that block.  pmm_find() meets no     *)
(* detail without a handle but that of a waiting request.                  *)
DetailsMatch ==
  /\ \A info \in Tracked : \E d \in Details : d.at = info.at
  /\ \A i1, i2 \in Tracked : i1.at = i2.at => i1 = i2
  /\ \A d \in Details :
       \/ waiting # NoWait /\ d.at = waiting.at
       \/ d.handle # Unset /\ (\E info \in Tracked : info.at = d.at)
  /\ \A info \in Blocks : LET hit == findAlloc(zones, info.data)
                          IN zones[hit[1]][hit[2]] = info

(* The EBDA, what ZoneLow manages and what option roms took do not         *)
(* overlap, and lie above the memory the BDA reports.                      *)
LowMemory == UNION {info.data..(info.allocend - 1) : info \in Infos(zones, "Low")}
EbdaMemory == ebda..(ebda + EbdaSize * KB - 1)

LowDisjoint ==
  /\ LowMemory \cap EbdaMemory = {} /\ LowMemory \cap taken = {} /\ EbdaMemory \cap taken = {}
  /\ LowMemory \cup EbdaMemory \cup taken \subseteq mem_size..(LOWRAM_END - 1)

(* A PMM size request is honest: a request of that many paragraphs         *)
(* succeeds (in permanent memory, if there is room for its detail).        *)
SizeHonest ==
  \A zone \in {"TmpLow", "TmpHigh", "Low", "High"} :
    LET size == AlignDown(pmm_getspace(zones, zone), MALLOC_MIN_ALIGN)
    IN size > 0 /\ DetailFits(zones) =>
         HasSpace(Reserved(Memory).zones, zone, size, MALLOC_MIN_ALIGN)

(* After malloc_finalize() no memory the bios or a rom keeps is reported   *)
(* as RAM to the system that boots.                                        *)
KeptIsReserved ==
  booted =>
    \A a \in EbdaMemory \cup taken
            \cup UNION {b.data..(b.dataend - 1) : b \in Blocks \cap (Infos(zones, "Low") \cup Infos(zones, "High"))} :
      TypeAt(e820_list, a) # "RAM"

(* All of it together: every byte of memory belongs to one owner who knows  *)
(* of it, through any calls, failures and moves of the ebda.               *)
ZonesOK == PmmTypeOK /\ ZonesTile /\ DetailsMatch /\ LowDisjoint /\ SizeHonest /\ KeptIsReserved

(* The zones implement the heap of module Heap. *)
BlocksIn(zone) ==
  {[start |-> zones[zone][i].data, end |-> zones[zone][i].dataend] :
     i \in {i \in DOMAIN zones[zone] : IsBlock(zones[zone][i])}}

Allocator == INSTANCE Heap WITH
  blocks <- UNION {BlocksIn(zone) : zone \in ZoneNames},
  Cells <- 0..MemTop
HeapKept == Allocator!Spec
=============================================================================
