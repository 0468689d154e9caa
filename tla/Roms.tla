-------------------------------- MODULE Roms --------------------------------
(***************************************************************************)
(* optionroms.c, with the shadow ram of shadow.c: option roms are copied   *)
(* one behind the other into the space below the code of the bios,         *)
(* initialised, and then scanned for what can boot.  Sizes and places are  *)
(* in units of 512 bytes, counted from BUILD_ROM_START.                    *)
(***************************************************************************)
EXTENDS Boot, Pci

CONSTANTS
  Rom,       \* name -> [file: units of the image, size: in its header, after: when it has been
             \*  run, sum: is its checksum right?, pnp, bev: an entry or "none", bcv: entries]
  RomPlan,   \* board -> [pci: <<device, rom, how>> with how in {"file", "bar"}, vga: files,
             \*  gen: files, drivers: devices that have one, enforce: EnforceChecksum,
             \*  there: roms that are deployed already (CONFIG_OPTIONROMS_DEPLOYED), or <<>>]
  MaxRom     \* max_rom: where the code of the bios begins

VARIABLE roms
  \* [stage, todo: roms to deploy, end: RomEnd, copies: of [at, rom], src: places with a
  \*  source, ran: roms that were called, start: post_vga, pos: of the scan, pam: of the
  \*  sections of 16K, "rw" or "ro"]

OPTION_ROM_ALIGN == 4
AlignUp(n) == ((n + OPTION_ROM_ALIGN - 1) \div OPTION_ROM_ALIGN) * OPTION_ROM_ALIGN
Sections == 0 .. 11
Plan == RomPlan[pci.board]
Deployed == Plan.there

RomsNew ==
  [stage |-> "off", todo |-> <<>>, end |-> 0, copies |-> <<>>, src |-> {}, ran |-> {},
   start |-> 0, pos |-> 0, pam |-> [i \in Sections |-> "rom"]]
RomsInit == roms = RomsNew

(* What begins at a place: the last image copied there, if no later copy   *)
(* has gone over it.                                                       *)
Length(c) == Rom[c.rom].file
HeaderAt(r, at) ==
  LET over == {i \in DOMAIN r.copies : r.copies[i].at <= at /\ at < r.copies[i].at + Length(r.copies[i])}
      last == CHOOSE i \in over : \A j \in over : j <= i
  IN IF over # {} /\ r.copies[last].at = at THEN r.copies[last].rom ELSE "none"
Shown(name) == IF name \in roms.ran THEN Rom[name].after ELSE Rom[name].size
is_valid_rom(r, at) ==
  LET name == HeaderAt(r, at) IN name # "none" /\ Rom[name].size # 0 /\ (Rom[name].sum \/ ~Plan.enforce)

(* A file that fits in what is left, which is a number without a sign; or  *)
(* an image in the device, that must not reach the code.                   *)
Fitting(how, name, end) ==
  IF how = "bar" THEN end + Rom[name].size <= MaxRom
  ELSE end > MaxRom \/ Rom[name].file <= MaxRom - end
Copy(r, name) == [r EXCEPT !.copies = Append(@, [at |-> r.end, rom |-> name])]
setRomSource_after(r, at) ==       \* a wrong one, that takes the next place
  [r EXCEPT !.src = @ \cup {at + OPTION_ROM_ALIGN}]
setRomSource(r, at) == [r EXCEPT !.src = @ \cup {at}]

init_optionrom(r, at, isvga) ==
  LET name == HeaderAt(r, at)
      runs == isvga \/ Rom[name].pnp
  IN IF ~is_valid_rom(r, at) THEN r
     ELSE [r EXCEPT !.ran = IF runs THEN @ \cup {name} ELSE @,
                    !.end = at + AlignUp(IF runs THEN Rom[name].after ELSE Rom[name].size)]

deploy(how, name, isvga) ==
  LET at == roms.end IN
  IF ~Fitting(how, name, at) THEN roms
  ELSE LET copied == Copy(roms, name)
       IN init_optionrom(IF isvga THEN copied ELSE setRomSource(copied, at), at, isvga)

(* The first vga device whose legacy addresses are enabled, which are only *)
(* those of the host bus.                                                  *)
is_pci_vga(d) == Devs[d].kind = "vga" /\ pci.cfg[d].cmd /\ Devs[d].up = 0
VgaRoms ==
  LET order == [i \in DOMAIN pci.list |-> pci.list[i].dev]
      all == SelectSeq(order, is_pci_vga)
  IN (IF all = <<>> THEN <<>> ELSE SelectSeq(Plan.pci, LAMBDA x : x[1] = all[1])) \o Plan.vga
vga_setup ==
  /\ roms.stage = "vga"
  /\ IF Deployed # <<>>
     THEN LET r == [roms EXCEPT !.copies = Deployed, !.stage = "vga_done"]
          IN roms' = init_optionrom(r, 0, TRUE)
     ELSE roms' = [roms EXCEPT !.todo = VgaRoms, !.stage = "vga_rom"]
vga_rom ==
  /\ roms.stage = "vga_rom" /\ roms.todo # <<>>
  /\ LET x == Head(roms.todo)
     IN roms' = [deploy(x[3], x[2], TRUE) EXCEPT !.todo = Tail(roms.todo)]
(* Without any, the first place stays free.                                *)
vga_finish ==
  /\ roms.stage \in {"vga_rom", "vga_done"} /\ roms.todo = <<>>
  /\ roms' = [roms EXCEPT !.stage = "ready", !.end = IF @ = 0 THEN OPTION_ROM_ALIGN ELSE @]

(* Devices that are no display and have no driver, then the other files.   *)
Others ==
  SelectSeq(Plan.pci, LAMBDA x : Devs[x[1]].kind # "vga" /\ x[1] \notin Plan.drivers) \o Plan.gen
optionrom_setup ==
  /\ roms.stage = "roms"
  /\ roms' = [roms EXCEPT !.start = roms.end, !.pos = roms.end,
                          !.stage = IF Deployed # <<>> THEN "find" ELSE "deploy",
                          !.todo = IF Deployed # <<>> THEN <<>> ELSE Others]
init_pcirom ==
  /\ roms.stage = "deploy"
  /\ IF roms.todo = <<>> THEN roms' = [roms EXCEPT !.stage = "scan"]
     ELSE LET x == Head(roms.todo)
          IN roms' = [deploy(x[3], x[2], FALSE) EXCEPT !.todo = Tail(roms.todo)]
(* Roms that are there already are looked for at every 2K.                 *)
find_deployed ==
  /\ roms.stage = "find"
  /\ IF roms.pos >= MaxRom THEN roms' = [roms EXCEPT !.stage = "scan", !.pos = roms.start]
     ELSE LET r == init_optionrom(roms, roms.pos, FALSE)
          IN roms' = [r EXCEPT !.pos = IF is_valid_rom(roms, @) THEN r.end ELSE @ + OPTION_ROM_ALIGN]

(* The bev of a rom or its bcvs are registered, a legacy rom as one bcv;   *)
(* the boot order is known for those whose source is.                      *)
Names(rom) ==
  IF ~rom.pnp THEN rom.bcv ELSE IF rom.bev # "none" THEN <<rom.bev>> ELSE rom.bcv
scan_roms ==
  /\ roms.stage = "scan"
  /\ IF roms.pos >= roms.end
     THEN roms' = [roms EXCEPT !.stage = "done"] /\ UNCHANGED boot
     ELSE IF ~is_valid_rom(roms, roms.pos)
     THEN roms' = [roms EXCEPT !.pos = @ + OPTION_ROM_ALIGN] /\ UNCHANGED boot
     ELSE LET name == HeaderAt(roms, roms.pos)
              Prio(e) == IF roms.pos \in roms.src THEN Entry[e].prio ELSE -1
          IN /\ roms' = [roms EXCEPT !.pos = @ + AlignUp(Shown(name))]
             /\ boot' = FoldLeft(LAMBDA b, e : Added(b, e, Prio(e)), boot, Names(Rom[name]))

(* S3: the vga rom is run again.                                           *)
s3_resume_vga_init ==
  IF is_valid_rom(roms, 0) THEN [roms EXCEPT !.ran = @ \cup {HeaderAt(roms, 0)}] ELSE roms

(***************************************************************************)
(* Shadow ram: sections of 16K, two to a register; 16K is 32 units         *)
(***************************************************************************)
make_bios_writable == [i \in Sections |-> "rw"]
make_bios_readonly(pam) ==
  [i \in Sections |-> IF roms.end > i * 32 THEN "ro" ELSE pam[i]]
=============================================================================
