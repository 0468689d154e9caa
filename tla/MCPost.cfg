CONSTANTS
  Board <- MCBoard
  Machine <- MCMachine
  Probe <- MCProbe
  Unit <- MCUnit
  Entry <- MCEntry
  Rom <- MCRom
  RomPlan <- MCRomPlan
  MemStart = 917504
  MemEnd = 1043456
  MemTop = 1048576
  Nvram <- MCNvram
  MaxBev = 20
  Menu = TRUE
  Spinup = TRUE
  MaxRom = 256
  Aps = {a1, a2}
  Cmos = 2
  Apic = TRUE
  MaxCpus = 4
  Vcnt = 1
  SmpMtrr = 32
  RamSize = 3670016
  RamSizeOver4G = 18874368
  Nodes <- MCNodes
  Override = TRUE
  Package = 2
  Externals <- MCExternals
  MaxTables = 20
  Scarce <- MCScarce
SPECIFICATION FairSpec
INVARIANTS TypeOK PciSettled TablesAgree   RomsOK
PROPERTY EntryEnds
