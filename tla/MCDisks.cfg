CONSTANTS
  Drive <- MCDrive
  Machines <- MCMachines
  Discs <- MCDiscs
  Slots = 10
  Seg64 = 4
  Late = FALSE
  RegMax = 4
  LowMax = 16
  Lba28 = 64
  MaxPrd = 1
  Num = 4
  IdxMod = 8
  MotorTicks = 2
  MaxExt = 2
  MaxLocks = 2
  MaxBoots = 1
  ReadyTime = 1
  MoreTime = 1
SPECIFICATION FairSpec
INVARIANTS  Quiet Parameters
 
