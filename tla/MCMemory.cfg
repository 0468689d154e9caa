CONSTANTS
  MAX_E820 = 6
  Top = 7
  MemTop = 48
  STACK_ADDR = 6
  EBDA_MINIMUM = 8
  LOWRAM_END = 20
  BIOS_ADDR = 24
  ONE_MB = 28
  MAX_BIOSTABLE = 2
  MAX_HIGHTABLE = 4
  KB = 4
  PAGE = 4
  MALLOC_MIN_ALIGN = 2
  DETAIL = 2
  EbdaSize = 1
  RamMaps <- MCRamMaps
  Sizes = {1, 4}
  Aligns = {2}
  Handles = {"h"}
SPECIFICATION Spec
INVARIANTS MapFaithful ZonesOK
PROPERTIES HeapKept
CHECK_DEADLOCK FALSE
