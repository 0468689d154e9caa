CONSTANTS
  TICKS_PER_DAY = 6
  TickWidth = 16
  SetTicks = {2, 5, 8, 15}
  MaxTicks = 14
  Usecs = {0, 3, 5}
  USEC_PER_RTC = 2
  KeySets = {{}, {"lctrl", "rctrl", "home", "win"}, {"rctrl", "pause", "caps", "lshift"}}
  Slots = 3
SPECIFICATION FairSpec
INVARIANTS
  TypeOK
  ClockExact
  PieForUsers
  
  PortShared
PROPERTIES
  IntervalExact
  KeysInOrder
  Wait86Returns
