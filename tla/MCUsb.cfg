SPECIFICATION FairSpec
CONSTANTS
  Busses <- MCBusses
  MAXADDR = 3
  MaxFails = 1
  MaxPolls = 1
  Qh = {q1, q2, q3}
  Thread = {t1, t2}
  MaxExp = 2
  StackTds = 3
  MaxPackets = 7
  RingTds = 4
  MaxReports = 6
  Code <- MCCode
  ModCode <- MCModCode
  KeySlots = 3
  RepeatWait = 2
  Motions = {0, 1, 127, 128, 255}
  MaxIdle = 3
INVARIANTS TransfersApart StartedOnce HubsKept PortsSettled ListsSound  EventsMatch
PROPERTY EnumEnds
CHECK_DEADLOCK FALSE
