CONSTANTS
  t1 = t1
  t2 = t2
  t3 = t3
  resetlock = resetlock
  hublock = hublock
  Main = Main
  NoThread = NoThread
  Thread <- MCThread3
  Mutex <- MCMutex2
  Level <- MCLevel2
  MaxJobs = 4
  ThreadOptionRoms = TRUE
SPECIFICATION Spec
INVARIANTS
  TypeOK
  RingOK
  MutexOK
  NoMoveUnderRom
PROPERTIES
  RunsInTurn
