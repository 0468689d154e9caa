CONSTANTS
  t1 = t1
  t2 = t2
  t3 = t3
  resetlock = resetlock
  hublock = hublock
  Main = Main
  NoThread = NoThread
  Thread <- MCThread2
  Mutex <- MCMutex1
  Level <- MCLevel1
  MaxJobs = 2
  ThreadOptionRoms = TRUE
SPECIFICATION FairSpec
PROPERTIES
  ThreadsProgress
