CONSTANTS
  k1 = k1
  k2 = k2
  t1 = t1
  t2 = t2
  t3 = t3
  t4 = t4
  None = None
  Keys <- TwoKeys
  Tasks <- FourTasks
SPECIFICATION FairSpec
INVARIANT EntryWhileBusy
PROPERTY EveryTaskEnds
PROPERTY ImplementsLock
