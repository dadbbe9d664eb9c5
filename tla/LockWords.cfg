SPECIFICATION FairSpec
CONSTANTS
  t1 = t1
  t2 = t2
  t3 = t3
  m1 = m1
  m2 = m2
  c1 = c1
  c2 = c2
  Threads = {t1, t2, t3}
  Mutexes = {m1, m2}
  Conds = {c1}
  Queues = {1}
  MutexQueue <- SharedMutexQueue
  CondQueue <- OneCondQueue
  MaxSignals = 2
  NoThread = NoThread
  NoMutex = NoMutex
  NoCond = NoCond
INVARIANTS IInv MutualExclusion NoLostWakeup
PROPERTIES ImplementsMonitor FreeMutexIsTaken
CHECK_DEADLOCK FALSE
