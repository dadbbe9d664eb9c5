SPECIFICATION Spec
CONSTANTS
  t1 = t1
  t2 = t2
  t3 = t3
  m1 = m1
  m2 = m2
  c1 = c1
  c2 = c2
  Threads = {t1, t2, t3}
  Mutexes = {m1}
  Conds = {c1, c2}
  Queues = {1}
  MutexQueue <- OneMutexQueue
  CondQueue <- SharedCondQueue
  MaxSignals = 2
  NoThread = NoThread
  NoMutex = NoMutex
  NoCond = NoCond
PROPERTIES SignalWakesWaiter
CHECK_DEADLOCK FALSE
