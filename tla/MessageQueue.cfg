SPECIFICATION FairSpec
CONSTANTS
  Putters = {p1, p2}
  Getters = {g1, g2}
  Values = {v1, v2}
  Capacity = 2
  NIL = NIL
  NoThread = NoThread
INVARIANTS IInv NobodySleepsOnWork
PROPERTIES ImplementsBoundedQueue ValuesKeepMoving
