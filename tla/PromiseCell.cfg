SPECIFICATION FairSpec
CONSTANTS
  Threads = {t1, t2, t3}
  Promises = {p, q}
  Values = {v1, v2}
  NONE = NONE
  NoThread = NoThread
INVARIANTS IInv CallersAgree NobodySleepsOnSettled
PROPERTIES EvaluatedOnce ForcesEnd
