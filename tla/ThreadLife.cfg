SPECIFICATION FairSpec
CONSTANTS
  Callers = {a1, a2}
  Self = self
  NoThread = NoThread
  NONE = NONE
INVARIANTS IInv JoinAnswersFinalResult OneJoinerAtATime SignalFindsLiveState
PROPERTIES JoinsEnd
