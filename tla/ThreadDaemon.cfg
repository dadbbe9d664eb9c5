SPECIFICATION Spec
CONSTANTS
  Callers = {a1, a2}
  Self = self
  NoThread = NoThread
  NONE = NONE
INVARIANTS DaemonNotJoined
