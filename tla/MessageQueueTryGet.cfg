SPECIFICATION Spec
CONSTANTS
  Putters = {p1}
  Getters = {g1}
  Values = {v1}
  Capacity = 2
  NIL = NIL
  NoThread = NoThread
PROPERTIES TryGetNilOnlyWhenEmpty
