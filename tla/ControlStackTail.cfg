SPECIFICATION Spec
CONSTANTS
  Tags = {a, b}
  Names = {r}
  CONTINUE = CONTINUE
  NONE = NONE
  Interactive = TRUE
  BodiesEndInCall = TRUE
  MaxDepth = 3
INVARIANTS HandlersEndWithBody
