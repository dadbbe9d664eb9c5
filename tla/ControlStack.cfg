SPECIFICATION Spec
CONSTANTS
  Tags = {a, b}
  Names = {r}
  CONTINUE = CONTINUE
  NONE = NONE
  Interactive = TRUE
  BodiesEndInCall = FALSE
  MaxDepth = 6
SYMMETRY TagSymmetry
INVARIANTS IInv RethrowFindsTarget
PROPERTIES CleanupsRun NearestCatchTakesThrow
