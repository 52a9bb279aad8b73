CONSTANTS
  x = x
  y = y
  Names = {x, y}
  Values = {u, v}
  None = None
  Modes <- Scripts
SPECIFICATION Spec
INVARIANTS TypeOK EnvTrue ContextsTrue
PROPERTY ImplementsScopes
