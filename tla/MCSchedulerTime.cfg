SPECIFICATION Spec
CONSTANTS
  FirstYears <- Edges
  Years = 3
  None = None
INVARIANTS
  FormulasAreExact
CHECK_DEADLOCK FALSE
