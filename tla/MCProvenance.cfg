SPECIFICATION Spec
CONSTANTS
  Callers = {101, 102, 103, 104}
  Scripts <- MCScripts
  Slots = {s1, s2}
  Policies <- MCPolicies
  Analytic <- MCAnalytic
  None = None
INVARIANTS
  SnapshotsAreComplete
  FindingsAreExact
  StoredIsAuthenticated
  ConstraintsAgree
  AnalysesRestOnStored
PROPERTIES
  ProvenanceCallsEnd
CHECK_DEADLOCK FALSE
