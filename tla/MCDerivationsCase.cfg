SPECIFICATION Spec
CONSTANTS
  Callers = {11, 12, 13}
  Scripts <- MCScripts
  ClaimOf <- MCClaimOf
  Stored <- MCStored
  Builds <- MCBuilds
  None = None
  MaxLost = 0
INVARIANT GraphConflictsAreReal
CHECK_DEADLOCK FALSE
