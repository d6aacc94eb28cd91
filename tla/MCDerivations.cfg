SPECIFICATION Spec
CONSTANTS
  Callers = {11, 12, 13}
  Scripts <- MCScripts
  ClaimOf <- MCClaimOf
  Stored <- MCStored
  Builds <- MCBuilds
  None = None
  MaxLost = 1
INVARIANTS
  ConstraintsNeverFire
  ReadsAreClosed
  OnlyAssessmentsDeadlock
  OutputsReproduce
  ReadsBackAsWritten
PROPERTIES
  CallsAreAnswered
CHECK_DEADLOCK FALSE
