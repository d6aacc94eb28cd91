SPECIFICATION InstanceSpec
CONSTANTS
  Policies = {"p"}
  Streamable <- OnePolicy
  Requests <- AllRequests
  Amendments <- AllAmendments
  Interval = 2
  Slots = {0, 1, 2, 3}
  SlotRunId <- DerivedIds
  Bundles <- AllBundles
  None = None
  r1 = r1
  r2 = r2
  Readers = {r1, r2}
  Connections = 3
INVARIANTS
  ScheduledRunsDoNotOverlap
  DecisionsStayTrue
PROPERTIES
  WrittenHistoryVerifies
  VerificationsEnd
