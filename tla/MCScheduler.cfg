SPECIFICATION SchedulerSpec
CONSTANTS
  Schedulers = {s1, s2}
  Administrators = {a1}
  Policies = {"p"}
  Streamable <- OnePolicy
  Requests <- SlotRequests
  Amendments <- SwitchedOff
  Interval = 2
  Slots = {0, 1, 2}
  SlotRunId <- DerivedIds
  Bundles <- SlotBundles
  None = None
PROPERTIES
  DecisionsAreAtomic
  RetriesAreIdempotent
SYMMETRY SchedulersAlike
