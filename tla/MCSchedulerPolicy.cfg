SPECIFICATION SchedulerSpec
CONSTANTS
  Schedulers = {s1}
  Administrators = {a1, a2}
  Policies = {"p", "r"}
  Streamable <- CompetingPolicies
  Requests <- PolicyRequests
  Amendments <- SwitchedOff
  Interval = 2
  Slots = {0, 1}
  SlotRunId <- DerivedIds
  Bundles <- PolicyBundles
  None = None
PROPERTIES
  CallsEnd
