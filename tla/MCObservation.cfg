SPECIFICATION MCSpec
CONSTANTS
  p1 = p1
  p2 = p2
  Procs = {p1, p2}
  Slots = {k1, k2}
  Tasks <- AllTasks
  Bundles <- AllSteps
  Observations <- AllObservations
  None = None
  Garbled <- GarbledRows
  NoRow = NoRow
  MaxCalls = 2
  MaxTroubles = 1
INVARIANTS
  AnswersAreStored
  SlicesResume
  BindingsNeverCollide
PROPERTIES
  WrittenIsReadable
  ForeignWorkStaysForeign
  ObservationCallsEnd
CHECK_DEADLOCK FALSE
