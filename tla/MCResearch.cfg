SPECIFICATION InstanceSpec
CONSTANTS
  Writers = {w1, w2}
  Bundles <- AllBundles
  None = None
INVARIANTS
  RunsAreCoherent
  HistoriesStayReadable
  RunsCanFinish
  LocksNeverDeadlock
PROPERTIES
  BundlesAreAtomic
  EndsAreFinal
  AcceptedIsStored
