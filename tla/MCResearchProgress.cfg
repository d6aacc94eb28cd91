SPECIFICATION Spec
CONSTANTS
  Writers = {w1, w2}
  Bundles <- CrossingBundles
  None = None
PROPERTIES
  EveryBundleAnswered
