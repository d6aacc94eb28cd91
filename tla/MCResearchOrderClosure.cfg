SPECIFICATION Spec
CONSTANTS
  Writers = {w1}
  Bundles <- UnorderedBundles
  None = None
INVARIANTS
  NoRunAfterClosure
