SPECIFICATION Spec
CONSTANTS
  M = 3
  N = 8
  Page = {0, 1, 2, 3, 4}
  Strings <- ShortStrings
INVARIANTS
  TypeOK
  FramesDistinct
  FifoAgeIsTimeLoaded
  LruAgeIsTimeUnused
  FaultsOfQueue
  OptimalIsOptimal
