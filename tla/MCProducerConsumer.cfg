SPECIFICATION Spec
CONSTANTS
  Producers = {p1}
  Consumers = {c1, c2}
  Item = {none, ann}
  Empty = none
  Zero = Zero
  Torn = Torn
  Unset = Unset
  BufferSize = 1
SYMMETRY Symmetry
INVARIANTS
  TypeOK
  MutualExclusion
  SlotAccounting
  PeekReadsNames
PROPERTIES
  SlotKeptUntilPrinted
