SPECIFICATION FairSpec
CONSTANTS
  Producers = {p1}
  Consumers = {c1}
  Item = {none, ann}
  Empty = none
  Zero = Zero
  Torn = Torn
  Unset = Unset
  BufferSize = 2
PROPERTIES
  PoolIsFifo
  Served
