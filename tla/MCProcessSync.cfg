SPECIFICATION Spec
CONSTANTS
  Run = {r1, r2}
  Segment = {g1, g2}
  NoSegment = NoSegment
  DataSize = 2
SYMMETRY Symmetry
INVARIANTS
  TypeOK
  ReadsComplete
  OneAtATime
  SegmentRemoved
  NobodyForgotten
