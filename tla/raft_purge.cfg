SPECIFICATION Spec
CONSTANTS
  SegmentMax = 2
  MaxIndex = 3
  MaxTerm = 2
  NoSegment = NoSegment
CHECK_DEADLOCK FALSE
INVARIANTS
  PurgedOnly
