SPECIFICATION Spec
CONSTANTS
  Writers = {"demuxer", "frontend"}
  NoWriter = NoWriter
  Capacity = 3
  MaxPuts = 7
INVARIANTS TypeOK OwnOffset
PROPERTY DecodersGoOn
CHECK_DEADLOCK FALSE
