SPECIFICATION FairSpec
CONSTANTS
  Buffers = {b1, b2}
  Users = {u1}
  Formats = {f1, f2}
  Nil = Nil
  MaxFlush = 2
INVARIANTS TypeOK FlushEmpties WritesToOpenDriver
PROPERTY AudioCallsReturn
CHECK_DEADLOCK FALSE
