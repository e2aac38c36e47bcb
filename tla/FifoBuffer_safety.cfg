SPECIFICATION Spec
CONSTANTS
  Elements = {e1, e2, e3}
  Producers = {p1, p2}
  Consumers = {c1, c2}
  Inserters = {i1}
  Flushers = {f1}
  Sizes = {0, 2}
  NoElem = NoElem
  NoThread = NoThread
SYMMETRY Symmetry
INVARIANTS TypeOK OnePlace CountersAgree SpareForEmergency NoLostWakeup
PROPERTIES ImplementsMediaQueue
