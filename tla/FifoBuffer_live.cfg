SPECIFICATION FairSpec
CONSTANTS
  Elements = {e1, e2, e3}
  Producers = {p1}
  Consumers = {c1}
  Inserters = {}
  Flushers = {f1}
  Sizes = {0}
  NoElem = NoElem
  NoThread = NoThread
PROPERTIES QueuedLeaves FifoCallsReturn
