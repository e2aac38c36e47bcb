SPECIFICATION Spec
CONSTANTS
  Queues = {mcd, plugin}
  Listening = {mcd}
  Senders = {"decoder", "output"}
  None = None
  MaxSends = 3
  Apps = {a1, a2}
  Mcd = mcd
  MaxCalls = 2
INVARIANTS TypeOK EventsInOrder NothingFreedInUse
PROPERTY FinishIsAnswered
CHECK_DEADLOCK FALSE
