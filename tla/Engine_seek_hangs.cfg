SPECIFICATION FairSpec
CONSTANTS
  DemuxThreads = {d1, d2}
  Nobody = Nobody
  HasAudio = TRUE
  Capacity = 5
  MaxCalls = 3
  Plugins = {"file"}
  Live = {}
  Flushing = {"file"}
  Syncing = {}
  PlayWhen = "anytime"
PROPERTIES CallsReturn
CHECK_DEADLOCK FALSE
