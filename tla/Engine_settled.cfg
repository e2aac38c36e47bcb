SPECIFICATION FairSpec
CONSTANTS
  DemuxThreads = {d1, d2}
  Nobody = Nobody
  HasAudio = TRUE
  Capacity = 5
  MaxCalls = 3
  Plugins = {"file", "live"}
  Live = {"live"}
  Flushing = {"live"}
  Syncing = {"file"}
  PlayWhen = "settled"
INVARIANTS TypeOK ThreadAccounted
PROPERTIES CallsReturn EndIsHandled
