SPECIFICATION Spec
CONSTANTS
  DemuxThreads = {d1, d2}
  Nobody = Nobody
  HasAudio = TRUE
  Capacity = 5
  MaxCalls = 4
  Plugins = {"file", "live"}
  Live = {"live"}
  Flushing = {"file", "live"}
  Syncing = {"file"}
  PlayWhen = "anytime"
SYMMETRY Symmetry
INVARIANTS EndsTogether EndsPaired FlushDrains FrameWaitHasWaker
CHECK_DEADLOCK FALSE
