SPECIFICATION FairSpec
CONSTANTS
  Frames = {f1, f2, f3}
  NoFrame = NoFrame
  MaxHeld = 1
  Recent = 1
  Users = {u1}
  MaxDraws = 3
  MaxPlays = 1
  MaxOpens = 0
  Pausing = FALSE
  Snapshots = FALSE
  Quits = TRUE
PROPERTIES DecoderServed FlushAndExitReturn
CHECK_DEADLOCK FALSE
