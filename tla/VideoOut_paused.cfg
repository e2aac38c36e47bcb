SPECIFICATION Spec
CONSTANTS
  Frames = {f1, f2, f3, f4, f5}
  NoFrame = NoFrame
  MaxHeld = 1
  Recent = 2
  Users = {}
  MaxDraws = 3
  MaxPlays = 1
  MaxOpens = 1
  Pausing = TRUE
  Snapshots = TRUE
  Quits = FALSE
SYMMETRY Symmetry
INVARIANTS FramesAccounted NoLostWakeup
