SPECIFICATION Spec
CONSTANTS
  Frames = {f1, f2, f3, f4, f5}
  NoFrame = NoFrame
  MaxHeld = 2
  Recent = 2
  Users = {u1, u2}
  MaxDraws = 3
  MaxPlays = 1
  MaxOpens = 0
  Pausing = FALSE
  Snapshots = FALSE
  Quits = TRUE
SYMMETRY Symmetry
INVARIANTS TypeOK FramesAccounted ExclusiveWrite NoLostWakeup DiscardBalanced
PROPERTIES FirstIsShown
CHECK_DEADLOCK FALSE
