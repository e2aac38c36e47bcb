SPECIFICATION Spec
CONSTANTS
  Fifos = {"video", "audio"}
  Audio = {"audio"}
  Pool = 3
  FullMark = 1
  Slack = 1
  Nobody = Nobody
INVARIANTS TypeOK NoWaitWhileBuffering
PROPERTY BufferingEnds
CHECK_DEADLOCK FALSE
