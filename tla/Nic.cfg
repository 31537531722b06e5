SPECIFICATION Spec
CONSTANTS
  RxRing = 3
  TxRing = 2
  FifoRoom = 2
  MaxFrames = 4
  MaxSends = 2
INVARIANTS SendsWhatWasQueued QuietAfterBoot
PROPERTIES FramesInOrder FramesTaken
CHECK_DEADLOCK FALSE
