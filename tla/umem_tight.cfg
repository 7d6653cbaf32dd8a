SPECIFICATION Spec
CONSTANTS
    NumFrames = 5  FillSize = 2  RxSize = 2  TxSize = 1  CompSize = 1
    BatchSize = 2  KHold = 1  PollMode = FALSE  TxNeedsKick = FALSE
INVARIANTS TypeOK FrameExclusive FrameConserved OutstandingExact
PROPERTY OwnershipFollowed
