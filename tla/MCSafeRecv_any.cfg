\* Any message, cut by TCP in any way, the peer closing at any time.
SPECIFICATION FairSpec
CHECK_DEADLOCK FALSE
CONSTANTS
  Streams <- ShortStreams
INVARIANTS
  TypeOK
  TerminatedIsWhole
  CutOnlyAfterZero
  FailureMeansLost
PROPERTY
  Returns
