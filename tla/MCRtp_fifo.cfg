\* Both modes, a FIFO network for replies that loses and corrupts, timeouts at any moment, few descriptors.
SPECIFICATION Spec
CONSTANTS
  MaxSeqNum = 10
  U16 = 5
  PayloadMax = 2
  FileSize = 7
  SenderWindowArg = 2
  ReceiverWindowArg = 2
  ResendMax = 3
  FdLimit = 4
  Modes = {"RBN", "SR"}
  InitSeqNums <- LowInitSeq
  Faults = {"loss", "corrupt", "ackloss", "ackcorrupt"}
  MaxFaults = 2
  SocketBuf = 5
  Prompt = FALSE
INVARIANTS
  AcksInOrder
  DescriptorsSuffice
PROPERTY
  NoAbort
