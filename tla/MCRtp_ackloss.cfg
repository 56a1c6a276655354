\* SR, one acknowledgement is lost.
SPECIFICATION FairSpec
CONSTANTS
  MaxSeqNum = 10
  U16 = 5
  PayloadMax = 2
  FileSize = 5
  SenderWindowArg = 2
  ReceiverWindowArg = 2
  ResendMax = 5
  FdLimit = 5
  Modes = {"SR"}
  InitSeqNums <- LowInitSeq
  Faults = {"ackloss"}
  MaxFaults = 1
  SocketBuf = 8
  Prompt = TRUE
PROPERTY
  TransferCompletes
