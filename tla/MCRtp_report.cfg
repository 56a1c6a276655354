\* The sender ends after connecting, because its input file is missing.
SPECIFICATION FairSpec
CONSTANTS
  MaxSeqNum = 10
  U16 = 5
  PayloadMax = 2
  FileSize = 5
  SenderWindowArg = 2
  ReceiverWindowArg = 2
  ResendMax = 5
  FdLimit = 5
  Modes = {"RBN", "SR"}
  InitSeqNums <- LowInitSeq
  Faults = {"nofile"}
  MaxFaults = 0
  SocketBuf = 8
  Prompt = TRUE
INVARIANT
  ReceivedMeansWhole
