\* Both modes, data packets lost or corrupted, timers that outlast the network.
SPECIFICATION FairSpec
CONSTANTS
  MaxSeqNum = 10
  U16 = 5
  PayloadMax = 2
  FileSize = 7
  SenderWindowArg = 3
  ReceiverWindowArg = 3
  ResendMax = 5
  FdLimit = 5
  Modes = {"RBN", "SR"}
  InitSeqNums <- LowInitSeq
  Faults = {"loss", "corrupt"}
  MaxFaults = 3
  SocketBuf = 10
  Prompt = TRUE
PROPERTY
  TransferCompletes
