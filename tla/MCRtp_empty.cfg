\* The file size is a multiple of PAYLOAD_MAX and one data packet is lost.
SPECIFICATION FairSpec
CONSTANTS
  MaxSeqNum = 10
  U16 = 5
  PayloadMax = 2
  FileSize = 4
  SenderWindowArg = 2
  ReceiverWindowArg = 2
  ResendMax = 5
  FdLimit = 5
  Modes = {"RBN", "SR"}
  InitSeqNums <- LowInitSeq
  Faults = {"loss"}
  MaxFaults = 1
  SocketBuf = 8
  Prompt = TRUE
PROPERTY
  TransferCompletes
