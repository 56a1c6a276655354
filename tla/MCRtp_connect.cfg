\* The two handshakes with nothing between them: the packet count wraps to 0 or the file is missing.
SPECIFICATION FairSpec
CONSTANTS
  MaxSeqNum = 10
  U16 = 5
  PayloadMax = 2
  FileSize = 8
  SenderWindowArg = 2
  ReceiverWindowArg = 2
  ResendMax = 3
  FdLimit = 5
  Modes = {"RBN", "SR"}
  InitSeqNums <- AnyInitSeq
  Faults = {"loss", "corrupt", "ackloss", "ackcorrupt", "reorder", "nofile"}
  MaxFaults = 4
  SocketBuf = 6
  Prompt = TRUE
PROPERTY
  BothEnd
