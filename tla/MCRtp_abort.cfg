\* RBN, replies may overtake each other.
SPECIFICATION Spec
CONSTANTS
  MaxSeqNum = 10
  U16 = 5
  PayloadMax = 2
  FileSize = 5
  SenderWindowArg = 2
  ReceiverWindowArg = 2
  ResendMax = 5
  FdLimit = 5
  Modes = {"RBN"}
  InitSeqNums <- LowInitSeq
  Faults = {"reorder"}
  MaxFaults = 0
  SocketBuf = 8
  Prompt = TRUE
PROPERTY
  NoAbort
