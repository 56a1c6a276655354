\* Both modes, a network that corrupts, repeats and reorders, timeouts at any moment.
SPECIFICATION Spec
CONSTANTS
  MaxSeqNum = 10
  U16 = 5
  PayloadMax = 2
  FileSize = 7
  SenderWindowArg = 3
  ReceiverWindowArg = 2
  ResendMax = 3
  FdLimit = 5
  Modes = {"RBN", "SR"}
  InitSeqNums <- AnyInitSeq
  Faults = {"corrupt", "ackcorrupt", "duplicate", "reorder"}
  MaxFaults = 1
  SocketBuf = 10
  Prompt = FALSE
INVARIANTS
  TypeOK
  PrefixWritten
  AckedIsStored
  SuccessMeansDelivered
  CloseAgreement
  CloseNumbersAgree
  NothingForgotten
  DescriptorsSuffice
  IInv
PROPERTY
  ImplementsFileTransfer
