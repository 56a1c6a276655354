SPECIFICATION FairSpec
CONSTANTS
  c1 = c1  c2 = c2  doc = doc  pub = pub  b1 = b1  b2 = b2  root = root  sub = sub
  Names = {doc, pub}
  Blocks = {b1, b2}
  Dirs = {root, sub}
  Root = root
  Subdir <- LinkedDirs
  Junk = Junk  NoArg = NoArg  NoFile = NoFile  Fresh = Fresh  Nothing = Nothing
  Conns = {1, 2}
  Clients = {c1}
  Unreadable = {}
  Commands = {"open", "reopen", "ls", "cd", "get", "put", "sha256", "quit"}
  Killable = {c1}
  ListJoined = TRUE
  InitialFiles <- ShortOnServer
  InitialDisk <- OnEachDisk
INVARIANTS
  TypeOK
  InStep
  RepliesMatch
  FilesAreMerges
  IInv
PROPERTY
  ServerOutlivesQuits
  ImplementsFileService
  CommandReturns
  SessionEnds
