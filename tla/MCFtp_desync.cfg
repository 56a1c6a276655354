\* A listing may arrive after its header; the user lists, then downloads.
SPECIFICATION Spec
CONSTANTS
  c1 = c1  c2 = c2  doc = doc  pub = pub  b1 = b1  b2 = b2  root = root  sub = sub
  Names = {doc}
  Blocks = {b1, b2}
  Dirs = {root}
  Root = root
  Subdir <- NoSubdirs
  Junk = Junk  NoArg = NoArg  NoFile = NoFile  Fresh = Fresh  Nothing = Nothing
  Conns = {1}
  Clients = {c1}
  Unreadable = {}
  Commands = {"open", "ls", "get"}
  Killable = {}
  ListJoined = FALSE
  InitialFiles <- ShortOnServer
  InitialDisk <- OnEachDisk
PROPERTY
  GetReceivesGetReply
