SPECIFICATION Spec
CONSTANTS
  c1 = c1  c2 = c2  doc = doc  pub = pub  b1 = b1  b2 = b2  root = root  sub = sub
  Names = {doc}
  Blocks = {b1, b2}
  Dirs = {root}
  Root = root
  Subdir <- NoSubdirs
  Junk = Junk  NoArg = NoArg  NoFile = NoFile  Fresh = Fresh  Nothing = Nothing
  Conns = {1, 2}
  Clients = {c1, c2}
  Unreadable = {}
  Commands = {"open", "get", "put"}
  Killable = {c1}
  ListJoined = TRUE
  InitialFiles <- ShortOnServer
  InitialDisk <- OnEachDisk
INVARIANT
  FilesAreMerges
PROPERTY
  ImplementsFileService
