CONSTANTS
  c1 = c1
  c2 = c2
  Clients <- TwoClients
  Chars = {"x", "nl"}
  NL = "nl"
  LastFd = 2
  BufSize = 2
  SockBuf = 2
  Lazy = {}
  MaxText <- Texts
SPECIFICATION Spec
INVARIANTS
  TypeOK
  RecvNeverBlocks
  NoLineKeptBack
PROPERTIES
  ImplementsRoom
  EverybodyIsServed
CHECK_DEADLOCK FALSE
