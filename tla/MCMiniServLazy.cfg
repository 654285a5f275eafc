CONSTANTS
  c1 = c1
  c2 = c2
  Clients <- TwoClients
  Chars = {"x", "nl"}
  NL = "nl"
  LastFd = 2
  BufSize = 2
  SockBuf = 1
  Lazy = {c2}
  MaxText <- Texts
SPECIFICATION Spec
PROPERTY NeverHeldUp
CHECK_DEADLOCK FALSE
