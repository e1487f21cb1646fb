SPECIFICATION FairSpec
CONSTANTS
  c1 = c1  c2 = c2
  None = None
  Clients = {c1, c2}
  Addrs = {"a"}
  MaxPerIp = 0
  MaxTotal = 1
  MaxClients = 2
  FdLimit = 3
  SocketFails = FALSE
PROPERTIES AuthEnds Reaped
CHECK_DEADLOCK FALSE
