SPECIFICATION Spec
CONSTANTS
  c1 = c1  c2 = c2
  None = None
  Clients = {c1, c2}
  Addrs = {"a"}
  MaxPerIp = 1
  MaxTotal = 0
  MaxClients = 2
  FdLimit = 3
  SocketFails = TRUE
INVARIANTS ClosesOpen

CHECK_DEADLOCK FALSE
