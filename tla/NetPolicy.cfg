SPECIFICATION Spec
CONSTANTS
  A = A  B = B  C = C  D = D  a1 = a1  b1 = b1  c1 = c1
  None = None
  Servers = {A, B, C, D}
  Connects <- Ring
  Hubs = {A, B}
  HubMask <- NoD
  LeafMask <- NoC
  Uids = {c1}
  Home <- Homes
  Nicks = {"n1"}
  Timestamps = {1}
  Ident <- Strangers
  Opers = {c1}
  Limit <- Limits
  nConnect = 4  nBreak = 1  nSquit = 1  nNick = 0  nKill = 0  nQuit = 0
INVARIANTS Reachable
CHECK_DEADLOCK FALSE
