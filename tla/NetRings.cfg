SPECIFICATION Spec
CONSTANTS
  A = A  B = B  C = C  D = D  a1 = a1  b1 = b1  c1 = c1
  None = None
  Servers = {A, B, C}
  Connects <- Triangle
  Hubs = {A, B, C}
  HubMask <- Open
  LeafMask <- Nobody
  Uids = {c1}
  Home <- Homes
  Nicks = {"n1"}
  Timestamps = {1}
  Ident <- Strangers
  Opers = {}
  Limit <- Limits
  nConnect = 4  nBreak = 1  nSquit = 0  nNick = 0  nKill = 0  nQuit = 1
INVARIANTS ServersAgree NoLoop NoIdCollision
CHECK_DEADLOCK FALSE
