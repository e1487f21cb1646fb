SPECIFICATION Spec
CONSTANTS
  A = A  B = B  C = C  D = D  a1 = a1  b1 = b1  c1 = c1
  None = None
  Servers = {A, B, C}
  Connects <- Line3
  Hubs = {A, B, C}
  HubMask <- Open
  LeafMask <- Nobody
  Uids = {a1, c1}
  Home <- Homes
  Nicks = {"n1"}
  Timestamps = {1, 2}
  Ident <- Strangers
  Opers = {}
  Limit <- Limits
  nConnect = 3  nBreak = 1  nSquit = 0  nNick = 0  nKill = 0  nQuit = 0
INVARIANTS UsersAgree
CHECK_DEADLOCK FALSE
