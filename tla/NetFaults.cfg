SPECIFICATION FairSpec
CONSTANTS
  A = A  B = B  C = C  D = D  a1 = a1  b1 = b1  c1 = c1
  None = None
  Servers = {A, B, C}
  Connects <- Line3
  Hubs = {A, B, C}
  HubMask <- Open
  LeafMask <- Nobody
  Uids = {a1, c1}
  Home <- Homes
  Nicks = {"n1"}
  Timestamps = {1, 2}
  Ident <- Strangers
  Opers = {a1}
  Limit <- Limits
  nConnect = 3  nBreak = 1  nSquit = 1  nNick = 0  nKill = 1  nQuit = 0
INVARIANTS TypeOK NickUnique
PROPERTIES Settles
CHECK_DEADLOCK FALSE
