SPECIFICATION Spec
CONSTANTS
  A = A  B = B  C = C  D = D  a1 = a1  b1 = b1  c1 = c1
  None = None
  Servers = {A, B, C}
  Connects <- Line3
  Hubs = {A, B, C}
  HubMask <- Open
  LeafMask <- Nobody
  Uids = {a1, b1, c1}
  Home <- Homes
  Nicks = {"n1", "n2"}
  Timestamps = {1, 2}
  Ident <- Reconnect
  Opers = {a1}
  Limit <- Limits
  nConnect = 2  nBreak = 0  nSquit = 0  nNick = 1  nKill = 0  nQuit = 0
INVARIANTS UsersAgree WinnerSurvives
CHECK_DEADLOCK FALSE
