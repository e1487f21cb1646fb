SPECIFICATION FairSpec
CONSTANTS
  None = None
  Clients = {"c1", "c2"}
  Covers <- MCCovers
  Bucket <- MCBucket
  AddrOf <- MCAddrOf
  Wide = {"*"}
  BlankNames = {"^"}
  Voters <- MCVoters
  Rights <- MCRights
  Local = {"oper"}
  Glines = TRUE
  GlineTime = 120  RequestTime = 120  MaxMinutes = 2  MaxTime = 180
  BanScenes <- MCBanScenes
  Names = {"a", "b"}
  DBHash <- MCDBHash
  CEHash <- MCCEHash
  Hashes = {0, 1}
  Hosts = {"h1", "h2"}
  DAYSAMPLES = 2  MAXOPCOUNT = 2  InitOps = 1  MAXNOTECOUNT = 2
  FirstDay = 4  MaxDay = 6
  DBScenes <- MCDBScenes
  ChanClients = {"c1", "c2", "c3"}
  Host <- MCHost
  HostScore <- MCScore
  MaxScore = 100  NumOpped = 2  MinClients = 2
  AUTOFIX_INTERVAL = 2  AUTOFIX_MAXIMUM = 4
  CHANFIX_DELAY = 1  CHANFIX_INTERVAL = 2  CHANFIX_MAXIMUM = 4
  MaxTS = 2  MaxAge = 7  Bustle = 2
  Nicks = {"n1", "n2"}
  Addrs = {"ao", "aj", "ak", "ax"}
  UserHost <- MCUserHost
  Server <- MCServer
  Opers = {"ao", "aj", "ak"}
  Ignored = {"ax"}
  FlagsPerServer <- MCFlags
  FirstUsers <- MCFirstUsers
  FirstSaved <- MCFirstSaved
  UserScenes <- MCUserScenes
  ALIGNMENT = 8  MIN_CHUNK = 4096  MAX_CHUNK = 8388608
  CHUNK_OVERHEAD = 64  HEADER = 8  ALLOCATED = 16
  Setups <- MCSetups
  Sizes <- MCSizes
  Limit <- MCLimit
  Locals = {"c1", "c2", "c3"}
  Links = {"s1", "s2"}
  From <- MCFrom
  Operators = {"c1"}
  Deaf = {"r2"}  CallerId = {"c3"}  RegOnly = {"c1"}  Away = {"c1"}
  Accepts <- MCMessageAccepts
  Members <- MCMessageMembers
  CanSend <- MCMessageCanSend
  MaskCovers <- MCMessageCovers
  SendqMax <- MCMessageSendqMax
  RecvqMax = 11
  MAX_FLOOD = 3  MAX_FLOOD_BURST = 4  FloodCount = 2
  MaxTargets = 2  CallerIdWait = 1
  MessageScenes <- MCMsgScenes
INVARIANTS IndexFinds ScoresRight CopySurvives OneFix SessionsProved RightsKept BansEnforced BansKept Delivered FloodBounded RehashFresh RefsRight ReportsTrue TablesMatch CountsRight OpersRight CommandsRight PoolsRight
PROPERTIES FixEnds ThreeOpers
CHECK_DEADLOCK FALSE
