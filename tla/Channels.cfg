SPECIFICATION Spec
INVARIANTS ChannelsAgree NoTakeover BanCacheFresh InvitesMatch
CHECK_DEADLOCK FALSE
CONSTANTS
 Users <- MCUsers
 Args <- MCArgs
 Nuh <- MCNuh
 Atoi <- MCAtoi
 KeyRank <- MCKeyRank
 Topics = {"", "t"}
 Idents = {"bad", "good"}
 Matches <- MCMatches
 MAXMODEPARAMS = 2
 MaxBans = 2
 Servers <- MCServers
 Chans <- MCChans
 Home <- MCHome
 Umodes <- MCUmodes
 Services <- Nobody
 Reserved <- Nobody
 Texts = {"plain"}
 NewIdents = {"bad"}
 MaxChannels = 1
 Scenes <- MCScenes
 ClassChannels <- MCClasses
 SplitServers = 2
 SplitUsers = 1
 MaxTime = 3
 MaxConnects = 2
