------------------------------ MODULE MCParts ------------------------------
(***************************************************************************)
(* Instances of the parts of the server that keep state of their own and   *)
(* meet the others only through what their modules leave open. Each        *)
(* behaviour is one of a single part, chosen in the initial state. The     *)
(* parts with theorems are extended, so that what is checked here is what  *)
(* is proved; they rest in an initial state when another one moves. The    *)
(* variables v1 .. v6 are those of one of the other parts, in the order    *)
(* of its module.                                                          *)
(***************************************************************************)
EXTENDS Bans, ChanfixDB, ChanfixFix, ChanfixUsers, Pools, Messages, TLC

VARIABLES part, v1, v2, v3, v4, v5, v6
rest == <<v1, v2, v3, v4, v5, v6>>
vars == <<part, bansvars, dbvars, allfixvars, usersvars, poolsvars, messagesvars, rest>>

(* Two channels of one sub-database whose second one has the smaller hash. *)
MCDBHash == [n \in {"a", "b"} |-> 0]
MCCEHash == "a" :> 1 @@ "b" :> 0
DBScene(steps, saves, names, commands) == [saves |-> saves, steps |-> steps, names |-> names, commands |-> commands]
DBRest == DBScene(0, 0, {}, FALSE)
MCDBScenes == {DBRest, DBScene(2, 1, {"a"}, FALSE), DBScene(1, 3, {"a"}, FALSE), DBScene(3, 0, {"a", "b"}, TRUE)}

(* A channel with a regular operator, an occasional one and a newcomer.    *)
MCHost == "c1" :> "h1" @@ "c2" :> "h3" @@ "c3" :> "h2"
MCScore == "h1" :> 80 @@ "h2" :> 20 @@ "h3" :> 0

(* An owner and a server admin, whose user@host is also seen on s2.        *)
User(id, name, flags, hosts, main, srvs, umode) ==
    [id |-> id, name |-> name, flags |-> flags, pass |-> "p", hosts |-> hosts, main |-> main,
     servers |-> srvs, umode |-> umode, deleted |-> FALSE]
MCUserHost == "ao" :> "ho" @@ "aj" :> "hj" @@ "ak" :> "hj" @@ "ax" :> "hx"
MCServer == "ao" :> "s1" @@ "aj" :> "s1" @@ "ak" :> "s2" @@ "ax" :> "s1"
MCFlags == [f \in {"f"} |-> 1]
MCFirstUsers == <<User(1, "own", {"o"}, {"ho"}, "s1", <<>>, {"u", "l", "m"}), User(2, "joe", {"a"}, {"hj"}, None, <<"s1">>, {"l"})>>
MCFirstSaved == {<<"own", "n1", "ao">>}
UserLine(cmd, name, arg) == [cmd |-> cmd, name |-> name, arg |-> arg, to |-> "user@server"]
UserScene(steps, cmds, lines) ==
    [steps |-> steps, cmds |-> cmds, clients |-> ("n1" :> "ao" @@ "n2" :> "aj"), lines |-> lines]
UsersRest == UserScene(0, {}, {})
MCUserScenes ==
    {UsersRest,
     UserScene(4, {"Crash", "Stop"},
       {UserLine("LOGIN", "joe", "p"), UserLine("DELUSER", "joe", None), UserLine("ADDUSER", "joe", "hj"),
        UserLine("REHASH", None, None), UserLine("LOGOUT", None, None)}),
     UserScene(3, {},
       {UserLine("LOGIN", "joe", "p"), [UserLine("LOGIN", "joe", "p") EXCEPT !.to = "nick"], UserLine("LOGIN", "joe", None),
        UserLine("LOGIN", "joe", "q"), UserLine("PASSWD", "p", "q"), UserLine("UMODE", None, {}),
        UserLine("ADDFLAG", "joe", "f"), UserLine("ADDFLAG", "joe", "u"), UserLine("DELFLAG", "joe", "a"),
        UserLine("ADDHOST", "joe", "ho"), UserLine("DELHOST", "joe", "hj"), UserLine("ADDUSER", "ann", "hj"),
        UserLine("CHPASS", "joe", "q"), UserLine("CHPASS", "own", "q"), UserLine("ADDSERVER", "joe", "s2"),
        UserLine("ADDSERVER", "ann", "s2"), UserLine("DELSERVER", "joe", "s2"), UserLine("SETMAINSERVER", "joe", "s2"),
        UserLine("REHASH", None, None)})}

(* Two addresses of one network; c2 is exempt from G-lines. "no" holds the *)
(* gecos of a client.                                                      *)
AllMasks == {"*", "net", "ip1", "ip2", "no", "nick", "#chan"}
BanEntry(m, ex) == [mask |-> m, until |-> 0, db |-> FALSE, ex |-> ex]
ConfFile(A, E, K) == [k \in {"A", "E", "K", "D", "G", "X", "N", "C"} |->
                        CASE k = "A" -> A [] k = "E" -> E [] k = "K" -> K [] OTHER -> <<>>]
Auths == <<BanEntry("ip2", {"g"}), BanEntry("*", {})>>
Plain == ConfFile(Auths, <<>>, <<>>)
BanLine(cmd, src, arg, time, kind) == [cmd |-> cmd, src |-> src, arg |-> arg, time |-> time, kind |-> kind]
BanScene(steps, acts, confs, names, masks, lines) ==
    [steps |-> steps, acts |-> acts, confs |-> confs, names |-> names, masks |-> masks, lines |-> lines,
     glined |-> IF "del" \in acts THEN masks ELSE {}]
MCCovers == "*" :> {"c1", "c2"} @@ "net" :> {"c1", "c2", "ip1", "ip2"} @@ "ip1" :> {"c1"} @@ "ip2" :> {"c2"}
            @@ "no" :> {"no1"} @@ "nick" :> {} @@ "#chan" :> {}
MCBucket == [m \in AllMasks |-> m]
MCAddrOf == "c1" :> "ip1" @@ "c2" :> "ip2"
MCVoters == {[who |-> w, server |-> t] : w \in {"w1"}, t \in {"s1"}} \cup
            {[who |-> "w2", server |-> "s1"], [who |-> "w2", server |-> "s2"], [who |-> "w3", server |-> "s3"]}
MCRights == "oper" :> {"KLINE", "UNKLINE", "DLINE", "UNDLINE", "XLINE", "UNXLINE", "RESV", "UNRESV"} @@
            "peer" :> {"KLINE", "DLINE", "XLINE"}
BansRest == BanScene(0, {}, <<ConfFile(<<>>, <<>>, <<>>)>>, {}, {}, {})
MCBanScenes ==
    {BansRest,
     BanScene(5, {"connect", "rehash", "rchg"},
       <<Plain, ConfFile(Auths, <<BanEntry("ip1", {})>>, <<BanEntry("net", {})>>)>>, {"no1", "^"}, {},
       {BanLine("KLINE", "oper", "c1", None, None), BanLine("DLINE", "oper", "net", None, None),
        BanLine("XLINE", "oper", "no", None, None)}),
     BanScene(5, {"connect", "rehash"},
       <<ConfFile(Auths, <<BanEntry("ip1", {})>>, <<>>), ConfFile(Auths, <<BanEntry("ip1", {})>>, <<BanEntry("net", {})>>)>>,
       {"^"}, {}, {BanLine("DLINE", "oper", "net", None, None), BanLine("UNDLINE", "oper", "net", None, None)}),
     BanScene(4, {"rehash", "save", "stop", "crash", "fail", "tick"}, <<Plain>>, {}, {},
       {BanLine("KLINE", "oper", "net", 0, None), BanLine("KLINE", "peer", "ip1", 0, None),
        BanLine("UNKLINE", "oper", "ip1", None, None)}),
     BanScene(3, {"stop", "tick"}, <<Plain>>, {}, {},
       {BanLine("DLINE", "peer", "net", 60, None), BanLine("UNDLINE", "oper", "net", None, None),
        BanLine("XLINE", "peer", "no", 60, None), BanLine("UNXLINE", "oper", "no", None, None),
        BanLine("RESV", "oper", "nick", None, "N"), BanLine("RESV", "peer", "#chan", 60, "C"),
        BanLine("UNRESV", "oper", "#chan", None, "C")}),
     BanScene(4, {"add", "tick"}, <<Plain>>, {}, {"net"}, {}),
     BanScene(4, {"add", "connect"}, <<Plain>>, {"no1"}, {"net"}, {}),
     BanScene(4, {"del", "tick"}, <<Plain>>, {}, {"net"}, {})}

(* Chunks of 2 and of 3 items, with the sizes of a 64-bit build.           *)
MCSetups == {{"x"}, {"y"}, {"z", "w"}}
MCLimit == "x" :> 3 @@ "y" :> 3 @@ "z" :> 1 @@ "w" :> 2
MCSizes == [p \in {"x", "y", "z", "w"} |-> IF p = "y" THEN <<2040, 3000>> ELSE <<2000, 4100>>]

(* c2, an oper, a caller-id user and two links; r1 and r3 are behind one.  *)
Text(text) == <<[text |-> text], [text |-> "eol"]>>
To(kind, name, type) == [kind |-> kind, name |-> name, type |-> type]
Msg(cmd, src, targets) == <<[text |-> cmd, src |-> src, targets |-> targets], [text |-> "eol"]>>
Hall == To("channel", "#x", {})
Say(src) == Msg("PRIVMSG", src, <<Hall>>)
MsgScene(c1, c2, s1, room, drains, resets, ssl, cuts, time) ==
    [wire |-> ("c1" :> c1 @@ "c2" :> c2 @@ "c3" :> <<>> @@ "s1" :> s1 @@ "s2" :> <<>>),
     room |-> room, drains |-> drains, resets |-> resets, ssl |-> ssl, cuts |-> cuts, time |-> time]
MsgRest == MsgScene(<<>>, <<>>, <<>>, 0, 0, {}, {}, {}, 0)
MCFrom == [u \in {"c1", "c2", "c3", "s1", "s2", "r1", "r2", "r3"} |->
                   CASE u \in {"r1", "r3"} -> "s1" [] u = "r2" -> "s2" [] OTHER -> u]
MCMessageAccepts == {<<"c1", "c3">>}
MCMessageMembers == "#x" :> <<[who |-> "r1", flags |-> {}], [who |-> "c1", flags |-> {"o"}], [who |-> "r3", flags |-> {"v"}],
                             [who |-> "c2", flags |-> {}], [who |-> "r2", flags |-> {"o"}]>>
MCMessageCanSend == [x \in {"c1", "c2", "c3", "r1", "r2", "r3"} \X {"#x"} |->
                      CASE x[1] \in {"c1", "r3", "r2"} -> "OPV" [] x[1] = "c3" -> "no" [] OTHER -> "NONOP"]
MCMessageCovers == "$$*" :> {"c1", "c2", "c3"}
MCMessageSendqMax == [c \in {"c1", "c2", "c3", "s1", "s2"} |-> IF c \in {"s1", "s2"} THEN 4 ELSE 6]
MCMsgScenes ==
    {MsgRest,
     MsgScene(<<>>, Say("c2") \o Say("c2") \o Say("c2"), Say("r1") \o Say("r3"), 3, 2, {"s1"}, {}, {2, 4}, 0),
     MsgScene(Say("c1") \o Say("c1") \o Msg("NOTICE", "c1", <<To("special", "$$*", {}), To("client", "r2", {})>>),
       <<>>, Say("r1"), 1, 3, {"c2"}, {"c2"}, {4, 5}, 0),
     MsgScene(<<>>, Msg("PRIVMSG", "c2", <<Hall, To("client", "c1", {}), Hall, To("channel", "#x", {"o"}), To("client", "c3", {})>>)
       \o Msg("NOTICE", "c2", <<To("none", "n", {}), To("client", "c2", {}), To("client", "r1", {}), To("client", "c3", {})>>),
       Msg("PRIVMSG", "r1", <<To("client", "c3", {}), To("special", "$$*", {})>>)
       \o Msg("PRIVMSG", "r3", <<To("channel", "#x", {"o"}), To("client", "c3", {})>>), 9, 0, {}, {}, {2}, 2),
     MsgScene(<<>>, Say("c2") \o Say("c2") \o <<[text |-> "eol"]>> \o Text("PING") \o Say("c2") \o Text("PING")
       \o Text("PING") \o Text("PING") \o Text("PING") \o Say("c2") \o Text("PING"), <<>>, 9, 0, {}, {}, {8, 13}, 4),
     MsgScene(<<>>, Say("c2") \o Text("PING") \o Text("INVITE") \o Text("PING") \o Text("PING") \o Text("PING")
       \o Text("PING"), <<>>, 9, 0, {}, {}, {4, 10}, 2)}

(* What the proofs about five of the parts suppose of their constants.     *)
ASSUME ConstantsRight == ScenesRight /\ SizesRight /\ FirstRight /\ IndexRight /\ LimitsRight

(* ircd.conf before and after edits: classes, opers, peers, ports, bans.   *)
K(key, val) == [k |-> key, v |-> val]
Blk(kind, items) == [kind |-> kind, items |-> items]
Me == Blk("serverinfo", <<K("name", "irc"), K("sid", "0AA"), K("description", "test")>>)
Port(p, q, flags) == Blk("listen", <<K("flags", flags), K("port", <<p, q>>)>>)
Class(name, items) == Blk("class", <<K("name", name)>> \o items)
AuthFor(mask, class, flags) == Blk("auth", <<K("user", mask), K("class", class), K("flags", flags)>>)
OperFor(mask, class) == Blk("operator", <<K("name", "op"), K("user", mask), K("password", "p"), K("class", class)>>)
Peer(host, class) == Blk("connect", <<K("name", "hub"), K("host", host), K("accept_password", "p"), K("send_password", "q"), K("class", class)>>)
Throttle(n) == Blk("general", <<K("throttle_count", n), K("throttle_time", 2)>>)
Cidr(bits, n) == <<K("cidr_bitlen_ipv4", bits), K("number_per_cidr", n)>>
ConfClasses == <<
    <<Me, Port(1, 1, {}), Class("users", Cidr(1, 2) \o <<K("max_number", 3)>>), Class("staff", <<K("max_number", 1)>>),
      AuthFor("*", "users", {}), OperFor("*", "users"), OperFor("*", "staff"), Throttle(3)>>,
    <<Me, Port(1, 1, {}), OperFor("*", "staff"), AuthFor("*", "users", {"exceed_limit"}), Class("users", Cidr(1, 1))>>,
    <<Me, AuthFor("*", "users", {})>>>>
ConfPeers == <<
    <<Me, Port(1, 1, {"server"}), Class("peers", <<>>), Peer("name", "peers"), Throttle(3)>>,
    <<Me, Port(1, 1, {"server"}), Peer("ip", "peers"), Peer("*", "peers")>>>>
ConfPorts == <<
    <<Me, Port(1, 2, {}), Class("users", <<K("number_per_ip", 1)>>), AuthFor("*", "users", {}), Throttle(1)>>,
    <<Me, Port(2, 3, {"hidden"}), AuthFor("ip1", "users", {"kline_exempt"}), AuthFor("*", "users", {}),
      Blk("kill", <<K("user", "*")>>), Throttle(2)>>,
    <<Me, Blk("listen", <<K("ip", "ip"), K("port", <<2, 2>>)>>), AuthFor("*", "users", {}), Blk("deny", <<K("ip", "*")>>),
      Blk("exempt", <<K("ip", "ip1")>>)>>>>
ConfAll == <<
    <<Blk("serverinfo", <<K("ssl_certificate_file", "crt"), K("rsa_private_key_file", "key"), K("max_nick_length", 99),
                          K("vhost", "ip"), K("ssl_cipher_list", "c"), K("ssl_dh_param_file", "bad"), K("hub", TRUE)>>),
      Me, Class("default", <<K("recvq", 9), K("flags", {"hide_idle"})>>), Port(0, 1, {"ssl"}),
      Class("users", <<K("min_idle", <<<<2, "minutes">>>>), K("max_idle", <<<<90, "">>>>), K("recvq", 1)>>),
      Blk("modules", <<K("path", "dir"), K("path", "dir"), K("module", "m")>>), Blk("admin", <<K("name", "a")>>),
      Blk("motd", <<K("mask", "users"), K("mask", "*"), K("file", "f")>>), Blk("log", <<K("file", "f"), K("type", "oper"), K("size", 1)>>),
      Blk("pseudo", <<K("command", "CS"), K("name", "cs"), K("target", <<"n", "s">>)>>),
      Blk("pseudo", <<K("command", "OPER"), K("name", "o"), K("target", <<"n", "s">>)>>),
      Blk("operator", <<K("name", "op"), K("user", "ip1"), K("user", "*"), K("rsa_public_key_file", "bad"), K("umodes", {"s"}),
                        K("flags", {"kill"}), K("encrypted", FALSE), K("ssl_connection_required", TRUE)>>),
      Blk("auth", <<K("user", "*"), K("spoof", "a"), K("flags", {"resv_exempt"}), K("redirserv", "b"), K("encrypted", TRUE)>>),
      Blk("resv", <<K("name", "n"), K("exempt", "*")>>), Blk("resv", <<K("name", "n"), K("reason", "r")>>), Blk("service", <<K("name", "s")>>),
      Blk("shared", <<K("name", "s"), K("user", "ip1"), K("type", {"kline", "all"})>>), Blk("cluster", <<K("type", {"xline"})>>),
      Blk("connect", <<K("name", "hub"), K("host", "name"), K("accept_password", "p"), K("send_password", "q"), K("encrypted", TRUE),
                       K("flags", {"autoconn"}), K("hub_mask", "*"), K("leaf_mask", "*"), K("vhost", "name")>>),
      Blk("gecos", <<K("name", "g")>>), Blk("channel", <<K("max_bans", 5)>>), Blk("serverhide", <<K("links_delay", 0), K("hidden", TRUE)>>),
      Blk("general", <<K("max_watch", 1), K("ts_max_delta", 1), K("oper_umodes", {"s"}), K("oper_only_umodes", {"x"}),
                       K("stats_k_oper_only", "masked"), K("pace_wait", 7)>>)>>,
    <<Me, Class("users", <<K("sendq", <<<<1, "kbytes">>, <<1, "">>>>), K("ping_time", <<<<1, "minutes">>>>), K("max_idle", <<<<3, "">>>>)>>),
      Blk("serverhide", <<K("links_delay", 60)>>), Blk("motd", <<K("mask", "users")>>), Blk("pseudo", <<K("command", "CS")>>),
      Blk("operator", <<K("name", "op"), K("user", "*")>>), Blk("connect", <<K("name", "*"), K("host", "name"), K("send_password", "bad")>>),
      Blk("deny", <<K("ip", "name")>>), Blk("exempt", <<K("ip", "name")>>), Blk("gecos", <<>>), Blk("kill", <<>>),
      Blk("serverinfo", <<K("ssl_certificate_file", "crt2"), K("vhost", "*")>>), Blk("log", <<K("type", "oper")>>)>>,
    <<Me, Blk("general", <<K("havent_read_conf", 1)>>)>>>>
ConfScene(edits, steps, acts) == [files |-> edits, steps |-> steps, acts |-> acts]
ConfAddr == ("c1" :> <<0, 0>> @@ "c2" :> <<0, 1>> @@ "s1" :> <<1, 1>>)
ConfCovers == ("*" :> {"c1", "c2", "s1"} @@ "ip1" :> {"c1"} @@ "name" :> {"s1"} @@ "ip" :> {"s1"})
ConfOperName == [c \in {"c1", "c2"} |-> "op"]
ConfServerName == "s1" :> "hub"
ConfClassDefaults == ("ping_time" :> 120 @@ "connectfreq" :> 300 @@ "max_number" :> 10 @@ "sendq" :> 9 @@ "recvq" :> 5 @@
                          [k \in {"number_per_ip", "max_channels", "max_global", "max_local", "max_ident", "min_idle", "max_idle",
                                  "cidr_bitlen_ipv4", "number_per_cidr"} |-> 0])
ConfUnit == ("" :> 1 @@ "minutes" :> 60 @@ "kbytes" :> 1024)
Conf == INSTANCE Config WITH
        Clients <- {"c1", "c2"},
        Servers <- {"s1"},
        Addr <- ConfAddr,
        Covers <- ConfCovers,
        OperName <- ConfOperName,
        ServerName <- ConfServerName,
        ClassDefaults <- ConfClassDefaults,
        RecvqMin <- 2,
        RecvqMax <- 9,
        TsWarnMin <- 10,
        TsMaxMin <- 10,
        WatchMin <- 3,
        NickMin <- 9,
        NickMax <- 12,
        ClientsMin <- 1,
        ClientsMax <- 9,
        Unit <- ConfUnit,
        Busy <- {3},
        Unreadable <- {"bad"},
        Wild <- {"*", "bad"},
        HostNames <- {"name"},
        Commands <- {"OPER"},
        Scenes <- {ConfScene(ConfClasses, 7, {"accept", "oper", "quit", "rehash"}),
                   ConfScene(ConfPeers, 5, {"accept", "server", "quit", "rehash"}),
                   ConfScene(ConfPorts, 4, {"accept", "quit", "rehash", "tick"}),
                   ConfScene(ConfAll, 3, {"rehash"})},
        srv <- v1,
        file <- v2,
        now <- v3,
        scene <- v4

(* Two connections, the second of which may not change its nickname, and   *)
(* a user of another server, all with one username.                        *)
Room(size, made, topicts, topic, secret) == [size |-> size, ts |-> made, topicts |-> topicts, topic |-> topic, secret |-> secret]
ListScene(steps, acts, nicks, at) == [steps |-> steps, acts |-> acts, nicks |-> nicks, at |-> at]
Both == <<<<"c1", "a">>, <<"c2", "b">>>>
ListUserName == [c \in {"c1", "c2", "r1"} |-> "u"]
ListHostOf == ("c1" :> "h1" @@ "c2" :> "h1" @@ "r1" :> "h2")
ListFold == ("a" :> "a" @@ "A" :> "a" @@ "b" :> "b")
Liststrhash == [x \in {"c1", "c2", "r1", "a", "b", "h1", "h2", "#1", "#2", "#3"} |-> IF x \in {"r1", "#3"} THEN 2 ELSE 1]
ListChannels == ("#1" :> Room(1, 1, 0, "", FALSE) @@ "#2" :> Room(2, 0, 1, "t", TRUE) @@ "#3" :> Room(1, 1, 1, "t", FALSE))
ListOptions == {<<>>, <<K("<", 2)>>, <<K("mask", "#1")>>, <<K("T:", "t"), K("!", "#1")>>}
ListMoreOptions == {<<K(">", 0), K("mask", "*")>>, <<K("<", 0)>>, <<K(">", -1)>>, <<K("C<", 1), K("C>", 1)>>, <<K("T<", 0)>>,
                        <<K("T>", 1)>>, <<K("mask", "#2"), K("mask", "#3")>>, <<K("?", 0)>>}
List == INSTANCE Lists WITH
        Local <- {"c1", "c2"},
        Remote <- {"r1"},
        Opme <- {"c1"},
        UserName <- ListUserName,
        HasIdent <- {"c1"},
        HostOf <- ListHostOf,
        Fold <- ListFold,
        HASHSIZE <- 2,
        strhash <- Liststrhash,
        Hosts <- {"h1", "h2"},
        NICKNAMEHISTORYLENGTH <- 2,
        ChaseTime <- 1,
        MaxWatch <- 2,
        MaxAccept <- 1,
        Masks <- {"m1", "m2"},
        HalfSendq <- 1,
        Channels <- ListChannels,
        Options <- ListOptions,
        MoreOptions <- ListMoreOptions,
        Scenes <- {ListScene(6, {"user", "watch", "nick"}, {"a", "b"}, <<<<"c1", "a">>>>),
                   ListScene(5, {"remote", "watch", "services", "quit"}, {"a", "b"}, Both),
                   ListScene(6, {"nick", "services", "remote", "tick", "quit"}, {"a", "A", "b"}, <<<<"c1", "a">>>>),
                   ListScene(6, {"list", "chan"}, {}, <<<<"c1", "a">>>>),
                   ListScene(3, {"list", "chan", "options", "quit", "accept"}, {}, Both)},
        srv <- v1,
        now <- v2,
        scene <- v3

(* Servers l - h - k with the services at h; c1 is on l, c2 and c3 on h.   *)
Block(name, covers, ssl, certfp, key, umodes, flags, whois) ==
    [name |-> name, covers |-> covers, ssl |-> ssl, certfp |-> certfp, key |-> key, modes |-> umodes, flags |-> flags, whois |-> whois]
UMode(add, c) == [add |-> add, c |-> c]
OperScene(steps, at, acts, umodes, svs, sets) ==
    [steps |-> steps, at |-> at, acts |-> acts, modes |-> umodes, svs |-> svs, sets |-> sets]
Deoper == <<UMode(FALSE, "o")>>
OperHop == [p \in {"l", "h", "k", "svc"} \X {"l", "h", "k", "svc"} |-> IF p[1] = "h" \/ p[2] = "h" THEN p[2] ELSE "h"]
OperHome == ("c1" :> "l" @@ "c2" :> "h" @@ "c3" :> "h")
OperFirstConf == [opers |-> <<Block("op", {"c2"}, TRUE, None, FALSE, {"i"}, {}, FALSE),
                                  Block("op", {"c1"}, TRUE, {"c1"}, TRUE, {"i"}, {"admin", "set", "opme"}, TRUE)>>,
                      oper_umodes |-> {"s"}, oper_only |-> {"s", "i"}, invisible |-> TRUE]
OperNextConf == [opers |-> <<Block("op", {"c1", "c2"}, FALSE, None, FALSE, {}, {"set", "opme"}, FALSE)>>,
                     oper_umodes |-> {"s"}, oper_only |-> {"s", "w"}, invisible |-> FALSE]
Oper == INSTANCE Opers WITH
        Servers <- {"l", "h", "k", "svc"},
        Services <- "svc",
        Hop <- OperHop,
        Clients <- {"c1", "c2", "c3"},
        Home <- OperHome,
        Ssl <- {"c1"},
        Exempt <- {"c3"},
        FirstConf <- OperFirstConf,
        NextConf <- OperNextConf,
        OnSplit <- TRUE,
        SplitServers <- 4,
        SplitUsers <- 1,
        MaxClients <- 1,
        MAXCLIENTS_MIN <- 1,
        MAXCLIENTS_MAX <- 2,
        MAX_BUFFER <- 1,
        MIN_SPAM_NUM <- 2,
        MIN_SPAM_TIME <- 10,
        AwayTime <- 1,
        AwayCount <- 0,
        Scenes <- {OperScene(4, {"c1"}, {"oper", "mode", "svsmode"},
                     {Deoper, <<UMode(TRUE, "i"), UMode(TRUE, "a"), UMode(TRUE, "o"), UMode(TRUE, "r"), UMode(TRUE, "s")>>},
                     {Deoper, <<UMode(TRUE, "r"), UMode(TRUE, "i"), UMode(TRUE, "d")>>}, {}),
                   OperScene(3, {"c1"}, {"oper", "mode", "svsmode", "rehash"}, {<<UMode(FALSE, "i")>>}, {<<UMode(FALSE, "i")>>}, {}),
                   OperScene(3, {"c1"}, {"oper", "nick", "svsnick", "svsmode", "svstag"}, {}, {<<UMode(TRUE, "r")>>}, {}),
                   OperScene(4, {"c1"}, {"nick", "svsnick", "svsmode"}, {}, {<<UMode(TRUE, "r")>>}, {}),
                   OperScene(4, {"c1", "c2"}, {"challenge", "rehash", "mode", "quit"}, {Deoper}, {}, {}),
                   OperScene(4, {}, {"register", "quit", "split"}, {}, {}, {}),
                   OperScene(4, {"c1"}, {"oper", "split", "link", "away", "tick", "mode"}, {<<UMode(TRUE, "i")>>}, {}, {}),
                   OperScene(4, {"c1"}, {"oper", "set", "split", "link"}, {}, {},
                     {K("SPLITMODE", "ON"), K("SPLITMODE", "OFF"), K("SPLITMODE", "AUTO"), K("SPLITNUM", 2), K("SPLITUSERS", 2)}),
                   OperScene(3, {"c1"}, {"oper", "set", "mode"}, {<<UMode(FALSE, "a")>>}, {},
                     {K("MAX", 2), K("MAX", 3), K("SPAMNUM", 0), K("SPAMNUM", 1), K("SPAMTIME", 0), K("SPAMTIME", 1),
                      K("IDENTTIMEOUT", 0), K("IDENTTIMEOUT", 1), K("FLOODCOUNT", 0)})},
        srv <- v1,
        q <- v2,
        now <- v3,
        used <- v4,
        lost <- v5,
        scene <- v6

(* WHO and WHOIS share a path; m_evo is in the core table without the flag *)
(* of a core module. CS and WHO are pseudo commands, and CS2, whose 2 has  *)
(* the slot of R.                                                          *)
Mod(cmds, caps, isupport, core, resident) == [cmds |-> cmds, caps |-> caps, isupport |-> isupport, core |-> core, resident |-> resident]
Who == <<"w", "h", "o">>
Whois == <<"w", "h", "o", "i", "s">>
CS == <<"c", "s">>
CS2 == <<"c", "s", "2">>
ModFile(paths, modules, pseudos) == [paths |-> paths, modules |-> modules, pseudos |-> pseudos]
CmdScene(steps, acts, edits, args, breaks) == [steps |-> steps, acts |-> acts, files |-> edits, args |-> args, breaks |-> breaks]
CmdsSlot == [x \in {"c", "e", "h", "i", "k", "m", "o", "r", "s", "u", "w", "2"} |-> IF x = "2" THEN "r" ELSE x]
CmdsModule == ("m_who" :> Mod(<<Who>>, <<>>, <<>>, FALSE, FALSE) @@ "m_whois" :> Mod(<<Whois>>, <<"kw">>, <<"ks">>, FALSE, FALSE)
                   @@ "m_module" :> Mod(<<<<"m", "o">>>>, <<>>, <<>>, FALSE, TRUE) @@ "m_kick" :> Mod(<<<<"k", "i", "c", "k">>>>, <<>>, <<>>, TRUE, FALSE)
                   @@ "m_evo" :> Mod(<<<<"u", "s", "r">>, <<"r", "c">>, <<"u">>>>, <<>>, <<>>, FALSE, FALSE))
CmdsAutoload == <<"m_who", "m_module", "m_whois">>
CmdsCoreTable == <<"m_kick", "m_evo">>
CmdsCaps == <<"qs">>
CmdsIsupport == <<"callerid">>
Cmds == INSTANCE Commands WITH
        Slot <- CmdsSlot,
        Alpha <- {"c", "e", "h", "i", "k", "m", "o", "r", "s", "u", "w"},
        Module <- CmdsModule,
        Autoload <- CmdsAutoload,
        CoreTable <- CmdsCoreTable,
        MODPATH <- "core",
        AUTOMODPATH <- "auto",
        Caps <- CmdsCaps,
        Isupport <- CmdsIsupport,
        Scenes <- {CmdScene(7, {"start", "module", "install"}, <<ModFile(<<"core", "auto", "core">>, <<>>, <<CS>>)>>,
                     {"m_who", "m_whois", "m_module", "m_kick", "m_evo"}, {<<"auto", "m_who">>, <<"core", "m_kick">>}),
                   CmdScene(7, {"start", "module", "rehash", "edit"},
                     <<ModFile(<<"auto">>, <<"m_evo", "m_who">>, <<CS, Who, CS2>>), ModFile(<<"core">>, <<"m_evo">>, <<CS2, CS>>),
                       ModFile(<<"auto", "core">>, <<>>, <<>>)>>, {"m_who", "m_whois", "m_evo"}, {})},
        srv <- v1,
        bad <- v2,
        file <- v3,
        scene <- v4

Rest4 == v5 = None /\ v6 = None
Rest3 == v4 = None /\ Rest4
Rest0 == v1 = None /\ v2 = None /\ v3 = None /\ Rest3
Init ==
    /\ part \in {"bans", "db", "fix", "users", "pools", "messages", "config", "lists", "opers", "commands"}
    /\ BansInit /\ (part = "bans" <=> banscene # BansRest)
    /\ DBInit /\ (part = "db" <=> dbscene # DBRest)
    /\ FixInit /\ (part # "fix" => ops = {} /\ ~modes /\ ts = 1)
    /\ UsersInit /\ (part = "users" <=> userscene # UsersRest)
    /\ PoolsInit /\ (part # "pools" => DOMAIN pools = {"x"})
    /\ MessagesInit /\ (part = "messages" <=> msgscene # MsgRest)
    /\ CASE part = "config" -> Conf!Init /\ Rest4
         [] part = "lists" -> List!Init /\ Rest3
         [] part = "opers" -> Oper!Init
         [] part = "commands" -> Cmds!Init /\ Rest4
         [] OTHER -> Rest0
Proved == <<bansvars, dbvars, allfixvars, usersvars, poolsvars, messagesvars>>
Next ==
    /\ UNCHANGED part
    /\ \/ part = "bans" /\ BansNext /\ UNCHANGED <<dbvars, allfixvars, usersvars, poolsvars, messagesvars, rest>>
       \/ part = "db" /\ DBNext /\ UNCHANGED <<bansvars, allfixvars, usersvars, poolsvars, messagesvars, rest>>
       \/ part = "fix" /\ FixNext /\ UNCHANGED <<bansvars, dbvars, usersvars, poolsvars, messagesvars, rest>>
       \/ part = "users" /\ UsersNext /\ UNCHANGED <<bansvars, dbvars, allfixvars, poolsvars, messagesvars, rest>>
       \/ part = "pools" /\ PoolsNext /\ UNCHANGED <<bansvars, dbvars, allfixvars, usersvars, messagesvars, rest>>
       \/ part = "messages" /\ MessagesNext /\ UNCHANGED <<bansvars, dbvars, allfixvars, usersvars, poolsvars, rest>>
       \/ part = "config" /\ Conf!Next /\ UNCHANGED <<Proved, v5, v6>>
       \/ part = "lists" /\ List!Next /\ UNCHANGED <<Proved, v4, v5, v6>>
       \/ part = "opers" /\ Oper!Next /\ UNCHANGED Proved
       \/ part = "commands" /\ Cmds!Next /\ UNCHANGED <<Proved, v5, v6>>

(* Fairness, of the event loop and the clock of a fix.                     *)
Fairness == /\ WF_allfixvars(part = "fix" /\ Event)
            /\ WF_allfixvars(part = "fix" /\ ReadService)
            /\ WF_allfixvars(part = "fix" /\ FixTick)
BanSpec == part = "bans" /\ Init /\ [][Next]_vars
FairSpec == Init /\ [][Next]_vars /\ Fairness

-----------------------------------------------------------------------------
(* A REHASH leads where a restart would (conf.c).                          *)
RehashFresh == part = "config" => Conf!RehashFresh
(* What clients are attached to is counted and kept (detach_conf()).       *)
RefsRight == part = "config" => Conf!RefsRight
(* What clients are told of nicknames and channels is so (watch.c,         *)
(* whowas.c, safe_list_channels()).                                        *)
ReportsTrue == part = "lists" => List!ReportsTrue
(* Clients, user@host and watched nicknames are found and counted          *)
(* (hash.c).                                                               *)
TablesMatch == part = "lists" => List!TablesMatch
(* Users, opers and splitmode are counted right (check_splitmode()).       *)
CountsRight == part = "opers" => Oper!CountsRight
(* Rights end with +o and servers agree on modes (m_mode.c, m_svsmode.c).  *)
OpersRight == part = "opers" => Oper!OpersRight
(* Commands lead to loaded modules only (unload_one_module()).             *)
CommandsRight == part = "commands" => Cmds!CommandsRight
=============================================================================
