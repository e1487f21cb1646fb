------------------------------- MODULE Opers -------------------------------
(***************************************************************************)
(* User modes, operators and the options operators SET, on the servers of  *)
(* a network. A server changes the modes of its own clients and tells the  *)
(* others the difference; services change the modes of anyone's.           *)
(*                                                                         *)
(* srv[s] is what server s holds: what it knows of every client (cl), the  *)
(* connections of its own (loc), its counts, lists and options. q holds    *)
(* the lines under way between linked servers. Link establishment is one   *)
(* step here (Network has its handshake), nicknames are only told apart    *)
(* from their own change of case, and the services package is what sends   *)
(* SVSMODE, SVSNICK and SVSTAG. skew, excused, forced and lost are history *)
(* for the properties.                                                     *)
(***************************************************************************)
EXTENDS Integers, Sequences, SequencesExt, FiniteSets

CONSTANTS
    None,
    Servers, Services,   \* the servers, and the one of the services
    Hop,                 \* <<server, server>> -> the next one on the way
    Clients, Home,       \* client -> its server
    Ssl,                 \* clients on a TLS port
    Exempt,              \* clients exempt from user limits
    FirstConf, NextConf, \* what ircd.conf holds at start and at REHASH
    OnSplit,             \* no_join_on_split or no_create_on_split
    SplitServers, SplitUsers, MaxClients, MAXCLIENTS_MIN, MAXCLIENTS_MAX, MAX_BUFFER,
    MIN_SPAM_NUM, MIN_SPAM_TIME, AwayTime, AwayCount,
    Scenes               \* [steps, at, acts, modes, svs, sets]

VARIABLES srv, q, now, used, lost, scene
vars == <<srv, q, now, used, lost, scene>>

Ircds == Servers \ {Services}
Linked == {l \in Ircds \X Ircds : l[1] # l[2] /\ Hop[l] = l[2]}
Peers(s) == {t \in Ircds : <<s, t>> \in Linked /\ t \in srv[s].known}
Behind(s, t) == {x \in Servers \ {s} : Hop[<<s, x>>] = t}
MyConnect(s, c) == Home[c] = s
Knows(R, c) == R.cl[c] # None
Has(m, x) == IF x \in m THEN 1 ELSE 0
Without(s, x) == SelectSeq(s, LAMBDA y : y # x)
NoLocal == [oflags |-> {}, conf |-> None, challenge |-> None, awaycount |-> 0, awaylast |-> 0, excused |-> {}]

umode_tab == <<"D", "F", "G", "H", "R", "S", "W", "a", "b", "c", "d", "e", "f", "g", "i", "j", "k", "l", "n", "o",
               "p", "q", "r", "s", "u", "w", "x", "y">>

-----------------------------------------------------------------------------
(* The difference between two sets of modes, as a mode string.             *)
send_umode(old, new) ==
    LET changed == SelectSeq(umode_tab, LAMBDA x : (x \in old) # (x \in new))
    IN [k \in 1..Len(changed) |-> [add |-> changed[k] \in new, c |-> changed[k]]]
send_umode_out(c, old, new) == IF old = new THEN <<>> ELSE <<[t |-> "MODE", c |-> c, str |-> send_umode(old, new)]>>

AddDel(R, c, x) == [R EXCEPT !.cl[c].m = IF x.add THEN @ \cup {x.c} ELSE @ \ {x.c}]
OperOnly(R, s, c) == IF MyConnect(s, c) THEN R.conf.oper_only ELSE {}
ClearOper_fault(R, s, c) ==   \* the flags outlive +o
    [R EXCEPT !.cl[c].m = @ \ ({"o"} \cup OperOnly(R, s, c)), !.count.oper = @ - 1, !.oper_list = Without(@, c)]
ClearOper(R, s, c) ==
    [R EXCEPT !.cl[c].m = @ \ ({"o"} \cup OperOnly(R, s, c)), !.count.oper = @ - 1, !.oper_list = Without(@, c),
              !.loc = IF MyConnect(s, c) THEN [@ EXCEPT ![c].oflags = {}, ![c].conf = None, ![c].excused = {}] ELSE @]

(* One letter of MODE, and the whole command.                              *)
ModeLetter(R, s, c, x) ==
    LET m == R.cl[c].m
    IN CASE x.c = "o" /\ x.add -> IF MyConnect(s, c) \/ "o" \in m THEN R
                                  ELSE [R EXCEPT !.cl[c].m = @ \cup {"o"}, !.count.oper = @ + 1]
         [] x.c = "o" /\ ~x.add -> IF "o" \in m THEN ClearOper(R, s, c) ELSE R
         [] x.c \in {"S", "W", "r", "x"} -> R
         [] OTHER -> IF "o" \notin m /\ x.c \in OperOnly(R, s, c) THEN R ELSE AddDel(R, c, x)
set_user_mode(R0, s, c, str) ==
    LET letter(R, x) == ModeLetter(R, s, c, x)
        admin(R) == IF MyConnect(s, c) /\ "a" \in R.cl[c].m /\ "admin" \notin R.loc[c].oflags
                    THEN [R EXCEPT !.cl[c].m = @ \ {"a"}] ELSE R
        recount(R) == [R EXCEPT !.count.invisi = @ + Has(R.cl[c].m, "i") - Has(R0.cl[c].m, "i")]
    IN recount(admin(FoldLeft(letter, R0, str)))

(* SVSMODE without the argument that sets an account or a host.            *)
SvsLetter(R, s, c, x) ==
    LET m == R.cl[c].m
    IN CASE x.c \in {"d", "x", "S", "W"} -> R
         [] x.c = "o" -> IF x.add \/ "o" \notin m THEN R
                         ELSE [ClearOper(R, s, c) EXCEPT !.skew = @ + Has(m \cap OperOnly(R, s, c), "i")]
         [] x.c = "i" -> [AddDel(R, c, x) EXCEPT !.count.invisi = @ + (IF x.add THEN 1 ELSE 0) - Has(m, "i")]
         [] OTHER -> AddDel(R, c, x)
ExcuseServices(R, s, c, str) ==
    IF ~MyConnect(s, c) THEN R
    ELSE [R EXCEPT !.loc[c].excused = @ \cup {x.c : x \in {y \in ToSet(str) : y.add}}
                                        \cup {"a" : x \in {y \in ToSet(str) : y.c = "o" /\ ~y.add}}]
ms_svsmode(R0, s, c, str) == ExcuseServices(FoldLeft(LAMBDA R, x : SvsLetter(R, s, c, x), R0, str), s, c, str)

-----------------------------------------------------------------------------
(* Becoming an operator.                                                   *)
find_exact_name_conf(R, c, name) == SelectSeq(R.conf.opers, LAMBDA o : o.name = name /\ c \in o.covers)
Meets(R, c, o) == /\ o.ssl => "S" \in R.cl[c].m
                  /\ o.certfp # None => c \in o.certfp
oper_up(R, c, o) ==
    LET given == IF o.modes # {} THEN o.modes ELSE R.conf.oper_umodes
        admin == IF "admin" \in R.loc[c].oflags \cup o.flags THEN {"a"} ELSE {}
    IN [R EXCEPT !.count.oper = @ + 1, !.cl[c].m = @ \cup {"o"} \cup given \cup admin,
                 !.count.invisi = @ + Has(given \ R.cl[c].m, "i"), !.oper_list = <<c>> \o @,
                 !.loc[c].oflags = @ \cup o.flags, !.loc[c].conf = o.name, !.cl[c].tags = @ + (IF o.whois THEN 1 ELSE 0)]
OperUpLines(R, c, o) ==
    (IF o.whois THEN <<[t |-> "SVSTAG", c |-> c, ts |-> R.cl[c].ts, add |-> TRUE]>> ELSE <<>>)
    \o send_umode_out(c, R.cl[c].m, oper_up(R, c, o).cl[c].m)

-----------------------------------------------------------------------------
(* Counting users in and out, and splitmode.                               *)
Few(R) == Cardinality(R.known) < R.split.servers \/ R.count.total < R.split.users
check_splitmode(R) ==
    IF ~(R.split.checking /\ OnSplit) THEN R
    ELSE IF ~R.split.mode /\ Few(R) THEN [R EXCEPT !.split.mode = TRUE, !.split.event = TRUE]
    ELSE IF R.split.mode /\ ~Few(R) THEN [R EXCEPT !.split.mode = FALSE, !.split.event = FALSE, !.split.forced = FALSE]
    ELSE R
update_client_exit_stats_fault(R, C) ==   \* operators who leave stay counted
    [R EXCEPT !.count.total = @ - Cardinality(C), !.count.invisi = @ - Cardinality({c \in C : "i" \in R.cl[c].m})]
update_client_exit_stats(R, C) ==
    [R EXCEPT !.count.total = @ - Cardinality(C),
              !.count.oper = @ - Cardinality({c \in C : "o" \in R.cl[c].m}),
              !.count.invisi = @ - Cardinality({c \in C : "i" \in R.cl[c].m})]
CheckExit(R) == IF R.split.checking /\ ~R.split.mode THEN check_splitmode(R) ELSE R
exit_one_client(R, s, C0) ==
    LET C == {c \in C0 : Knows(R, c)}
        removed(S) == [S EXCEPT !.cl = [c \in Clients |-> IF c \in C THEN None ELSE @[c]],
                                !.loc = [c \in DOMAIN @ |-> IF c \in C THEN NoLocal ELSE @[c]],
                                !.count.local = @ - Cardinality({c \in C : MyConnect(s, c)}),
                                !.oper_list = SelectSeq(@, LAMBDA c : ~(c \in C /\ "o" \in R.cl[c].m))]
    IN IF C = {} THEN R ELSE CheckExit(removed(update_client_exit_stats(R, C)))
exit_server(R, s, S) == CheckExit(exit_one_client([R EXCEPT !.known = @ \ S], s, {c \in Clients : Home[c] \in S}))

register_local_user(R, c) ==
    LET modes == (IF c \in Ssl THEN {"S"} ELSE {}) \cup (IF R.conf.invisible THEN {"i"} ELSE {})
    IN [R EXCEPT !.cl[c] = [m |-> modes, ts |-> now, away |-> None, tags |-> 0],
                 !.count.invisi = @ + Has(modes, "i"), !.count.local = @ + 1, !.count.total = @ + 1,
                 !.loc[c].excused = modes]
uid_from_server(R, x) ==
    [R EXCEPT !.cl[x.c] = [m |-> x.m, ts |-> x.ts, away |-> None, tags |-> 0],
              !.count.invisi = @ + Has(x.m, "i"), !.count.oper = @ + Has(x.m, "o"), !.count.total = @ + 1]
introduce_client(c, u) == <<[t |-> "UID", c |-> c, m |-> u.m, ts |-> u.ts]>>
Tag(c, u) == [t |-> "SVSTAG", c |-> c, ts |-> u.ts, add |-> TRUE]
sendnick_TS(c, u) ==
    introduce_client(c, u) \o (IF u.away = None THEN <<>> ELSE <<[t |-> "AWAY", c |-> c, away |-> u.away]>>)
    \o [k \in 1..u.tags |-> Tag(c, u)]

-----------------------------------------------------------------------------
(* SET.                                                                    *)
quote_splitmode(R, val) ==
    CASE val = "OFF" -> [R EXCEPT !.split.mode = FALSE, !.split.checking = FALSE, !.split.event = FALSE, !.split.forced = FALSE]
      [] val = "ON" -> [R EXCEPT !.split.mode = TRUE, !.split.checking = FALSE, !.split.event = FALSE, !.split.forced = TRUE]
      [] val = "AUTO" -> check_splitmode([R EXCEPT !.split.checking = TRUE])
Rechecked(R) == IF R.split.checking THEN check_splitmode(R) ELSE R
quote_splitnum(R, val) == Rechecked([R EXCEPT !.split.servers = val])
quote_splitusers(R, val) == Rechecked([R EXCEPT !.split.users = val])
quote_max(R, val) == IF val < MAXCLIENTS_MIN \/ val > MAXCLIENTS_MAX THEN R ELSE [R EXCEPT !.set.MAX = val]
Raised(val, min) == IF val < min THEN min ELSE val
quote_spamnum(R, val) == [R EXCEPT !.set.SPAMNUM = IF val = 0 THEN 0 ELSE Raised(val, MIN_SPAM_NUM)]
quote_spamtime(R, val) == IF val = 0 THEN R ELSE [R EXCEPT !.set.SPAMTIME = Raised(val, MIN_SPAM_TIME)]
quote_identtimeout(R, c, val) == IF val = 0 \/ "a" \notin R.cl[c].m THEN R ELSE [R EXCEPT !.set.IDENTTIMEOUT = val]
SetOption(R, c, o, val) ==
    CASE o = "SPLITMODE" -> quote_splitmode(R, val)
      [] o = "SPLITNUM" -> quote_splitnum(R, val)
      [] o = "SPLITUSERS" -> quote_splitusers(R, val)
      [] o = "MAX" -> quote_max(R, val)
      [] o = "SPAMNUM" -> quote_spamnum(R, val)
      [] o = "SPAMTIME" -> quote_spamtime(R, val)
      [] o = "IDENTTIMEOUT" -> quote_identtimeout(R, c, val)
      [] OTHER -> [R EXCEPT !.set[o] = val]

-----------------------------------------------------------------------------
(* Steps. A handler leaves server s with R and sends lines to its peers    *)
(* but one.                                                                *)
Sent(s, but, lines) == [l \in DOMAIN q |-> IF l[1] = s /\ l[2] \in Peers(s) \ {but} THEN q[l] \o lines ELSE q[l]]
May(act) == act \in scene.acts /\ scene.steps > 0 /\ scene' = [scene EXCEPT !.steps = @ - 1]
At(s, R, lines) == /\ srv' = [srv EXCEPT ![s] = R]
                   /\ q' = Sent(s, None, lines)
Mine(s, c) == MyConnect(s, c) /\ Knows(srv[s], c)

Register(s, c, ok) ==
    /\ May("register") /\ MyConnect(s, c) /\ c \notin used
    /\ srv[s].count.local < srv[s].set.MAX + (IF c \in Exempt THEN MAX_BUFFER ELSE 0)
    /\ \E R \in {register_local_user(srv[s], c)} :
         IF ok THEN At(s, R, introduce_client(c, R.cl[c]))
         ELSE At(s, exit_one_client(R, s, {c}), <<[t |-> "QUIT", c |-> c]>>)
    /\ used' = used \cup {c} /\ UNCHANGED <<now, lost>>
m_quit(s, c) ==
    /\ May("quit") /\ Mine(s, c)
    /\ At(s, exit_one_client(srv[s], s, {c}), <<[t |-> "QUIT", c |-> c]>>)
    /\ UNCHANGED <<now, used, lost>>
m_mode(s, c, str) ==
    /\ May("mode") /\ Mine(s, c)
    /\ \E R \in {set_user_mode(srv[s], s, c, str)} : At(s, R, send_umode_out(c, srv[s].cl[c].m, R.cl[c].m))
    /\ UNCHANGED <<now, used, lost>>
m_oper(s, c, name) ==
    /\ May("oper") /\ Mine(s, c) /\ "o" \notin srv[s].cl[c].m
    /\ \E found \in {find_exact_name_conf(srv[s], c, name)} :
         /\ found # <<>> /\ Meets(srv[s], c, found[1])
         /\ At(s, oper_up(srv[s], c, found[1]), OperUpLines(srv[s], c, found[1]))
    /\ UNCHANGED <<now, used, lost>>
m_challenge(s, c, name) ==
    /\ May("challenge") /\ Mine(s, c) /\ "o" \notin srv[s].cl[c].m
    /\ \E found \in {find_exact_name_conf(srv[s], c, name)} :
         At(s, [srv[s] EXCEPT !.loc[c].challenge = IF found # <<>> /\ found[1].key /\ Meets(srv[s], c, found[1]) THEN name ELSE None],
            <<>>)
    /\ UNCHANGED <<now, used, lost>>
ChallengeResponse(s, c) ==
    /\ May("challenge") /\ Mine(s, c) /\ "o" \notin srv[s].cl[c].m /\ srv[s].loc[c].challenge # None
    /\ \E found \in {find_exact_name_conf(srv[s], c, srv[s].loc[c].challenge)} :
         /\ found # <<>>
         /\ At(s, [oper_up(srv[s], c, found[1]) EXCEPT !.loc[c].challenge = None], OperUpLines(srv[s], c, found[1]))
    /\ UNCHANGED <<now, used, lost>>
m_away(s, c, text) ==
    /\ May("away") /\ Mine(s, c)
    /\ LET R == srv[s]
           count == IF R.loc[c].awaylast + AwayTime < now THEN 0 ELSE R.loc[c].awaycount
       IN IF text = None
          THEN /\ R.cl[c].away # None
               /\ At(s, [R EXCEPT !.cl[c].away = None], <<[t |-> "AWAY", c |-> c, away |-> None]>>)
          ELSE /\ count <= AwayCount
               /\ At(s, [R EXCEPT !.cl[c].away = text, !.loc[c].awaycount = count + 1, !.loc[c].awaylast = now],
                     <<[t |-> "AWAY", c |-> c, away |-> text]>>)
    /\ UNCHANGED <<now, used, lost>>
NickLine(c, same, ts) == [t |-> "NICK", c |-> c, same |-> same, ts |-> ts]
change_local_nick(s, c, same) ==
    /\ May("nick") /\ Mine(s, c)
    /\ IF "opme" \notin srv[s].loc[c].oflags THEN At(s, exit_one_client(srv[s], s, {c}), <<[t |-> "QUIT", c |-> c]>>)
       ELSE IF same THEN At(s, srv[s], <<NickLine(c, TRUE, srv[s].cl[c].ts)>>)
       ELSE At(s, [srv[s] EXCEPT !.cl[c].ts = now, !.cl[c].m = @ \ {"r"}], <<NickLine(c, FALSE, now)>>)
    /\ UNCHANGED <<now, used, lost>>
mo_set(s, c, o, val) ==
    /\ May("set") /\ Mine(s, c) /\ "o" \in srv[s].cl[c].m /\ "set" \in srv[s].loc[c].oflags
    /\ At(s, SetOption(srv[s], c, o, val), <<>>)
    /\ UNCHANGED <<now, used, lost>>
rehash(s) ==
    /\ May("rehash") /\ srv[s].conf # NextConf
    /\ At(s, [srv[s] EXCEPT !.conf = NextConf,
                            !.loc = [c \in DOMAIN @ |-> [@[c] EXCEPT !.excused = IF Knows(srv[s], c) THEN @ \cup srv[s].cl[c].m ELSE @]]],
          <<>>)
    /\ UNCHANGED <<now, used, lost>>
event_run(s) ==
    /\ srv[s].split.event
    /\ srv' = [srv EXCEPT ![s] = [check_splitmode([@ EXCEPT !.split.event = FALSE]) EXCEPT !.split.event = TRUE]]
    /\ UNCHANGED <<q, now, used, lost, scene>>
Tick == May("tick") /\ now' = now + 1 /\ UNCHANGED <<srv, q, used, lost>>

(* Lines of the services, which know the clients from the hub.             *)
Hub == CHOOSE s \in Ircds : Hop[<<s, Services>>] = Services
FromServices(c, line) ==
    /\ Knows(srv[Hub], c)
    /\ q' = [q EXCEPT ![<<Services, Hub>>] = Append(@, line)]
    /\ UNCHANGED <<srv, now, used, lost>>
Svsmode(c, str, ts) == May("svsmode") /\ FromServices(c, [t |-> "SVSMODE", c |-> c, str |-> str, ts |-> ts])
Svsnick(c, same) == May("svsnick") /\ FromServices(c, [t |-> "SVSNICK", c |-> c, same |-> same, ts |-> now])
Svstag(c) == May("svstag") /\ FromServices(c, [t |-> "SVSTAG", c |-> c, ts |-> 0, add |-> FALSE])

-----------------------------------------------------------------------------
(* A line is handled. What crosses a line of the services on one link is   *)
(* lost for the comparison of the servers.                                 *)
Letters(x) == IF x.t \in {"MODE", "SVSMODE"} THEN {y.c : y \in ToSet(x.str)} ELSE {}
OfServices(x) == x.t = "SVSMODE" \/ (x.t = "SVSTAG" /\ ~x.add)
Crossed(x, y) ==
    IF OfServices(x) = OfServices(y) \/ x.c # y.c THEN {}
    ELSE CASE "NICK" \in {x.t, y.t} -> Letters(x) \cup Letters(y) \cup {"r", "tag"}
           [] "SVSTAG" \in {x.t, y.t} -> {"tag"}
           [] OTHER -> Letters(x) \cap Letters(y)
About(x) == x.t \notin {"SID", "SQUIT"}
CrossedOn(a, s, x) ==
    IF <<s, a>> \notin Linked \/ ~About(x) THEN {} ELSE UNION {Crossed(x, y) : y \in {z \in ToSet(q[<<s, a>>]) : About(z)}}
Lose(x, letters) == lost' = IF letters = {} THEN lost ELSE [lost EXCEPT ![x.c] = @ \cup letters]

Handle(a, s, R, lines) ==
    /\ srv' = [srv EXCEPT ![s] = R]
    /\ q' = [Sent(s, a, lines) EXCEPT ![<<a, s>>] = Tail(@)]
Forward(a, s, x, R) == Handle(a, s, R, <<x>>) /\ Lose(x, CrossedOn(a, s, x))
Ignore(a, s) == Handle(a, s, srv[s], <<>>) /\ UNCHANGED lost
Stripped(s, x, R) == IF MyConnect(s, x.c) THEN (srv[s].cl[x.c].m \ R.cl[x.c].m) \ Letters(x) ELSE {}
ServicesMode(a, s, x) ==
    \E R \in {ms_svsmode(srv[s], s, x.c, x.str)} :
        /\ Handle(a, s, R, <<[x EXCEPT !.ts = srv[s].cl[x.c].ts]>>)
        /\ Lose(x, CrossedOn(a, s, x) \cup Stripped(s, x, R))
ServicesNick(a, s, x) ==
    IF MyConnect(s, x.c)
    THEN /\ srv' = [srv EXCEPT ![s].cl[x.c].ts = x.ts, ![s].cl[x.c].m = @ \ {"r"}]
         /\ q' = [Sent(s, None, <<NickLine(x.c, x.same, x.ts)>>) EXCEPT ![<<a, s>>] = Tail(@)]
         /\ Lose(x, IF x.same THEN {"r", "ts"} ELSE {})
    ELSE /\ q' = [q EXCEPT ![<<a, s>>] = Tail(@), ![<<s, Hop[<<s, Home[x.c]>>]>>] = Append(@, x)]
         /\ UNCHANGED <<srv, lost>>
change_remote_nick(R, x) == IF x.same THEN R ELSE [R EXCEPT !.cl[x.c].m = @ \ {"r"}, !.cl[x.c].ts = x.ts]
ms_away(a, s, x) ==
    IF x.away = None /\ srv[s].cl[x.c].away = None THEN Ignore(a, s)
    ELSE Forward(a, s, x, [srv[s] EXCEPT !.cl[x.c].away = x.away])
ms_svstag(R, x) == [R EXCEPT !.cl[x.c].tags = IF x.add THEN @ + 1 ELSE 0]
RemoteMode(a, s, x) ==
    \E R \in {set_user_mode(srv[s], s, x.c, x.str)} :
        /\ Handle(a, s, R, send_umode_out(x.c, srv[s].cl[x.c].m, R.cl[x.c].m))
        /\ Lose(x, CrossedOn(a, s, x))
Stale(s, x) == x.ts # 0 /\ x.ts # srv[s].cl[x.c].ts
TooLate(a, s, x) ==
    /\ Handle(a, s, srv[s], <<>>)
    /\ Lose(x, CrossedOn(a, s, x) \cup IF "ts" \in lost[x.c] THEN Letters(x) \cup {"tag"} ELSE {})
Known(s, x) == About(x) /\ Knows(srv[s], x.c)
Receive(a, s) ==
    /\ q[<<a, s>>] # <<>>
    /\ \E x \in {Head(q[<<a, s>>])} :
         \/ x.t = "SID" /\ Forward(a, s, x, [srv[s] EXCEPT !.known = @ \cup x.servers])
         \/ x.t = "SQUIT" /\ Forward(a, s, x, exit_server(srv[s], s, x.servers))
         \/ x.t = "UID" /\ Forward(a, s, x, uid_from_server(srv[s], x))
         \/ x.t \notin {"SID", "SQUIT", "UID"} /\ ~Known(s, x) /\ Ignore(a, s)
         \/ x.t = "QUIT" /\ Known(s, x) /\ Forward(a, s, x, exit_one_client(srv[s], s, {x.c}))
         \/ x.t = "MODE" /\ Known(s, x) /\ RemoteMode(a, s, x)
         \/ x.t = "AWAY" /\ Known(s, x) /\ ms_away(a, s, x)
         \/ x.t = "NICK" /\ Known(s, x) /\ Forward(a, s, x, change_remote_nick(srv[s], x))
         \/ x.t = "SVSNICK" /\ Known(s, x) /\ ServicesNick(a, s, x)
         \/ x.t \in {"SVSMODE", "SVSTAG"} /\ Known(s, x)
            /\ IF Stale(s, x) THEN TooLate(a, s, x) ELSE
               IF x.t = "SVSMODE" THEN ServicesMode(a, s, x) ELSE Forward(a, s, x, ms_svstag(srv[s], x))
    /\ UNCHANGED <<now, used, scene>>

(* A link breaks: both ends drop what is behind it and tell their peers.   *)
split(s, t) ==
    /\ May("split") /\ <<s, t>> \in Linked /\ t \in Peers(s)
    /\ srv' = [srv EXCEPT ![s] = exit_server(@, s, Behind(s, t)), ![t] = exit_server(@, t, Behind(t, s))]
    /\ q' = [l \in DOMAIN q |->
               IF l \in {<<s, t>>, <<t, s>>} THEN <<>>
               ELSE IF l[1] = Services \/ l[2] \notin Peers(l[1]) THEN q[l]
               ELSE IF l[1] = s THEN Append(q[l], [t |-> "SQUIT", servers |-> Behind(s, t)])
               ELSE IF l[1] = t THEN Append(q[l], [t |-> "SQUIT", servers |-> Behind(t, s)])
               ELSE q[l]]
    /\ UNCHANGED <<now, used, lost>>
Burst(s) ==
    LET known == SetToSeq({c \in Clients : Knows(srv[s], c)})
    IN <<[t |-> "SID", servers |-> srv[s].known]>> \o FlattenSeq([k \in DOMAIN known |-> sendnick_TS(known[k], srv[s].cl[known[k]])])
server_estab(s, t) ==
    /\ May("link") /\ <<s, t>> \in Linked /\ t \notin Peers(s)
    /\ srv' = [srv EXCEPT ![s].known = @ \cup {t}, ![t].known = @ \cup {s}]
    /\ q' = [l \in DOMAIN q |->
               IF l = <<s, t>> THEN Burst(s)
               ELSE IF l = <<t, s>> THEN Burst(t)
               ELSE IF l[1] = Services \/ l[2] \notin Peers(l[1]) THEN q[l]
               ELSE IF l[1] = s THEN Append(q[l], [t |-> "SID", servers |-> {t}])
               ELSE IF l[1] = t THEN Append(q[l], [t |-> "SID", servers |-> {s}])
               ELSE q[l]]
    /\ UNCHANGED <<now, used, lost>>

-----------------------------------------------------------------------------
NewServer(s, at) ==
    [cl |-> [c \in Clients |-> IF c \in at THEN [m |-> IF c \in Ssl THEN {"S"} ELSE {}, ts |-> 1, away |-> None, tags |-> 0] ELSE None],
     loc |-> [c \in {x \in Clients : Home[x] = s} |-> NoLocal],
     count |-> [oper |-> 0, invisi |-> 0, total |-> Cardinality(at), local |-> Cardinality({c \in at : Home[c] = s})],
     oper_list |-> <<>>, known |-> Servers, conf |-> FirstConf, skew |-> 0,
     split |-> [mode |-> Cardinality(at) < SplitUsers, checking |-> TRUE, servers |-> SplitServers, users |-> SplitUsers, event |-> TRUE, forced |-> FALSE],
     set |-> [MAX |-> MaxClients, AUTOCONNALL |-> 1, FLOODCOUNT |-> 8, IDENTTIMEOUT |-> 10, SPAMNUM |-> 6, SPAMTIME |-> 60,
              JFLOODTIME |-> 6, JFLOODCOUNT |-> 16]]
Init ==
    /\ scene \in Scenes /\ now = 2 /\ used = scene.at
    /\ srv = [s \in Ircds |-> NewServer(s, scene.at)]
    /\ q = [l \in Linked \cup {<<Services, Hub>>} |-> <<>>]
    /\ lost = [c \in Clients |-> {}]
Next ==
    \/ \E l \in DOMAIN q : Receive(l[1], l[2])
    \/ \E s \in Ircds : rehash(s) \/ event_run(s)
    \/ \E l \in Linked : split(l[1], l[2]) \/ server_estab(l[1], l[2])
    \/ \E c \in Clients :
         LET s == Home[c]
         IN \/ \E ok \in BOOLEAN : Register(s, c, ok)
            \/ m_quit(s, c)
            \/ \E str \in scene.modes : m_mode(s, c, str)
            \/ \E o \in ToSet(srv[s].conf.opers) : m_oper(s, c, o.name) \/ m_challenge(s, c, o.name)
            \/ ChallengeResponse(s, c)
            \/ \E text \in {None, "gone", "back"} : m_away(s, c, text)
            \/ \E same \in BOOLEAN : change_local_nick(s, c, same) \/ Svsnick(c, same)
            \/ \E o \in scene.sets : mo_set(s, c, o.k, o.v)
            \/ \E str \in scene.svs, ts \in {0, 1} : Svsmode(c, str, ts)
            \/ Svstag(c)
    \/ Tick
Spec == Init /\ [][Next]_vars

-----------------------------------------------------------------------------
Users(R, x) == {c \in Clients : Knows(R, c) /\ x \in R.cl[c].m}
(* Every server counts its users, operators and invisible users right, its *)
(* list of operators holds its own ones once each, and automatic splitmode *)
(* follows the counts: it is on while servers or users are missing, and    *)
(* then its event is there to end it (update_client_exit_stats(),          *)
(* set_user_mode(), oper_up(), check_splitmode()). Two departures are      *)
(* accounted for: SVSMODE -o of an oper who loses +i with it, and AUTO     *)
(* after ON during a split.                                                *)
CountsRight ==
    \A s \in Ircds :
        LET R == srv[s]
        IN /\ R.count.total = Cardinality({c \in Clients : Knows(R, c)})
           /\ R.count.local = Cardinality({c \in Clients : Mine(s, c)})
           /\ R.count.oper = Cardinality(Users(R, "o"))
           /\ R.count.invisi = Cardinality(Users(R, "i")) + R.skew
           /\ IsInjective(R.oper_list) /\ ToSet(R.oper_list) = {c \in Users(R, "o") : MyConnect(s, c)}
           /\ R.split.checking /\ ~R.split.mode => ~Few(R)
           /\ R.split.checking /\ R.split.mode => R.split.event \/ R.split.forced

(* The rights of an operator end with its mode: a client that is no oper   *)
(* has no flags and no operator block, and neither oper-only modes nor +a  *)
(* but those it got from services or before a REHASH. And once no line is  *)
(* under way the servers agree on every user's modes, nick timestamp, away *)
(* state and tags, but for what a line of the services met on a link, took *)
(* along with +o or, changing only the case of a nickname, changed at home *)
(* (set_user_mode(), ms_svsmode(), ms_svsnick(), sendnick_TS()).           *)
Rightful(R, c) ==
    LET m == R.cl[c].m
        L == R.loc[c]
    IN /\ "o" \notin m => L.oflags = {} /\ L.conf = None /\ m \cap R.conf.oper_only \subseteq L.excused
       /\ "a" \in m => "admin" \in L.oflags \/ "a" \in L.excused
Same(u, v, l) ==
    /\ u.m \ l = v.m \ l /\ u.away = v.away
    /\ "ts" \in l \/ u.ts = v.ts
    /\ "tag" \in l \/ u.tags = v.tags
OpersRight ==
    /\ \A c \in Clients : Mine(Home[c], c) => Rightful(srv[Home[c]], c)
    /\ (\A l \in DOMAIN q : q[l] = <<>>) =>
         \A s \in Ircds, c \in Clients :
            /\ Knows(srv[s], c) <=> Home[c] \in srv[s].known /\ Knows(srv[Home[c]], c)
            /\ Knows(srv[s], c) => Same(srv[s].cl[c], srv[Home[c]].cl[c], lost[c])
=============================================================================
