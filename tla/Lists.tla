-------------------------------- MODULE Lists --------------------------------
(***************************************************************************)
(* The tables and lists a server keeps about users and channels: the hash  *)
(* tables (hash.c), the counts of user@host, the nicknames clients WATCH   *)
(* (watch.c), the history of nicknames (whowas.c), the ACCEPT lists and    *)
(* the LIST command, which walks the channel table as the sendq allows.    *)
(*                                                                         *)
(* A bucket is a sequence; a search moves what it finds to its head. The   *)
(* part of the server is one record `srv'; its fields told, last, due and  *)
(* shown are history: what a client was told of the nicknames it watches,  *)
(* who gave a nickname up last, and how a LIST went.                       *)
(***************************************************************************)
EXTENDS Integers, Sequences, SequencesExt, FiniteSets

CONSTANTS
    None,
    Local, Remote,       \* connections, and users of other servers
    Opme,                \* the connections that may change their nickname
    UserName,            \* client -> username without the tilde
    HasIdent,            \* clients whose username has no tilde
    HostOf,              \* client -> host at registration
    Fold,                \* nickname -> nickname in lower case
    HASHSIZE, strhash,   \* client, nickname, host or channel -> bucket
    Hosts,               \* hosts that services set
    NICKNAMEHISTORYLENGTH, ChaseTime, MaxWatch, MaxAccept,
    Masks,               \* masks to accept
    HalfSendq,           \* lines
    Channels,            \* channel -> [size, ts, topicts, topic, secret]
    Options,             \* sequences of [k, v], arguments of LIST
    MoreOptions,         \* more of them, for scenes with "options"
    Scenes               \* [steps, acts, nicks, at]

VARIABLES srv, now, scene
vars == <<srv, now, scene>>

AllClients == Local \cup Remote
Index(s, T(_)) == IF \E k \in DOMAIN s : T(s[k]) THEN CHOOSE k \in DOMAIN s : T(s[k]) /\ \A j \in 1..(k - 1) : ~T(s[j]) ELSE 0
Without(s, x) == SelectSeq(s, LAMBDA y : y # x)
Top(s, T(_)) == LET k == Index(s, T) IN IF k = 0 THEN s ELSE <<s[k]>> \o RemoveAt(s, k)
Empty == [b \in 1..HASHSIZE |-> <<>>]
NoClient == [at |-> "none", name |-> None, host |-> None, counted |-> FALSE, watches |-> <<>>, accepts |-> <<>>, whowas |-> <<>>,
             list |-> None, sendq |-> 0]
IsClient(S, c) == S.cl[c].at = "user"
MyConnect(c) == c \in Local

-----------------------------------------------------------------------------
(* The hash tables.                                                        *)
hash_add_client(S, c) == [S EXCEPT !.clientTable[strhash[Fold[S.cl[c].name]]] = <<c>> \o @]
hash_del_client(S, c) == [S EXCEPT !.clientTable[strhash[Fold[S.cl[c].name]]] = Without(@, c)]
hash_find_client(S, name) == [S EXCEPT !.clientTable[strhash[Fold[name]]] = Top(@, LAMBDA c : Fold[S.cl[c].name] = Fold[name])]
hash_add_id(S, c) == [S EXCEPT !.idTable[strhash[c]] = <<c>> \o @]
hash_del_id(S, c) == [S EXCEPT !.idTable[strhash[c]] = Without(@, c)]
hash_find_id(S, id) == [S EXCEPT !.idTable[strhash[id]] = Top(@, LAMBDA c : c = id)]
hash_add_channel(S, ch) == [S EXCEPT !.channelTable[strhash[ch]] = <<ch>> \o @]
hash_del_channel(S, ch) == [S EXCEPT !.channelTable[strhash[ch]] = Without(@, ch)]
hash_find_channel(S, ch) == [S EXCEPT !.channelTable[strhash[ch]] = Top(@, LAMBDA x : x = ch)]
hash_add_userhost(S, host) == [S EXCEPT !.userhostTable[strhash[host]] = <<[host |-> host, list |-> <<>>]>> \o @]
hash_del_userhost(S, host) == [S EXCEPT !.userhostTable[strhash[host]] = SelectSeq(@, LAMBDA u : u.host # host)]
hash_find_userhost(S, host) == [S EXCEPT !.userhostTable[strhash[host]] = Top(@, LAMBDA u : u.host = host)]

(* What a search returned: the head of the bucket, if it is the one.       *)
Client(S, name) ==
    LET b == S.clientTable[strhash[Fold[name]]]
    IN IF b # <<>> /\ Fold[S.cl[Head(b)].name] = Fold[name] THEN Head(b) ELSE None
HasId(S, id) == LET b == S.idTable[strhash[id]] IN b # <<>> /\ Head(b) = id
HasUserhost(S, host) == LET b == S.userhostTable[strhash[host]] IN b # <<>> /\ Head(b).host = host
find_person(S, name) == LET c == Client(S, name) IN IF c # None /\ IsClient(S, c) THEN c ELSE None

(* How many clients share a username and host: all, local, with identd.    *)
find_or_add_userhost(S0, host) ==
    LET found(S) == IF HasUserhost(S, host) THEN S ELSE hash_add_userhost(S, host) IN found(hash_find_userhost(S0, host))
Local1(c) == IF MyConnect(c) THEN 1 ELSE 0
Ident1(c) == IF MyConnect(c) /\ c \in HasIdent THEN 1 ELSE 0
add_user_host(S0, c) ==
    LET host == S0.cl[c].host
        b == strhash[host]
        k(list) == Index(list, LAMBDA n : n.name = UserName[c])
        new == [name |-> UserName[c], gcount |-> 1, lcount |-> Local1(c), icount |-> Ident1(c)]
        more(list, i) == IF i = 0 THEN <<new>> \o list
                         ELSE [list EXCEPT ![i].gcount = @ + 1, ![i].lcount = @ + Local1(c), ![i].icount = @ + Ident1(c)]
    IN [find_or_add_userhost(S0, host) EXCEPT !.cl[c].counted = TRUE, !.userhostTable[b][1].list = more(@, k(@))]
Less(n, d) == IF n > 0 THEN n - d ELSE n
delete_user_host(S0, c) ==
    LET host == S0.cl[c].host
        b == strhash[host]
        fewer(list, k) ==
            IF k = 0 THEN list
            ELSE SelectSeq([list EXCEPT ![k].gcount = Less(@, 1), ![k].lcount = Less(@, Local1(c)), ![k].icount = Less(@, Ident1(c))],
                           LAMBDA n : n.gcount # 0 \/ n.lcount # 0)
        less(S) == [S EXCEPT !.userhostTable[b][1].list = fewer(@, Index(@, LAMBDA n : n.name = UserName[c]))]
        drop(S) == IF Head(S.userhostTable[b]).list = <<>> THEN hash_del_userhost(S, host) ELSE S
        found(S) == IF HasUserhost(S, host) THEN drop(less(S)) ELSE S
    IN found(hash_find_userhost(S0, host))
(* The counts that the limits of a class are compared with.                *)
count_user_host(S0, name, host) ==
    LET S == hash_find_userhost(S0, host)
        list == IF HasUserhost(S, host) THEN Head(S.userhostTable[strhash[host]]).list ELSE <<>>
        k == Index(list, LAMBDA n : n.name = name)
    IN IF k = 0 THEN <<0, 0, 0>> ELSE <<list[k].gcount, list[k].lcount, list[k].icount>>

-----------------------------------------------------------------------------
(* WATCH. An entry of the table has a nickname and the clients to tell.    *)
watch_find_hash(S, name) == Index(S.watch, LAMBDA w : w.nick = Fold[name])
watch_check_hash(S, c, reply) ==
    LET name == S.cl[c].name
        k == watch_find_hash(S, name)
    IN IF k = 0 THEN S
       ELSE FoldLeft(LAMBDA T, w : [T EXCEPT !.told[w][Fold[name]] = reply], S, S.watch[k].watched_by)
watch_add_to_hash_table(S0, name, c) ==
    LET S == IF watch_find_hash(S0, name) # 0 THEN S0
             ELSE [S0 EXCEPT !.watch = <<[nick |-> Fold[name], watched_by |-> <<>>]>> \o @]
        k == watch_find_hash(S, name)
    IN IF Contains(S.watch[k].watched_by, c) THEN S
       ELSE [S EXCEPT !.watch[k].watched_by = <<c>> \o @, !.cl[c].watches = <<Fold[name]>> \o @]
watch_del_from_hash_table(S, name, c) ==
    LET k == watch_find_hash(S, name)
    IN IF k = 0 \/ ~Contains(S.watch[k].watched_by, c) THEN S
       ELSE [S EXCEPT !.watch = SelectSeq([@ EXCEPT ![k].watched_by = Without(@, c)], LAMBDA w : w.watched_by # <<>>),
                      !.cl[c].watches = Without(@, Fold[name])]
watch_del_watch_list(S, c) == FoldLeft(LAMBDA T, name : watch_del_from_hash_table(T, name, c), S, S.cl[c].watches)

show_watch(S, c, name) ==
    [S EXCEPT !.told[c][Fold[name]] = IF find_person(S, name) # None THEN "on" ELSE "off"]

-----------------------------------------------------------------------------
(* WHOWAS. Slots are used in turn; one for a change of nickname points to  *)
(* the client.                                                             *)
whowas_add_history(S0, c, online) ==
    LET k == S0.next
        old == S0.who[k]
        S1 == IF old = None \/ old.online = None THEN S0 ELSE [S0 EXCEPT !.cl[old.online].whowas = Without(@, k)]
        S2 == IF old = None THEN S1 ELSE [S1 EXCEPT !.whohash[strhash[Fold[old.name]]] = Without(@, k)]
        name == S0.cl[c].name
        S3 == IF online THEN [S2 EXCEPT !.cl[c].whowas = <<k>> \o @] ELSE S2
    IN [S3 EXCEPT !.next = (k % NICKNAMEHISTORYLENGTH) + 1,
                  !.who[k] = [name |-> name, logoff |-> now, online |-> IF online THEN c ELSE None],
                  !.whohash[strhash[Fold[name]]] = <<k>> \o @,
                  !.last[Fold[name]] = IF online THEN [by |-> c, time |-> now, slot |-> k] ELSE None]
whowas_off_history(S, c) ==
    [FoldLeft(LAMBDA T, k : [T EXCEPT !.who[k].online = None], S, S.cl[c].whowas) EXCEPT !.cl[c].whowas = <<>>]
whowas_get_history(S, name, limit) ==
    LET slots == SelectSeq(S.whohash[strhash[Fold[name]]],
                           LAMBDA k : S.who[k].logoff >= now - limit /\ Fold[S.who[k].name] = Fold[name])
    IN IF slots = <<>> THEN None ELSE S.who[Head(slots)].online

-----------------------------------------------------------------------------
(* LIST. Options narrow the task; a bad one ends it.                       *)
NewTask == [bad |-> FALSE, at |-> 1, show |-> <<>>, hide |-> <<>>, wild |-> FALSE, topic |-> None, shown |-> <<>>, due |-> {},
            size |-> [min |-> 0, max |-> 99], ts |-> [min |-> 0, max |-> 99], topicts |-> [min |-> 0, max |-> 99]]
Option(lt, o) ==
    CASE o.k = "<"  -> IF o.v > 0 THEN [lt EXCEPT !.size.max = o.v - 1] ELSE [lt EXCEPT !.bad = TRUE]
      [] o.k = ">"  -> IF o.v >= 0 THEN [lt EXCEPT !.size.min = o.v + 1] ELSE [lt EXCEPT !.bad = TRUE]
      [] o.k = "C<" -> [lt EXCEPT !.ts.max = now - o.v]
      [] o.k = "C>" -> [lt EXCEPT !.ts.min = now - o.v]
      [] o.k = "T<" -> [lt EXCEPT !.topicts.min = now - o.v]
      [] o.k = "T>" -> [lt EXCEPT !.topicts.max = now - o.v]
      [] o.k = "T:" -> [lt EXCEPT !.topic = o.v]
      [] o.k = "!"  -> [lt EXCEPT !.hide = <<o.v>> \o @]
      [] o.k = "mask" -> [lt EXCEPT !.show = <<o.v>> \o @, !.wild = @ \/ o.v = "*"]
      [] OTHER -> [lt EXCEPT !.bad = TRUE]
match(mask, name) == mask = "*" \/ mask = name
list_allow_channel(ch, lt) ==
    /\ \A k \in DOMAIN lt.show : match(lt.show[k], ch)
    /\ \A k \in DOMAIN lt.hide : ~match(lt.hide[k], ch)
Within(n, range) == range.min <= n /\ n <= range.max
Listable(chan, ch, lt) ==
    /\ ~chan.secret
    /\ Within(chan.size, lt.size)
    /\ chan.ts = 0 \/ Within(chan.ts, lt.ts)
    /\ chan.topicts >= lt.topicts.min /\ (IF chan.topicts = 0 THEN 99 ELSE chan.topicts) <= lt.topicts.max
    /\ lt.topic = None \/ match(lt.topic, chan.topic)
    /\ list_allow_channel(ch, lt)
list_one_channel(S, c, ch) ==
    IF ~Listable(S.chan[ch], ch, S.cl[c].list) THEN S
    ELSE [S EXCEPT !.cl[c].sendq = @ + 1, !.cl[c].list.shown = Append(@, ch)]
exceeding_sendq(S, c) == S.cl[c].sendq > HalfSendq
free_list_task(S, c) == [S EXCEPT !.listing = Without(@, c), !.cl[c].list = None]
ListEnd(S, c) ==
    [free_list_task(S, c) EXCEPT !.cl[c].sendq = @ + 1, !.ended[c] = [shown |-> S.cl[c].list.shown, due |-> S.cl[c].list.due]]
RECURSIVE Walk(_, _, _)
Walk(S, c, i) ==
    IF i > HASHSIZE THEN ListEnd(S, c)
    ELSE IF exceeding_sendq(S, c) THEN [S EXCEPT !.cl[c].list.at = i]
    ELSE Walk(FoldLeft(LAMBDA T, ch : list_one_channel(T, c, ch), S, S.channelTable[i]), c, i + 1)
RECURSIVE WalkFault(_, _, _)
WalkFault(S, c, i) ==
    IF i > HASHSIZE THEN ListEnd(S, c)
    ELSE IF exceeding_sendq(S, c) THEN [S EXCEPT !.cl[c].list.at = i + 1]
    ELSE WalkFault(FoldLeft(LAMBDA T, ch : list_one_channel(T, c, ch), S, S.channelTable[i]), c, i + 1)
Named(S, c) ==
    LET one(T, ch) == IF T.chan[ch] = None THEN T ELSE list_one_channel(hash_find_channel(T, ch), c, ch)
    IN ListEnd(FoldLeft(one, S, S.cl[c].list.show), c)
safe_list_channels_fault(S, c, only_unmasked) ==
    IF only_unmasked THEN Named(S, c) ELSE WalkFault(S, c, S.cl[c].list.at)
safe_list_channels(S, c, only_unmasked) == IF only_unmasked THEN Named(S, c) ELSE Walk(S, c, S.cl[c].list.at)
do_list(S, c, options) ==
    LET lt == FoldLeft(Option, NewTask, options)
        due == {ch \in DOMAIN S.chan : S.chan[ch] # None /\ Listable(S.chan[ch], ch, lt)}
        S1 == [S EXCEPT !.cl[c].list = [lt EXCEPT !.due = due], !.listing = <<c>> \o @, !.cl[c].sendq = @ + 1]
    IN IF S.cl[c].list # None THEN [free_list_task(S, c) EXCEPT !.cl[c].sendq = @ + 1]
       ELSE IF lt.bad THEN [S EXCEPT !.cl[c].sendq = @ + 1]
       ELSE safe_list_channels(S1, c, ~lt.wild /\ lt.show # <<>>)

-----------------------------------------------------------------------------
(* Clients come, change and go.                                            *)
exit_one_client(S0, c) ==
    LET history(S) == watch_check_hash(whowas_off_history(whowas_add_history(S, c, FALSE), c), c, "off")
        user(S) == IF IsClient(S, c) THEN hash_del_id(history(S), c) ELSE S
        named(S) == IF S.cl[c].name # None THEN hash_del_client(S, c) ELSE S
        counted(S) == IF S.cl[c].counted THEN delete_user_host(S, c) ELSE S
    IN [counted(named(user(S0))) EXCEPT !.cl[c] = NoClient]
exit_client(S, c) ==
    LET S1 == IF S.cl[c].list = None THEN S ELSE free_list_task(S, c)
    IN exit_one_client(IF MyConnect(c) /\ IsClient(S, c) THEN watch_del_watch_list(S1, c) ELSE S, c)

introduce_client(S, c) == watch_check_hash(S, c, "on")
(* The client is a user before its password is looked at.                  *)
register_local_user(S, c, pwdOk) ==
    LET S1 == [hash_add_id(S, c) EXCEPT !.cl[c].at = "user"]
    IN IF ~pwdOk THEN exit_client(S1, c) ELSE introduce_client(add_user_host(S1, c), c)

change_nick(S0, c, name) ==
    LET same == Fold[S0.cl[c].name] = Fold[name]
        S1 == IF same THEN S0 ELSE watch_check_hash(S0, c, "off")
        S2 == [hash_del_client(whowas_add_history(S1, c, TRUE), c) EXCEPT !.cl[c].name = name]
        S3 == hash_add_client(S2, c)
    IN IF same THEN S3 ELSE watch_check_hash(S3, c, "on")
(* Operators alone may, and the limit of changes does not apply to them.   *)
change_local_nick(S, c, name) == IF c \notin Opme THEN exit_client(S, c) ELSE change_nick(S, c, name)
change_remote_nick(S, c, name) == change_nick(S, c, name)

user_set_hostmask_fault(S, c, host) == add_user_host([S EXCEPT !.cl[c].host = host], c)
user_set_hostmask(S, c, host) ==
    LET uncounted == IF S.cl[c].counted THEN delete_user_host(S, c) ELSE S
    IN IF S.cl[c].host = host THEN S ELSE add_user_host([uncounted EXCEPT !.cl[c].host = host], c)

Boot ==
    [clientTable |-> Empty, idTable |-> Empty, channelTable |-> Empty, userhostTable |-> Empty,
     cl |-> [c \in AllClients |-> NoClient], watch |-> <<>>, who |-> [k \in 1..NICKNAMEHISTORYLENGTH |-> None],
     whohash |-> Empty, next |-> 1, chan |-> [ch \in DOMAIN Channels |-> None], listing |-> <<>>,
     told |-> [c \in Local |-> [n \in {Fold[m] : m \in DOMAIN Fold} |-> None]],
     last |-> [n \in {Fold[m] : m \in DOMAIN Fold} |-> None], ended |-> [c \in Local |-> None]]
(* A scene may start with some clients registered.                         *)
Enter(S, c, name) ==
    LET S1 == hash_add_client([S EXCEPT !.cl[c].name = name, !.cl[c].host = HostOf[c]], c)
    IN register_local_user(S1, c, TRUE)
Init ==
    /\ scene \in Scenes
    /\ srv = FoldLeft(LAMBDA S, e : Enter(S, e[1], e[2]), Boot, scene.at)
    /\ now = 1

Step(act, S) ==
    /\ act \in scene.acts /\ scene.steps > 0
    /\ srv' = S /\ srv' # srv
    /\ scene' = [scene EXCEPT !.steps = @ - 1]
    /\ UNCHANGED now

mr_nick(c, name) ==
    LET S == hash_find_client(srv, name)
        S1 == IF S.cl[c].name = None THEN S ELSE hash_del_client(S, c)
    IN /\ srv.cl[c].at # "user"
       /\ Client(S, name) \in {None, c}
       /\ Step("user", hash_add_client([S1 EXCEPT !.cl[c].at = "unknown", !.cl[c].name = name, !.cl[c].host = HostOf[c]], c))
mr_user(c, pwdOk) == srv.cl[c].at = "unknown" /\ Step("user", register_local_user(srv, c, pwdOk))
(* Collisions of nicknames are for the Network module.                     *)
register_remote_user(c, name) ==
    LET S == hash_find_client(srv, name)
        S1 == hash_add_id(hash_add_client([S EXCEPT !.cl[c].at = "user", !.cl[c].name = name, !.cl[c].host = HostOf[c]], c), c)
    IN /\ srv.cl[c].at = "none"
       /\ Client(S, name) = None
       /\ Step("remote", introduce_client(add_user_host(S1, c), c))
m_nick(c, name) ==
    LET S == hash_find_client(srv, name)
        other == Client(S, name)
    IN /\ IsClient(srv, c)
       /\ other \notin {None, c} => srv.cl[other].at = "unknown"
       /\ srv.cl[c].name # name
       /\ Step("nick", change_local_nick(IF other \in {None, c} THEN S ELSE exit_client(S, other), c, name))
ms_nick(c, name) ==
    LET S == hash_find_client(hash_find_id(srv, c), name)
    IN /\ HasId(S, c)
       /\ Client(S, name) \in {None, c}
       /\ Step("remote", change_remote_nick(S, c, name))
ms_svsnick(c, name) ==
    LET S == hash_find_client(hash_find_id(srv, c), name)
        other == Client(S, name)
        S1 == watch_check_hash(IF other \in {None, c} THEN S ELSE exit_client(S, other), c, "off")
        S2 == hash_add_client([hash_del_client(whowas_add_history(S1, c, TRUE), c) EXCEPT !.cl[c].name = name], c)
    IN /\ IsClient(srv, c) /\ srv.cl[c].name # name
       /\ Step("services", IF other \in {None, c} \/ S.cl[other].at = "unknown" THEN watch_check_hash(S2, c, "on") ELSE exit_client(S, c))
ms_svsmode_x(c, host) == IsClient(srv, c) /\ Step("services", user_set_hostmask(srv, c, host))
Quit(c) == srv.cl[c].at # "none" /\ Step("quit", exit_client(srv, c))
(* A server leaves with its users.                                         *)
recurse_remove_clients ==
    Step("quit", FoldLeft(LAMBDA S, c : exit_one_client(S, c), srv, SelectSeq(SetToSeq(Remote), LAMBDA c : srv.cl[c].at = "user")))
(* KILL and others follow a nickname to the client that gave it up.        *)
find_chasing(name) ==
    LET c == whowas_get_history(srv, name, ChaseTime)
    IN find_person(hash_find_client(srv, name), name) = None /\ c # None /\ Step("quit", exit_client(srv, c))

m_watch(c, op, name) ==
    LET S == hash_find_client(srv, name)
        full == Len(srv.cl[c].watches) >= MaxWatch
        shown(T, n) == show_watch(hash_find_client(T, n), c, n)
    IN /\ IsClient(srv, c)
       /\ Step("watch",
            CASE op = "+" -> IF full THEN srv ELSE show_watch(watch_add_to_hash_table(S, name, c), c, name)
              [] op = "-" -> show_watch(watch_del_from_hash_table(S, name, c), c, name)
              [] op = "C" -> watch_del_watch_list(srv, c)
              [] op = "L" -> FoldLeft(shown, srv, srv.cl[c].watches))
find_accept(c, mask) == Contains(srv.cl[c].accepts, mask)
m_accept(c, op, mask) ==
    /\ IsClient(srv, c)
    /\ IF op = "-" THEN find_accept(c, mask) /\ Step("accept", [srv EXCEPT !.cl[c].accepts = Without(@, mask)])
       ELSE /\ Len(srv.cl[c].accepts) < MaxAccept /\ ~find_accept(c, mask)
            /\ Step("accept", [srv EXCEPT !.cl[c].accepts = <<mask>> \o @])

m_list(c, options) == IsClient(srv, c) /\ Step("list", do_list(srv, c, options))
io_loop ==
    /\ srv.listing # <<>>
    /\ Step("list", FoldLeft(LAMBDA S, c : safe_list_channels(S, c, FALSE), srv, srv.listing))
ReadsOutput(c) == IsClient(srv, c) /\ Step("list", [srv EXCEPT !.cl[c].sendq = 0])
(* A LIST owes its client the channels that stay listable.                 *)
Owe(S) ==
    LET owed(c) == {ch \in S.cl[c].list.due : S.chan[ch] # None /\ Listable(S.chan[ch], ch, S.cl[c].list)}
    IN FoldLeft(LAMBDA T, c : [T EXCEPT !.cl[c].list.due = owed(c)], S, S.listing)
ChannelMade(ch) == srv.chan[ch] = None /\ Step("chan", hash_add_channel([srv EXCEPT !.chan[ch] = Channels[ch]], ch))
ChannelGone(ch) == srv.chan[ch] # None /\ Step("chan", Owe(hash_del_channel([srv EXCEPT !.chan[ch] = None], ch)))
ChannelSized(ch, size) ==
    srv.chan[ch] # None /\ Step("chan", Owe([hash_find_channel(srv, ch) EXCEPT !.chan[ch].size = size]))
Tick == /\ "tick" \in scene.acts /\ scene.steps > 0
        /\ now' = now + 1 /\ scene' = [scene EXCEPT !.steps = @ - 1] /\ UNCHANGED srv

Next ==
    \/ \E c \in Local, name \in scene.nicks : mr_nick(c, name)
    \/ \E c \in Local, ok \in BOOLEAN : mr_user(c, ok)
    \/ \E c \in Remote, name \in scene.nicks : register_remote_user(c, name)
    \/ \E c \in Local, name \in scene.nicks : m_nick(c, name)
    \/ \E c \in Remote, name \in scene.nicks : ms_nick(c, name)
    \/ \E c \in Local, name \in scene.nicks : ms_svsnick(c, name)
    \/ \E c \in AllClients, host \in Hosts : ms_svsmode_x(c, host)
    \/ \E c \in Local : Quit(c)
    \/ recurse_remove_clients
    \/ \E name \in scene.nicks : find_chasing(name)
    \/ \E c \in Local, op \in {"+", "-", "C", "L"}, name \in scene.nicks : m_watch(c, op, name)
    \/ \E c \in Local, op \in {"+", "-"}, mask \in Masks : m_accept(c, op, mask)
    \/ \E c \in Local, options \in Options \cup (IF "options" \in scene.acts THEN MoreOptions ELSE {}) : m_list(c, options)
    \/ io_loop
    \/ \E c \in Local : ReadsOutput(c)
    \/ \E ch \in DOMAIN Channels : ChannelMade(ch) \/ ChannelGone(ch)
    \/ \E ch \in DOMAIN Channels, size \in 1..2 : ChannelSized(ch, size)
    \/ Tick

-----------------------------------------------------------------------------
Online(name) == \E c \in AllClients : IsClient(srv, c) /\ Fold[srv.cl[c].name] = Fold[name]
(* The slot of the one who gave a nickname up last is not used again.      *)
Chased(name) ==
    LET l == srv.last[Fold[name]]
    IN IF l # None /\ l.time >= now - ChaseTime /\ srv.who[l.slot].online = l.by /\ Fold[srv.who[l.slot].name] = Fold[name]
       THEN l.by ELSE None

(* What the server tells its clients is so. A client that watches a        *)
(* nickname was last told whether it is in use (watch_check_hash() is      *)
(* called wherever a nickname comes or goes); a nickname that was given up *)
(* leads to the client that had it last, while that client is there and    *)
(* the history long enough (whowas_get_history()); a LIST shows every      *)
(* channel that could be listed all the time it took, and none twice,      *)
(* however often it waited for the sendq (safe_list_channels()).           *)
ReportsTrue ==
    /\ \A c \in Local : \A n \in ToSet(srv.cl[c].watches) : srv.told[c][n] = IF Online(n) THEN "on" ELSE "off"
    /\ \A n \in DOMAIN Fold : whowas_get_history(srv, n, ChaseTime) = Chased(n)
    /\ \A c \in Local :
         /\ srv.ended[c] # None => srv.ended[c].due \subseteq ToSet(srv.ended[c].shown) /\ IsInjective(srv.ended[c].shown)
         /\ srv.cl[c].list # None => IsInjective(srv.cl[c].list.shown) /\ Contains(srv.listing, c)

Sharing(name, host) == {c \in AllClients : srv.cl[c].counted /\ UserName[c] = name /\ srv.cl[c].host = host}
Elements(T) == UNION {ToSet(T[b]) : b \in DOMAIN T}
(* The tables hold what is there: every client is found by its nickname    *)
(* and its identifier, and no other; user@host is counted exactly, through *)
(* changes of the host (user_set_hostmask()); a client watches a nickname  *)
(* iff the entry of the nickname knows the client; history points to       *)
(* clients that point back.                                                *)
TablesMatch ==
    /\ \A c \in AllClients :
         /\ srv.cl[c].name # None => Client(hash_find_client(srv, srv.cl[c].name), srv.cl[c].name) = c
         /\ IsClient(srv, c) <=> HasId(hash_find_id(srv, c), c)
         /\ IsClient(srv, c) => count_user_host(srv, UserName[c], srv.cl[c].host) =
              LET all == Sharing(UserName[c], srv.cl[c].host)
              IN <<Cardinality(all), Cardinality(all \cap Local), Cardinality(all \cap Local \cap HasIdent)>>
         /\ IsInjective(srv.cl[c].accepts) /\ Len(srv.cl[c].accepts) <= MaxAccept /\ Len(srv.cl[c].watches) <= MaxWatch
         /\ \A k \in ToSet(srv.cl[c].whowas) : srv.who[k] # None /\ srv.who[k].online = c
    /\ Elements(srv.clientTable) = {c \in AllClients : srv.cl[c].name # None}
    /\ {u.host : u \in Elements(srv.userhostTable)} = {srv.cl[c].host : c \in {d \in AllClients : srv.cl[d].counted}}
    /\ \A n \in {Fold[m] : m \in DOMAIN Fold} : LET k == watch_find_hash(srv, n) IN
         /\ k # 0 => srv.watch[k].watched_by # <<>>
         /\ {c \in Local : Contains(srv.cl[c].watches, n)} = IF k = 0 THEN {} ELSE ToSet(srv.watch[k].watched_by)
    /\ \A k \in DOMAIN srv.who : srv.who[k] # None /\ srv.who[k].online # None => Contains(srv.cl[srv.who[k].online].whowas, k)
=============================================================================
