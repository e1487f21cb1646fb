------------------------------ MODULE Channels ------------------------------
(***************************************************************************)
(* Channels on a network of servers.  The servers form a tree; each keeps   *)
(* its own copy of every channel, and hears of changes through the FIFO     *)
(* streams of its links.  Copies differ while messages are on their way and *)
(* while the network is split, and are merged by timestamp when it rejoins. *)
(*                                                                         *)
(* Handlers are the actions: the commands of a server's own users (m_join,  *)
(* m_part, m_mode, ...) and the messages of other servers (ms_sjoin,        *)
(* ms_join, ms_tmode, ...).  What a channel is, and how one is computed     *)
(* from another, is in ChannelModes.                                       *)
(*                                                                         *)
(* A command refused by a throttle (INVITE, KNOCK, NICK too fast) leaves    *)
(* everything as it is, so it is a command not given.                      *)
(***************************************************************************)
EXTENDS ChannelModes, FiniteSetsExt

CONSTANTS
    Servers,        \* server IDs
    Chans,          \* channel names
    Home,           \* Home[u]: the server user u is connected to
    Umodes,         \* Umodes[u], a subset of {"ssl", "registered", "oper", "opme"}
    Services,       \* servers with FLAGS_SERVICE
    Reserved,       \* channel names under a RESV
    Texts,          \* what messages contain
    NewIdents,      \* the identities users change to
    MaxChannels,    \* channel::max_channels
    ClassChannels,  \* ClassChannels[u]: max_channels of the class of u, 0 for none
    Scenes,         \* see scene
    SplitServers, SplitUsers,
    MaxTime,        \* bound on the clock
    MaxConnects     \* bound on links that come up

ASSUME ChannelAssumption ==
    /\ Home \in [Users -> Servers]
    /\ MaxChannels \in Nat \ {0} /\ MaxTime \in Nat \ {0, 1} /\ IsFiniteSet(Chans)

(* A channel that users of s alone have made, some time ago.                *)
Apart(s, k) ==
    /\ k \in ChannelsOf({k.members}) /\ k.invites = {}
    /\ k.members \in [DOMAIN k.members -> SUBSET Status]
    /\ DOMAIN k.members \subseteq {u \in Users : Home[u] = s}
    /\ IF Exists(k) THEN k.ts > 0 ELSE k = NoChannel

ASSUME SceneAssumption ==
    \A x \in Scenes :
      /\ x.chans = [s \in Servers |-> [c \in Chans |-> x.chans[s][c]]]
      /\ \A s \in Servers, c \in Chans : Apart(s, x.chans[s][c])
      /\ \A list \in x.joins : list \in Seq([chan : Chans \cup {"0"}, key : Args])
      /\ \A line \in x.lines : /\ line.args \in Seq(Args)
                               /\ line.letters \in Seq([dir : {"+", "-", "="}, letter : STRING])
      /\ x.topics \subseteq Topics

VARIABLES
    scene,          \* what users and operators do: [chans: what the servers start with,
                    \* links: a tree of {s, t} pairs, actors: users that give
                    \* commands, commands: the names of those,
                    \* joins: parameters of JOIN, sequences of [chan, key] where chan
                    \* may be "0", lines: parameters of MODE, [letters, args],
                    \* topics: parameters of TOPIC, maxops: the bound on commands,
                    \* splitconf: which of no_join_on_split, no_create_on_split are set]
    chans,          \* chans[s][c]: the channel c as s knows it
    invited,        \* invited[u]: Connection::invited of u, newest first
    known,          \* known[s]: the users s knows
    net,            \* net[s]: the servers s knows, itself included
    linked,         \* linked[s]: its directly linked servers
    queue,          \* queue[s][t]: what s has sent to t
    ident,          \* ident[u]: name, username and host of u at its server
    splitmode,      \* splitmode[s]
    now,            \* CurrentTime
    ops, connects,  \* commands given and links set up so far
    earned          \* earned[c][u]: the oldest TS under which u was made operator

vars == <<chans, invited, known, net, linked, queue, ident, splitmode, now,
          ops, connects, earned, scene>>

Never == MaxTime + 1

(* The neighbour of s towards t: the tree gives one path.                   *)
Neighbours(s) == {t \in Servers \ {s} : {s, t} \in scene.links}
Side(s, t) ==
    LET Grow(S) == S \cup UNION {Neighbours(x) \ {s} : x \in S}
    IN  FoldSet(LAMBDA i, S : Grow(S), {t}, 1..Cardinality(Servers))
From(s, u) == CHOOSE t \in Neighbours(s) : Home[u] \in Side(s, t)
MyConnect(s, u) == Home[u] = s
Locals(s) == {u \in known[s] : MyConnect(s, u)}
-----------------------------------------------------------------------------
(* What a handler computes: [chan, invited], the channels of its server and *)
(* the invitation lists of the users there.                                 *)

Here(s) == [chan |-> chans[s], invited |-> invited]

Without(seq, e) == Keep(seq, Chans \ {e})

del_invite_fault(S, c, u) == [S EXCEPT !.chan[c].invites = @ \ {u}]
del_invite(S, c, u) ==
    [chan |-> [S.chan EXCEPT ![c].invites = @ \ {u}],
     invited |-> [S.invited EXCEPT ![u] = Without(@, c)]]

(* del_invite() of every user who was invited.                              *)
clear_invites(S, c) ==
    [chan |-> [S.chan EXCEPT ![c].invites = {}],
     invited |-> [u \in Users |-> IF u \in S.chan[c].invites
                                  THEN Without(S.invited[u], c) ELSE S.invited[u]]]

(* Delete the last link in the chain if the list is of maximal length.      *)
add_invite(S, c, u) ==
    LET T == del_invite(S, c, u)
        V == IF Len(T.invited[u]) >= MaxChannels
             THEN del_invite(T, Last(T.invited[u]), u) ELSE T
    IN  [chan |-> [V.chan EXCEPT ![c].invites = @ \cup {u}],
         invited |-> [V.invited EXCEPT ![u] = <<c>> \o @]]

(* remove_user_from_channel, with the invitations destroy_channel clears    *)
leave_channel(S, c, us) ==
    LET k == remove_users(S.chan[c], us)
        T == IF Exists(k) \/ ~ Exists(S.chan[c]) THEN S ELSE clear_invites(S, c)
    IN  [T EXCEPT !.chan[c] = IF Exists(k) THEN k ELSE NoChannel]

(* The same for every channel.                                              *)
leave_channels(S, us) ==
    LET left == [c \in Chans |-> remove_users(S.chan[c], us)]
        lost(u) == {c \in Chans : ~ Exists(left[c]) /\ u \in S.chan[c].invites}
    IN  [chan |-> left,
         invited |-> [u \in Users |-> Keep(S.invited[u], Chans \ lost(u))]]

(* exit_one_client: out of every channel; a client of this server also out  *)
(* of every channel's invitation list.                                      *)
forget_users(s, S, us) ==
    LET T == leave_channels(S, us)
        mine == {u \in us : MyConnect(s, u)}
        invites(c) == T.chan[c].invites \ {u \in mine : c \in ToSet(T.invited[u])}
    IN  [chan |-> [c \in Chans |-> [T.chan[c] EXCEPT !.invites = invites(c)]],
         invited |-> [u \in Users |-> IF u \in mine THEN <<>> ELSE T.invited[u]]]
-----------------------------------------------------------------------------
(* Messages and the streams that carry them.                                *)

Server(servers, users) == [kind |-> "SERVER", servers |-> servers, users |-> users]
Squit(servers) == [kind |-> "SQUIT", servers |-> servers]
Quit(u) == [kind |-> "QUIT", user |-> u]
ZeroModes == [zero |-> TRUE, mode |-> {}, limit |-> 0, key |-> ""]
ModesOf(c) == [zero |-> FALSE, mode |-> c.mode, limit |-> c.limit, key |-> c.key]
Sjoin(c, ts, modes, nicks) ==
    [kind |-> "SJOIN", chan |-> c, ts |-> ts, modes |-> modes, nicks |-> nicks]
Join(u, c, ts) == [kind |-> "JOIN", user |-> u, chan |-> c, ts |-> ts]
Part(u, c) == [kind |-> "PART", user |-> u, chan |-> c]
Kick(u, c) == [kind |-> "KICK", user |-> u, chan |-> c]
Tmode(c, ts, line) == [kind |-> "TMODE", chan |-> c, ts |-> ts, line |-> line]
Bmask(c, ts, l, masks) == [kind |-> "BMASK", chan |-> c, ts |-> ts, list |-> l, masks |-> masks]
Topic(c, topic) == [kind |-> "TOPIC", chan |-> c, topic |-> topic]
Tburst(c, ts, when, topic) ==
    [kind |-> "TBURST", chan |-> c, ts |-> ts, when |-> when, topic |-> topic]
Invite(u, c, ts) == [kind |-> "INVITE", user |-> u, chan |-> c, ts |-> ts]

(* send_channel_modes and send_tb                                           *)
burst_channel(c, k) ==
    LET nicks == [u \in DOMAIN k.members |-> k.members[u] \cap Status]
        lists == Keep(<<"b", "e", "I">>, {l \in Lists : k.list[l] # {}})
    IN  <<Sjoin(c, k.ts, ModesOf(k), nicks)>>
        \o [i \in DOMAIN lists |-> Bmask(c, k.ts, lists[i], k.list[lists[i]])]
        \o IF k.topic_time = 0 THEN <<>>
           ELSE <<Tburst(c, k.ts, k.topic_time, k.topic)>>

(* server_burst: the servers and users we know, then the channels.          *)
burst_all(s) ==
    LET order == SetToSeq({c \in Chans : Exists(chans[s][c])})
        sent[i \in 0 .. Len(order)] ==
          IF i = 0 THEN <<Server(net[s], known[s])>>
          ELSE sent[i - 1] \o burst_channel(order[i], chans[s][order[i]])
    IN  sent[Len(order)]

(* sendto_server: to every linked server but the one it came from (s itself *)
(* for a local user).                                                       *)
sendto_server(q, s, from, msgs) ==
    [q EXCEPT ![s] = [t \in Servers |->
        IF t \in linked[s] \ {from} THEN @[t] \o msgs ELSE @[t]]]

(* sendto_one to a user of another server                                   *)
sendto_user(q, s, u, msg) == [q EXCEPT ![s][From(s, u)] = Append(@, msg)]

(* The end of a handler on s: its new state, what it tells the others.      *)
Done(s, S, q) ==
    /\ chans' = [chans EXCEPT ![s] = S.chan]
    /\ invited' = S.invited
    /\ queue' = q
-----------------------------------------------------------------------------
(* Commands of the users of s.                                              *)

Command(s, u, name) ==
    /\ name \in scene.commands
    /\ u \in Locals(s) \cap scene.actors
    /\ ops < scene.maxops /\ ops' = ops + 1
Quiet == UNCHANGED <<known, net, linked, ident, splitmode, now, connects, scene>>

Who(S, c, u) ==
    [ident |-> ident[u], umodes |-> Umodes[u], invited |-> c \in ToSet(S.invited[u])]
Oper(u) == "oper" \in Umodes[u]
Channels(S, u) == {c \in Chans : IsMember(S.chan[c], u)}

(* channel_do_join_0: PART for every channel the user is on.                *)
channel_do_join_0(S, u) ==
    LET parted == SetToSeq(Channels(S, u))
    IN  [S |-> leave_channels(S, {u}),
         out |-> [i \in DOMAIN parted |-> Part(u, parted[i])]]

(* channel_find_last0: what stands before the last "0" is not looked at.    *)
channel_find_last0(list) ==
    LET zeros == {i \in DOMAIN list : list[i].chan = "0"}
    IN  IF zeros = {} THEN 0 ELSE Max(zeros)

(* One channel of channel_do_join.  x = [S, out, made, stop]; made: the     *)
(* channels whose operator the user became, stop: ERR_TOOMANYCHANNELS.      *)
join_one(s, u, x, c, key) ==
    LET k == x.S.chan[c]
        held == splitmode[s] /\ ~ Oper(u)
        limit == IF ClassChannels[u] # 0 THEN ClassChannels[u] ELSE MaxChannels
        refused ==
            \/ IsMember(k, u)
            \/ held /\ "no_join_on_split" \in scene.splitconf
            \/ held /\ ~ Exists(k) /\ "no_create_on_split" \in scene.splitconf
            \/ Exists(k) /\ ~ can_join(k, Who(x.S, c, u), key)
        joined ==
            IF Exists(k) THEN add_user_to_channel(k, u, {})
            ELSE [add_user_to_channel(NoChannel, u, {"o"})
                    EXCEPT !.ts = now, !.mode = {"n", "t"}]
        told ==
            IF Exists(k) THEN Join(u, c, k.ts)
            ELSE Sjoin(c, now, [zero |-> FALSE, mode |-> {"n", "t"}, limit |-> 0, key |-> ""],
                       [v \in {u} |-> {"o"}])
    IN  IF x.stop \/ (c \in Reserved /\ ~ Oper(u)) THEN x
        ELSE IF Cardinality(Channels(x.S, u)) >= limit THEN [x EXCEPT !.stop = TRUE]
        ELSE IF refused THEN x
        ELSE [S |-> del_invite([x.S EXCEPT !.chan[c] = joined], c, u),
              out |-> Append(x.out, told),
              made |-> IF Exists(k) THEN x.made ELSE x.made \cup {c},
              stop |-> x.stop]

channel_do_join(s, u, list) ==
    LET z == channel_find_last0(list)
        zero == IF z = 0 THEN [S |-> Here(s), out |-> <<>>]
                ELSE channel_do_join_0(Here(s), u)
        start == [S |-> zero.S, out |-> zero.out, made |-> {}, stop |-> FALSE]
        rest == SubSeq(list, z + 1, Len(list))
        x[i \in 0 .. Len(rest)] ==
          IF i = 0 THEN start ELSE join_one(s, u, x[i - 1], rest[i].chan, rest[i].key)
    IN  x[Len(rest)]

Min2(a, b) == IF a < b THEN a ELSE b
Earn(cs, us, ts) ==
    earned' = [c \in Chans |-> [u \in Users |->
        IF c \in cs /\ u \in us THEN Min2(earned[c][u], ts) ELSE earned[c][u]]]

(* JOIN, and SVSJOIN from services for one of our users                     *)
m_join(s, u) ==
    /\ Command(s, u, "JOIN")
    /\ \E list \in scene.joins :
         LET x == channel_do_join(s, u, list)
         IN  /\ Done(s, x.S, sendto_server(queue, s, s, x.out))
             /\ Earn(x.made, {u}, now)
    /\ Quiet

(* PART.  A reason is refused by nothing: every result of can_send(), the   *)
(* errors too, is not 0.  What can_send() caches goes with the membership.  *)
m_part(s, u) ==
    /\ Command(s, u, "PART")
    /\ \E c \in Channels(Here(s), u) :
         Done(s, leave_channel(Here(s), c, {u}), sendto_server(queue, s, s, <<Part(u, c)>>))
    /\ UNCHANGED earned
    /\ Quiet

m_kick(s, u) ==
    /\ Command(s, u, "KICK")
    /\ \E c \in Channels(Here(s), u), v \in known[s] :
         LET k == chans[s][c]
         IN  /\ has_member_flags(k, u, {"o", "h"})
             /\ IsMember(k, v)
             /\ "o" \in k.members[u] \/ ~ has_member_flags(k, v, {"o", "h"})
             /\ Done(s, leave_channel(Here(s), c, {v}), sendto_server(queue, s, s, <<Kick(v, c)>>))
    /\ UNCHANGED earned
    /\ Quiet

(* The source of a mode change, as the functions of ModeTable look at it.   *)
Source(c, u, local) ==
    [alev |-> get_channel_access(c, u, local), local |-> local, server |-> FALSE,
     service |-> FALSE, oper |-> Oper(u), opme |-> "opme" \in Umodes[u] /\ local]
RemoteSource ==
    [alev |-> CHACCESS_REMOTE, local |-> FALSE, server |-> TRUE, service |-> FALSE,
     oper |-> FALSE, opme |-> FALSE]

Tmodes(c, ts, changes) ==
    LET lines == send_mode_changes_server(changes)
    IN  [i \in DOMAIN lines |-> Tmode(c, ts, lines[i])]

m_mode(s, u) ==
    /\ Command(s, u, "MODE")
    /\ \E c \in Chans, line \in scene.lines :
         LET k == chans[s][c]
             x == set_channel_mode(k, Source(k, u, TRUE), line.letters, line.args, known[s])
         IN  /\ Exists(k)
             /\ Done(s, [Here(s) EXCEPT !.chan[c] = x.chan],
                     sendto_server(queue, s, s, Tmodes(c, k.ts, x.changes)))
             /\ Earn({c}, Opped(x.changes), k.ts)
    /\ Quiet

(* OPME: an IRC operator becomes operator of a channel that has none.       *)
mo_opme(s, u) ==
    /\ Command(s, u, "OPME")
    /\ "opme" \in Umodes[u]
    /\ \E c \in Channels(Here(s), u) :
         LET k == chans[s][c]
         IN  /\ \A v \in DOMAIN k.members : "o" \notin k.members[v]
             /\ Done(s, [Here(s) EXCEPT !.chan[c].members[u] = @ \cup {"o"}],
                     sendto_server(queue, s, s, <<Tmode(c, k.ts, <<Change("+", "o", u)>>)>>))
             /\ Earn({c}, {u}, k.ts)
    /\ Quiet

m_topic(s, u) ==
    /\ Command(s, u, "TOPIC")
    /\ \E c \in Channels(Here(s), u), topic \in scene.topics :
         LET k == chans[s][c]
         IN  /\ "t" \in k.mode => has_member_flags(k, u, {"o", "h"})
             /\ Done(s, [Here(s) EXCEPT !.chan[c] = channel_set_topic(@, topic, now)],
                     sendto_server(queue, s, s, <<Topic(c, topic)>>))
    /\ UNCHANGED earned
    /\ Quiet

(* An invitation is kept only for a +i channel, at the server of the user.  *)
Invited(s, c, v) ==
    IF "i" \in chans[s][c].mode THEN add_invite(Here(s), c, v) ELSE Here(s)

m_invite(s, u) ==
    /\ Command(s, u, "INVITE")
    /\ \E c \in Channels(Here(s), u), v \in known[s] :
         LET k == chans[s][c]
         IN  /\ has_member_flags(k, u, {"o", "h"})
             /\ ~ IsMember(k, v)
             /\ IF MyConnect(s, v) THEN Done(s, Invited(s, c, v), queue)
                ELSE Done(s, Here(s), sendto_user(queue, s, v, Invite(v, c, k.ts)))
    /\ UNCHANGED earned
    /\ Quiet

(* PRIVMSG or NOTICE to a channel: what can_send() leaves in the membership.*)
msg_channel(s, u) ==
    /\ Command(s, u, "PRIVMSG")
    /\ \E c \in Chans, text \in Texts :
         /\ Exists(chans[s][c])
         /\ Done(s, [Here(s) EXCEPT !.chan[c] =
                    can_send(@, u, Who(Here(s), c, u), c \in Reserved /\ ~ Oper(u), text)],
                 queue)
    /\ UNCHANGED earned
    /\ Quiet

(* change_local_nick, ms_svsnick and user_set_hostmask: the user is another *)
(* one for ban masks.                                                       *)
change_ident_fault(s, u) ==
    /\ Command(s, u, "NICK")
    /\ \E i \in NewIdents \ {ident[u]} : ident' = [ident EXCEPT ![u] = i]
    /\ UNCHANGED <<chans, invited, queue, known, net, linked, splitmode, now, connects, earned, scene>>
change_ident(s, u) ==
    /\ Command(s, u, "NICK")
    /\ \E i \in NewIdents \ {ident[u]} : ident' = [ident EXCEPT ![u] = i]
    /\ chans' = [chans EXCEPT ![s] = [c \in Chans |-> clear_ban_cache_client(@[c], u)]]
    /\ UNCHANGED <<invited, queue, known, net, linked, splitmode, now, connects, earned, scene>>

(* QUIT, KILL or a lost connection                                          *)
m_quit(s, u) ==
    /\ Command(s, u, "QUIT")
    /\ Done(s, forget_users(s, Here(s), {u}), sendto_server(queue, s, s, <<Quit(u)>>))
    /\ known' = [known EXCEPT ![s] = @ \ {u}]
    /\ UNCHANGED <<net, linked, ident, splitmode, now, connects, earned, scene>>
-----------------------------------------------------------------------------
(* Messages of other servers.  from is the linked server they came through. *)

Recv(from, s, kind) ==
    /\ queue[from][s] # <<>>
    /\ Head(queue[from][s]).kind = kind
Msg(from, s) == Head(queue[from][s])
Taken(from, s) == [queue EXCEPT ![from][s] = Tail(@)]
Relay(from, s, msgs) == sendto_server(Taken(from, s), s, from, msgs)

Static == UNCHANGED <<ops, known, net, linked, ident, splitmode, now, connects, scene>>

(* Nicks that are unknown, or that come from a wrong direction, are skipped.*)
ms_sjoin(from, s) ==
    /\ Recv(from, s, "SJOIN")
    /\ LET m == Msg(from, s)
           old == chans[s][m.chan]
           keep == KeepTheirs(old, m.ts)
           new == [ts |-> m.ts, mode |-> m.modes.mode, limit |-> m.modes.limit,
                   key |-> m.modes.key]
           S == IF KeepOurs(old, m.ts) THEN Here(s) ELSE clear_invites(Here(s), m.chan)
           here == {u \in DOMAIN m.nicks \cap known[s] :
                        ~ MyConnect(s, u) /\ From(s, u) = from}
           nicks == [u \in here |-> IF keep THEN m.nicks[u] ELSE {}]
           merged == sjoin_merge([old EXCEPT !.invites = S.chan[m.chan].invites], new)
           k == sjoin_members(merged, nicks)
           modes == IF keep /\ ~ m.modes.zero THEN ModesOf(merged) ELSE ZeroModes
       IN  Done(s, [S EXCEPT !.chan[m.chan] = IF Exists(k) THEN k ELSE NoChannel],
                Relay(from, s, IF here = {} THEN <<>>
                               ELSE <<Sjoin(m.chan, merged.ts, modes, nicks)>>))
    /\ UNCHANGED earned
    /\ Static

ms_join(from, s) ==
    /\ Recv(from, s, "JOIN")
    /\ LET m == Msg(from, s)
           old == chans[s][m.chan]
           merged == join_merge(old, m.ts)
           k == IF IsMember(old, m.user) THEN merged ELSE add_user_to_channel(merged, m.user, {})
       IN  IF m.user \notin known[s] THEN Done(s, Here(s), Taken(from, s))
           ELSE Done(s, [Here(s) EXCEPT !.chan[m.chan] = k],
                     Relay(from, s, <<Join(m.user, m.chan, k.ts)>>))
    /\ UNCHANGED earned
    /\ Static

(* PART and KICK from afar: passed on if they take somebody away.           *)
ms_part(from, s) ==
    /\ \E kind \in {"PART", "KICK"} : Recv(from, s, kind)
    /\ LET m == Msg(from, s)
       IN  IF m.user \in known[s] /\ IsMember(chans[s][m.chan], m.user)
           THEN Done(s, leave_channel(Here(s), m.chan, {m.user}), Relay(from, s, <<m>>))
           ELSE Done(s, Here(s), Taken(from, s))
    /\ UNCHANGED earned
    /\ Static

(* TS is higher, drop it.                                                   *)
tmode_counts(c, m) == Exists(c) /\ m.ts <= c.ts

ms_tmode(from, s) ==
    /\ Recv(from, s, "TMODE")
    /\ LET m == Msg(from, s)
           k == chans[s][m.chan]
           x == set_channel_mode(k, RemoteSource, m.line, ArgsOf(m.line), known[s])
       IN  IF tmode_counts(k, m)
           THEN Done(s, [Here(s) EXCEPT !.chan[m.chan] = x.chan],
                     Relay(from, s, Tmodes(m.chan, k.ts, x.changes)))
           ELSE Done(s, Here(s), Taken(from, s))
    /\ UNCHANGED earned
    /\ Static

(* Every mask goes through add_id; the line is passed on as it came, with   *)
(* our own timestamp.                                                       *)
AddMasks(c, l, masks) == [ForgetBans(c, l) EXCEPT !.list[l] = @ \cup masks]

ms_bmask(from, s) ==
    /\ Recv(from, s, "BMASK")
    /\ LET m == Msg(from, s)
           k == chans[s][m.chan]
       IN  IF tmode_counts(k, m)
           THEN Done(s, [Here(s) EXCEPT !.chan[m.chan] = AddMasks(@, m.list, m.masks)],
                     Relay(from, s, <<Bmask(m.chan, k.ts, m.list, m.masks)>>))
           ELSE Done(s, Here(s), Taken(from, s))
    /\ UNCHANGED earned
    /\ Static

(* TOPIC is not compared with anything.                                     *)
ms_topic(from, s) ==
    /\ Recv(from, s, "TOPIC")
    /\ LET m == Msg(from, s)
       IN  IF Exists(chans[s][m.chan])
           THEN Done(s, [Here(s) EXCEPT !.chan[m.chan] = channel_set_topic(@, m.topic, now)],
                     Relay(from, s, <<m>>))
           ELSE Done(s, Here(s), Taken(from, s))
    /\ UNCHANGED earned
    /\ Static

ms_tburst(from, s) ==
    /\ Recv(from, s, "TBURST")
    /\ LET m == Msg(from, s)
           k == chans[s][m.chan]
       IN  IF Exists(k) /\ tburst_accepts(k, m.ts, m.when, from \in Services)
           THEN Done(s, [Here(s) EXCEPT !.chan[m.chan] = channel_set_topic(@, m.topic, m.when)],
                     Relay(from, s, <<m>>))
           ELSE Done(s, Here(s), Taken(from, s))
    /\ UNCHANGED earned
    /\ Static

ms_invite(from, s) ==
    /\ Recv(from, s, "INVITE")
    /\ LET m == Msg(from, s)
           k == chans[s][m.chan]
       IN  IF m.user \notin known[s] \/ ~ Exists(k) \/ IsMember(k, m.user) \/ m.ts > k.ts
           THEN Done(s, Here(s), Taken(from, s))
           ELSE IF MyConnect(s, m.user)
           THEN Done(s, Invited(s, m.chan, m.user), Taken(from, s))
           ELSE Done(s, Here(s),
                     IF From(s, m.user) = from THEN Taken(from, s)
                     ELSE sendto_user(Taken(from, s), s, m.user, Invite(m.user, m.chan, k.ts)))
    /\ UNCHANGED earned
    /\ Static

ms_quit(from, s) ==
    /\ Recv(from, s, "QUIT")
    /\ LET m == Msg(from, s)
       IN  IF m.user \in known[s]
           THEN /\ Done(s, forget_users(s, Here(s), {m.user}), Relay(from, s, <<m>>))
                /\ known' = [known EXCEPT ![s] = @ \ {m.user}]
           ELSE Done(s, Here(s), Taken(from, s)) /\ UNCHANGED known
    /\ UNCHANGED <<ops, net, linked, ident, splitmode, now, connects, earned, scene>>
-----------------------------------------------------------------------------
(* Links.  The server that is called introduces itself and bursts first;    *)
(* the caller bursts when it sees that introduction.                        *)

Connect(s, t) ==
    /\ connects < MaxConnects
    /\ t \in Neighbours(s) \ linked[s]
    /\ s \notin linked[t]
    /\ connects' = connects + 1
    /\ linked' = [linked EXCEPT ![s] = @ \cup {t}]
    /\ net' = [net EXCEPT ![s] = @ \cup {t}]
    /\ queue' = [sendto_server(queue, s, t, <<Server({t}, {})>>) EXCEPT ![s][t] = burst_all(s)]
    /\ UNCHANGED <<chans, invited, known, ident, splitmode, now, ops, earned, scene>>

(* SERVER and SID, with the UIDs that follow.                               *)
ms_server(from, s) ==
    /\ Recv(from, s, "SERVER")
    /\ LET m == Msg(from, s)
           q == Relay(from, s, <<m>>)
       IN  /\ queue' = IF from \in linked[s] THEN q
                       ELSE [q EXCEPT ![s][from] = burst_all(s)]
           /\ net' = [net EXCEPT ![s] = @ \cup m.servers]
           /\ known' = [known EXCEPT ![s] = @ \cup m.users]
    /\ linked' = [linked EXCEPT ![s] = @ \cup {from}]
    /\ UNCHANGED <<chans, invited, ident, splitmode, now, ops, connects, earned, scene>>

(* exit_client of a server: every server and user behind it is gone.        *)
Gone(s, servers) == {u \in known[s] : Home[u] \in servers}

ms_squit(from, s) ==
    /\ Recv(from, s, "SQUIT")
    /\ LET m == Msg(from, s)
       IN  /\ Done(s, forget_users(s, Here(s), Gone(s, m.servers)), Relay(from, s, <<m>>))
           /\ known' = [known EXCEPT ![s] = @ \ Gone(s, m.servers)]
           /\ net' = [net EXCEPT ![s] = @ \ m.servers]
    /\ UNCHANGED <<linked, ident, splitmode, now, ops, connects, earned, scene>>

(* The link breaks: what is on its way is lost, and each end tells its side.*)
Split(s, t) ==
    /\ t \in linked[s] \/ s \in linked[t]
    /\ "SQUIT" \in scene.commands /\ ops < scene.maxops /\ ops' = ops + 1
    /\ LET lost(x, y) == net[x] \cap Side(x, y)
           S == forget_users(s, Here(s), Gone(s, lost(s, t)))
           T == forget_users(t, [chan |-> chans[t], invited |-> S.invited], Gone(t, lost(t, s)))
           q == sendto_server(sendto_server(queue, s, t, <<Squit(lost(s, t))>>),
                              t, s, <<Squit(lost(t, s))>>)
       IN  /\ chans' = [chans EXCEPT ![s] = S.chan, ![t] = T.chan]
           /\ invited' = T.invited
           /\ queue' = [q EXCEPT ![s][t] = <<>>, ![t][s] = <<>>]
           /\ known' = [known EXCEPT ![s] = @ \ Gone(s, lost(s, t)),
                                      ![t] = @ \ Gone(t, lost(t, s))]
           /\ net' = [net EXCEPT ![s] = @ \ lost(s, t), ![t] = @ \ lost(t, s)]
    /\ linked' = [linked EXCEPT ![s] = @ \ {t}, ![t] = @ \ {s}]
    /\ UNCHANGED <<ident, splitmode, now, connects, earned, scene>>

(* check_splitmode: an event, and a step of every SQUIT and link.           *)
check_splitmode(s) ==
    /\ scene.splitconf # {}
    /\ splitmode' = [splitmode EXCEPT ![s] =
            Cardinality(net[s]) < SplitServers \/ Cardinality(known[s]) < SplitUsers]
    /\ splitmode' # splitmode
    /\ UNCHANGED <<chans, invited, known, net, linked, queue, ident, now, ops, connects, earned, scene>>

tick ==
    /\ now < MaxTime
    /\ now' = now + 1
    /\ UNCHANGED <<chans, invited, known, net, linked, queue, ident, splitmode, ops, connects, earned, scene>>
-----------------------------------------------------------------------------
(* The servers start apart, each with the channels its own users made.      *)
Init ==
    /\ scene \in Scenes
    /\ chans = scene.chans
    /\ invited = [u \in Users |-> <<>>]
    /\ known = [s \in Servers |-> {u \in Users : Home[u] = s}]
    /\ net = [s \in Servers |-> {s}]
    /\ linked = [s \in Servers |-> {}]
    /\ queue = [s \in Servers |-> [t \in Servers |-> <<>>]]
    /\ ident \in [Users -> Idents \ NewIdents]
    /\ splitmode = [s \in Servers |-> FALSE]
    /\ now = MaxTime - 1
    /\ ops = 0 /\ connects = 0
    /\ earned = [c \in Chans |-> [u \in Users |->
            LET k == chans[Home[u]][c]
            IN  IF has_member_flags(k, u, {"o"}) THEN k.ts ELSE Never]]

Commands(s, u) ==
    \/ m_join(s, u) \/ m_part(s, u) \/ m_kick(s, u) \/ m_mode(s, u) \/ mo_opme(s, u)
    \/ m_topic(s, u) \/ m_invite(s, u) \/ msg_channel(s, u) \/ change_ident(s, u)
    \/ m_quit(s, u)

Messages(from, s) ==
    \/ ms_sjoin(from, s) \/ ms_join(from, s) \/ ms_part(from, s) \/ ms_tmode(from, s)
    \/ ms_bmask(from, s) \/ ms_topic(from, s) \/ ms_tburst(from, s) \/ ms_invite(from, s)
    \/ ms_quit(from, s) \/ ms_server(from, s) \/ ms_squit(from, s)

Next ==
    \/ \E s \in Servers : \E u \in Users : Commands(s, u)
    \/ \E s, t \in Servers :
            Messages(t, s) \/ Connect(s, t) \/ Split(s, t)
    \/ \E s \in Servers : check_splitmode(s)
    \/ tick

Spec == Init /\ [][Next]_vars
-----------------------------------------------------------------------------
(* Nothing is on its way, and every link that can be is up.                 *)
Settled ==
    /\ \A s, t \in Servers : queue[s][t] = <<>>
    /\ \A s \in Servers : linked[s] = Neighbours(s)

(* What the servers share of a channel: not the ban cache of local members, *)
(* not the invitations, which only the server of the user keeps.            *)
Shared(c) ==
    [ts |-> c.ts, mode |-> c.mode, limit |-> c.limit, key |-> c.key, list |-> c.list,
     members |-> [u \in DOMAIN c.members |-> c.members[u] \cap Status]]

(* Commands that take nothing away from a channel.                          *)
Additive == {"JOIN", "MODE", "INVITE", "PRIVMSG", "NICK"}

(* ms_sjoin, ms_join, ms_tmode and ms_bmask: when the sides of a split have *)
(* joined and all bursts, joins and mode changes have arrived, in whatever  *)
(* order they crossed, every server has the same timestamp, modes, lists,   *)
(* members and status for every channel.                                    *)
ChannelsAgree ==
    Settled /\ scene.commands \subseteq Additive =>
        \A s \in Servers, c \in Chans : \A t \in net[s] :
            Shared(chans[s][c]) = Shared(chans[t][c])

(* The point of channel timestamps: nobody is operator of a channel that is *)
(* older than the status, on any server, at any time.  Operators made on    *)
(* the younger side of a split lose it with the merge, and a mode change    *)
(* they sent before does not come back later.                               *)
NoTakeover ==
    \A s \in Servers, c \in Chans : \A u \in DOMAIN chans[s][c].members :
        "o" \in chans[s][c].members[u] => chans[s][c].ts >= earned[c][u]

(* CHFL_BAN_CHECKED and CHFL_BAN_SILENCED: what can_send() cached is still  *)
(* what is_banned() would say, whatever happened to the lists, the modes    *)
(* and the name and host of the member since.                               *)
BanCacheFresh ==
    \A s \in Servers, c \in Chans : \A u \in DOMAIN chans[s][c].members :
        LET fl == chans[s][c].members[u] \cap BanCache
        IN  fl # {} => /\ MyConnect(s, u)
                       /\ "checked" \in fl
                       /\ "silenced" \in fl <=> is_banned(chans[s][c], ident[u])

(* add_invite, del_invite, clear_invites: the list of a client and the list *)
(* of a channel name each other; no list names a channel or a client that   *)
(* is gone (the lists hold bare pointers), and none grows past the limit.   *)
InvitesMatch ==
    /\ \A s \in Servers, c \in Chans, u \in Users :
            MyConnect(s, u) => (u \in chans[s][c].invites <=> c \in ToSet(invited[u]))
    /\ \A s \in Servers, c \in Chans : \A u \in chans[s][c].invites :
            Exists(chans[s][c]) /\ MyConnect(s, u) /\ u \in known[s]
    /\ \A u \in Users : /\ IsInjective(invited[u])
                        /\ Len(invited[u]) <= MaxChannels
=============================================================================
