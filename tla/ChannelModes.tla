---------------------------- MODULE ChannelModes ----------------------------
(***************************************************************************)
(* The data of one channel as one server holds it, and the functions of    *)
(* src/channel_mode.c, src/channel.c, modules/core/m_sjoin.c and m_join.c   *)
(* that compute a new channel from an old one: mode changes, ban lists, the *)
(* merge by timestamp, and who may join or speak.                          *)
(*                                                                         *)
(* Left out: the mode lines shown to local members, error replies, and the *)
(* length of a line (a SJOIN or BMASK that is split over several lines is  *)
(* one message).                                                           *)
(***************************************************************************)
EXTENDS Integers, Sequences, FiniteSets, LinkedLists

CONSTANTS
    Users,          \* user IDs
    Args,           \* mode parameters: user IDs, masks, numbers as text, keys as fix_key()
                    \* leaves them, and "", which is what a lone ":" gives
    Nuh,            \* Nuh[a]: the mask nick!user@host that split_nuh() makes of a
    Atoi,           \* Atoi[a]: the number a parses to, 0 if it is none
    KeyRank,        \* KeyRank[a]: the place of a in strcmp() order, "" first
    Topics,         \* what topics contain, "" for none
    Idents,         \* what masks are matched against: name, username, host, address
    Matches,        \* <<mask, ident>> such that find_bmask() finds ident
    MAXMODEPARAMS,  \* parameters per MODE line
    MaxBans         \* channel::max_bans

CHACCESS_NOTONCHAN == -1
CHACCESS_PEON == 0
CHACCESS_HALFOP == 1
CHACCESS_CHANOP == 2
CHACCESS_REMOTE == 3

Status == {"o", "h", "v"}                \* CHFL_CHANOP, CHFL_HALFOP, CHFL_VOICE
BanCache == {"checked", "silenced"}      \* CHFL_BAN_CHECKED, CHFL_BAN_SILENCED
SimpleModes == {"c", "i", "m", "n", "p", "s", "t", "C", "M", "R", "S"}
ChanModes == SimpleModes \cup {"r", "O"}
Lists == {"b", "e", "I"}

(* struct Channel.  A channel without members does not exist: the last     *)
(* remove_user_from_channel() destroys it, with its lists and invitations. *)
NoChannel ==
    [ts |-> 0, mode |-> {}, limit |-> 0, key |-> "",
     list |-> [x \in Lists |-> {}], topic |-> "", topic_time |-> 0,
     members |-> [u \in {} |-> {}], invites |-> {}]

Members == UNION {[U -> SUBSET (Status \cup BanCache)] : U \in SUBSET Users}
ChannelsOf(members) ==
    [ts : Nat, mode : SUBSET ChanModes, limit : Int, key : Args,
     list : [Lists -> SUBSET Args], topic : Topics, topic_time : Nat,
     members : members, invites : SUBSET Users]
ChannelRecords == ChannelsOf(Members)

ASSUME ModesAssumption ==
    /\ Users \cup {"", "*"} \subseteq Args /\ "" \in Topics /\ "" \notin Users
    /\ Nuh \in [Args -> Args] /\ \A a \in Args : Nuh[a] # ""
    /\ Atoi \in [Args -> Int] /\ Atoi[""] = 0
    /\ MAXMODEPARAMS \in Nat \ {0}

IsMember(c, u) == u \in DOMAIN c.members
Exists(c) == DOMAIN c.members # {}

has_member_flags(c, u, fl) == IsMember(c, u) /\ c.members[u] \cap fl # {}

add_user_to_channel(c, u, fl) ==
    [c EXCEPT !.members = [v \in DOMAIN @ \cup {u} |-> IF v = u THEN fl ELSE @[v]]]

(* remove_user_from_channel of each of us and, for the last member,         *)
(* destroy_channel                                                          *)
remove_users(c, us) ==
    IF DOMAIN c.members \subseteq us THEN NoChannel
    ELSE [c EXCEPT !.members = [v \in DOMAIN @ \ us |-> @[v]]]

WithoutFlags(c, fl) ==
    [c EXCEPT !.members = [u \in DOMAIN @ |-> @[u] \ fl]]

clear_ban_cache_channel(c) == WithoutFlags(c, BanCache)
clear_ban_cache_client(c, u) ==
    IF IsMember(c, u) THEN [c EXCEPT !.members[u] = @ \ BanCache] ELSE c
-----------------------------------------------------------------------------
(* Who may join and who may speak.                                          *)

find_bmask(masks, ident) == \E x \in masks : <<x, ident>> \in Matches

is_banned(c, ident) ==
    find_bmask(c.list["b"], ident) /\ ~ find_bmask(c.list["e"], ident)

(* can_join: w describes the client: ident, umodes (a subset of "ssl",      *)
(* "registered", "oper") and whether an invitation is in its list.          *)
can_join(c, w, key) ==
    /\ "S" \in c.mode => "ssl" \in w.umodes
    /\ "R" \in c.mode => "registered" \in w.umodes
    /\ "O" \in c.mode => "oper" \in w.umodes
    /\ "i" \in c.mode => w.invited \/ find_bmask(c.list["I"], w.ident)
    /\ c.key # "" => key = c.key
    /\ c.limit # 0 => Cardinality(DOMAIN c.members) < c.limit
    /\ ~ is_banned(c, w.ident)

(* can_send: whether a client of this server may speak, and what the call   *)
(* leaves in its membership.  text is what the message contains: "plain",   *)
(* "ctrl" (control codes) or "ctcp" (a CTCP that is not an ACTION).         *)
(* First the tests that decide without the ban list.                        *)
refused_early(c, u, w, resv, text) ==
    \/ resv
    \/ "c" \in c.mode /\ text = "ctrl"
    \/ "C" \in c.mode /\ text = "ctcp"
    \/ /\ ~ has_member_flags(c, u, Status)
       /\ \/ "n" \in c.mode /\ ~ IsMember(c, u)
          \/ "m" \in c.mode
          \/ "M" \in c.mode /\ "registered" \notin w.umodes

looks_at_bans(c, u, w, resv, text) ==
    ~ refused_early(c, u, w, resv, text) /\ ~ has_member_flags(c, u, Status)

(* Cache can send if banned                                                 *)
can_send(c, u, w, resv, text) ==
    IF /\ looks_at_bans(c, u, w, resv, text)
       /\ IsMember(c, u) /\ ~ has_member_flags(c, u, BanCache)
    THEN [c EXCEPT !.members[u] =
            @ \cup IF is_banned(c, w.ident) THEN BanCache ELSE {"checked"}]
    ELSE c
-----------------------------------------------------------------------------
(* MODE.  set_channel_mode() walks over the letters of a line; a letter     *)
(* that needs a parameter takes the next one, unless it is refused before   *)
(* it looks.  w.alev is the access level and w.local, w.server, w.service,  *)
(* w.oper, w.opme describe the source.  The state of the walk:              *)
(*   chan     the channel so far                                            *)
(*   changes  mode_changes, what is told to members and other servers       *)
(*   mask     simple_modes_mask                                             *)
(*   limit    mode_limit, list and status changes of a local client         *)
(*   args     the parameters not yet taken                                  *)

Walk0(c, args) ==
    [chan |-> c, changes |-> <<>>, mask |-> {}, limit |-> 0, args |-> args]

Change(dir, letter, arg) == [dir |-> dir, letter |-> letter, arg |-> arg]
NoArg == ""

NoteChange(x, m, arg) == [x EXCEPT !.changes = Append(@, Change(m.dir, m.letter, arg))]

(* If somebody sets +ll 1 2, only the latter is sent (also +kk).            *)
Supersede(x, m, arg) ==
    NoteChange([x EXCEPT !.changes =
                    Keep(@, {y \in ToSet(@) : ~ (y.letter = m.letter /\ y.dir = "+")})], m, arg)

IsHalfop(w) == w.alev >= CHACCESS_HALFOP \/ w.opme
IsChanop(w) == w.alev >= CHACCESS_CHANOP \/ w.opme

simple_mode(x, m) ==
    IF m.letter \in x.mask THEN x
    ELSE LET y == [x EXCEPT !.mask = @ \cup {m.letter}]
         IN  CASE m.dir = "+" -> NoteChange([y EXCEPT !.chan.mode = @ \cup {m.letter}], m, NoArg)
               [] m.dir = "-" -> NoteChange([y EXCEPT !.chan.mode = @ \ {m.letter}], m, NoArg)
               [] OTHER -> y

chm_simple(x, w, m) == IF w.alev < CHACCESS_HALFOP THEN x ELSE simple_mode(x, m)
chm_registered(x, w, m) == IF ~ w.server /\ ~ w.service THEN x ELSE simple_mode(x, m)
chm_operonly(x, w, m) ==
    IF ~ IsHalfop(w) \/ (w.local /\ ~ w.oper) THEN x ELSE simple_mode(x, m)

Masks(c) == Cardinality(c.list["b"]) + Cardinality(c.list["e"]) + Cardinality(c.list["I"])

(* The ban cache of the local members is dropped before the lists are       *)
(* looked at, whether or not the mask is new.                               *)
ForgetBans(c, l) == IF l = "I" THEN c ELSE clear_ban_cache_channel(c)

add_id_full(c, w) == w.local /\ Masks(c) >= MaxBans
add_id_adds(c, w, l, a) == ~ add_id_full(c, w) /\ Nuh[a] \notin c.list[l]
add_id(c, w, l, a) ==
    IF add_id_full(c, w) THEN c
    ELSE [ForgetBans(c, l) EXCEPT !.list[l] = @ \cup {Nuh[a]}]
del_id(c, l, a) == [ForgetBans(c, l) EXCEPT !.list[l] = @ \ {Nuh[a]}]

(* chm_ban, chm_except and chm_invex                                        *)
chm_list(x, w, m) ==
    LET a == Head(x.args)
        y == [x EXCEPT !.limit = @ + 1]
        z == [y EXCEPT !.args = Tail(@)]
    IN  IF m.dir = "=" \/ x.args = <<>> \/ ~ IsHalfop(w) THEN x
        ELSE IF w.local /\ y.limit > MAXMODEPARAMS THEN y
        ELSE IF m.dir = "+"
        THEN LET n == [z EXCEPT !.chan = add_id(@, w, m.letter, a)]
             IN  IF add_id_adds(z.chan, w, m.letter, a)
                 THEN NoteChange(n, m, Nuh[a]) ELSE n
        ELSE LET n == [z EXCEPT !.chan = del_id(@, m.letter, a)]
             IN  IF Nuh[a] \in z.chan.list[m.letter]
                 THEN NoteChange(n, m, Nuh[a]) ELSE n
chm_ban(x, w, m) == chm_list(x, w, m)
chm_except(x, w, m) == chm_list(x, w, m)
chm_invex(x, w, m) == chm_list(x, w, m)

(* chm_op, chm_hop and chm_voice.  known: the users find_chasing() finds.   *)
(* A redundant +o is still told to everybody, a redundant +h or +v is not.  *)
chm_status(x, w, m, known) ==
    LET u == Head(x.args)
        y == [x EXCEPT !.args = Tail(@)]
        z == [y EXCEPT !.limit = @ + 1]
        has == m.letter \in x.chan.members[u]
    IN  IF m.dir = "=" \/ x.args = <<>> THEN x
        ELSE IF u \notin known \/ ~ IsMember(x.chan, u) THEN y
        ELSE IF w.local /\ z.limit > MAXMODEPARAMS THEN z
        ELSE IF (m.dir = "+" /\ has /\ m.letter # "o") \/ (m.dir = "-" /\ ~ has) THEN z
        ELSE NoteChange([z EXCEPT !.chan.members[u] =
                            IF m.dir = "+" THEN @ \cup {m.letter} ELSE @ \ {m.letter}], m, u)

chm_voice(x, w, m, known) == IF ~ IsHalfop(w) THEN x ELSE chm_status(x, w, m, known)
chm_hop(x, w, m, known) == IF ~ IsChanop(w) THEN x ELSE chm_status(x, w, m, known)
chm_op(x, w, m, known) == IF ~ IsChanop(w) THEN x ELSE chm_status(x, w, m, known)

chm_limit(x, w, m) ==
    IF ~ IsHalfop(w) \/ m.dir = "=" THEN x
    ELSE IF m.dir = "+" /\ x.args # <<>>
    THEN LET a == Head(x.args)
             y == [x EXCEPT !.args = Tail(@)]
         IN  IF Atoi[a] <= 0 THEN y
             ELSE Supersede([y EXCEPT !.chan.limit = Atoi[a]], m, a)
    ELSE IF m.dir = "-" /\ x.chan.limit # 0
    THEN NoteChange([x EXCEPT !.chan.limit = 0], m, NoArg)
    ELSE x

(* -k takes a parameter, whatever it is, and is sent with "*".              *)
chm_key(x, w, m) ==
    IF ~ IsHalfop(w) \/ m.dir = "=" THEN x
    ELSE IF m.dir = "+" /\ x.args # <<>>
    THEN LET a == Head(x.args)
             y == [x EXCEPT !.args = Tail(@)]
         IN  IF a = "" THEN y ELSE Supersede([y EXCEPT !.chan.key = a], m, a)
    ELSE IF m.dir = "-"
    THEN LET y == [x EXCEPT !.args = IF @ = <<>> THEN @ ELSE Tail(@)]
         IN  IF x.chan.key = "" THEN y
             ELSE NoteChange([y EXCEPT !.chan.key = ""], m, "*")
    ELSE x

(* ModeTable: the function of each letter; chm_nosuch only replies.         *)
ModeTable(x, w, m, known) ==
    CASE m.letter \in SimpleModes -> chm_simple(x, w, m)
      [] m.letter = "r" -> chm_registered(x, w, m)
      [] m.letter = "O" -> chm_operonly(x, w, m)
      [] m.letter = "b" -> chm_ban(x, w, m)
      [] m.letter = "e" -> chm_except(x, w, m)
      [] m.letter = "I" -> chm_invex(x, w, m)
      [] m.letter = "v" -> chm_voice(x, w, m, known)
      [] m.letter = "h" -> chm_hop(x, w, m, known)
      [] m.letter = "o" -> chm_op(x, w, m, known)
      [] m.letter = "l" -> chm_limit(x, w, m)
      [] m.letter = "k" -> chm_key(x, w, m)
      [] OTHER -> x

set_channel_mode(c, w, letters, args, known) ==
    LET x[i \in 0 .. Len(letters)] ==
          IF i = 0 THEN Walk0(c, args) ELSE ModeTable(x[i - 1], w, letters[i], known)
    IN  x[Len(letters)]

get_channel_access(c, u, local) ==
    IF ~ local THEN CHACCESS_REMOTE
    ELSE IF ~ IsMember(c, u) THEN CHACCESS_NOTONCHAN
    ELSE IF "o" \in c.members[u] THEN CHACCESS_CHANOP
    ELSE IF "h" \in c.members[u] THEN CHACCESS_HALFOP
    ELSE CHACCESS_PEON

(* Who is made operator by changes.                                         *)
Opped(changes) ==
    {changes[i].arg : i \in {j \in DOMAIN changes :
        changes[j].letter = "o" /\ changes[j].dir = "+"}}

(* send_mode_changes_server: the changes in lines of at most MAXMODEPARAMS  *)
(* parameters.  rest[i] holds the parameters of the last i changes.         *)
ArgsOf(changes) ==
    LET rest[i \in 0 .. Len(changes)] ==
          IF i = 0 THEN <<>>
          ELSE LET a == changes[Len(changes) + 1 - i].arg
               IN  IF a = NoArg THEN rest[i - 1] ELSE <<a>> \o rest[i - 1]
    IN  rest[Len(changes)]
AddToLine(lines, ch) ==
    IF lines = <<>> \/ Len(ArgsOf(Last(lines))) = MAXMODEPARAMS
    THEN Append(lines, <<ch>>)
    ELSE [lines EXCEPT ![Len(lines)] = Append(@, ch)]
send_mode_changes_server(changes) ==
    LET lines[i \in 0 .. Len(changes)] ==
          IF i = 0 THEN <<>> ELSE AddToLine(lines[i - 1], changes[i])
    IN  lines[Len(changes)]
-----------------------------------------------------------------------------
(* The merge of ms_sjoin() and ms_join(): old is our channel, new the modes *)
(* the message brings (none for JOIN) and its timestamp.                    *)

KeepOurs(old, ts) == ~ (Exists(old) /\ ts # 0 /\ old.ts # 0 /\ ts < old.ts)
KeepTheirs_fault(old, ts) == TRUE
KeepTheirs(old, ts) == ~ (Exists(old) /\ ts # 0 /\ old.ts # 0 /\ ts > old.ts)

FinalTS(old, ts) ==
    IF ~ Exists(old) THEN ts
    ELSE IF ts = 0 \/ old.ts = 0 THEN 0
    ELSE IF ts < old.ts THEN ts ELSE old.ts

WithModes(c, mode, limit, key) ==
    [c EXCEPT !.mode = mode, !.limit = limit, !.key = key]

(* set_final_mode: union of the simple modes, the larger limit and the      *)
(* larger key when both sides keep theirs.                                  *)
set_final_mode(old, new) ==
    LET base == [old EXCEPT !.ts = FinalTS(old, new.ts)]
    IN  IF ~ KeepTheirs(old, new.ts) THEN base
        ELSE IF ~ KeepOurs(old, new.ts) THEN WithModes(base, new.mode, new.limit, new.key)
        ELSE WithModes(base, new.mode \cup old.mode,
                       IF old.limit > new.limit THEN old.limit ELSE new.limit,
                       IF KeyRank[new.key] < KeyRank[old.key] THEN old.key ELSE new.key)

remove_our_modes(c) == WithoutFlags(c, Status)
remove_ban_list(c) == [c EXCEPT !.list = [x \in Lists |-> {}]]
channel_set_topic(c, topic, when) == [c EXCEPT !.topic = topic, !.topic_time = when]
clear_topic(c) == IF c.topic # "" THEN channel_set_topic(c, "", 0) ELSE c

(* Lost the TS: what each of the two messages takes away.  JOIN leaves the  *)
(* ban lists and the ban cache.                                             *)
sjoin_reset_fault(c) == clear_topic(clear_ban_cache_channel(remove_ban_list(c)))
sjoin_reset(c) ==
    clear_topic(clear_ban_cache_channel(remove_ban_list(remove_our_modes(c))))
join_reset(c) == clear_topic(remove_our_modes(c))

(* The part of ms_sjoin() before the nicks, and that of ms_join().          *)
sjoin_merge(old, new) ==
    LET c == set_final_mode(old, new)
    IN  IF KeepOurs(old, new.ts) THEN c ELSE sjoin_reset(c)
join_merge(old, ts) ==
    LET c == set_final_mode(old, [ts |-> ts, mode |-> {}, limit |-> 0, key |-> ""])
    IN  IF KeepOurs(old, ts) THEN c ELSE join_reset(c)

(* The nicks of a SJOIN: those already here keep the status they have.      *)
sjoin_members(c, nicks) ==
    [c EXCEPT !.members = [u \in DOMAIN @ \cup DOMAIN nicks |->
        IF u \in DOMAIN @ THEN @[u] ELSE nicks[u]]]

(* ms_tburst: the three cases in which a topic is accepted.                 *)
tburst_accepts(c, ts, when, service) ==
    \/ service
    \/ ts < c.ts
    \/ ts = c.ts /\ when > c.topic_time
=============================================================================
