------------------------------ MODULE Network ------------------------------
(***************************************************************************)
(* A network of ircd servers that keep a replicated directory of servers   *)
(* and users.  Every server holds its own copy of the directory; the copies *)
(* are kept in step by messages flooded along the links, and repaired with  *)
(* KILL and SQUIT when they disagree.  Sources: modules/core/m_server.c,    *)
(* m_squit.c, m_nick.c, m_kill.c, m_quit.c, and the parts of src/parse.c,   *)
(* src/client.c, src/user.c and src/server.c they call.                     *)
(*                                                                         *)
(* One action is one line read from a socket (parse() runs to completion   *)
(* before the next line is looked at), one command of a local user, or one *)
(* event of a connection.  Left out: the text of messages, user modes,     *)
(* channels, capabilities, and lines that fail the syntax checks           *)
(* (check_clean_nick, valid_sid), which no server of this program emits.   *)
(***************************************************************************)
EXTENDS Integers, Sequences, FiniteSets, SequencesExt

CONSTANTS
    Servers,      \* server IDs (SIDs)
    Connects,     \* <<s, t>>: s has a connect{} block with autoconn to t
    Hubs,         \* servers with serverinfo::hub = yes
    HubMask,      \* HubMask[s]: servers that links of s may introduce (hub_mask)
    LeafMask,     \* LeafMask[s]: servers that they may not (leaf_mask)
    Uids,         \* user IDs
    Home,         \* Home[u]: the server whose SID prefixes u
    Nicks,        \* nicknames, up to irccmp() equivalence
    Timestamps,   \* values of CurrentTime
    Ident,        \* Ident[u]: username, host and sockhost of u
    Opers,        \* users whose oper{} block grants every OPER_FLAG used here
    Limit,        \* Limit[k]: how often an environment step of kind k may happen
    None          \* the NULL pointer / missing prefix

Kinds == {"connect", "break", "squit", "nick", "kill", "quit"}
Ids == Servers \cup Uids

VARIABLES
    link,     \* link[e]: local_server_list ("up"), unknown_list ("wait") or "down"
    queue,    \* queue[e]: lines sent to the end e and not yet parsed there
    server,   \* server[s][x]: the struct Client of server x at s, or None
    client,   \* client[s][u]: the struct Client of user u at s, or None
    signon,   \* signon[u]: history, nick and TS with which u registered
    spent     \* spent[k]: environment steps of kind k so far

vars == <<link, queue, server, client, signon, spent>>
-----------------------------------------------------------------------------
(* Connections.  An end is one side of the TCP connection that a connect{} *)
(* block opens; it stands for the struct Client of the peer.               *)

End(me, peer, role) == [me |-> me, peer |-> peer, role |-> role]
Ends == {End(c[1], c[2], "out") : c \in Connects}
        \cup {End(c[2], c[1], "in") : c \in Connects}
Other(e) == End(e.peer, e.me, IF e.role = "out" THEN "in" ELSE "out")
Local(s) == {e \in Ends : e.me = s}
LocalServers(s) == {e \in Local(s) : link[e] = "up"}

(* find_servconn_in_progress: only an outgoing connection has a name before *)
(* its SERVER line has been read.                                           *)
InProgress(s, x) ==
    {e \in Local(s) : e.peer = x /\ e.role = "out" /\ link[e] = "wait"}

Message(type, src, obj, nick, ts) ==
    [type |-> type, src |-> src, obj |-> obj, nick |-> nick, ts |-> ts]
SERVER == Message("SERVER", None, None, None, 0)
EOF == Message("EOF", None, None, None, 0)
SID(src, x) == Message("SID", src, x, None, 0)
SQUIT(src, x) == Message("SQUIT", src, x, None, 0)
KILL(src, u) == Message("KILL", src, u, None, 0)
QUIT(u) == Message("QUIT", u, None, None, 0)
NICK(u, n, ts) == Message("NICK", u, None, n, ts)
UID(u, n, ts) == Message("UID", Home[u], u, n, ts)

Messages ==
    {SERVER, EOF}
    \cup {SID(src, x) : src \in Servers, x \in Servers}
    \cup {SQUIT(src, x) : src \in Ids \cup {None}, x \in Servers}
    \cup {KILL(src, u) : src \in Ids, u \in Uids}
    \cup {QUIT(u) : u \in Uids}
    \cup {NICK(u, n, ts) : u \in Uids, n \in Nicks, ts \in Timestamps}
    \cup {UID(u, n, ts) : u \in Uids, n \in Nicks, ts \in Timestamps}
ServerRecords == [from : Ends, servptr : Servers, path : SUBSET Servers]
ClientRecords == [nick : Nicks, ts : Timestamps, status : {"unknown", "client"}]

ASSUME NetworkAssumption ==
    /\ IsFiniteSet(Servers) /\ IsFiniteSet(Uids)
    /\ Servers \cap Uids = {}
    /\ Connects \subseteq {c \in Servers \X Servers : c[1] # c[2]}
    /\ Hubs \subseteq Servers
    /\ HubMask \in [Servers -> SUBSET Servers]
    /\ LeafMask \in [Servers -> SUBSET Servers]
    /\ Home \in [Uids -> Servers]
    /\ Timestamps \subseteq Nat \ {0}
    /\ Opers \subseteq Uids
    /\ Limit \in [Kinds -> Nat]
    /\ \A u \in Uids : {"user", "host", "sock"} \subseteq DOMAIN Ident[u]

ASSUME NoneAssumption ==
    /\ None \notin Ids \cup Nicks
    /\ \A e \in Ends : e # None
    /\ \A r \in ServerRecords : r # None
    /\ \A r \in ClientRecords : r # None
-----------------------------------------------------------------------------
(* The directory of server s: hash_find_id(), hash_find_server() and        *)
(* hash_find_client().  servptr is the server that introduced x, from the    *)
(* link it is known by, and path the chain of servptr from s to x, so that  *)
(* Behind(s, x) is what recurse_remove_clients() walks.                     *)

Knows(s, x) == x = s \/ server[s][x] # None
Behind(s, x) == {y \in Servers : server[s][y] # None /\ x \in server[s][y].path}
IsClient(s, u) == client[s][u] # None /\ client[s][u].status = "client"
IsUnknown(s, u) == client[s][u] # None /\ client[s][u].status = "unknown"
Holders(s, n) == {u \in Uids : client[s][u] # None /\ client[s][u].nick = n}
HasId(s, id) == IF id \in Servers THEN Knows(s, id) ELSE id \in Uids /\ IsClient(s, id)
Route(s, id) ==   \* source_p->from; None for the server itself and its own users
    LET x == IF id \in Servers THEN id ELSE Home[id]
    IN IF x = s THEN None ELSE server[s][x].from

(* Effects on the directory of s.                                          *)
ClientsAt(s, f) == client' = [client EXCEPT ![s] = f]
Without(s, U) == [u \in Uids |-> IF u \in U THEN None ELSE client[s][u]]
User(n, ts, status) == [nick |-> n, ts |-> ts, status |-> status]
(* Variants with a fault, ..._fault, are used by no action: each property  *)
(* is checked to fail when the definition below one is replaced by it.     *)
ForgetServers_fault(s, X) ==   \* exit_one_client() of the servers alone
    /\ server' = [server EXCEPT ![s] =
                    [x \in Servers |-> IF x \in X THEN None ELSE server[s][x]]]
    /\ UNCHANGED client
ForgetServers(s, X) ==
    /\ server' = [server EXCEPT ![s] =
                    [x \in Servers |-> IF x \in X THEN None ELSE server[s][x]]]
    /\ ClientsAt(s, Without(s, {u \in Uids : Home[u] \in X}))

(* Lines written in one step: a function from ends to sequences.           *)
Silent == [e \in Ends |-> <<>>]
SendTo(E, m) == [e \in Ends |-> IF e \in E THEN <<m>> ELSE <<>>]
And(o1, o2) == [e \in Ends |-> o1[e] \o o2[e]]
ToAll(s, m) == SendTo(LocalServers(s), m)                 \* sendto_server(NULL, ...)
ToAllBut(s, e, m) == SendTo(LocalServers(s) \ {e}, m)     \* sendto_server(e, ...)

(* Server s has read the head of queue[e] (e = None: a local event), closes *)
(* the ends in shut, and has written out.  A line written to a connection   *)
(* whose peer has closed is lost; a closed connection reads as EOF.         *)
Transmit(s, e, shut, out) ==
    queue' = [f \in Ends |->
        IF f \in shut \/ link[f] = "down" THEN <<>>
        ELSE (IF f = e THEN Tail(queue[f]) ELSE queue[f])
             \o (IF f.peer = s THEN out[Other(f)] ELSE <<>>)
             \o (IF Other(f) \in shut THEN <<EOF>> ELSE <<>>)]
Shut(E) == link' = [e \in Ends |-> IF e \in E THEN "down" ELSE link[e]]

Spend(k) == /\ spent[k] < Limit[k]
            /\ spent' = [spent EXCEPT ![k] = @ + 1]

(* parse(): the line at the head of the queue of an established link whose  *)
(* prefix, when there is one, names a source that lies in that direction.   *)
Line(e) == Head(queue[e])
Source(e) == IF Line(e).src = None THEN e.peer ELSE Line(e).src
Pending(e, type) == queue[e] # <<>> /\ Line(e).type = type
Arrives(e, type) ==
    /\ link[e] = "up"
    /\ Pending(e, type)
    /\ HasId(e.me, Source(e))
    /\ Route(e.me, Source(e)) = e
-----------------------------------------------------------------------------
Init ==
    /\ link = [e \in Ends |-> "down"]
    /\ queue = [e \in Ends |-> <<>>]
    /\ server = [s \in Servers |-> [x \in Servers |-> None]]
    /\ client = [s \in Servers |-> [u \in Uids |-> None]]
    /\ signon = [u \in Uids |-> None]
    /\ spent = [k \in Kinds |-> 0]

(***************************************************************************)
(* Connections between servers                                             *)
(***************************************************************************)

(* try_connections(), serv_connect() and serv_connect_callback(): the      *)
(* connection is opened and PASS, CAPAB and SERVER are written to it.      *)
serv_connect(e) ==
    /\ e.role = "out" /\ link[e] = "down" /\ link[Other(e)] = "down"
    /\ ~Knows(e.me, e.peer)
    /\ Spend("connect")
    /\ link' = [link EXCEPT ![e] = "wait", ![Other(e)] = "wait"]
    /\ queue' = [queue EXCEPT ![e] = <<>>, ![Other(e)] = <<SERVER>>]
    /\ UNCHANGED <<server, client, signon>>

(* mr_server(), the server is known already, or server_estab() refuses     *)
(* because this server is a leaf: exit_client() of an unregistered link.   *)
mr_server_refuse(e) ==
    LET s == e.me
        overridden == IF Knows(s, e.peer) THEN {} ELSE InProgress(s, e.peer) \ {e}
    IN /\ link[e] = "wait" /\ Pending(e, "SERVER")
       /\ \/ Knows(s, e.peer)
          \/ s \notin Hubs /\ LocalServers(s) # {}
       /\ Shut({e} \cup overridden)
       /\ Transmit(s, e, {e} \cup overridden, Silent)
       /\ UNCHANGED <<server, client, signon, spent>>

ParentFirst(s, q) ==
    \A i, j \in DOMAIN q : q[j] \in server[s][q[i]].path => j <= i

(* mr_server() and server_estab(): a pending connect to the same server is *)
(* overridden, the answer is sent if the peer opened the connection, the   *)
(* new server is announced, and the directory is sent: first the servers,  *)
(* parents before children (the order of global_server_list), then the     *)
(* users, in an order that depends on their channels.                      *)
mr_server_estab(e) ==
    LET s == e.me
        x == e.peer
        shut == InProgress(s, x) \ {e}
        known == {y \in Servers : server[s][y] # None}
        users == {u \in Uids : IsClient(s, u)}
    IN /\ link[e] = "wait" /\ Pending(e, "SERVER")
       /\ ~Knows(s, x)
       /\ s \in Hubs \/ LocalServers(s) = {}
       /\ \E sids \in SetToSeqs(known), uids \in SetToSeqs(users) :
             /\ ParentFirst(s, sids)
             /\ Transmit(s, e, shut,
                  And(ToAll(s, SID(s, x)),
                      [f \in Ends |-> IF f # e THEN <<>> ELSE
                        (IF e.role = "in" THEN <<SERVER>> ELSE <<>>)
                        \o [i \in DOMAIN sids |-> SID(server[s][sids[i]].servptr, sids[i])]
                        \o [i \in DOMAIN uids |->
                              UID(uids[i], client[s][uids[i]].nick, client[s][uids[i]].ts)]]))
       /\ link' = [f \in Ends |-> IF f = e THEN "up"
                                  ELSE IF f \in shut THEN "down" ELSE link[f]]
       /\ server' = [server EXCEPT ![s][x] = [from |-> e, servptr |-> s, path |-> {x}]]
       /\ UNCHANGED <<client, signon, spent>>

exit_link_fault(e, l, note, bye) ==   \* the other servers are not notified
    /\ Shut({l})
    /\ ForgetServers(l.me, Behind(l.me, l.peer))
    /\ Transmit(l.me, e, {l}, SendTo({l}, bye))

(* exit_client() of a server link: everything behind it is removed, the    *)
(* other links are told with note, the peer with bye.                      *)
exit_link(e, l, note, bye) ==
    /\ Shut({l})
    /\ ForgetServers(l.me, Behind(l.me, l.peer))
    /\ Transmit(l.me, e, {l},
         And(SendTo(LocalServers(l.me) \ {l, e}, note), SendTo({l}, bye)))

(* The connection fails: ping timeout, write error, sendq exceeded.  What  *)
(* was written to it and not yet read is lost.                             *)
link_break(e) ==
    LET s == e.me IN
    /\ link[e] # "down"
    /\ Spend("break")
    /\ Shut({e})
    /\ IF link[e] = "up" THEN ForgetServers(s, Behind(s, e.peer))
                         ELSE UNCHANGED <<server, client>>
    /\ LET note == IF link[e] = "up" THEN SQUIT(None, e.peer) ELSE EOF
           told == IF link[e] = "up" THEN LocalServers(s) \ {e} ELSE {}
       IN queue' = [f \in Ends |->
              IF f = e \/ link[f] = "down" THEN <<>>
              ELSE IF f = Other(e) THEN <<EOF>>
              ELSE IF Other(f) \in told THEN Append(queue[f], note) ELSE queue[f]]
    /\ UNCHANGED signon

(* read_packet() reads 0 bytes: dead_link_on_read() and exit_client().     *)
link_eof(e) ==
    /\ link[e] # "down" /\ Pending(e, "EOF")
    /\ IF link[e] = "up" THEN exit_link(e, e, SQUIT(None, e.peer), EOF)
       ELSE /\ Shut({e})
            /\ Transmit(e.me, e, {e}, Silent)
            /\ UNCHANGED <<server, client>>
    /\ UNCHANGED <<signon, spent>>

(* parse() of a line whose prefix is unknown (parse_remove_unknown answers  *)
(* with SQUIT or KILL) or lies in another direction: the line is dropped.   *)
parse_reject(e) ==
    LET src == Source(e)
        answer == IF src \in Servers THEN SQUIT(e.me, src) ELSE KILL(e.me, src)
    IN /\ link[e] = "up" /\ queue[e] # <<>> /\ Line(e).type # "EOF"
       /\ HasId(e.me, src) => Route(e.me, src) # e
       /\ Transmit(e.me, e, {}, IF HasId(e.me, src) THEN Silent ELSE SendTo({e}, answer))
       /\ UNCHANGED <<link, server, client, signon, spent>>

(***************************************************************************)
(* SID and SQUIT                                                           *)
(***************************************************************************)

ms_sid_collision_fault(e) ==   \* the duplicate is ignored, the link is kept
    /\ Arrives(e, "SID") /\ Knows(e.me, Line(e).obj)
    /\ Transmit(e.me, e, {}, Silent)
    /\ UNCHANGED <<link, server, client, signon, spent>>

(* ms_sid(), the server is known: the link it came from is closed.         *)
ms_sid_collision(e) ==
    /\ Arrives(e, "SID") /\ Knows(e.me, Line(e).obj)
    /\ exit_link(e, e, SQUIT(None, e.peer), SQUIT(e.me, e.me))
    /\ UNCHANGED <<signon, spent>>

ms_sid_refuse_fault(e) ==   \* only the introducing server itself is removed
    LET s == e.me
        src == Source(e)
    IN /\ Arrives(e, "SID") /\ ~Knows(s, Line(e).obj)
       /\ Line(e).obj \notin HubMask[s] \ LeafMask[s]
       /\ ForgetServers(s, {src})
       /\ Transmit(s, e, {}, ToAll(s, SQUIT(None, src)))
       /\ UNCHANGED <<link, signon, spent>>

(* ms_sid(), refused: with no matching hub_mask the server that introduced  *)
(* it exits (source_p, the link itself or a server behind it), with a       *)
(* leaf_mask the link does (client_p).  A pending connect is overridden.    *)
ms_sid_refuse(e) ==
    LET s == e.me
        x == Line(e).obj
        out == IF x \in HubMask[s] THEN e.peer ELSE Source(e)
        shut == InProgress(s, x)
    IN /\ Arrives(e, "SID") /\ ~Knows(s, x)
       /\ x \notin HubMask[s] \ LeafMask[s]
       /\ ForgetServers(s, Behind(s, out))
       /\ IF out = e.peer
          THEN /\ Shut(shut \cup {e})
               /\ Transmit(s, e, shut \cup {e},
                    And(ToAllBut(s, e, SQUIT(None, out)), SendTo({e}, SQUIT(s, s))))
          ELSE /\ Shut(shut)
               /\ Transmit(s, e, shut, ToAll(s, SQUIT(None, out)))
       /\ UNCHANGED <<signon, spent>>

(* ms_sid(), the server is added and announced; a pending connect to it is *)
(* overridden.                                                             *)
ms_sid(e) ==
    LET s == e.me
        x == Line(e).obj
        src == Source(e)
        shut == InProgress(s, x)
    IN /\ Arrives(e, "SID") /\ ~Knows(s, x) /\ x \in HubMask[s] \ LeafMask[s]
       /\ server' = [server EXCEPT ![s][x] =
                        [from |-> e, servptr |-> src,
                         path |-> server[s][src].path \cup {x}]]
       /\ Shut(shut)
       /\ Transmit(s, e, shut, ToAllBut(s, e, SID(src, x)))
       /\ UNCHANGED <<client, signon, spent>>

ms_squit_fault(e) ==   \* a SQUIT of an unknown server is answered with a SQUIT
    /\ Arrives(e, "SQUIT")
    /\ LET s == e.me
           x == IF Line(e).obj = s THEN e.peer ELSE Line(e).obj
       IN \/ /\ ~Knows(s, x)
             /\ Transmit(s, e, {}, SendTo({e}, SQUIT(s, x)))
             /\ UNCHANGED <<link, server, client>>
          \/ /\ Knows(s, x) /\ server[s][x].path = {x}
             /\ exit_link(e, server[s][x].from, SQUIT(Source(e), x), SQUIT(Source(e), s))
          \/ /\ Knows(s, x) /\ server[s][x].path # {x}
             /\ ForgetServers(s, Behind(s, x))
             /\ Transmit(s, e, {}, ToAllBut(s, e, SQUIT(Source(e), x)))
             /\ UNCHANGED link
    /\ UNCHANGED <<signon, spent>>

(* ms_squit().  A SQUIT of this server means the link it came from.        *)
ms_squit(e) ==
    LET s == e.me
        src == Source(e)
        x == IF Line(e).obj = s THEN e.peer ELSE Line(e).obj
    IN /\ Arrives(e, "SQUIT")
       /\ \/ /\ ~Knows(s, x)
             /\ Transmit(s, e, {}, Silent)
             /\ UNCHANGED <<link, server, client>>
          \/ /\ Knows(s, x) /\ server[s][x].path = {x}
             /\ exit_link(e, server[s][x].from, SQUIT(src, x), SQUIT(src, s))
          \/ /\ Knows(s, x) /\ server[s][x].path # {x}
             /\ ForgetServers(s, Behind(s, x))
             /\ Transmit(s, e, {}, ToAllBut(s, e, SQUIT(src, x)))
             /\ UNCHANGED link
       /\ UNCHANGED <<signon, spent>>

(* mo_squit(): operator o, a local user of s, disconnects server x.        *)
mo_squit(s, o, x) ==
    /\ o \in Opers /\ Home[o] = s /\ IsClient(s, o)
    /\ x # s /\ Knows(s, x)
    /\ Spend("squit")
    /\ \/ /\ server[s][x].path = {x}
          /\ exit_link(None, server[s][x].from, SQUIT(o, x), SQUIT(o, s))
       \/ /\ server[s][x].path # {x}
          /\ ForgetServers(s, Behind(s, x))
          /\ Transmit(s, None, {}, ToAll(s, SQUIT(o, x)))
          /\ UNCHANGED link
    /\ UNCHANGED signon

(***************************************************************************)
(* Local users                                                             *)
(***************************************************************************)

mr_nick_fault(u, n, ts) ==   \* tsinfo is left at zero
    /\ signon[u] = None /\ Holders(Home[u], n) = {}
    /\ ClientsAt(Home[u], [client[Home[u]] EXCEPT ![u] = User(n, 0, "unknown")])
    /\ UNCHANGED <<link, queue, server, signon, spent>>

(* mr_nick() and set_initial_nick(): an unregistered connection takes a    *)
(* nick nobody here has, with the current time as its TS.                  *)
mr_nick(u, n, ts) ==
    LET s == Home[u] IN
    /\ signon[u] = None
    /\ Holders(s, n) = {}
    /\ ClientsAt(s, [client[s] EXCEPT ![u] = User(n, ts, "unknown")])
    /\ UNCHANGED <<link, queue, server, signon, spent>>

(* register_local_user() and introduce_client().                           *)
register_local_user(u) ==
    LET s == Home[u]
        c == client[s][u]
    IN /\ IsUnknown(s, u)
       /\ ClientsAt(s, [client[s] EXCEPT ![u] = User(c.nick, c.ts, "client")])
       /\ signon' = [signon EXCEPT ![u] = [nick |-> c.nick, ts |-> c.ts]]
       /\ Transmit(s, None, {}, ToAll(s, UID(u, c.nick, c.ts)))
       /\ UNCHANGED <<link, server, spent>>

(* register_local_user() again: a missing or wrong password is noticed     *)
(* after SetClient(), so exit_client() announces a QUIT of a user that was *)
(* never introduced.                                                       *)
register_bad_password(u) ==
    LET s == Home[u]
        c == client[s][u]
    IN /\ IsUnknown(s, u)
       /\ Spend("quit")
       /\ ClientsAt(s, Without(s, {u}))
       /\ signon' = [signon EXCEPT ![u] = [nick |-> c.nick, ts |-> c.ts]]
       /\ Transmit(s, None, {}, ToAll(s, QUIT(u)))
       /\ UNCHANGED <<link, server>>

(* exit_client() of a local connection: QUIT, a closed socket, a refusal   *)
(* by check_client().  Only a registered user is announced.                *)
m_quit(u) ==
    LET s == Home[u] IN
    /\ client[s][u] # None
    /\ Spend("quit")
    /\ ClientsAt(s, Without(s, {u}))
    /\ Transmit(s, None, {}, IF IsClient(s, u) THEN ToAll(s, QUIT(u)) ELSE Silent)
    /\ UNCHANGED <<link, server, signon>>

(* m_nick() and change_local_nick(): an unregistered holder of the nick is *)
(* dropped; a user without the opme flag is disconnected for trying.  A    *)
(* new spelling of the user's own nick (samenick) leaves its TS alone.     *)
m_nick(u, n, ts) ==
    LET s == Home[u]
        rest == Without(s, Holders(s, n))
        newts == IF client[s][u].nick = n THEN client[s][u].ts ELSE ts
    IN /\ IsClient(s, u)
       /\ \A h \in Holders(s, n) \ {u} : IsUnknown(s, h)
       /\ Spend("nick")
       /\ IF u \in Opers
          THEN /\ ClientsAt(s, [rest EXCEPT ![u] = User(n, newts, "client")])
               /\ Transmit(s, None, {}, ToAll(s, NICK(u, n, newts)))
          ELSE /\ ClientsAt(s, [rest EXCEPT ![u] = None])
               /\ Transmit(s, None, {}, ToAll(s, QUIT(u)))
       /\ UNCHANGED <<link, server, signon>>

(* mo_kill(): a remote user is killed with KILL, a local one just exits.   *)
mo_kill(s, o, u) ==
    /\ o \in Opers /\ Home[o] = s /\ IsClient(s, o)
    /\ client[s][u] # None
    /\ Spend("kill")
    /\ ClientsAt(s, Without(s, {u}))
    /\ Transmit(s, None, {}, IF Home[u] # s THEN ToAll(s, KILL(o, u))
                             ELSE IF IsClient(s, u) THEN ToAll(s, QUIT(u)) ELSE Silent)
    /\ UNCHANGED <<link, server, signon>>

(***************************************************************************)
(* Users of other servers                                                  *)
(***************************************************************************)

(* ms_quit() and exit_client(): passed on to every other link.             *)
ms_quit(e) ==
    LET u == Source(e) IN
    /\ Arrives(e, "QUIT")
    /\ ClientsAt(e.me, Without(e.me, {u}))
    /\ Transmit(e.me, e, {}, ToAllBut(e.me, e, QUIT(u)))
    /\ UNCHANGED <<link, server, signon, spent>>

(* ms_kill(): a KILL of a user not known here is ignored; else it is passed *)
(* on to every link but the one it came from, and FLAGS_KILLED keeps        *)
(* exit_client() from sending a QUIT.                                       *)
ms_kill(e) ==
    LET s == e.me
        u == Line(e).obj
    IN /\ Arrives(e, "KILL")
       /\ IF IsClient(s, u)
          THEN /\ ClientsAt(s, Without(s, {u}))
               /\ Transmit(s, e, {}, ToAllBut(s, e, KILL(Source(e), u)))
          ELSE /\ Transmit(s, e, {}, Silent)
               /\ UNCHANGED client
       /\ UNCHANGED <<link, server, signon, spent>>

SameUserHost(t, u) == Ident[t].user = Ident[u].user /\ Ident[t].host = Ident[u].host
SameUserSock(t, u) == Ident[t].user = Ident[u].user /\ Ident[t].sock = Ident[u].sock

Loses_fault(sameuser, ts, t) == ts > t.ts   \* a reconnecting user is not recognised

(* Whether the newcomer, with TS ts, loses the nick to target t: the older *)
(* of two users keeps it, unless both are the same user@host (a reconnect  *)
(* through another server), where the newer keeps it.                      *)
Loses(sameuser, ts, t) ==
    \/ sameuser /\ ts < t.ts
    \/ ~sameuser /\ ts > t.ts

uid_from_server_fault(e, gone, kills) ==   \* exit_client(target_p) is forgotten
    LET m == Line(e)
    IN /\ ClientsAt(e.me, [client[e.me] EXCEPT ![m.obj] = User(m.nick, m.ts, "client")])
       /\ Transmit(e.me, e, {}, And(kills, ToAllBut(e.me, e, UID(m.obj, m.nick, m.ts))))

(* uid_from_server(), register_remote_user(), introduce_client(): u is     *)
(* added, the users in gone are removed, and kills is written first.       *)
uid_from_server(e, gone, kills) ==
    LET s == e.me
        m == Line(e)
    IN /\ ClientsAt(s, [Without(s, gone) EXCEPT ![m.obj] = User(m.nick, m.ts, "client")])
       /\ Transmit(s, e, {}, And(kills, ToAllBut(s, e, UID(m.obj, m.nick, m.ts))))

(* perform_uid_introduction_collides() for holder h of the nick.           *)
uid_collides(e, h) ==
    LET s == e.me
        m == Line(e)
        t == client[s][h]
        sameuser == IF Ident[h].sock = "0" THEN SameUserHost(h, m.obj)
                                           ELSE SameUserSock(h, m.obj)
        killnew == SendTo({e}, KILL(s, m.obj))
        killold == ToAll(s, KILL(s, h))
    IN \/ /\ m.ts = t.ts
          /\ ClientsAt(s, Without(s, {h}))
          /\ Transmit(s, e, {}, And(killnew, killold))
       \/ /\ m.ts # t.ts /\ Loses(sameuser, m.ts, t)
          /\ Transmit(s, e, {}, killnew)
          /\ UNCHANGED client
       \/ /\ m.ts # t.ts /\ ~Loses(sameuser, m.ts, t)
          /\ uid_from_server(e, {h}, killold)

(* ms_uid(): an ID that is in use costs its holder its life; a nick that is *)
(* in use is fought over; an unregistered holder of the nick gives way.     *)
ms_uid(e) ==
    LET s == e.me
        m == Line(e)
    IN /\ Arrives(e, "UID")
       /\ \/ /\ IsClient(s, m.obj)
             /\ ClientsAt(s, Without(s, {m.obj}))
             /\ Transmit(s, e, {}, ToAll(s, KILL(s, m.obj)))
          \/ /\ ~IsClient(s, m.obj)
             /\ \A h \in Holders(s, m.nick) : IsUnknown(s, h)
             /\ uid_from_server(e, Holders(s, m.nick), Silent)
          \/ /\ ~IsClient(s, m.obj)
             /\ \E h \in Holders(s, m.nick) : IsClient(s, h) /\ uid_collides(e, h)
       /\ UNCHANGED <<link, server, signon, spent>>

(* change_remote_nick(): u takes the nick, the users in gone are removed,  *)
(* and kills is written first.  A new spelling (samenick) keeps the TS.    *)
change_remote_nick(e, gone, kills) ==
    LET s == e.me
        u == Source(e)
        n == Line(e).nick
        ts == IF client[s][u].nick = n THEN client[s][u].ts ELSE Line(e).ts
    IN /\ ClientsAt(s, [Without(s, gone) EXCEPT ![u] = User(n, ts, "client")])
       /\ Transmit(s, e, {}, And(kills, ToAllBut(s, e, NICK(u, n, ts))))

nick_collides_fault(e, h) ==   \* the server that sent the NICK is not told of the KILL
    LET s == e.me
        t == client[s][h]
    IN \/ /\ Line(e).ts >= t.ts
          /\ ClientsAt(s, Without(s, {Source(e)}))
          /\ Transmit(s, e, {}, ToAllBut(s, e, KILL(s, Source(e))))
       \/ /\ Line(e).ts < t.ts
          /\ change_remote_nick(e, {h}, ToAll(s, KILL(s, h)))

(* perform_nick_change_collides() for holder h of the nick.                *)
nick_collides(e, h) ==
    LET s == e.me
        u == Source(e)
        ts == Line(e).ts
        t == client[s][h]
        sameuser == IF "0" \in {Ident[h].sock, Ident[u].sock} THEN SameUserHost(h, u)
                                                            ELSE SameUserSock(h, u)
        killsource == ToAll(s, KILL(s, u))
        killtarget == ToAll(s, KILL(s, h))
    IN \/ /\ ts = t.ts
          /\ ClientsAt(s, Without(s, {u, h}))
          /\ Transmit(s, e, {}, And(killsource, killtarget))
       \/ /\ ts # t.ts /\ Loses(sameuser, ts, t)
          /\ ClientsAt(s, Without(s, {u}))
          /\ Transmit(s, e, {}, killsource)
       \/ /\ ts # t.ts /\ ~Loses(sameuser, ts, t)
          /\ change_remote_nick(e, {h}, killtarget)

(* ms_nick().  That a user already has the nick means a new spelling of it: *)
(* m_nick() passes on no other, and links deliver each change once.        *)
ms_nick(e) ==
    LET s == e.me
        u == Source(e)
        holders == Holders(s, Line(e).nick)
    IN /\ Arrives(e, "NICK")
       /\ \/ /\ \A h \in holders \ {u} : IsUnknown(s, h)
             /\ change_remote_nick(e, holders \ {u}, Silent)
          \/ \E h \in holders \ {u} : IsClient(s, h) /\ nick_collides(e, h)
       /\ UNCHANGED <<link, server, signon, spent>>
-----------------------------------------------------------------------------
(* Everything an end does with what it has read.                           *)
Receive(e) ==
    \/ mr_server_refuse(e) \/ mr_server_estab(e)
    \/ link_eof(e) \/ parse_reject(e)
    \/ ms_sid(e) \/ ms_sid_collision(e) \/ ms_sid_refuse(e) \/ ms_squit(e)
    \/ ms_uid(e) \/ ms_nick(e) \/ ms_quit(e) \/ ms_kill(e)

Environment ==
    \/ \E e \in Ends : serv_connect(e) \/ link_break(e)
    \/ \E u \in Uids : register_local_user(u) \/ register_bad_password(u) \/ m_quit(u)
    \/ \E u \in Uids, n \in Nicks, ts \in Timestamps : mr_nick(u, n, ts) \/ m_nick(u, n, ts)
    \/ \E s \in Servers, o \in Opers, u \in Uids : mo_kill(s, o, u)
    \/ \E s \in Servers, o \in Opers, x \in Servers : mo_squit(s, o, x)

Next == Environment \/ \E e \in Ends : Receive(e)
Spec == Init /\ [][Next]_vars

(* The event loop reads every readable socket.                             *)
FairSpec == Spec /\ \A e \in Ends : WF_vars(Receive(e))
-----------------------------------------------------------------------------
(* Every variable has its type: directories hold records of known servers  *)
(* and users, queues hold lines that some handler writes.                  *)
TypeOK ==
    /\ link \in [Ends -> {"down", "wait", "up"}]
    /\ queue \in [Ends -> Seq(Messages)]
    /\ server \in [Servers -> [Servers -> ServerRecords \cup {None}]]
    /\ client \in [Servers -> [Uids -> ClientRecords \cup {None}]]
    /\ signon \in [Uids -> [nick : Nicks, ts : Timestamps] \cup {None}]
    /\ spent \in [Kinds -> Nat]

(* Nobody shares a nick on any server, whatever the interleaving of sign   *)
(* ons, nick changes, collisions and splits (m_nick.c).                    *)
NickUnique ==
    \A s \in Servers : \A u, v \in Uids :
        /\ client[s][u] # None /\ client[s][v] # None
        /\ client[s][u].nick = client[s][v].nick
        => u = v

(* Whatever a server knows can be reached: the link a server is known by is *)
(* established and leads to a neighbour on its path, the servers on the     *)
(* path (its servptr among them) are known by the same link, and the server *)
(* of every remote user is known.                                           *)
ServerReachable(s, x) ==
    LET r == server[s][x] IN
    /\ r.from \in LocalServers(s)
    /\ {x, r.from.peer} \subseteq r.path
    /\ r.servptr \in r.path \cup {s}
    /\ \A y \in r.path : /\ server[s][y] # None
                         /\ server[s][y].from = r.from
                         /\ server[s][y].path \subseteq r.path
UserReachable(s, u) == Home[u] # s => Knows(s, Home[u]) /\ IsClient(s, u)
Reachable ==
    \A s \in Servers :
        /\ server[s][s] = None
        /\ \A x \in Servers : server[s][x] # None => ServerReachable(s, x)
        /\ \A u \in Uids : client[s][u] # None => UserReachable(s, u)

(* UIDs are the home server's SID and a counter, so no UID line introduces  *)
(* a user that its receiver still has, however links split and rejoin: the  *)
(* "ID collision" branch of ms_uid() is for servers that are not this       *)
(* program.                                                                 *)
NoIdCollision ==
    \A e \in Ends : Arrives(e, "UID") => ~IsClient(e.me, Line(e).obj)

Quiet == \A e \in Ends : queue[e] = <<>>

(* Once no line is in flight, the two ends of a link agree on which servers *)
(* exist.                                                                   *)
ServersAgree ==
    Quiet => \A e \in Ends : link[e] = "up" =>
        {x \in Servers : Knows(e.me, x)} = {x \in Servers : Knows(e.peer, x)}

(* ... and on which users exist, under which nick and with which TS.       *)
RegisteredAt(s) == [u \in {v \in Uids : IsClient(s, v)} |-> client[s][u]]
UsersAgree ==
    Quiet => \A e \in Ends : link[e] = "up" =>
        RegisteredAt(e.me) = RegisteredAt(e.peer)

(* At rest the established links form a forest: in every set of servers     *)
(* some server has at most one link into the set.  Two links between the    *)
(* same pair, or a ring through a third server, would flood lines forever.  *)
NoLoop ==
    Quiet => \A S \in SUBSET Servers \ {{}} : \E s \in S :
        Cardinality({e \in LocalServers(s) : e.peer \in S}) <= 1

(* The TS rules decide every nick collision the same way on all servers:    *)
(* among the users that registered a nick, one that beats all the others    *)
(* (older, or newer and the same user@IP) keeps its connection, whatever    *)
(* the order in which servers learn of them.                                *)
Beats(u, v) ==
    IF SameUserSock(u, v) THEN signon[u].ts > signon[v].ts
                          ELSE signon[u].ts < signon[v].ts
WinnerSurvives ==
    spent["quit"] + spent["kill"] + spent["nick"] = 0 =>
        \A u \in Uids :
            /\ signon[u] # None
            /\ \A v \in Uids \ {u} :
                 signon[v] # None /\ signon[v].nick = signon[u].nick => Beats(u, v)
            => IsClient(Home[u], u)

(* No exchange of KILL, SQUIT and re-introductions goes on for ever: with   *)
(* finitely many local events the network comes to rest.                    *)
Settles == []<>Quiet
=============================================================================
