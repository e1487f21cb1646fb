----------------------------- MODULE Connection -----------------------------
(***************************************************************************)
(* The life of a client connection inside one ircd process: accept, the    *)
(* ident and DNS lookups, reading, registration, and the deferred ways in  *)
(* which a connection ends.  Sources: src/listener.c, src/s_bsd.c,         *)
(* src/auth.c, src/res.c, src/packet.c, src/user.c, src/conf.c,            *)
(* src/client.c, src/fdlist.c and src/ircd.c.                              *)
(*                                                                         *)
(* The process has one thread.  io_loop() runs handlers one at a time, but *)
(* a handler may call read_packet(), and a command it parses may end other *)
(* connections while the handler is in the middle of a list: walk is that  *)
(* handler and reader is the client whose read_packet() is running.        *)
(* Timers may fire at any moment the loop is free.  The server has one     *)
(* listen{} block, one class{} and one auth{} block without exceed_limit;  *)
(* any registered user may be an operator.  Left out: SSL, the text of     *)
(* lines, the throttle, server links.  A definition whose name ends in     *)
(* _fault is a mutated form of the one after it, for testing properties.   *)
(***************************************************************************)
EXTENDS Integers, Sequences, FiniteSets, LinkedLists

CONSTANTS
    Clients,      \* slots of client_pool
    Addrs,        \* IP addresses
    MaxPerIp,     \* class->max_perip, 0 for no limit
    MaxTotal,     \* class->max_total, 0 for no limit
    MaxClients,   \* GlobalSetOptions.maxclients
    FdLimit,      \* hard_fdlimit - 10, above which nothing is accepted
    SocketFails,  \* whether socket() may fail for an ident query
    None          \* the NULL pointer

VARIABLES
    phase,               \* where io_loop() is
    walk,                \* the handler that is in the middle of a list
    reader,              \* the client whose read_packet() is running
    mem,                 \* mem[c]: "free" or "used"
    ip,                  \* ip[c]: address of the peer
    list,                \* list[c]: unknown_list, local_client_list or neither
    flags,               \* flags[c]: FLAGS_..., AM_..., and what is attached
    ident,               \* ident[c]: state of auth->fd
    auth_pending_list,   \* clients, by auth->timeout
    request_list,        \* DNS requests, newest first
    abort_list,          \* clients with a failed write, oldest first
    eac_next,            \* where exit_aborted_clients() goes on
    dead_list,           \* exited clients that are not yet freed
    count,               \* ip_entry.count, class->ref_count, Count.local,
                         \* number_fd and listener->ref_count
    listener,            \* "active", "closed" (still referenced) or "freed"
    fault                \* None, or the assertion or list walk that failed

loopvars == <<phase, walk, reader>>
clientvars == <<mem, ip, list, flags, ident>>
listvars == <<auth_pending_list, request_list, abort_list, eac_next, dead_list>>
vars == <<loopvars, clientvars, listvars, count, listener, fault>>

Flags == {"Open", "InAuth", "DNSPending", "DoingAuth", "FinishedAuth",
          "IPHash", "Conf", "Dead", "Closing"}
Requests == [ctx : Clients, type : {"PTR", "A"}, retries : 1..2]

(* A walk is the function, the node it is at, the node it will go to next, *)
(* and whether it has already made its call for the node.                  *)
Walks == [fn : {"none", "res_readreply", "timeout_query_list",
                "timeout_auth_queries_event", "exit_aborted_clients"},
          node : Clients \cup {None}, next : Clients \cup {None}, called : BOOLEAN]
Walk(fn, node, next, called) ==
    [fn |-> fn, node |-> node, next |-> next, called |-> called]
NoWalk == Walk("none", None, None, FALSE)

ASSUME ConnectionAssumption ==
    /\ IsFiniteSet(Clients) /\ None \notin Clients
    /\ None \notin {"fd_close", "next_node", "rem_request"}
    /\ MaxPerIp \in Nat /\ MaxTotal \in Nat /\ MaxClients \in Nat /\ FdLimit \in Nat
    /\ SocketFails \in BOOLEAN
-----------------------------------------------------------------------------
Has(c, f) == f \in flags[c]
IsDefunct(c) == flags[c] \cap {"Dead", "Closing"} # {}
IsUnknown(c) == list[c] = "unknown_list"
IsClient(c) == list[c] = "local_client_list"
All(f) == {c \in Clients : Has(c, f)}

Ctx(q) == [i \in DOMAIN q |-> q[i].ctx]   \* the query_ctx of each request
Contexts == Ctx(request_list)
Without(q, C) == Keep(q, {r \in Requests : r.ctx \notin C})

Idle == phase = "run" /\ walk = NoWalk /\ reader = None /\ fault = None
In(fn) == walk.fn = fn /\ reader = None /\ fault = None
Reading(c) == reader = c /\ ~IsDefunct(c) /\ fault = None

(* DO NOT REMOVE, says the code: exit_client() may be called twice.        *)
not_closing_fault(C, fl) == {c \in C : fl[c] \cap {"Dead", "Closing"} = {}}
not_closing(C, fl) == {c \in C : "Closing" \notin fl[c]}

delete_resolver_queries_fault(C) == request_list
delete_resolver_queries(C) == Without(request_list, C)

(***************************************************************************)
(* exit_client() of the clients in C, given their flags and the counters   *)
(* at that moment: delete_auth(), close_connection() with detach_conf(),   *)
(* exit_one_client().  A client that is closing already is left alone.     *)
(* fd_close() of a descriptor that is not open fails its assertion.        *)
(***************************************************************************)
exit_clients(C, fl, cnt) ==
    LET out == not_closing(C, fl)
        with(f) == {c \in out : f \in fl[c]}
    IN /\ flags' = [c \in Clients |-> IF c \in out
                      THEN (fl[c] \ {"Open", "InAuth", "IPHash", "Conf"}) \cup {"Dead", "Closing"}
                      ELSE fl[c]]
       /\ list' = [c \in Clients |-> IF c \in out THEN "none" ELSE list[c]]
       /\ ident' = [c \in Clients |-> IF c \in with("DoingAuth") THEN "closed" ELSE ident[c]]
       /\ auth_pending_list' = Keep(auth_pending_list, Clients \ with("InAuth"))
       /\ request_list' = delete_resolver_queries(with("DNSPending"))
       /\ dead_list' = dead_list \cup out
       /\ count' = [cnt EXCEPT
            !.ip = [a \in Addrs |-> @[a] - Cardinality({c \in with("IPHash") : ip[c] = a})],
            !.class = @ - Cardinality(with("Conf")),
            !.local = @ - Cardinality({c \in out : IsClient(c)}),
            !.fd = @ - Cardinality(with("Open")) - Cardinality(with("DoingAuth"))]
       /\ fault' = IF \A c \in with("DoingAuth") : ident[c] # "closed" THEN fault ELSE "fd_close"
exit_client(C) == exit_clients(C, flags, count)
-----------------------------------------------------------------------------
Init ==
    /\ phase = "run" /\ walk = NoWalk /\ reader = None
    /\ mem = [c \in Clients |-> "free"]
    /\ ip = [c \in Clients |-> None]
    /\ list = [c \in Clients |-> "none"]
    /\ flags = [c \in Clients |-> {}]
    /\ ident = [c \in Clients |-> "closed"]
    /\ auth_pending_list = <<>> /\ request_list = <<>>
    /\ abort_list = <<>> /\ eac_next = None /\ dead_list = {}
    /\ count = [ip |-> [a \in Addrs |-> 0], class |-> 0, local |-> 0, fd |-> 1, listener |-> 0]
    /\ listener = "active"
    /\ fault = None

(***************************************************************************)
(* listener_accept_connection(): add_connection() and start_auth().  The   *)
(* ident query may be disabled, fail to get a socket (DoingAuth stays set),*)
(* fail or succeed to connect at once, or stay connecting.  It cannot      *)
(* release the client, since DNSPending is set first.                      *)
(***************************************************************************)
start_auth_flags(id) ==
    {"Open", "InAuth", "DNSPending"}
      \cup (IF id \in {"failed", "connecting", "reading"} THEN {"DoingAuth"} ELSE {})

listener_accept_connection(c, a, id) ==
    /\ Idle /\ listener = "active" /\ mem[c] = "free"
    /\ count.fd <= FdLimit
    /\ id = "failed" => SocketFails
    /\ mem' = [mem EXCEPT ![c] = "used"]
    /\ ip' = [ip EXCEPT ![c] = a]
    /\ list' = [list EXCEPT ![c] = "unknown_list"]
    /\ flags' = [flags EXCEPT ![c] = start_auth_flags(id)]
    /\ ident' = [ident EXCEPT ![c] = IF id \in {"connecting", "reading"} THEN id ELSE "closed"]
    /\ auth_pending_list' = Append(auth_pending_list, c)
    /\ request_list' = <<[ctx |-> c, type |-> "PTR", retries |-> 2]>> \o request_list
    /\ count' = [count EXCEPT !.listener = @ + 1,
                   !.fd = @ + IF id \in {"connecting", "reading"} THEN 2 ELSE 1]
    /\ UNCHANGED <<loopvars, abort_list, eac_next, dead_list, listener, fault>>

ClearAuth(fl) == fl \ {"DoingAuth"}
ClearDNSPending_fault(fl) == fl
ClearDNSPending(fl) == fl \ {"DNSPending"}

still_pending_fault(fl) == "DoingAuth" \in fl
still_pending(fl) == fl \cap {"DoingAuth", "DNSPending"} # {}

(***************************************************************************)
(* release_auth_client(), given the flags after the lookup that ended: the *)
(* client leaves auth_pending_list and is read when nothing is pending.    *)
(***************************************************************************)
release_auth_client(c, fl) ==
    IF still_pending(fl)
    THEN /\ flags' = [flags EXCEPT ![c] = fl]
         /\ UNCHANGED <<auth_pending_list, reader>>
    ELSE /\ auth_pending_list' = Keep(auth_pending_list,
                                      IF "InAuth" \in fl THEN Clients \ {c} ELSE Clients)
         /\ flags' = [flags EXCEPT ![c] = (fl \ {"InAuth"}) \cup {"FinishedAuth"}]
         /\ reader' = c

(* read_auth_reply(), and auth_error() from auth_connect_callback().       *)
close_ident(c) ==
    /\ Idle /\ ident[c] # "closed" /\ Has(c, "DoingAuth")
    /\ ident' = [ident EXCEPT ![c] = "closed"]
    /\ count' = [count EXCEPT !.fd = @ - 1]
    /\ release_auth_client(c, ClearAuth(flags[c]))
    /\ UNCHANGED <<phase, walk, mem, ip, list, request_list, abort_list, eac_next,
                   dead_list, listener, fault>>
auth_error(c) == ident[c] = "connecting" /\ close_ident(c)
read_auth_reply(c) == ident[c] = "reading" /\ close_ident(c)

(* auth_connect_callback(): connected, the query is written.               *)
auth_connect_callback(c) ==
    /\ Idle /\ ident[c] = "connecting"
    /\ ident' = [ident EXCEPT ![c] = "reading"]
    /\ UNCHANGED <<loopvars, mem, ip, list, flags, listvars, count, listener, fault>>
-----------------------------------------------------------------------------
(* auth_dns_callback(), called through request->callback.                  *)
auth_dns_callback(c) == release_auth_client(c, ClearDNSPending(flags[c]))

(***************************************************************************)
(* res_readreply(): an error, a useless answer or the final one calls back *)
(* and only then removes the request; a name replaces the PTR request by   *)
(* one for its address.  An answer whose id is unknown changes nothing.    *)
(***************************************************************************)
res_readreply_final(i) ==
    /\ Idle
    /\ auth_dns_callback(request_list[i].ctx)
    /\ walk' = Walk("res_readreply", request_list[i].ctx, None, TRUE)
    /\ UNCHANGED <<phase, mem, ip, list, ident, request_list, abort_list, eac_next,
                   dead_list, count, listener, fault>>

res_readreply_name(i) ==
    /\ Idle /\ request_list[i].type = "PTR"
    /\ request_list' = <<[ctx |-> request_list[i].ctx, type |-> "A", retries |-> 2]>>
                         \o RemoveAt(request_list, i)
    /\ UNCHANGED <<loopvars, clientvars, auth_pending_list, abort_list, eac_next,
                   dead_list, count, listener, fault>>

(* rem_request() of the request whose callback returned.                   *)
rem_request(c) ==
    /\ request_list' = Without(request_list, {c})
    /\ fault' = IF c \in ToSet(Contexts) THEN fault ELSE "rem_request"

res_readreply_return ==
    /\ In("res_readreply")
    /\ rem_request(walk.node)
    /\ walk' = NoWalk
    /\ UNCHANGED <<phase, reader, clientvars, auth_pending_list, abort_list, eac_next,
                   dead_list, count, listener>>

(***************************************************************************)
(* timeout_query_list() walks request_list, and fetches the next node when *)
(* it reaches one.  If the request there is gone when the loop moves on,   *)
(* node is freed memory and the model stops.  A request is due or not, is  *)
(* sent again while it has retries left, and else fails.                   *)
(***************************************************************************)
MoveTo(c, q) ==
    LET there == c \in ToSet(q)
    IN /\ walk' = IF there THEN Walk("timeout_query_list", c, After(q, c, None), FALSE) ELSE NoWalk
       /\ fault' = IF there \/ c = None THEN fault ELSE "next_node"

timeout_query_list ==
    /\ Idle /\ request_list # <<>>
    /\ MoveTo(Head(Contexts), Contexts)
    /\ UNCHANGED <<phase, reader, clientvars, listvars, count, listener>>

query_at(i) ==
    /\ In("timeout_query_list") /\ ~walk.called
    /\ request_list[i].ctx = walk.node

resend_query_fault(i) == request_list' = [request_list EXCEPT ![i].retries = @ - 1]
resend_query(i) ==
    /\ request_list[i].retries > 1
    /\ request_list' = [request_list EXCEPT ![i].retries = @ - 1]

query_waits(i) ==
    /\ query_at(i)
    /\ UNCHANGED request_list \/ resend_query(i)
    /\ MoveTo(walk.next, Contexts)
    /\ UNCHANGED <<phase, reader, clientvars, auth_pending_list, abort_list, eac_next,
                   dead_list, count, listener>>

query_fails(i) ==
    /\ query_at(i) /\ request_list[i].retries = 1
    /\ auth_dns_callback(walk.node)
    /\ walk' = [walk EXCEPT !.called = TRUE]
    /\ UNCHANGED <<phase, mem, ip, list, ident, request_list, abort_list, eac_next,
                   dead_list, count, listener, fault>>

query_failed ==
    /\ In("timeout_query_list") /\ walk.called
    /\ request_list' = Without(request_list, {walk.node})
    /\ IF walk.node \in ToSet(Contexts)
       THEN MoveTo(walk.next, Ctx(Without(request_list, {walk.node})))
       ELSE fault' = "rem_request" /\ walk' = NoWalk
    /\ UNCHANGED <<phase, reader, clientvars, auth_pending_list, abort_list, eac_next,
                   dead_list, count, listener>>

(***************************************************************************)
(* timeout_auth_queries_event() walks auth_pending_list up to the first    *)
(* client that is not due.  A node that was removed meanwhile still holds  *)
(* its AuthRequest, with the flags delete_auth() left, and ends the list.  *)
(***************************************************************************)
AuthMoveTo(c) ==
    walk' = IF c = None THEN NoWalk
            ELSE Walk("timeout_auth_queries_event", c,
                      IF c \in ToSet(auth_pending_list) THEN After(auth_pending_list, c, None) ELSE None,
                      FALSE)

timeout_auth_queries_event ==
    /\ Idle /\ auth_pending_list # <<>>
    /\ AuthMoveTo(Head(auth_pending_list))
    /\ UNCHANGED <<phase, reader, clientvars, listvars, count, listener, fault>>

auth_not_due ==
    /\ In("timeout_auth_queries_event") /\ ~walk.called
    /\ walk' = NoWalk
    /\ UNCHANGED <<phase, reader, clientvars, listvars, count, listener, fault>>

auth_expires(c) ==
    /\ In("timeout_auth_queries_event") /\ ~walk.called /\ walk.node = c
    /\ ident' = [ident EXCEPT ![c] = IF Has(c, "DoingAuth") THEN "closed" ELSE @]
    /\ count' = [count EXCEPT !.fd = IF Has(c, "DoingAuth") THEN @ - 1 ELSE @]
    /\ fault' = IF ~Has(c, "DoingAuth") \/ ident[c] # "closed" THEN fault
                ELSE IF Has(c, "Closing") THEN "next_node" ELSE "fd_close"
    /\ request_list' = IF Has(c, "DNSPending") THEN delete_resolver_queries({c}) ELSE request_list
    /\ release_auth_client(c, ClearDNSPending(ClearAuth(flags[c])))
    /\ walk' = [walk EXCEPT !.called = TRUE]
    /\ UNCHANGED <<phase, mem, ip, list, abort_list, eac_next, dead_list, listener>>

auth_expired ==
    /\ In("timeout_auth_queries_event") /\ walk.called
    /\ AuthMoveTo(walk.next)
    /\ UNCHANGED <<phase, reader, clientvars, listvars, count, listener, fault>>
-----------------------------------------------------------------------------
may_read_fault(c) == mem[c] = "used" /\ ~IsDefunct(c)
may_read(c) == Has(c, "FinishedAuth") /\ ~IsDefunct(c)

(***************************************************************************)
(* read_packet() of a released client, by comm_select() or flood_recalc(). *)
(* While it runs, lines of the client are parsed; it returns when there is *)
(* no more to read or the client is defunct.                               *)
(***************************************************************************)
read_packet(c) ==
    /\ Idle /\ may_read(c)
    /\ reader' = c
    /\ UNCHANGED <<phase, walk, clientvars, listvars, count, listener, fault>>

read_packet_return ==
    /\ reader # None /\ fault = None
    /\ reader' = None
    /\ UNCHANGED <<phase, walk, clientvars, listvars, count, listener, fault>>

handled == UNCHANGED <<loopvars, mem, ip, abort_list, eac_next, listener>>

(* End of file, a read error, excess flood, QUIT, or check_client() saying *)
(* NOT_AUTHORIZED or BANNED_CLIENT.                                        *)
read_exits(c) == Reading(c) /\ exit_client({c}) /\ handled

(***************************************************************************)
(* register_local_user() with attach_iline() and attach_conf(): the address*)
(* is counted before the limits are looked at, and exit_client() undoes    *)
(* what was attached by then.  After the class is attached the user may    *)
(* still be refused: no identd, server full, X-line, bad password.         *)
(***************************************************************************)
with_ip(c) == [count EXCEPT !.ip[ip[c]] = @ + 1]
a_limit_reached(c) ==
    \/ MaxTotal # 0 /\ count.class >= MaxTotal
    \/ MaxPerIp # 0 /\ with_ip(c).ip[ip[c]] > MaxPerIp
with_conf(c) == [with_ip(c) EXCEPT !.class = @ + 1]
attached(c, f) == [flags EXCEPT ![c] = @ \cup f]

too_many_fault(c) ==   \* FLAGS_IPHASH would be set after the limits
    /\ Reading(c) /\ IsUnknown(c) /\ a_limit_reached(c)
    /\ exit_clients({c}, flags, with_ip(c))
    /\ handled
too_many(c) ==
    /\ Reading(c) /\ IsUnknown(c) /\ a_limit_reached(c)
    /\ exit_clients({c}, attached(c, {"IPHash"}), with_ip(c))
    /\ handled

register_refused(c) ==
    /\ Reading(c) /\ IsUnknown(c) /\ ~a_limit_reached(c)
    /\ exit_clients({c}, attached(c, {"IPHash", "Conf"}), with_conf(c))
    /\ handled

register_local_user(c) ==
    /\ Reading(c) /\ IsUnknown(c) /\ ~a_limit_reached(c)
    /\ count.local < MaxClients
    /\ flags' = attached(c, {"IPHash", "Conf"})
    /\ list' = [list EXCEPT ![c] = "local_client_list"]
    /\ count' = [with_conf(c) EXCEPT !.local = @ + 1]
    /\ handled
    /\ UNCHANGED <<ident, auth_pending_list, request_list, dead_list, fault>>

(* Commands of an operator that end other connections, or its own.         *)
mo_close(c) ==
    Reading(c) /\ IsClient(c) /\ exit_client({d \in Clients : IsUnknown(d)}) /\ handled
mo_kill(c, d) ==
    Reading(c) /\ IsClient(c) /\ IsClient(d) /\ exit_client({d}) /\ handled
mo_dline(c, a) ==
    /\ Reading(c) /\ IsClient(c)
    /\ exit_client({d \in Clients : list[d] # "none" /\ ip[d] = a /\ ~Has(d, "Dead")})
    /\ handled

(***************************************************************************)
(* conf_rehash(), for SIGHUP or an operator's REHASH: close_listeners(),   *)
(* then the new file may or may not have the listen{} block; then          *)
(* check_conf_klines() with D-lines for the addresses in D, which spares   *)
(* dead users but not dead unknown clients.                                *)
(***************************************************************************)
conf_rehash(D, listen) ==
    LET was == IF listener = "active" THEN 1 ELSE 0
        now == IF listen THEN 1 ELSE 0
    IN /\ Idle \/ \E c \in Clients : Reading(c) /\ IsClient(c)
       /\ listener' = CASE listen -> "active"
                        [] ~listen /\ count.listener > 0 -> "closed"
                        [] OTHER -> "freed"
       /\ exit_clients({c \in Clients : ip[c] \in D /\ (IsUnknown(c) \/ (IsClient(c) /\ ~Has(c, "Dead")))},
                       flags, [count EXCEPT !.fd = @ - was + now])
       /\ UNCHANGED <<loopvars, mem, ip, abort_list, eac_next>>

(* check_pings_list() and check_unknowns_list().                           *)
check_pings(c) == Idle /\ IsClient(c) /\ ~Has(c, "Dead") /\ exit_client({c}) /\ handled
check_unknowns(c) == Idle /\ IsUnknown(c) /\ Has(c, "FinishedAuth") /\ exit_client({c}) /\ handled
-----------------------------------------------------------------------------
(* The walk of exit_aborted_clients() must not end before a new node.      *)
not_finished(d) == IF eac_next = None THEN d ELSE eac_next

(* dead_link_on_write(): a send to d failed, in whatever the loop was doing.*)
Sending == phase = "run" \/ walk.called
dead_link_on_write(d) ==
    /\ Sending /\ fault = None
    /\ mem[d] = "used" /\ ~IsDefunct(d)
    /\ abort_list' = Append(abort_list, d)
    /\ eac_next' = not_finished(d)
    /\ flags' = [flags EXCEPT ![d] = @ \cup {"Dead"}]
    /\ UNCHANGED <<loopvars, mem, ip, list, ident, auth_pending_list, request_list,
                   dead_list, count, listener, fault>>

(***************************************************************************)
(* exit_aborted_clients(): eac_next is a global, so that a write that fails*)
(* while the last client exits can still extend the walk.                  *)
(***************************************************************************)
AbortMoveTo(c) ==
    /\ walk' = IF c = None THEN NoWalk ELSE Walk("exit_aborted_clients", c, None, FALSE)
    /\ eac_next' = IF c = None THEN None ELSE After(abort_list, c, None)
    /\ phase' = IF c = None THEN "free" ELSE "abort"

exit_aborted_clients ==
    /\ Idle
    /\ AbortMoveTo(First(abort_list, None))
    /\ UNCHANGED <<reader, clientvars, auth_pending_list, request_list, abort_list,
                   dead_list, count, listener, fault>>

abort_exits ==
    /\ In("exit_aborted_clients") /\ ~walk.called
    /\ eac_next' = After(abort_list, walk.node, None)
    /\ abort_list' = Keep(abort_list, Clients \ {walk.node})
    /\ exit_client({walk.node})
    /\ walk' = [walk EXCEPT !.called = TRUE]
    /\ UNCHANGED <<phase, reader, mem, ip, listener>>

abort_exited ==
    /\ In("exit_aborted_clients") /\ walk.called
    /\ AbortMoveTo(eac_next)
    /\ UNCHANGED <<reader, clientvars, auth_pending_list, request_list, abort_list,
                   dead_list, count, listener, fault>>

(* free_exited_clients(): free_client() of each, with listener_release().  *)
free_exited_clients ==
    LET refs == count.listener - Cardinality(dead_list)
        reset(f, v) == [c \in Clients |-> IF c \in dead_list THEN v ELSE f[c]]
    IN /\ phase = "free" /\ fault = None
       /\ phase' = "run"
       /\ mem' = reset(mem, "free") /\ ip' = reset(ip, None) /\ flags' = reset(flags, {})
       /\ dead_list' = {}
       /\ count' = [count EXCEPT !.listener = refs]
       /\ listener' = IF refs = 0 /\ dead_list # {} /\ listener = "closed" THEN "freed" ELSE listener
       /\ UNCHANGED <<walk, reader, list, ident, auth_pending_list, request_list,
                      abort_list, eac_next, fault>>
-----------------------------------------------------------------------------
(* The steps by which a handler that has begun comes to its end.           *)
Continue ==
    \/ read_packet_return \/ res_readreply_return
    \/ \E i \in DOMAIN request_list : query_waits(i) \/ query_fails(i)
    \/ query_failed
    \/ auth_not_due \/ (\E c \in Clients : auth_expires(c)) \/ auth_expired
    \/ abort_exits \/ abort_exited \/ free_exited_clients

(* The handlers comm_select() and event_run() start.                       *)
Handlers ==
    \/ \E c \in Clients, a \in Addrs, id \in {"off", "failed", "refused", "connecting", "reading"} :
          listener_accept_connection(c, a, id)
    \/ \E c \in Clients : auth_connect_callback(c) \/ auth_error(c) \/ read_auth_reply(c)
    \/ \E i \in DOMAIN request_list : res_readreply_final(i) \/ res_readreply_name(i)
    \/ timeout_query_list \/ timeout_auth_queries_event
    \/ \E c \in Clients : read_packet(c) \/ check_pings(c) \/ check_unknowns(c)
    \/ exit_aborted_clients

Commands ==
    \/ \E c \in Clients :
          \/ read_exits(c) \/ too_many(c) \/ register_refused(c) \/ register_local_user(c)
          \/ mo_close(c) \/ \E d \in Clients : mo_kill(c, d)
          \/ \E a \in Addrs : mo_dline(c, a)
    \/ \E D \in SUBSET Addrs, listen \in BOOLEAN : conf_rehash(D, listen)

Next == Continue \/ Handlers \/ Commands \/ \E d \in Clients : dead_link_on_write(d)

Spec == Init /\ [][Next]_vars

(***************************************************************************)
(* Fairness: a handler that runs comes to its end; io_loop() goes round,   *)
(* with the auth timer each time; and the clock goes on, so that a client  *)
(* is not found "not due" forever.                                         *)
(***************************************************************************)
FairSpec ==
    /\ Spec
    /\ WF_vars(Continue)
    /\ SF_vars(exit_aborted_clients) /\ SF_vars(timeout_auth_queries_event)
    /\ \A c \in Clients : SF_vars(auth_expires(c))
-----------------------------------------------------------------------------
Phases == {"run", "abort", "free"}

(* Every variable has its type.                                            *)
TypeOK ==
    /\ phase \in Phases /\ walk \in Walks /\ reader \in Clients \cup {None}
    /\ mem \in [Clients -> {"free", "used"}] /\ ip \in [Clients -> Addrs \cup {None}]
    /\ list \in [Clients -> {"none", "unknown_list", "local_client_list"}]
    /\ flags \in [Clients -> SUBSET Flags]
    /\ ident \in [Clients -> {"closed", "connecting", "reading"}]
    /\ auth_pending_list \in Seq(Clients) /\ request_list \in Seq(Requests)
    /\ abort_list \in Seq(Clients) /\ eac_next \in Clients \cup {None}
    /\ dead_list \in SUBSET Clients
    /\ count \in [ip : [Addrs -> Int], class : Int, local : Int, fd : Int, listener : Int]
    /\ listener \in {"active", "closed", "freed"}
    /\ fault \in {None, "fd_close", "next_node", "rem_request"}

(***************************************************************************)
(* free_client() leaves no pointer behind: no list, callback, loop or      *)
(* listener points to a client, or is held by one, whose memory is freed.  *)
(* And exit_aborted_clients() leaves nobody behind: when memory is freed,  *)
(* each client whose link is dead has been through exit_client().          *)
(***************************************************************************)
Referenced ==
    ToSet(auth_pending_list) \cup ToSet(Contexts) \cup ToSet(abort_list) \cup dead_list
      \cup ({eac_next, reader, walk.node, walk.next} \ {None})
NoDangling ==
    /\ \A c \in Referenced : mem[c] = "used"
    /\ listener = "freed" => \A c \in Clients : mem[c] = "free"
    /\ phase = "free" => abort_list = <<>> /\ All("Dead") = dead_list /\ All("Closing") = dead_list

(***************************************************************************)
(* The ident and DNS lookups of a live client agree with its AM_ flags: it *)
(* is in auth_pending_list as long as one is outstanding, a finished one   *)
(* can not call back any more, and it is read only when both are over.     *)
(* rem_request() finds the request it called back for still in the list.   *)
(***************************************************************************)
Returning == IF walk.fn \in {"res_readreply", "timeout_query_list"} /\ walk.called
             THEN {walk.node} ELSE {}
LookupsMatch ==
    /\ fault # "rem_request"
    /\ fault = None =>
      /\ IsInjective(auth_pending_list) /\ ToSet(auth_pending_list) = All("InAuth")
      /\ IsInjective(Contexts)
      /\ \A c \in Clients \ All("Closing") :
           /\ c \in ToSet(Contexts) <=> Has(c, "DNSPending") \/ c \in Returning
           /\ SocketFails \/ (ident[c] # "closed" <=> Has(c, "DoingAuth"))
           /\ mem[c] = "used" =>
                (Has(c, "InAuth") <=> flags[c] \cap {"DNSPending", "DoingAuth"} # {})
           /\ Has(c, "FinishedAuth") <=> mem[c] = "used" /\ ~Has(c, "InAuth")
      /\ \A c \in All("Closing") : ident[c] = "closed" /\ c \notin ToSet(Contexts) \ Returning

(***************************************************************************)
(* ip_entry.count, class->ref_count, Count.local, number_fd and            *)
(* listener->ref_count are the numbers of clients that hold them, however  *)
(* registration was refused and whichever way the client ended.            *)
(***************************************************************************)
Counters ==
    fault = None =>
      /\ \A a \in Addrs : count.ip[a] = Cardinality({c \in All("IPHash") : ip[c] = a})
      /\ count.class = Cardinality(All("Conf"))
      /\ count.local = Cardinality({c \in Clients : IsClient(c)})
      /\ count.fd = Cardinality(All("Open")) + Cardinality({c \in Clients : ident[c] # "closed"})
                      + (IF listener = "active" THEN 1 ELSE 0)
      /\ count.listener = Cardinality({c \in Clients : mem[c] = "used"})

(* fd_close() is only called for an open descriptor (its assertion).       *)
ClosesOpen == fault # "fd_close"

(* What each client goes through, seen from outside.                       *)
stage == [c \in Clients |->
            IF mem[c] = "free" THEN "free"
            ELSE IF Has(c, "Closing") THEN "exited"
            ELSE IF IsClient(c) THEN "user"
            ELSE IF Has(c, "FinishedAuth") THEN "open" ELSE "auth"]
Abstract == INSTANCE Lifecycle WITH Clients <- Clients, stage <- stage

(* Every behaviour is one of Lifecycle: clients register and exit at most  *)
(* once, and only exited clients are freed.                                *)
Implements == Abstract!Spec

(* A lookup never holds a client back for ever: it is released, or exits.  *)
AuthEnds == \A c \in Clients : Has(c, "InAuth") ~> (~Has(c, "InAuth") \/ fault # None)

(* A client whose link is dead, or that exited, is freed in the end.       *)
Reaped == \A c \in Clients : IsDefunct(c) ~> (mem[c] = "free" \/ fault # None)
=============================================================================
