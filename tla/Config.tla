------------------------------- MODULE Config -------------------------------
(***************************************************************************)
(* The configuration file, and what outlives the next reading of it.       *)
(* ircd.conf is parsed twice, for its classes and then for the rest        *)
(* (conf_parser.c, read_conf()); REHASH does so with clients, opers and    *)
(* servers attached to items of the file read before (conf.c), to classes  *)
(* (conf_class.c) and to listeners (listener.c).                           *)
(*                                                                         *)
(* A file is a sequence of blocks [kind, items], an item a key and a value *)
(* as the lexer returns them. A setting that is absent from `set' has its  *)
(* default. block_state is reset at the start of each block, in the pass   *)
(* in which the block counts. The part of the server is one record `srv'.  *)
(***************************************************************************)
EXTENDS Integers, Sequences, SequencesExt, FiniteSets, TLC

CONSTANTS
    None,
    Clients, Servers,    \* connections that register as users and as servers
    Addr,                \* connection -> its address, a sequence of bits
    Covers,              \* mask -> connections it matches, password included
    OperName, ServerName,
    ClassDefaults,       \* number -> its value in a class block without it
    RecvqMin, RecvqMax, TsWarnMin, TsMaxMin, WatchMin, NickMin, NickMax, ClientsMin, ClientsMax,
    Unit,                \* unit of a time or size -> what it stands for
    Busy,                \* ports that another program holds
    Unreadable,          \* key, certificate and parameter files with an error
    Wild,                \* names with wildcards
    HostNames,           \* hosts that need a lookup
    Commands,            \* commands of the modules
    Scenes               \* [files, steps, acts]

VARIABLES
    srv,
    file,       \* history: the file that was read last
    now,
    scene
vars == <<srv, file, now, scene>>

Lists == {"client", "oper", "server", "service", "uline", "cluster", "kline", "dline", "exempt", "xline", "resv"}
Attached == {"client", "oper", "server"}
ByAddress == {"client", "kline", "dline", "exempt"}
Fields == DOMAIN ClassDefaults \cup
    {"name", "nick", "class", "host", "rpass", "spass", "whois", "file", "cert", "ciph", "bind", "addr", "command",
     "prepend", "port", "aftype", "type", "size", "modes"}
Clamp(n, lo, hi) == IF n < lo THEN lo ELSE IF n > hi THEN hi ELSE n
Index(s, T(_)) == IF \E k \in DOMAIN s : T(s[k]) THEN CHOOSE k \in DOMAIN s : T(s[k]) /\ \A j \in 1..(k - 1) : ~T(s[j]) ELSE 0
NewId(ids) == CHOOSE n \in 1..(Cardinality(ids) + 1) : n \notin ids

-----------------------------------------------------------------------------
(* The classes, default last; `nets' are the CIDR blocks of the clients.   *)
ClassOf(S, id) == S.classes[Index(S.classes, LAMBDA c : c.id = id)]
SetClass(S, class) == [S EXCEPT !.classes[Index(S.classes, LAMBDA c : c.id = class.id)] = class]
class_make(S) ==
    [S EXCEPT !.classes = <<[id |-> NewId({c.id : c \in ToSet(@)}), name |-> None, active |-> TRUE, ref |-> 0,
                             val |-> ClassDefaults, flags |-> {}, nets |-> <<>>, touched |-> FALSE]>> \o @]
class_free(S, id) == [S EXCEPT !.classes = SelectSeq(@, LAMBDA c : c.id # id)]
class_find(S, name, active) ==
    LET k == Index(S.classes, LAMBDA c : c.name = name)
    IN IF k = 0 \/ (active /\ ~S.classes[k].active) THEN None ELSE S.classes[k].id
class_mark_for_deletion(S) ==
    LET others == Front(S.classes)
    IN [S EXCEPT !.classes = Append([k \in DOMAIN others |-> [others[k] EXCEPT !.active = FALSE]], Last(S.classes))]
class_delete_marked(S) == [S EXCEPT !.classes = SelectSeq(@, LAMBDA c : c.active \/ c.ref > 0)]

mask_addr(ip, bits) == [k \in DOMAIN ip |-> IF k <= bits THEN ip[k] ELSE 0]
match_ipv4(ip, mask, bits) == \A k \in 1..bits : ip[k] = mask[k]

(* The class with the address counted in, or None at the limit.            *)
cidr_limit_reached(over_rule, ip, class) ==
    LET bits == class.val["cidr_bitlen_ipv4"]
        k == Index(class.nets, LAMBDA n : match_ipv4(ip, n.mask, bits))
    IN IF class.val["number_per_cidr"] = 0 \/ bits = 0 THEN class
       ELSE IF k = 0 THEN [class EXCEPT !.nets = <<[mask |-> mask_addr(ip, bits), n |-> 1]>> \o @]
       ELSE IF ~over_rule /\ class.nets[k].n >= class.val["number_per_cidr"] THEN None
       ELSE [class EXCEPT !.nets[k].n = @ + 1]

(* Every block that matches is counted down, until one becomes empty.      *)
RECURSIVE Countdown(_, _, _)
Countdown(nets, ip, bits) ==
    IF nets = <<>> THEN <<>>
    ELSE LET n == Head(nets)
         IN IF ~match_ipv4(ip, n.mask, bits) THEN <<n>> \o Countdown(Tail(nets), ip, bits)
            ELSE IF n.n = 1 THEN Tail(nets)
            ELSE <<[n EXCEPT !.n = @ - 1]>> \o Countdown(Tail(nets), ip, bits)
remove_from_cidr_check(ip, class) ==
    LET bits == class.val["cidr_bitlen_ipv4"]
    IN IF class.val["number_per_cidr"] = 0 \/ bits = 0 THEN class
       ELSE [class EXCEPT !.nets = Countdown(@, ip, bits)]

Users(S) == SelectSeq(SetToSeq(Clients), LAMBDA c : S.clients[c].at = "user")
rebuild_cidr_list(S, class) ==
    FoldLeft(LAMBDA cl, c : IF S.confs[Last(S.clients[c].confs)].class = class.id
                            THEN cidr_limit_reached(TRUE, Addr[c], cl) ELSE cl,
             [class EXCEPT !.nets = <<>>], Users(S))

-----------------------------------------------------------------------------
(* Items made from blocks, and who is attached to them. Items found by     *)
(* name are listed with the last one first, by address with the first.     *)
conf_make(S, kind, conf) ==
    LET id == NewId(DOMAIN S.confs)
    IN [S EXCEPT !.confs = (id :> (conf @@ [kind |-> kind, active |-> TRUE, ref |-> 0, class |-> None, dns |-> FALSE])) @@ @,
                 !.lists[kind] = IF kind \in ByAddress THEN Append(@, id) ELSE <<id>> \o @,
                 !.made = id]
conf_free(S, id) == [S EXCEPT !.confs = [i \in DOMAIN @ \ {id} |-> @[i]], !.queries = @ \ {id}]
conf_add_class_to_conf(S, id, name) ==
    LET class == class_find(S, name, TRUE)
    IN [S EXCEPT !.confs[id].class = IF class = None THEN Last(S.classes).id ELSE class]
(* A connect block with a host name starts a query for it.                 *)
lookup_confhost(S, id) ==
    IF S.confs[id].host \in HostNames THEN [S EXCEPT !.confs[id].dns = TRUE, !.queries = @ \cup {id}] ELSE S

ConfOf(S, c, kind) ==
    LET k == Index(S.lists[kind], LAMBDA i : c \in Covers[S.confs[i].host])
    IN IF k = 0 THEN None ELSE S.lists[kind][k]

(* S with the conf attached, or None at the limit of its CIDR block.       *)
attach_conf(S, c, id) ==
    LET conf == S.confs[id]
        class == ClassOf(S, conf.class)
        counted == IF conf.kind = "client" THEN cidr_limit_reached("exceed_limit" \in conf.flags, Addr[c], class) ELSE class
    IN IF Contains(S.clients[c].confs, id) THEN S
       ELSE IF counted = None THEN None
       ELSE [SetClass(S, [counted EXCEPT !.ref = @ + 1]) EXCEPT
               !.confs[id].ref = @ + 1, !.clients[c].confs = <<id>> \o @]

detach_one_fault(S, c, id) ==
    LET class == ClassOf(S, S.confs[id].class)
        S1 == SetClass(S, [class EXCEPT !.ref = @ - 1])
    IN [S1 EXCEPT !.clients[c].confs = SelectSeq(@, LAMBDA i : i # id), !.confs[id].ref = @ - 1]
LeaveClass(S, class) ==
    LET left == SetClass(S, [class EXCEPT !.ref = @ - 1])
    IN IF class.ref = 1 /\ ~class.active THEN class_free(left, class.id) ELSE left
LeaveConf(S, c, id) ==
    LET left == [S EXCEPT !.clients[c].confs = SelectSeq(@, LAMBDA i : i # id), !.confs[id].ref = @ - 1]
    IN IF S.confs[id].ref = 1 /\ ~S.confs[id].active THEN conf_free(left, id) ELSE left
detach_one(S, c, id) ==
    LET class == ClassOf(S, S.confs[id].class)
    IN LeaveConf(LeaveClass(S, IF S.confs[id].kind = "client" THEN remove_from_cidr_check(Addr[c], class) ELSE class), c, id)
detach_conf(S, c, kinds) ==
    FoldLeft(LAMBDA T, id : detach_one(T, c, id), S, SelectSeq(S.clients[c].confs, LAMBDA i : S.confs[i].kind \in kinds))

-----------------------------------------------------------------------------
(* Listeners. A port without an address is opened for IPv4 and IPv6.       *)
close_listener(S, id) ==
    LET closed(l) == IF l.id = id THEN [l EXCEPT !.open = FALSE] ELSE l
    IN [S EXCEPT !.listeners = SelectSeq([k \in DOMAIN S.listeners |-> closed(S.listeners[k])], LAMBDA l : l.id # id \/ l.ref > 0)]
close_listeners(S) == FoldLeft(LAMBDA T, l : close_listener(T, l.id), S, S.listeners)
listener_release(S, id) ==
    LET k == Index(S.listeners, LAMBDA l : l.id = id)
        S1 == [S EXCEPT !.listeners[k].ref = @ - 1]
    IN IF S1.listeners[k].ref = 0 /\ ~S1.listeners[k].open THEN close_listener(S1, id) ELSE S1
(* An open listener, or else the last closed one.                          *)
find_listener(S, port, addr) ==
    LET M == {k \in DOMAIN S.listeners : S.listeners[k].port = port /\ S.listeners[k].addr = addr}
        open == {k \in M : S.listeners[k].open}
    IN IF M = {} THEN 0 ELSE IF open # {} THEN Min(open) ELSE Max(M)
inetport(S, port, addr, flags) ==
    LET k == find_listener(S, port, addr)
        new == [id |-> NewId({l.id : l \in ToSet(S.listeners)}), port |-> port, addr |-> addr, open |-> port \notin Busy,
                flags |-> flags, ref |-> 0]
    IN IF k = 0 THEN IF port \in Busy THEN S ELSE [S EXCEPT !.listeners = <<new>> \o @]
       ELSE IF S.listeners[k].open \/ port \notin Busy THEN [S EXCEPT !.listeners[k].flags = flags, !.listeners[k].open = TRUE]
       ELSE close_listener([S EXCEPT !.listeners[k].flags = flags], S.listeners[k].id)
add_listener(S, port, addr, flags) ==
    IF port \notin 1..65535 THEN S
    ELSE IF addr # None THEN inetport(S, port, addr, flags)
    ELSE inetport(inetport(S, port, "0.0.0.0", flags), port, "::", flags)

-----------------------------------------------------------------------------
(* The blocks of the file. An item is one of block_state, or a setting.    *)
Put(S, key, val) == [S EXCEPT !.set = (key :> val) @@ @]
Drop(S, keys) == [S EXCEPT !.set = [k \in DOMAIN @ \ keys |-> @[k]]]
timespec(parts) == FoldLeft(LAMBDA n, p : n + p[1] * Unit[p[2]], 0, parts)
sizespec(parts) == timespec(parts)
reset_block_state(S) ==
    [S EXCEPT !.b = [val |-> [k \in Fields |-> None], flags |-> {}, mask |-> <<>>, leaf |-> <<>>, hub |-> <<>>]]
Is(S, key) == S.b.val[key] # None
(* The buffer of an item, where it has not the name of the item.           *)
Buffer == [password |-> "rpass", reason |-> "rpass", accept_password |-> "rpass", send_password |-> "spass",
           ssl_certificate_fingerprint |-> "cert", rsa_public_key_file |-> "file", ssl_cipher_list |-> "ciph",
           vhost |-> "bind", ip |-> "addr", spoof |-> "name", redirserv |-> "name", redirport |-> "port",
           umodes |-> "modes"]
Copy(S, i) == [S EXCEPT !.b.val[IF i.k \in DOMAIN Buffer THEN Buffer[i.k] ELSE i.k] = i.v]
Flag(S, flag, on) == [S EXCEPT !.b.flags = IF on THEN @ \cup {flag} ELSE @ \ {flag}]
Mask(S, i) == [S EXCEPT !.b.mask = <<i.v>> \o @]
(* A list of flags replaces the ones set before, but for those in `kept'.  *)
Flags(S, i, kept) == [S EXCEPT !.b.flags = (@ \cap kept) \cup i.v]
MaskItem(S, host) ==
    [name |-> S.b.val["name"], host |-> host, flags |-> S.b.flags, leaf |-> S.b.leaf, hub |-> S.b.hub,
     val |-> [k \in {"rpass", "spass", "cert", "whois", "ciph", "bind", "port", "aftype", "modes", "file"} |-> S.b.val[k]]]

modules_item(S, i) ==
    IF i.k = "module" THEN [S EXCEPT !.wanted = <<i.v>> \o @]
    ELSE IF Contains(S.paths, i.v) THEN S ELSE [S EXCEPT !.paths = <<i.v>> \o @]

(* The key is read in the first pass, the certificate in the second. What  *)
(* OpenSSL was given it keeps.                                             *)
serverinfo_certificate(S, i) ==
    IF i.k = "rsa_private_key_file"
    THEN IF S.pass # 1 THEN S
         ELSE LET S1 == Put(Drop(S, {"rsa_private_key"}), i.k, i.v)
              IN IF i.v \in Unreadable THEN S1 ELSE Put(S1, "rsa_private_key", i.v)
    ELSE IF S.pass # 2 \/ "rsa_private_key_file" \notin DOMAIN S.set \/ i.v \in Unreadable THEN S
         ELSE LET S1 == Put(S, "certificate", i.v)
              IN IF S.set["rsa_private_key_file"] \in Unreadable THEN S1
                 ELSE Put(S1, "certificate_key", S.set["rsa_private_key_file"])
serverinfo_ssl(S, i) == IF i.k # "ssl_cipher_list" /\ i.v \in Unreadable THEN S ELSE Put(S, i.k, i.v)
serverinfo_limit(S, i) ==
    Put(S, i.k, CASE i.k = "default_max_clients" -> Clamp(i.v, ClientsMin, ClientsMax)
                  [] i.k = "max_nick_length" -> Clamp(i.v, NickMin, NickMax)
                  [] i.k = "max_topic_length" -> Clamp(i.v, 80, 300)
                  [] OTHER -> i.v)
(* name and sid are not rehashable; a bad one stops the server.            *)
serverinfo_item(S, i) ==
    IF i.k \in {"name", "sid"}
    THEN IF i.k \in DOMAIN S.set THEN S
         ELSE IF i.v \in Wild THEN [S EXCEPT !.up = FALSE] ELSE Put(S, i.k, i.v)
    ELSE IF i.k = "description" THEN Put(Put(S, i.k, i.v), "info", i.v)
    ELSE IF i.k \in {"vhost", "vhost6"} /\ i.v \in {"*"} \cup HostNames THEN S
    ELSE Put(S, i.k, i.v)
serverinfo_block(S, i) ==
    IF i.k \in {"rsa_private_key_file", "ssl_certificate_file"} THEN serverinfo_certificate(S, i)
    ELSE IF S.pass # 2 THEN S
    ELSE IF i.k \in {"ssl_dh_param_file", "ssl_cipher_list", "ssl_message_digest_algorithm", "ssl_dh_elliptic_curve"}
    THEN serverinfo_ssl(S, i)
    ELSE IF i.k \in {"default_max_clients", "max_nick_length", "max_topic_length", "hub"} THEN serverinfo_limit(S, i)
    ELSE serverinfo_item(S, i)

AdminInfo == [name |-> "admin_name", email |-> "admin_email", description |-> "admin_description"]
admin_item(S, i) == Put(S, AdminInfo[i.k], i.v)

(* A mask that is the name of a class makes the MOTD one for the class.    *)
motd_add(S, mask) ==
    [S EXCEPT !.motds = <<[type |-> IF class_find(S, mask, TRUE) # None THEN "class" ELSE "mask",
                           mask |-> mask, path |-> S.b.val["file"]]>> \o @]
motd_block(S0, items) ==
    LET S == FoldLeft(LAMBDA T, i : IF i.k = "mask" THEN Mask(T, i) ELSE Copy(T, i), reset_block_state(S0), items)
    IN IF ~Is(S, "file") THEN S ELSE FoldLeft(motd_add, S, S.b.mask)

pseudo_register(S) ==
    IF S.b.val["command"] \in S.commands \cup {p.command : p \in ToSet(S.pseudos)} THEN S
    ELSE [S EXCEPT !.pseudos = <<[k \in {"name", "nick", "host", "prepend", "command"} |-> S.b.val[k]]>> \o @]
pseudo_block(S0, items) ==
    LET S == FoldLeft(LAMBDA T, i : IF i.k = "target" THEN Copy(Copy(T, [k |-> "nick", v |-> i.v[1]]), [k |-> "host", v |-> i.v[2]])
                                    ELSE Copy(T, i), reset_block_state(S0), items)
    IN IF \A k \in {"command", "name", "nick", "host"} : Is(S, k) THEN pseudo_register(S) ELSE S

logging_block(S0, items) ==
    LET S == FoldLeft(Copy, reset_block_state(S0), items)
    IN IF Is(S, "type") /\ Is(S, "file")
       THEN [S EXCEPT !.logs = (S.b.val["type"] :> [path |-> S.b.val["file"], size |-> S.b.val["size"]]) @@ @] ELSE S

(* An oper block makes an item for each mask, the last one first; a key    *)
(* file that cannot be opened ends the loop after the first.               *)
oper_umodes(S, i) == Copy(S, i)
oper_flags(S, i) == [S EXCEPT !.b.val["port"] = i.v]
oper_item(S, i) ==
    CASE i.k = "user" -> Mask(S, i)
      [] i.k = "encrypted" -> Flag(S, "encrypted", i.v)
      [] i.k = "ssl_connection_required" -> Flag(S, "ssl", i.v)
      [] i.k = "umodes" -> oper_umodes(S, i)
      [] i.k = "flags" -> oper_flags(S, i)
      [] OTHER -> Copy(S, i)
AddItem(S, kind, mask) ==
    LET S1 == conf_make(S, kind, MaskItem(S, mask)) IN conf_add_class_to_conf(S1, S1.made, S.b.val["class"])
oper_block(S0, items) ==
    LET S == FoldLeft(oper_item, Flag(reset_block_state(S0), "encrypted", TRUE), items)
        lost == S.b.val["file"] \in Unreadable
        mine == IF lost /\ S.b.mask # <<>> THEN <<Head(S.b.mask)>> ELSE S.b.mask
        made == IF lost THEN [S EXCEPT !.b.val["file"] = None] ELSE S
    IN IF ~Is(S, "name") \/ ~(Is(S, "file") \/ Is(S, "rpass")) THEN S
       ELSE FoldLeft(LAMBDA T, m : AddItem(T, "oper", m), made, mine)

(* A class that is in use, or was named before, is changed in place.       *)
class_item(S, i) ==
    CASE i.k = "recvq" -> IF i.v \in RecvqMin..RecvqMax THEN Copy(S, i) ELSE S
      [] i.k = "cidr_bitlen_ipv4" -> Copy(S, [i EXCEPT !.v = Clamp(i.v, 0, 32)])
      [] i.k \in {"min_idle", "max_idle"} -> Flag(Copy(S, [i EXCEPT !.v = timespec(@)]), "fake_idle", TRUE)
      [] i.k = "sendq" -> Copy(S, [i EXCEPT !.v = sizespec(@)])
      [] i.k = "ping_time" -> Copy(S, [i EXCEPT !.v = timespec(@)])
      [] i.k = "flags" -> Flags(S, i, {"fake_idle"})
      [] i.k = "name" -> [S EXCEPT !.b.val["class"] = i.v]
      [] OTHER -> Copy(S, i)
Rebuilt(S, class, val) ==
    LET both(k) == class.val[k] > 0 /\ val[k] > 0
    IN IF both("number_per_cidr") /\ both("cidr_bitlen_ipv4") /\ class.val["cidr_bitlen_ipv4"] # val["cidr_bitlen_ipv4"]
       THEN rebuild_cidr_list(S, class) ELSE class
ChangeClass(S, class, idle) ==
    LET val == [k \in DOMAIN ClassDefaults |-> IF k \in {"min_idle", "max_idle"} /\ ~idle THEN 0 ELSE S.b.val[k]]
        same == \A k \in {"number_per_cidr", "cidr_bitlen_ipv4"} : class.val[k] = val[k]
    IN SetClass(S, [Rebuilt(S, class, val) EXCEPT !.active = TRUE, !.name = S.b.val["class"], !.val = val,
                      !.flags = IF idle THEN S.b.flags ELSE S.b.flags \ {"fake_idle"},
                      !.touched = @ \/ (~same /\ class.ref > 0)])
EndClass(S, old) ==
    LET idle == S.b.val["min_idle"] <= S.b.val["max_idle"]
        added(T) == ChangeClass(T, Head(T.classes), idle)
    IN IF S.b.val["class"] = None THEN S
       ELSE IF old = None THEN added(class_make(S)) ELSE ChangeClass(S, ClassOf(S, old), idle)
class_block(S0, items) ==
    LET R == reset_block_state(S0)
        end(S) == EndClass(S, class_find(S, S.b.val["class"], FALSE))
    IN end(FoldLeft(class_item, [R EXCEPT !.b.val = ClassDefaults @@ @], items))

(* A port opens with the address and the flags given before it.            *)
listen_item(S, i) ==
    CASE i.k = "flags" -> Flags(S, i, {})
      [] i.k = "port" -> Flags(FoldLeft(LAMBDA T, p : add_listener(T, p, T.b.val["addr"], T.b.flags), S,
                                        [n \in 1..(1 + i.v[2] - i.v[1]) |-> i.v[1] + n - 1]), [v |-> {}], {})
      [] OTHER -> Copy(S, [i EXCEPT !.k = "addr"])
listen_block(S0, items) == FoldLeft(listen_item, reset_block_state(S0), items)

auth_item(S, i) ==
    CASE i.k = "user" -> Mask(S, i)
      [] i.k = "encrypted" -> Flag(S, "encrypted", i.v)
      [] i.k = "flags" -> Flags(S, i, {"encrypted", "spoof"})
      [] i.k = "spoof" -> IF i.v \in Wild THEN S ELSE Flag(Copy(S, i), "spoof", TRUE)
      [] i.k \in {"redirserv", "redirport"} -> Flag(Copy(S, i), "redir", TRUE)
      [] OTHER -> Copy(S, i)
auth_block(S0, items) ==
    LET S == FoldLeft(auth_item, reset_block_state(S0), items)
    IN FoldLeft(LAMBDA T, m : AddItem(T, "client", m), S, S.b.mask)

Named(S, kind) == {S.confs[i].name : i \in ToSet(S.lists[kind])}
resv_block(S0, items) ==
    LET R == reset_block_state(S0)
        S == FoldLeft(LAMBDA T, i : IF i.k = "exempt" THEN Mask(T, i) ELSE Copy(T, i), [R EXCEPT !.b.val["rpass"] = "no reason"], items)
    IN IF S.b.val["name"] \in Named(S, "resv") THEN S ELSE conf_make(S, "resv", MaskItem(S, S.b.mask))
service_item(S, i) == IF i.v \in Wild THEN S ELSE conf_make(S, "service", [name |-> i.v])

SharedAll == {"kline", "unkline", "dline", "undline", "xline", "unxline", "resv", "unresv", "locops"}
shared_item(S, i) == IF i.k = "type" THEN Flags(S, [v |-> IF "all" \in i.v THEN SharedAll ELSE i.v], {}) ELSE Copy(S, i)
shared_block(S0, items) ==
    LET R == reset_block_state(S0)
        S == FoldLeft(LAMBDA T, i : shared_item(T, IF i.k = "user" THEN [i EXCEPT !.k = "host"] ELSE i),
                      [R EXCEPT !.b.val["name"] = "*", !.b.val["host"] = "*", !.b.flags = SharedAll], items)
    IN conf_make(S, "uline", MaskItem(S, S.b.val["host"]))
cluster_block(S0, items) ==
    LET R == reset_block_state(S0)
        S == FoldLeft(shared_item, [R EXCEPT !.b.val["name"] = "*", !.b.flags = SharedAll], items)
    IN conf_make(S, "cluster", MaskItem(S, None))

connect_item(S, i) ==
    CASE i.k = "hub_mask" -> [S EXCEPT !.b.hub = <<i.v>> \o @]
      [] i.k = "leaf_mask" -> [S EXCEPT !.b.leaf = <<i.v>> \o @]
      [] i.k = "encrypted" -> Flag(S, "encrypted", i.v)
      [] i.k = "flags" -> Flags(S, i, {"encrypted"})
      [] i.k \in {"send_password", "accept_password"} -> IF i.v \in Wild THEN S ELSE Copy(S, i)
      [] OTHER -> Copy(S, i)
connect_block(S0, items) ==
    LET R == reset_block_state(S0)
        S == FoldLeft(connect_item, [R EXCEPT !.b.val["aftype"] = "inet", !.b.val["port"] = 6667], items)
        S1 == [S EXCEPT !.b.val["bind"] = IF @ \in HostNames THEN None ELSE @]
        S2 == AddItem(S1, "server", S.b.val["host"])
    IN IF \E k \in {"name", "host", "rpass", "spass"} : ~Is(S, k) \/ (k \in {"name", "host"} /\ S.b.val[k] \in Wild) THEN S
       ELSE lookup_confhost(S2, S2.made)

(* Bans and exemptions. deny and exempt take addresses only.               *)
NoReason(S) == IF Is(S, "rpass") THEN S ELSE [S EXCEPT !.b.val["rpass"] = "no reason"]
kill_block(S0, items) ==
    LET S == FoldLeft(LAMBDA T, i : Copy(T, IF i.k = "user" THEN [i EXCEPT !.k = "host"] ELSE i), reset_block_state(S0), items)
    IN IF Is(S, "host") THEN conf_make(S, "kline", MaskItem(NoReason(S), S.b.val["host"])) ELSE S
deny_block(S0, items) ==
    LET S == FoldLeft(Copy, reset_block_state(S0), items)
    IN IF Is(S, "addr") /\ S.b.val["addr"] \notin HostNames
       THEN conf_make(S, "dline", MaskItem(NoReason(S), S.b.val["addr"])) ELSE S
exempt_item(S, i) == IF i.v \in HostNames THEN S ELSE conf_make(S, "exempt", [host |-> i.v])
gecos_block(S0, items) ==
    LET S == FoldLeft(Copy, reset_block_state(S0), items)
    IN IF Is(S, "name") THEN conf_make(S, "xline", MaskItem(NoReason(S), None)) ELSE S

(* Settings of the general and channel blocks are assigned in both passes, *)
(* some in the second only, which comes to the same.                       *)
general_abuse == {"away_count", "away_time", "max_watch", "cycle_on_host_change", "gline_enable", "gline_duration",
    "gline_request_duration", "gline_min_cidr", "gline_min_cidr6", "tkline_expire_notices", "kill_chase_time_limit",
    "ignore_bogus_ts", "failed_oper_notice", "anti_nick_flood", "max_nick_time", "max_nick_changes", "max_accept",
    "anti_spam_exit_message_time", "ts_warn_delta", "ts_max_delta"}
general_stats == {"invisible_on_connect", "warn_no_connect_block", "stats_e_disabled", "stats_m_oper_only",
    "stats_o_oper_only", "stats_P_oper_only", "stats_u_oper_only", "stats_k_oper_only", "stats_i_oper_only"}
general_service == {"pace_wait", "caller_id_wait", "opers_bypass_callerid", "pace_wait_simple", "short_motd",
    "no_oper_flood", "oper_pass_resv", "dots_in_ident", "max_targets", "ping_cookie", "disable_auth",
    "throttle_count", "throttle_time"}
general_wildcards == {"min_nonwildcard", "min_nonwildcard_simple", "default_floodcount"}
(* A list of modes replaces the modes of the defaults.                     *)
general_oper_umodes(S, i) == Put(S, "oper_umodes", i.v)
general_oper_only_umodes(S, i) == Put(S, "oper_only_umodes", i.v)
Masked(v) == IF v = "masked" THEN 1 ELSE IF v = "yes" THEN 2 ELSE 0
general_item(S, i) ==
    CASE i.k = "havent_read_conf" -> IF S.pass = 1 THEN [S EXCEPT !.up = FALSE] ELSE S
      [] i.k = "oper_umodes" -> general_oper_umodes(S, i)
      [] i.k = "oper_only_umodes" -> general_oper_only_umodes(S, i)
      [] i.k \in {"stats_k_oper_only", "stats_i_oper_only"} -> Put(S, i.k, Masked(i.v))
      [] i.k \in general_abuse \cup general_stats \cup general_service \cup general_wildcards -> Put(S, i.k, i.v)
channel_items == {"disable_fake_channels", "invite_client_count", "invite_client_time", "knock_client_count",
    "knock_client_time", "knock_delay_channel", "max_channels", "max_bans", "default_split_user_count",
    "default_split_server_count", "no_create_on_split", "no_join_on_split", "default_join_flood_count",
    "default_join_flood_time"}
channel_item(S, i) == IF i.k \in channel_items THEN Put(S, i.k, i.v) ELSE S
(* The event that writes the file of LINKS is added once.                  *)
serverhide_item(S, i) ==
    IF i.k = "links_delay" /\ i.v > 0 /\ S.set["links_event"] = 0 THEN Put(Put(S, "links_event", i.v), i.k, i.v)
    ELSE Put(S, i.k, i.v)

(* Classes count in the first pass, most of the rest in the second.        *)
Pass1 == {"class", "serverinfo", "general", "channel"}
Block(S, blk) ==
    LET K == blk.kind
    IN CASE ~S.up -> S
         [] S.pass = 1 /\ K \notin Pass1 -> S
         [] K = "class" -> IF S.pass = 1 THEN class_block(S, blk.items) ELSE S
         [] K = "serverinfo" -> FoldLeft(serverinfo_block, S, blk.items)
         [] K = "general" -> FoldLeft(general_item, S, blk.items)
         [] K = "channel" -> FoldLeft(channel_item, S, blk.items)
         [] K = "modules" -> FoldLeft(modules_item, S, blk.items)
         [] K = "admin" -> FoldLeft(admin_item, S, blk.items)
         [] K = "serverhide" -> FoldLeft(serverhide_item, S, blk.items)
         [] K = "service" -> FoldLeft(service_item, S, blk.items)
         [] K = "exempt" -> FoldLeft(exempt_item, S, blk.items)
         [] K = "motd" -> motd_block(S, blk.items)
         [] K = "pseudo" -> pseudo_block(S, blk.items)
         [] K = "log" -> logging_block(S, blk.items)
         [] K = "operator" -> oper_block(S, blk.items)
         [] K = "listen" -> listen_block(S, blk.items)
         [] K = "auth" -> auth_block(S, blk.items)
         [] K = "resv" -> resv_block(S, blk.items)
         [] K = "shared" -> shared_block(S, blk.items)
         [] K = "cluster" -> cluster_block(S, blk.items)
         [] K = "connect" -> connect_block(S, blk.items)
         [] K = "kill" -> kill_block(S, blk.items)
         [] K = "deny" -> deny_block(S, blk.items)
         [] K = "gecos" -> gecos_block(S, blk.items)

-----------------------------------------------------------------------------
(* What a REHASH leaves as it was.                                         *)
Kept == {"name", "sid", "info", "certificate", "certificate_key", "ssl_dh_param_file", "links_event"}
set_default_conf_fault(S) == [Drop(S, DOMAIN S.set \ (Kept \cup {"throttle_count"})) EXCEPT !.logs = [t \in {} |-> None]]
set_default_conf(S) == [Drop(S, DOMAIN S.set \ Kept) EXCEPT !.logs = [t \in {} |-> None]]
validate_conf(S) ==
    LET low(k, n) == k \in DOMAIN S.set /\ S.set[k] < n
    IN Drop(IF low("max_watch", WatchMin) THEN Put(S, "max_watch", WatchMin) ELSE S,
            {k \in {"ts_warn_delta", "ts_max_delta"} : low(k, IF k = "ts_warn_delta" THEN TsWarnMin ELSE TsMaxMin)})
read_conf(S, f) ==
    LET pass(T, n) == FoldLeft(Block, [T EXCEPT !.pass = n], f)
        read == FoldLeft(pass, set_default_conf(S), <<1, 2>>)
    IN class_delete_marked(reset_block_state(validate_conf([read EXCEPT !.pass = 0, !.made = 0])))

Cleared(id, S) == IF S.confs[id].ref = 0 THEN conf_free(S, id) ELSE [S EXCEPT !.confs[id].active = FALSE]
clear_out_old_conf(S) ==
    LET ids == UNION {ToSet(S.lists[k]) : k \in Lists}
        S1 == [FoldSet(Cleared, S, ids) EXCEPT !.lists = [k \in Lists |-> <<>>], !.motds = <<>>, !.paths = <<>>,
                  !.wanted = <<>>, !.pseudos = <<>>]
    IN close_listeners(class_mark_for_deletion(S1))

load_conf_modules(S) == [S EXCEPT !.loaded = IF S.paths = <<>> THEN @ ELSE @ \cup ToSet(S.wanted)]

Boot == class_make(
    [classes |-> <<>>, confs |-> [i \in {} |-> None], lists |-> [k \in Lists |-> <<>>], set |-> ("links_event" :> 0),
     motds |-> <<>>, pseudos |-> <<>>, logs |-> [t \in {} |-> None], paths |-> <<>>, wanted |-> <<>>, loaded |-> {},
     commands |-> {}, listeners |-> <<>>, queries |-> {}, b |-> None, pass |-> 0, made |-> 0, up |-> TRUE,
     ips |-> [a \in {} |-> None],
     clients |-> [c \in Clients \cup Servers |-> [at |-> "none", confs |-> <<>>, listener |-> 0, iphash |-> FALSE]]])
(* main(): the server stops unless it has a name, a SID and a description. *)
Ready(S) ==
    LET delay == IF "links_delay" \in DOMAIN S.set THEN S.set["links_delay"] ELSE 300
    IN [load_conf_modules(Put(S, "links_event", delay)) EXCEPT
          !.commands = Commands \ {p.command : p \in ToSet(S.pseudos)},
          !.up = @ /\ {"name", "sid", "description"} \subseteq DOMAIN S.set]
Start(f) == Ready(read_conf([Boot EXCEPT !.classes[1].name = "default"], f))

-----------------------------------------------------------------------------
(* Connections come, register, become opers or servers and go.             *)
Setting(S, k, default) == IF k \in DOMAIN S.set THEN S.set[k] ELSE default
ipcache_find_or_add_address(S, ip) == IF ip \in DOMAIN S.ips THEN S ELSE [S EXCEPT !.ips = (ip :> [n |-> 0, conns |-> 0, last |-> -99]) @@ @]
Expired(S, ip) == S.ips[ip].n = 0 /\ now - S.ips[ip].last >= Setting(S, "throttle_time", 1)
Forget(S, ips) == [S EXCEPT !.ips = [a \in DOMAIN @ \ ips |-> @[a]]]
ipcache_remove_address(S, ip) ==
    LET S1 == [S EXCEPT !.ips[ip].n = @ - 1] IN IF Expired(S1, ip) THEN Forget(S1, {ip}) ELSE S1

exit_client(S, c) ==
    LET address(T) == IF T.clients[c].iphash THEN ipcache_remove_address(T, Addr[c]) ELSE T
        listener(T) == IF T.clients[c].listener # 0 THEN listener_release(T, T.clients[c].listener) ELSE T
    IN [listener(address(detach_conf(S, c, Attached))) EXCEPT
          !.clients[c] = [at |-> "none", confs |-> <<>>, listener |-> 0, iphash |-> FALSE]]

(* S with the connection counted, or None if it is refused.                *)
conf_connect_allowed(S0, ip, c) ==
    LET S == ipcache_find_or_add_address(S0, ip)
        recent == now - S.ips[ip].last < Setting(S, "throttle_time", 1)
    IN IF ConfOf(S0, c, "exempt") # None THEN S0
       ELSE IF ConfOf(S0, c, "dline") # None THEN None
       ELSE IF recent /\ S.ips[ip].conns >= Setting(S, "throttle_count", 1) THEN None
       ELSE [S EXCEPT !.ips[ip].conns = IF recent THEN @ + 1 ELSE 1, !.ips[ip].last = now]

ClassFull(S, c, class) ==
    LET over(k, n) == class.val[k] > 0 /\ n >= class.val[k]
    IN over("max_number", class.ref) \/ over("number_per_ip", S.ips[Addr[c]].n - 1)
attach_iline(S0, c, id) ==
    LET known == ipcache_find_or_add_address(S0, Addr[c])
        full(S) == ClassFull(S, c, ClassOf(S, S.confs[id].class)) /\ "exceed_limit" \notin S.confs[id].flags
        user(S, T) == IF full(S) \/ T = None THEN exit_client(S, c) ELSE [T EXCEPT !.clients[c].at = "user"]
        enter(S) == user(S, attach_conf(S, c, id))
    IN enter([known EXCEPT !.ips[Addr[c]].n = @ + 1, !.clients[c].iphash = TRUE])
check_client(S, c) ==
    LET id == ConfOf(S, c, "client")
    IN IF \/ id = None
          \/ "redir" \in S.confs[id].flags
          \/ ConfOf(S, c, "kline") # None /\ "kline_exempt" \notin S.confs[id].flags
       THEN exit_client(S, c) ELSE attach_iline(S, c, id)

(* A D-line without an exemption ends a connection, a K-line a client that *)
(* is not exempt.                                                          *)
check_conf_klines(S) ==
    LET user(T, c) == T.clients[c].at = "user"
        banned(T, c) ==
            IF ConfOf(T, c, "dline") # None THEN ConfOf(T, c, "exempt") = None
            ELSE user(T, c) /\ ConfOf(T, c, "kline") # None /\ "kline_exempt" \notin T.confs[Last(T.clients[c].confs)].flags
    IN FoldLeft(LAMBDA T, c : IF banned(T, c) THEN exit_client(T, c) ELSE T, S,
                Users(S) \o SelectSeq(SetToSeq(Clients \cup Servers), LAMBDA c : S.clients[c].at = "open"))
conf_rehash(S, f) == check_conf_klines(load_conf_modules(read_conf(clear_out_old_conf(S), f)))

Init ==
    /\ scene \in Scenes
    /\ file = scene.files[1]
    /\ srv = Start(file)
    /\ now = 0

Step(act, S) == /\ srv.up /\ act \in scene.acts /\ scene.steps > 0
                /\ srv' = S
                /\ scene' = [scene EXCEPT !.steps = @ - 1]
Calm == UNCHANGED <<file, now>>

(* listener_accept_connection() on a port that is open.                    *)
Accept(c, k) ==
    LET S == conf_connect_allowed(srv, Addr[c], c)
    IN /\ srv.clients[c].at = "none" /\ srv.listeners[k].open
       /\ S # None
       /\ Step("accept", [S EXCEPT !.clients[c].at = "open", !.clients[c].listener = S.listeners[k].id, !.listeners[k].ref = @ + 1])
       /\ Calm
Register(c) ==
    /\ srv.clients[c].at = "open"
    /\ Step("accept", check_client(srv, c))
    /\ Calm

(* SERVER of a peer that connected, and a connection to a peer.            *)
ConnectConf(c) ==
    LET k == Index(srv.lists["server"], LAMBDA i : srv.confs[i].name = ServerName[c] /\ c \in Covers[srv.confs[i].host])
    IN IF k = 0 THEN None ELSE srv.lists["server"][k]
mr_server(c) ==
    /\ srv.clients[c].at = "open"
    /\ Step("server", IF ConnectConf(c) = None THEN exit_client(srv, c)
                      ELSE [attach_conf(srv, c, ConnectConf(c)) EXCEPT !.clients[c].at = "server"])
    /\ Calm
serv_connect(c) ==
    /\ srv.clients[c].at = "none" /\ ConnectConf(c) # None
    /\ ~srv.confs[ConnectConf(c)].dns
    /\ Step("server", [attach_conf(srv, c, ConnectConf(c)) EXCEPT !.clients[c].at = "server"])
    /\ Calm
conf_dns_callback(id) ==
    /\ Step("server", [srv EXCEPT !.confs[id].dns = FALSE, !.queries = @ \ {id}])
    /\ Calm

IsOper(c) == \E i \in ToSet(srv.clients[c].confs) : srv.confs[i].kind = "oper"
(* find_exact_name_conf(): the first block for this name and mask whose    *)
(* class has room.                                                         *)
OperConf(c) ==
    LET room(class) == class.val["max_number"] = 0 \/ class.ref < class.val["max_number"]
        fits(i) == /\ srv.confs[i].name = OperName[c] /\ c \in Covers[srv.confs[i].host]
                   /\ room(ClassOf(srv, srv.confs[i].class))
        k == Index(srv.lists["oper"], fits)
    IN IF k = 0 THEN None ELSE srv.lists["oper"][k]
m_oper(c) ==
    /\ srv.clients[c].at = "user" /\ ~IsOper(c)
    /\ OperConf(c) # None
    /\ "ssl" \notin srv.confs[OperConf(c)].flags /\ srv.confs[OperConf(c)].val["rpass"] # None
    /\ Step("oper", attach_conf(srv, c, OperConf(c)))
    /\ Calm
Deoper(c) ==
    /\ srv.clients[c].at = "user" /\ IsOper(c)
    /\ Step("oper", detach_conf(srv, c, {"oper"}))
    /\ Calm
Quit(c) ==
    /\ srv.clients[c].at # "none"
    /\ Step("quit", exit_client(srv, c))
    /\ Calm

Rehash(k) ==
    /\ Step("rehash", conf_rehash(srv, scene.files[k]))
    /\ file' = scene.files[k]
    /\ UNCHANGED now
Tick ==
    /\ Step("tick", srv)
    /\ now' = now + 1
    /\ UNCHANGED file
ipcache_remove_expired_entries ==
    /\ \E ip \in DOMAIN srv.ips : Expired(srv, ip)
    /\ Step("tick", Forget(srv, {ip \in DOMAIN srv.ips : Expired(srv, ip)}))
    /\ Calm

Next ==
    \/ \E c \in Clients \cup Servers, k \in DOMAIN srv.listeners : Accept(c, k)
    \/ \E c \in Clients : Register(c)
    \/ \E c \in Servers : mr_server(c)
    \/ \E c \in Servers : serv_connect(c)
    \/ \E id \in srv.queries : conf_dns_callback(id)
    \/ \E c \in Clients : m_oper(c)
    \/ \E c \in Clients : Deoper(c)
    \/ \E c \in Clients \cup Servers : Quit(c)
    \/ \E k \in DOMAIN scene.files : Rehash(k)
    \/ Tick
    \/ ipcache_remove_expired_entries

-----------------------------------------------------------------------------
(* What the file alone decides: all but what is kept over a REHASH, the    *)
(* default class (its block changes it in place, and nothing changes it    *)
(* back) and pseudo commands that take the name of a command of a module.  *)
Item(S, id) ==
    LET conf == S.confs[id]
    IN [k \in DOMAIN conf \ {"ref", "dns"} |-> IF k = "class" /\ conf.class # None THEN ClassOf(S, conf.class).name ELSE conf[k]]
View(S) ==
    [set |-> Drop(S, Kept).set, motds |-> S.motds, logs |-> S.logs, paths |-> S.paths, wanted |-> S.wanted,
     pseudos |-> SelectSeq(S.pseudos, LAMBDA p : p.command \notin Commands),
     items |-> [k \in Lists |-> [n \in DOMAIN S.lists[k] |-> Item(S, S.lists[k][n])]],
     classes |-> {<<c.name, c.val, c.flags>> : c \in {d \in ToSet(S.classes) : d.active /\ d.name # "default"}},
     ports |-> {<<l.port, l.addr, l.flags>> : l \in {m \in ToSet(S.listeners) : m.open}}]

(* A REHASH leads to the configuration that a restart with the same file   *)
(* would lead to, whatever was configured before and whoever is attached   *)
(* to it (clear_out_old_conf(), set_default_conf(), class_block).          *)
RehashFresh == srv.up => View(srv) = View(Start(file))

Num(S) == Cardinality(S)
Uses == {<<c, id>> \in (Clients \cup Servers) \X DOMAIN srv.confs : Contains(srv.clients[c].confs, id)}
Ids(s) == {x.id : x \in ToSet(s)}
Networks(class) == {mask_addr(Addr[u[1]], class.val["cidr_bitlen_ipv4"]) :
                      u \in {w \in Uses : srv.confs[w[2]].kind = "client" /\ srv.confs[w[2]].class = class.id}}
CidrRight(class) ==
    class.touched \/ class.val["cidr_bitlen_ipv4"] = 0 \/ class.val["number_per_cidr"] = 0 \/
    {<<n.mask, n.n>> : n \in ToSet(class.nets)} =
        {<<m, Num({u \in Uses : srv.confs[u[2]].kind = "client" /\ srv.confs[u[2]].class = class.id
                                 /\ mask_addr(Addr[u[1]], class.val["cidr_bitlen_ipv4"]) = m})>> : m \in Networks(class)}

(* Items, classes, listeners and address entries are counted exactly, are  *)
(* there while somebody uses them, and are gone once they are out of the   *)
(* file and unused; active items have active classes (detach_conf(),       *)
(* class_delete_marked(), listener_release(), ipcache_remove_address()).   *)
RefsRight ==
    /\ \A c \in DOMAIN srv.clients : ToSet(srv.clients[c].confs) \subseteq DOMAIN srv.confs
    /\ \A id \in DOMAIN srv.confs : LET f == srv.confs[id] IN
         /\ f.ref = Num({u \in Uses : u[2] = id})
         /\ f.active <=> Contains(srv.lists[f.kind], id)
         /\ f.active \/ f.ref > 0
         /\ f.class # None => f.class \in Ids(srv.classes) /\ (f.active => ClassOf(srv, f.class).active)
    /\ \A class \in ToSet(srv.classes) :
         /\ class.ref = Num({u \in Uses : srv.confs[u[2]].class = class.id})
         /\ class.active \/ class.ref > 0
         /\ CidrRight(class)
    /\ \A l \in ToSet(srv.listeners) : l.ref = Num({c \in DOMAIN srv.clients : srv.clients[c].listener = l.id}) /\ (l.open \/ l.ref > 0)
    /\ \A ip \in DOMAIN srv.ips : srv.ips[ip].n = Num({c \in DOMAIN srv.clients : srv.clients[c].iphash /\ Addr[c] = ip})
    /\ srv.queries \subseteq DOMAIN srv.confs
=============================================================================
