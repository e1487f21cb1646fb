------------------------------- MODULE Bans -------------------------------
(***************************************************************************)
(* K-, D-, G- and X-lines and RESVs of one server: the address table       *)
(* (hostmask.c), the lists of names (conf.c, resv.c), the commands that    *)
(* place and remove entries, the votes on G-lines (gline.c, m_gline.c),    *)
(* REHASH, the databases (conf_db.c) and what is done to the clients.      *)
(*                                                                         *)
(* An entry of bans is an auth{} block (A), a D-line exemption (E), a K-,  *)
(* D-, G- or X-line, or the RESV of a nick (N) or a channel (C). The first *)
(* one that matches is the one found: address entries are found oldest     *)
(* first (add_conf_by_address() counts the precedence down), names newest  *)
(* first (conf_make() links at the head).                                  *)
(***************************************************************************)
EXTENDS Integers, Sequences, FiniteSets, FiniteSetsExt, LinkedLists, Absent

CONSTANTS
    Clients,          \* addresses that connect, one client each
    Covers,           \* mask -> clients, gecos, names and masks it matches
    Bucket,           \* address mask -> its place in atable
    AddrOf,           \* client -> the mask of its address alone
    Wide,             \* masks with too few fixed characters or bits
    BlankNames,       \* gecos RCHG refuses
    Voters,           \* opers: [who |-> user@host, server |-> server]
    Rights,           \* source -> commands it may use here
    Local,            \* the sources that are opers of this server
    Glines,           \* general::glines
    GlineTime, RequestTime, MaxMinutes,
    MaxTime, BanScenes

VARIABLES
    bans,             \* kind -> sequence of entries
    clients,          \* client -> [at, gecos, ex]; rchg, skipped for the property
    pending,          \* "add", "del" -> votes that wait for more
    now, up,
    disk,             \* file -> [main, temp]
    save,             \* what save_all_databases() is at
    placed,           \* history: entries placed and neither removed nor expired
    saved,            \* history: those of the last finished save of each file
    votes,            \* history: who asked for what, and when
    banscene             \* what is left of the environment's inputs
bansvars == <<bans, clients, pending, now, up, disk, save, placed, saved, votes, banscene>>

Named == {"X", "N", "C"}
Kinds == {"A", "E", "K", "D", "G"} \cup Named
Files == <<"K", "D", "G", "X", "R">>                    \* in the order they are saved and loaded
Of(file) == IF file = "R" THEN <<"C", "N">> ELSE <<file>>
Entry(m, until, db, ex) == [mask |-> m, until |-> until, db |-> db, ex |-> ex]
Client(at, gecos, ex, rchg, skipped) == [at |-> at, gecos |-> gecos, ex |-> ex, rchg |-> rchg, skipped |-> skipped]
Off == Client("off", None, {}, FALSE, FALSE)
Empty == [k \in Kinds |-> <<>>]
Busy == save # None

-----------------------------------------------------------------------------
(* Finding entries. A position, or 0.                                      *)
FirstOf(I) == IF I = {} THEN 0 ELSE Min(I)
find_conf_by_address(B, k, x) == FirstOf({i \in DOMAIN B[k] : x \in Covers[B[k][i].mask]})
find_matching_name_conf(B, k, x) == find_conf_by_address(B, k, x)
find_exact_name_conf(B, k, m) == FirstOf({i \in DOMAIN B[k] : B[k][i].mask = m})
(* Without do_match a host is compared as text, but an address is still    *)
(* found in a network that holds it.                                       *)
find_placed(B, k, m) == FirstOf({i \in DOMAIN B[k] : B[k][i].mask = m \/ m \in Covers[B[k][i].mask]})
find_dline_conf(B, m) == find_placed(B, "E", m) # 0 \/ find_placed(B, "D", m) # 0

add_conf_by_address(B, k, e) == [B EXCEPT ![k] = Append(@, e)]
conf_make(B, k, e) == [B EXCEPT ![k] = <<e>> \o @]
Add(B, k, e) == IF k \in Named THEN conf_make(B, k, e) ELSE add_conf_by_address(B, k, e)
conf_free(B, k, i) == [B EXCEPT ![k] = RemoveAt(@, i)]
(* Looks for the entry only where the mask that was given is hashed to.    *)
delete_one_address_conf(B, k, i, m) == IF Bucket[m] = Bucket[B[k][i].mask] THEN conf_free(B, k, i) ELSE B
create_resv(B, k, e) == IF find_exact_name_conf(B, k, e.mask) # 0 THEN B ELSE conf_make(B, k, e)

-----------------------------------------------------------------------------
(* Clients. conf_try_ban() spares the exempt ones.                         *)
Spared(B, c, k) ==
    \/ k = "K" /\ "k" \in clients[c].ex
    \/ k = "D" /\ find_conf_by_address(B, "E", c) # 0
    \/ k = "G" /\ clients[c].ex # {}
Matched(B, c, k) ==
    IF k = "X" THEN find_matching_name_conf(B, "X", clients[c].gecos) # 0 ELSE find_conf_by_address(B, k, c) # 0

(* check_kline(), check_gline(), check_dline() and check_xline() of the    *)
(* modules: the clients a new entry removes.                               *)
Strikes_fault(c, k, m) ==
    /\ clients[c].at = "local" /\ c \in Covers[m]
    /\ ~Spared(bans, c, k)
Strikes(c, k, m) ==
    /\ clients[c].at = "local" \/ (k = "D" /\ clients[c].at = "unknown")
    /\ IF k = "X" THEN clients[c].gecos \in Covers[m] ELSE c \in Covers[m]
    /\ ~Spared(bans, c, k)
Struck(k, m) == [c \in Clients |-> IF k \notin {"N", "C"} /\ Strikes(c, k, m) THEN Off ELSE clients[c]]

(* check_conf_klines() tries the first kind that matches and no other.     *)
FirstKind(B, c) ==
    IF Matched(B, c, "D") THEN "D"
    ELSE IF clients[c].at = "unknown" THEN None
    ELSE IF Glines /\ Matched(B, c, "G") THEN "G"
    ELSE IF Matched(B, c, "K") THEN "K"
    ELSE IF Matched(B, c, "X") THEN "X" ELSE None
check_conf_klines(B) ==
    [c \in Clients |->
        LET o == clients[c]
            k == FirstKind(B, c)
            stays == o.at = "off" \/ k = None
        IN  IF stays \/ Spared(B, c, k) THEN Client(o.at, o.gecos, o.ex, o.rchg, ~stays) ELSE Off]

(* find_address_conf(): the exemptions of the client that may register, or *)
(* None.                                                                   *)
find_address_conf(c) ==
    LET a == find_conf_by_address(bans, "A", c)
        ex == bans["A"][a].ex
    IN  IF \/ a = 0
           \/ "k" \notin ex /\ Matched(bans, c, "K")
           \/ ex = {} /\ Matched(bans, c, "G")
        THEN None ELSE ex

Spend == up /\ ~Busy /\ banscene.steps > 0 /\ banscene' = [banscene EXCEPT !.steps = @ - 1]
Only(what) == what \in banscene.acts

(* The listener asks conf_connect_allowed(); throttling is left out.       *)
conf_connect_allowed(c) ==
    /\ Only("connect") /\ Spend /\ clients[c].at = "off"
    /\ find_conf_by_address(bans, "E", c) # 0 \/ find_conf_by_address(bans, "D", c) = 0
    /\ clients' = [clients EXCEPT ![c] = Client("unknown", None, {}, FALSE, FALSE)]
    /\ UNCHANGED <<bans, pending, now, up, disk, save, placed, saved, votes>>

(* NICK and USER are in: check_client(), report_and_set_user_flags() and   *)
(* check_xline() of user.c.                                                *)
check_client(c, gecos) ==
    /\ Only("connect") /\ Spend /\ clients[c].at = "unknown"
    /\ clients' = [clients EXCEPT ![c] =
          IF find_address_conf(c) = None \/ find_matching_name_conf(bans, "X", gecos) # 0
          THEN Off ELSE Client("local", gecos, find_address_conf(c), FALSE, FALSE)]
    /\ UNCHANGED <<bans, pending, now, up, disk, save, placed, saved, votes>>

(* RCHG of m_evo.c: no X-line is looked up for the new name.               *)
m_rchg(c, gecos) ==
    /\ Only("rchg") /\ Spend /\ clients[c].at = "local"
    /\ clients' = [clients EXCEPT ![c] = IF gecos \in BlankNames THEN Off ELSE Client(@.at, gecos, @.ex, TRUE, @.skipped)]
    /\ UNCHANGED <<bans, pending, now, up, disk, save, placed, saved, votes>>

-----------------------------------------------------------------------------
(* Placing. valid_tkline() takes minutes from opers and seconds from       *)
(* servers; parse_aline() gives the mask of a nick's address.              *)
valid_tkline(n, minutes) ==
    LET r == IF n = 0 THEN 1 ELSE n
        m == IF minutes THEN r ELSE r \div 60
    IN  60 * (IF m > MaxMinutes THEN MaxMinutes ELSE m)
Duration(src, n) == IF n = None THEN 0 ELSE valid_tkline(n, src \in Local)
find_user_host(arg) == IF arg \in Clients THEN AddrOf[arg] ELSE arg
NickOk(arg) == arg \in Clients => clients[arg].at = "local" /\ "k" \notin clients[arg].ex

Place(k, m, seconds) ==
    LET e == Entry(m, IF seconds = 0 THEN 0 ELSE now + seconds, TRUE, {})
    IN  /\ bans' = Add(bans, k, e)
        /\ clients' = Struck(k, m)
        /\ placed' = [placed EXCEPT ![k] = @ \cup {<<m, e.until>>}]

May(cmd, l) == l.cmd = cmd /\ cmd \in Rights[l.src] /\ (l.arg \in Clients => l.src \in Local)

already_placed_kline(m) == find_placed(bans, "K", m) # 0
mo_kline(l) ==
    LET m == find_user_host(l.arg)
    IN  /\ May("KLINE", l) /\ NickOk(l.arg) /\ ~already_placed_kline(m)
        /\ l.src \in Local => m \notin Wide
        /\ Place("K", m, Duration(l.src, l.time))
mo_dline(l) ==
    LET m == find_user_host(l.arg)
    IN  /\ May("DLINE", l) /\ NickOk(l.arg) /\ m \notin Wide /\ ~find_dline_conf(bans, m)
        /\ Place("D", m, Duration(l.src, l.time))
mo_xline(l) ==
    /\ May("XLINE", l) /\ l.arg \notin Wide /\ find_matching_name_conf(bans, "X", l.arg) = 0
    /\ Place("X", l.arg, IF l.src \in Local THEN Duration(l.src, l.time) ELSE l.time)
(* RESV of a nick (N) or a channel (C); a timed one of a server comes in   *)
(* an ENCAP and needs no shared{} block (me_resv()).                       *)
parse_resv(l, k) ==
    /\ l.cmd = "RESV" /\ ("RESV" \in Rights[l.src] \/ (l.src \notin Local /\ l.time # 0)) /\ l.kind = k
    /\ k = "N" => l.arg \notin Wide
    /\ find_exact_name_conf(bans, k, l.arg) = 0
    /\ Place(k, l.arg, IF l.src \in Local THEN Duration(l.src, l.time) ELSE l.time)

(* Removing: only an entry of the database. The oper is told of success    *)
(* even when delete_one_address_conf() does not find what was found.       *)
Unplace(k, i, B) ==
    /\ i # 0 /\ bans[k][i].db
    /\ bans' = B
    /\ placed' = IF B = bans THEN placed ELSE [placed EXCEPT ![k] = @ \ {<<bans[k][i].mask, bans[k][i].until>>}]
    /\ UNCHANGED clients
UnplaceAddress(k, m) ==
    LET i == find_placed(bans, k, m) IN Unplace(k, i, delete_one_address_conf(bans, k, i, m))
UnplaceName(k, i) == Unplace(k, i, conf_free(bans, k, i))
remove_kline_match(l) == May("UNKLINE", l) /\ UnplaceAddress("K", find_user_host(l.arg))
remove_dline_match(l) == May("UNDLINE", l) /\ UnplaceAddress("D", l.arg)
remove_xline_exact(l) ==
    /\ May("UNXLINE", l)
    /\ UnplaceName("X", FirstOf({i \in DOMAIN bans["X"] : bans["X"][i].db /\ bans["X"][i].mask = l.arg}))
remove_resv(l) ==
    May("UNRESV", l) /\ l.kind \in {"N", "C"} /\ UnplaceName(l.kind, find_exact_name_conf(bans, l.kind, l.arg))

Command(l) ==
    /\ Spend
    /\ \/ mo_kline(l)
       \/ mo_dline(l)
       \/ mo_xline(l)
       \/ \E k \in {"N", "C"} : parse_resv(l, k)
       \/ remove_kline_match(l)
       \/ remove_dline_match(l)
       \/ remove_xline_exact(l)
       \/ remove_resv(l)
    /\ UNCHANGED <<pending, now, up, disk, save, saved, votes>>

-----------------------------------------------------------------------------
(* Votes on G-lines. A pending request holds up to two voters.             *)
expire_pending_glines(P) ==
    [t \in {"add", "del"} |-> Keep(P[t], {p \in ToSet(P[t]) : p.time + RequestTime > now})]
SameSide_fault(v, w) == v.who = w.who
SameSide(v, w) == v.who = w.who \/ v.server = w.server
find_is_glined(m) == find_placed(bans, "G", m) # 0
remove_gline_match(m) ==
    LET i == find_placed(bans, "G", m)
    IN  IF i # 0 /\ bans["G"][i].db THEN UnplaceAddress("G", m) ELSE UNCHANGED <<bans, placed, clients>>
check_majority(t, v, m) ==
    LET P == expire_pending_glines(pending)
        i == FirstOf({j \in DOMAIN P[t] : P[t][j].mask = m})
        p == P[t][i]
        asked(voters) == [mask |-> m, voters |-> voters, time |-> now]
    IN  IF t = "add" /\ find_is_glined(m)
        THEN pending' = P /\ UNCHANGED <<bans, placed, clients>>
        ELSE IF i = 0
        THEN pending' = [P EXCEPT ![t] = <<asked(<<v>>)>> \o @] /\ UNCHANGED <<bans, placed, clients>>
        ELSE IF \E j \in DOMAIN p.voters : SameSide(v, p.voters[j])
        THEN pending' = P /\ UNCHANGED <<bans, placed, clients>>
        ELSE IF Len(p.voters) = 1
        THEN /\ pending' = [P EXCEPT ![t][i] = asked(Append(p.voters, v))]
             /\ UNCHANGED <<bans, placed, clients>>
        ELSE /\ pending' = [P EXCEPT ![t] = RemoveAt(@, i)]
             /\ IF t = "add" THEN Place("G", m, GlineTime) ELSE remove_gline_match(m)
Vote(t, v, m) ==
    /\ Only(t) /\ Spend /\ Glines
    /\ check_majority(t, v, m)
    /\ votes' = votes \cup {[type |-> t, mask |-> m, voter |-> v, time |-> now]}
    /\ UNCHANGED <<now, up, disk, save, saved>>
mo_gline(v, m) == m \notin Wide /\ Vote("add", v, m)
do_sungline(v, m) == Vote("del", v, m)

-----------------------------------------------------------------------------
(* Time. cleanup_tklines() and cleanup_glines() are events.                *)
Tick ==
    /\ Only("tick") /\ ~Busy /\ now < MaxTime /\ now' = now + 60
    /\ UNCHANGED <<bans, clients, pending, up, disk, save, placed, saved, votes, banscene>>
Current(e) == e.until = 0 \/ e.until > now
cleanup_tklines ==
    /\ up /\ ~Busy
    /\ bans' = [k \in Kinds |-> Keep(bans[k], {e \in ToSet(bans[k]) : Current(e)})]
    /\ bans' # bans
    /\ placed' = [k \in DOMAIN placed |-> {p \in placed[k] : p[2] = 0 \/ p[2] > now}]
    /\ UNCHANGED <<clients, pending, now, up, disk, save, saved, votes, banscene>>
cleanup_glines ==
    /\ up /\ ~Busy /\ pending' = expire_pending_glines(pending) /\ pending' # pending
    /\ UNCHANGED <<bans, clients, now, up, disk, save, placed, saved, votes, banscene>>

-----------------------------------------------------------------------------
(* The configuration file: F[k] is a sequence of entries, none of them of  *)
(* the database and all permanent; it has no G-lines.                      *)
AddAll(B, k, s) == [B EXCEPT ![k] = IF k \in Named THEN Reverse(s) \o @ ELSE @ \o s]
read_conf(B, F) == [k \in Kinds |-> AddAll(B, k, F[k])[k]]
(* clear_out_address_conf(): what a REHASH leaves of the address table.    *)
clear_out_address_conf(s) == Keep(s, {e \in ToSet(s) : e.until # 0 \/ e.db})
(* clear_out_old_conf() empties the lists of names, whatever is on them.   *)
clear_out_old_conf(B) == [k \in Kinds |-> IF k \in Named THEN <<>> ELSE clear_out_address_conf(B[k])]
conf_rehash(F) ==
    /\ Only("rehash") /\ Spend
    /\ bans' = read_conf(clear_out_old_conf(bans), F)
    /\ clients' = check_conf_klines(bans')
    /\ UNCHANGED <<pending, now, up, disk, save, placed, saved, votes>>

-----------------------------------------------------------------------------
(* The databases. Each is written to a temporary file, which is renamed    *)
(* over the old one; open(), a write or rename() may fail.                 *)
Database(k) == Keep(bans[k], {e \in ToSet(bans[k]) : e.db})
Contents(f) == [i \in DOMAIN Of(f) |-> Database(Of(f)[i])]
Begin(then) == save' = [file |-> 1, step |-> "open", then |-> then]
NextFile == IF save.file = Len(Files) THEN [save EXCEPT !.step = "done"] ELSE [save EXCEPT !.file = @ + 1, !.step = "open"]
save_all_databases ==
    /\ Only("save") /\ Spend /\ Begin("run")
    /\ UNCHANGED <<bans, clients, pending, now, up, disk, placed, saved, votes>>
server_die ==
    /\ Only("stop") /\ Spend /\ Begin("stop")
    /\ UNCHANGED <<bans, clients, pending, now, up, disk, placed, saved, votes>>

File == Files[save.file]
open_db_write_fault == disk' = [disk EXCEPT ![File] = [main |-> None, temp |-> <<>>]]
open_db_write == disk' = [disk EXCEPT ![File].temp = <<>>]
Write == disk' = [disk EXCEPT ![File].temp = Contents(File)]
restore_db == disk' = [disk EXCEPT ![File].temp = None]
close_db == disk' = [disk EXCEPT ![File] = [main |-> @.temp, temp |-> None]]
SaveStep ==
    /\ Busy
    /\ \/ save.step = "open" /\ open_db_write /\ save' = [save EXCEPT !.step = "write"] /\ UNCHANGED <<up, saved, clients>>
       \/ save.step = "write" /\ Write /\ save' = [save EXCEPT !.step = "close"] /\ UNCHANGED <<up, saved, clients>>
       \/ /\ save.step = "close" /\ close_db /\ save' = NextFile /\ UNCHANGED <<up, clients>>
          /\ saved' = [k \in DOMAIN saved |-> IF k \in Range(Of(File)) THEN placed[k] ELSE saved[k]]
       \/ /\ save.step = "done" /\ save' = None /\ up' = (save.then = "run") /\ UNCHANGED <<saved, disk>>
          /\ clients' = IF save.then = "run" THEN clients ELSE [c \in Clients |-> Off]
    /\ UNCHANGED <<bans, pending, now, placed, votes, banscene>>
SaveFails ==
    /\ Busy /\ save.step # "done" /\ Only("fail") /\ banscene.steps > 0 /\ banscene' = [banscene EXCEPT !.steps = @ - 1]
    /\ restore_db /\ save' = NextFile
    /\ UNCHANGED <<bans, clients, pending, now, up, placed, saved, votes>>
Crash ==
    /\ Only("crash") /\ up /\ banscene.steps > 0 /\ banscene' = [banscene EXCEPT !.steps = @ - 1]
    /\ up' = FALSE /\ save' = None
    /\ clients' = [c \in Clients |-> Off]
    /\ UNCHANGED <<bans, pending, now, disk, placed, saved, votes>>

(* main() reads the configuration and then the databases; a RESV that is   *)
(* in both stays as the configuration has it.                              *)
Loaded(f, i) == IF disk[f].main = None THEN <<>> ELSE disk[f].main[i]
load_resv(B, k, s) == FoldLeft(LAMBDA b, e : create_resv(b, k, e), B, s)
load_databases(B) ==
    [k \in Kinds |-> CASE k \in {"K", "D", "G", "X"} -> AddAll(B, k, Loaded(k, 1))[k]
                       [] k = "C" -> load_resv(B, k, Loaded("R", 1))[k]
                       [] k = "N" -> load_resv(B, k, Loaded("R", 2))[k]
                       [] OTHER -> B[k]]
Start(F) ==
    /\ ~up /\ up' = TRUE
    /\ bans' = load_databases(read_conf(Empty, F))
    /\ pending' = [t \in {"add", "del"} |-> <<>>]
    /\ placed' = saved
    /\ UNCHANGED <<clients, now, disk, save, saved, votes, banscene>>

BansInit ==
    /\ banscene \in BanScenes
    /\ LET G == {Entry(m, GlineTime, TRUE, {}) : m \in banscene.glined}
       IN  bans = [read_conf(Empty, banscene.confs[1]) EXCEPT !["G"] = SetToSeq(G)]
    /\ clients = [c \in Clients |-> Off]
    /\ pending = [t \in {"add", "del"} |-> <<>>]
    /\ now = 0 /\ up = TRUE /\ save = None /\ votes = {}
    /\ disk = [f \in Range(Files) |-> [main |-> None, temp |-> None]]
    /\ placed = [k \in {"K", "D", "G"} \cup Named |-> IF k = "G" THEN banscene.glined \X {GlineTime} ELSE {}]
    /\ saved = [k \in DOMAIN placed |-> {}]

BansNext ==
    \/ \E c \in Clients : conf_connect_allowed(c)
    \/ \E c \in Clients, g \in banscene.names : check_client(c, g) \/ m_rchg(c, g)
    \/ \E l \in banscene.lines : Command(l)
    \/ \E v \in Voters, m \in banscene.masks : mo_gline(v, m) \/ do_sungline(v, m)
    \/ Tick \/ cleanup_tklines \/ cleanup_glines
    \/ \E i \in DOMAIN banscene.confs : conf_rehash(banscene.confs[i]) \/ Start(banscene.confs[i])
    \/ save_all_databases \/ server_die \/ SaveStep \/ SaveFails \/ Crash
BansSpec == BansInit /\ [][BansNext]_bansvars

(* The inputs, which BansProofs.tla relies on: no configuration has an     *)
(* entry of the database, a timed exemption or X-line, or a G-line; there  *)
(* is one to start with, and finitely many G-lines are in force then.      *)
ScenesRight ==
    \A s \in BanScenes :
        /\ "confs" \in DOMAIN s /\ 1 \in DOMAIN s.confs /\ IsFiniteSet(s.glined)
        /\ \A i \in DOMAIN s.confs : \A k \in {"K", "D", "G"} :
             s.confs[i][k] \in Seq({e \in ToSet(s.confs[i][k]) : ~e.db})
        /\ \A i \in DOMAIN s.confs : \A k \in {"E", "X"} :
             s.confs[i][k] \in Seq({e \in ToSet(s.confs[i][k]) : e.until = 0})
        /\ \A i \in DOMAIN s.confs : s.confs[i]["G"] = <<>>

-----------------------------------------------------------------------------
(* No client stays that a K-, D-, G- or X-line of the server matches and   *)
(* no exemption over-rules, whether the line or the client came first and  *)
(* wherever the line is from. There are two ways past it, but none past a  *)
(* D-line: a gecos changed by RCHG (m_rchg()), and a REHASH at which       *)
(* check_conf_klines() (client.c:339) stops at a line that an exemption    *)
(* over-rules, without trying the kinds after it (skipped).                *)
Barred(c, k) == Matched(bans, c, k) /\ ~Spared(bans, c, k)
BansEnforced ==
    up => \A c \in Clients :
            /\ clients[c].at # "off" => ~Barred(c, "D")
            /\ clients[c].at = "local" /\ ~clients[c].skipped =>
                 ~Barred(c, "K") /\ ~Barred(c, "G") /\ (clients[c].rchg \/ ~Barred(c, "X"))

(* The K-, D- and G-lines of the database in force are exactly the ones    *)
(* placed and neither removed nor expired, through REHASH, stop and start; *)
(* after a crash, the ones of the last save that was finished (conf_db.c). *)
Kept(k) == /\ {<<bans[k][i].mask, bans[k][i].until>> : i \in {j \in DOMAIN bans[k] : bans[k][j].db}} = placed[k]
           /\ Len(Database(k)) = Cardinality(placed[k])
BansKept == up => \A k \in {"K", "D", "G"} : Kept(k)

(* The same of X-lines and RESVs: clear_out_old_conf() frees "anything     *)
(* allocated by yyparse()" (conf.c:1186), so what was placed stays.        *)
NamesKept == up => \A k \in Named : Kept(k)

(* "There must be at least 3 different opers agreeing" (m_gline.c:189): a  *)
(* G-line is placed or taken away by the votes of three opers of three     *)
(* servers, each within the time allowed of the one before. They name the  *)
(* mask that is placed; what is taken away is the entry found by theirs.   *)
Agreed(t, m) ==
    \E a, b, c \in {v \in votes' : v.type = t /\ v.mask = m} :
        /\ Cardinality({a.voter.who, b.voter.who, c.voter.who}) = 3
        /\ Cardinality({a.voter.server, b.voter.server, c.voter.server}) = 3
        /\ a.time + RequestTime > b.time /\ b.time + RequestTime > c.time /\ c.time = now
        /\ a.time <= b.time /\ b.time <= c.time
FoundBy(mask, m) == mask = m \/ (m \in Covers[mask] /\ Bucket[m] = Bucket[mask])
OpersAgree ==
    votes' # votes =>
        /\ \A p \in placed'["G"] \ placed["G"] : Agreed("add", p[1])
        /\ \A p \in placed["G"] \ placed'["G"] : \E v \in votes' : FoundBy(p[1], v.mask) /\ Agreed("del", v.mask)
ThreeOpers == [][OpersAgree]_bansvars
=============================================================================
