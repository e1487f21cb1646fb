---------------------------- MODULE ChanfixUsers ----------------------------
(***************************************************************************)
(* The users of the chanfix service, their sessions and their commands:    *)
(* chanfix/cf_user.c, the dispatch of cf_message.c and cf_command.c, the   *)
(* user commands of cf_process.c and the two files users.conf and          *)
(* loggedin. A session belongs to a nick and remembers the address (user,  *)
(* host and server) that logged in; an address is a member of Addrs, Opers *)
(* and Ignored those of IRC operators and those on the ignore list.        *)
(*                                                                         *)
(* Ghosts: proved holds <<id, nick, address>> of every login since the     *)
(* session of that nick last ended and the user was last deleted; revived  *)
(* those that came back from a loggedin file that a crash had left behind; *)
(* last is what the latest accepted command ran as.                        *)
(***************************************************************************)
EXTENDS Integers, FiniteSets, SequencesExt, FiniteSetsExt, LinkedLists, Absent

CONSTANTS Nicks, Addrs, UserHost, Server, Opers, Ignored, FlagsPerServer, FirstUsers, FirstSaved, UserScenes
VARIABLES users, sessions, file, loggedin,   \* memory and the two files
          online, queue, usersup,            \* who has a nick; lines for the service; the module is loaded
          proved, revived, last, userscene
usersvars == <<users, sessions, file, loggedin, online, queue, usersup, proved, revived, last, userscene>>

NamedUser(U, name) == LET at == {i \in DOMAIN U : U[i].name = name /\ ~U[i].deleted} IN IF at = {} THEN 0 ELSE Min(at)
ById(U, id) == U[CHOOSE i \in DOMAIN U : U[i].id = id]
UserOf(st, n) == ById(st.users, st.sessions[n].id)
ocf_users_get_unique_id(U) == 1 + Max({0} \cup {U[i].id : i \in DOMAIN U})
LoggedIn(st) == {n \in Nicks : st.sessions[n] # None}

ocf_user_has_flag(u, f) == "o" \in u.flags \/ u.flags \cap f # {}
ServerAdminOnly(u) == ocf_user_has_flag(u, {"a"}) /\ ~ocf_user_has_flag(u, {"u"})
ocf_user_has_server(u, s) == u.main = s \/ \E i \in DOMAIN u.servers : u.servers[i] = s
get_num_flags_of_server(U, f, s) ==
    Cardinality({i \in DOMAIN U : ~U[i].deleted /\ f \in U[i].flags /\ "o" \notin U[i].flags /\ U[i].main = s})

(* The state a command works on; ocf_users_updated() rewrites users.conf.  *)
State(U, S, F, L, P) == [users |-> U, sessions |-> S, file |-> F, saved |-> L, proved |-> P]
Memory == State(users, sessions, file, loggedin, proved)
SetUsers(st, U) == State(U, st.sessions, st.file, st.saved, st.proved)
ocf_users_updated(st) == State(st.users, st.sessions, st.users, st.saved, st.proved)
Set(st, i, u) == SetUsers(st, [st.users EXCEPT ![i] = u])
ocf_user_logout(st, N) ==
    State(st.users, [n \in Nicks |-> IF n \in N THEN None ELSE st.sessions[n]], st.file, st.saved,
          {p \in st.proved : p[2] \notin N})
ocf_user_login(st, n, addr, id) ==
    IF st.sessions[n] # None THEN st
    ELSE State(st.users, [st.sessions EXCEPT ![n] = [id |-> id, addr |-> addr]], st.file, st.saved,
               st.proved \cup {<<id, n, addr>>})

(* 0: no such client, or the user is deleted; 1: the client that logged in; *)
(* -1: another client with its nick.                                        *)
verify_loggedin_user(st, n) ==
    IF UserOf(st, n).deleted \/ online[n] = None THEN 0
    ELSE IF online[n] = st.sessions[n].addr THEN 1 ELSE -1

(* A notice logs out the sessions it meets whose nick has changed hands.   *)
Others(st, N) == ocf_user_logout(st, {n \in N \cap LoggedIn(st) : verify_loggedin_user(st, n) = -1})
send_notice_to_loggedin(st, umode, but) ==
    Others(st, {n \in LoggedIn(st) \ but : umode \in UserOf(st, n).umode})
send_notice_to_loggedin_username(st, name) ==
    Others(st, {n \in LoggedIn(st) : UserOf(st, n).name = name})

(* long: the timeout has passed since the last time this was called. A nick *)
(* with another client counts as present here.                              *)
ocf_check_loggedin_users(st, long) ==
    ocf_user_logout(st, {n \in LoggedIn(st) : /\ verify_loggedin_user(st, n) = 0
                                              /\ long \/ UserOf(st, n).deleted})

(* ocf_user_load_all(): each user goes to the head of the list, unless one  *)
(* of that name is there; who has no main server gets the first of the others. *)
WithMain(u) ==
    IF u.main # None \/ u.servers = <<>> THEN u
    ELSE LET v == [u EXCEPT !.main = Head(u.servers)] IN [v EXCEPT !.servers = Tail(u.servers)]
ocf_user_load_all(f) ==
    LET taken(i) == \E j \in 1 .. i - 1 : f[j].name = f[i].name /\ ~f[j].deleted
        read == Keep(f, {f[i] : i \in {j \in DOMAIN f : ~taken(j)}})
    IN Reverse([i \in DOMAIN read |-> WithMain(read[i])])

ocf_user_save_loggedin(st) ==
    State(st.users, st.sessions, st.file,
          {<<UserOf(st, n).name, n, st.sessions[n].addr>> : n \in LoggedIn(st)}, st.proved)
ocf_user_load_loggedin(st, entries) ==
    LET Entry(n) == {e \in entries : e[2] = n /\ NamedUser(st.users, e[1]) # 0}
        Session(e) == [id |-> st.users[NamedUser(st.users, e[1])].id, addr |-> e[3]]
    IN State(st.users, [n \in Nicks |-> IF Entry(n) = {} THEN None ELSE Session(CHOOSE e \in Entry(n) : TRUE)],
             st.file, st.saved, st.proved)

-----------------------------------------------------------------------------
(* The commands: st before, n the nick, a its address, c the command. Each *)
(* one that changes a user names it (c.name) and tells those logged in.    *)
Target(st, c) == NamedUser(st.users, c.name)
Told(st, n, c) == send_notice_to_loggedin_username(send_notice_to_loggedin(ocf_users_updated(st), "u", {n}), c.name)
OwnServer(st, n, c) == ServerAdminOnly(UserOf(st, n)) => st.users[Target(st, c)].main = UserOf(st, n).main
IsOwner(st, n) == "o" \in UserOf(st, n).flags

Safe(c) == c.to = "user@server"   \* not to the nick, which somebody else may have
process_cmd_login(st, n, a, c) ==
    LET i   == Target(st, c)
        u   == st.users[i]
        out == ocf_user_logout(st, {n})
        fit == UserHost[a] \in u.hosts /\ ocf_user_has_server(u, Server[a]) /\ c.arg = u.pass
    IN IF ~Safe(c) \/ i = 0 THEN st
       ELSE IF ~fit THEN send_notice_to_loggedin(out, "l", {})
       ELSE send_notice_to_loggedin(ocf_user_login(out, n, a, u.id), "l", {n})

process_cmd_logout(st, n, a, c) == send_notice_to_loggedin(ocf_user_logout(st, {n}), "l", {})

OnSelf(st, n, F(_)) ==   \* a change of one's own entry
    LET id == st.sessions[n].id
    IN ocf_users_updated(SetUsers(st, [i \in DOMAIN st.users |->
                                         IF st.users[i].id = id THEN F(st.users[i]) ELSE st.users[i]]))
process_cmd_passwd(st, n, a, c) ==
    IF c.name # UserOf(st, n).pass THEN st ELSE OnSelf(st, n, LAMBDA u : [u EXCEPT !.pass = c.arg])   \* c.name: the old one

process_cmd_umode(st, n, a, c) ==
    OnSelf(st, n, LAMBDA u : [u EXCEPT !.umode = c.arg])

MayFlag(st, n, c) ==
    /\ Target(st, c) # 0 /\ c.arg # "o" /\ (c.arg = "u" => IsOwner(st, n))
    /\ OwnServer(st, n, c) /\ (ServerAdminOnly(UserOf(st, n)) => c.arg \notin {"a", "b"})
process_cmd_addflag(st, n, a, c) ==
    LET i == Target(st, c)
        u == st.users[i]
        full == c.arg \in DOMAIN FlagsPerServer /\ get_num_flags_of_server(st.users, c.arg, u.main) >= FlagsPerServer[c.arg]
    IN IF ~MayFlag(st, n, c) \/ ocf_user_has_flag(u, {c.arg}) \/ full THEN st
       ELSE Told(Set(st, i, [u EXCEPT !.flags = @ \cup {c.arg}]), n, c)
process_cmd_delflag_fault(st, n, a, c) ==   \* the users are not saved
    LET i == Target(st, c)
    IN IF ~MayFlag(st, n, c) \/ ~ocf_user_has_flag(st.users[i], {c.arg}) THEN st
       ELSE Set(st, i, [st.users[i] EXCEPT !.flags = @ \ {c.arg}])

process_cmd_delflag(st, n, a, c) ==
    LET i == Target(st, c)
    IN IF ~MayFlag(st, n, c) \/ ~ocf_user_has_flag(st.users[i], {c.arg}) THEN st
       ELSE Told(Set(st, i, [st.users[i] EXCEPT !.flags = @ \ {c.arg}]), n, c)

process_cmd_addhost(st, n, a, c) ==
    LET i == Target(st, c)
    IN IF i = 0 THEN st ELSE IF ~OwnServer(st, n, c) \/ c.arg \in st.users[i].hosts THEN st
       ELSE Told(Set(st, i, [st.users[i] EXCEPT !.hosts = @ \cup {c.arg}]), n, c)
process_cmd_delhost(st, n, a, c) ==
    LET i == Target(st, c)
    IN IF i = 0 THEN st ELSE IF ~OwnServer(st, n, c) \/ c.arg \notin st.users[i].hosts THEN st
       ELSE Told(Set(st, i, [st.users[i] EXCEPT !.hosts = @ \ {c.arg}]), n, c)

(* The main server a server admin gives is set after the file was written. *)
process_cmd_adduser(st, n, a, c) ==
    LET new  == [id |-> ocf_users_get_unique_id(st.users), name |-> c.name, flags |-> {}, pass |-> None,
                 hosts |-> {c.arg}, main |-> None, servers |-> <<>>, umode |-> {}, deleted |-> FALSE]
        told == send_notice_to_loggedin(ocf_users_updated(SetUsers(st, <<new>> \o st.users)), "u", {n})
    IN IF Target(st, c) # 0 THEN st
       ELSE IF ServerAdminOnly(UserOf(st, n)) THEN Set(told, 1, [new EXCEPT !.main = UserOf(st, n).main]) ELSE told

Deleted(st, n, c) ==
    LET i == Target(st, c)
        u == st.users[i]
        gone == State([st.users EXCEPT ![i] = [u EXCEPT !.deleted = TRUE]], st.sessions, st.file, st.saved,
                      {p \in st.proved : p[1] # u.id})
    IN IF i = 0 THEN st
       ELSE IF "o" \in u.flags \/ (ocf_user_has_flag(u, {"u"}) /\ ~IsOwner(st, n)) \/ ~OwnServer(st, n, c) THEN st
       ELSE send_notice_to_loggedin(ocf_users_updated(gone), "u", {n})
process_cmd_deluser(st, n, a, c) ==
    IF Deleted(st, n, c) = st THEN st ELSE ocf_check_loggedin_users(Deleted(st, n, c), FALSE)

process_cmd_chpass(st, n, a, c) ==   \* CHPASSHASH too
    LET i == Target(st, c)
    IN IF i = 0 THEN st
       ELSE IF ("o" \in st.users[i].flags /\ ~IsOwner(st, n)) \/ ~OwnServer(st, n, c) THEN st
       ELSE send_notice_to_loggedin(ocf_users_updated(Set(st, i, [st.users[i] EXCEPT !.pass = c.arg])), "u", {n})

process_cmd_addserver(st, n, a, c) ==
    LET i == Target(st, c)
    IN IF i = 0 THEN st ELSE IF ocf_user_has_server(st.users[i], c.arg) THEN st
       ELSE Told(Set(st, i, [st.users[i] EXCEPT !.servers = Append(@, c.arg)]), n, c)
process_cmd_delserver(st, n, a, c) ==
    LET i == Target(st, c)
    IN IF i = 0 THEN st ELSE IF c.arg \notin Range(st.users[i].servers) THEN st
       ELSE Told(Set(st, i, [st.users[i] EXCEPT !.servers = Keep(@, ToSet(@) \ {c.arg})]), n, c)
process_cmd_setmainserver(st, n, a, c) ==
    LET i == Target(st, c) IN IF i = 0 THEN st ELSE Told(Set(st, i, [st.users[i] EXCEPT !.main = c.arg]), n, c)

process_cmd_rehash(st, n, a, c) ==
    LET kept == ocf_user_save_loggedin(send_notice_to_loggedin(st, "m", {n}))
    IN ocf_user_load_loggedin(SetUsers(kept, ocf_user_load_all(kept.file)), kept.saved)

process_cmd_functions(st, n, a, c) ==
    CASE c.cmd = "LOGIN" -> process_cmd_login(st, n, a, c)     [] c.cmd = "LOGOUT" -> process_cmd_logout(st, n, a, c)
      [] c.cmd = "PASSWD" -> process_cmd_passwd(st, n, a, c)   [] c.cmd = "UMODE" -> process_cmd_umode(st, n, a, c)
      [] c.cmd = "ADDFLAG" -> process_cmd_addflag(st, n, a, c) [] c.cmd = "DELFLAG" -> process_cmd_delflag(st, n, a, c)
      [] c.cmd = "ADDHOST" -> process_cmd_addhost(st, n, a, c) [] c.cmd = "DELHOST" -> process_cmd_delhost(st, n, a, c)
      [] c.cmd = "ADDUSER" -> process_cmd_adduser(st, n, a, c) [] c.cmd = "DELUSER" -> process_cmd_deluser(st, n, a, c)
      [] c.cmd = "CHPASS" -> process_cmd_chpass(st, n, a, c)   [] c.cmd = "REHASH" -> process_cmd_rehash(st, n, a, c)
      [] c.cmd = "ADDSERVER" -> process_cmd_addserver(st, n, a, c)
      [] c.cmd = "DELSERVER" -> process_cmd_delserver(st, n, a, c)
      [] c.cmd = "SETMAINSERVER" -> process_cmd_setmainserver(st, n, a, c)
      [] OTHER -> st   \* unknown, or a query

cmd_flags_required(cmd) ==
    CASE cmd \in {"ADDFLAG", "DELFLAG", "ADDHOST", "DELHOST", "ADDUSER", "DELUSER", "CHPASS"} -> {"u", "a"}
      [] cmd \in {"ADDSERVER", "DELSERVER", "SETMAINSERVER"} -> {"u"}
      [] cmd = "REHASH" -> {"o"}
      [] OTHER -> {}
cmd_num_params(cmd) ==
    CASE cmd \in {"LOGOUT", "REHASH", "UMODE"} -> 0 [] cmd \in {"ADDUSER", "DELUSER"} -> 1 [] OTHER -> 2
wrong_syntax(c) == Cardinality({k \in {"name", "arg"} : c[k] # None}) < cmd_num_params(c.cmd)
ocf_is_ignored(a) == a \in Ignored
command_requires_loggedin(cmd) == cmd # "LOGIN"

(* get_privmsg_data(): the user@host of the line must be that of the client *)
(* which has the nick now; the server is looked up now.                     *)
Recognised(md) == online[md.nick] # None /\ UserHost[md.addr] = UserHost[online[md.nick]]

(* process_privmsg(): a session of another address is ended first.         *)
Unhijacked_fault(st, n, a) == st   \* the nick alone is trusted

Unhijacked(st, n, a) ==
    IF st.sessions[n] = None \/ st.sessions[n].addr = a THEN st
    ELSE ocf_user_logout(send_notice_to_loggedin(st, "m", {n}), {n})
Refused(st, n, c) ==
    LET need == cmd_flags_required(c.cmd)
    IN \/ st.sessions[n] = None /\ command_requires_loggedin(c.cmd)
       \/ st.sessions[n] # None /\ need # {} /\ ~ocf_user_has_flag(UserOf(st, n), need)
       \/ wrong_syntax(c)
process_privmsg(st, n, a, c) == IF Refused(st, n, c) THEN st ELSE process_cmd_functions(st, n, a, c)

Become(st) ==
    /\ users' = st.users /\ sessions' = st.sessions /\ file' = st.file /\ loggedin' = st.saved /\ proved' = st.proved
ReadLine ==
    /\ usersup /\ queue # <<>> /\ queue' = Tail(queue)
    /\ LET md == Head(queue)
           a  == online[md.nick]
           st == Unhijacked(Memory, md.nick, a)
       IN IF ~Recognised(md) \/ a \notin Opers \/ ocf_is_ignored(a)
          THEN Become(Memory) /\ UNCHANGED last
          ELSE /\ Become(process_privmsg(st, md.nick, a, md.line))
               /\ last' = IF st.sessions[md.nick] = None THEN None
                          ELSE [ran |-> <<st.sessions[md.nick].id, md.nick, a>>,
                                right |-> <<st.sessions[md.nick].id, md.nick, a>> \in proved \cup revived]
    /\ UNCHANGED <<online, usersup, revived, userscene>>

CheckUsers(long) ==
    /\ usersup /\ long \in BOOLEAN /\ Become(ocf_check_loggedin_users(Memory, long))
    /\ UNCHANGED <<online, queue, usersup, revived, last, userscene>>

-----------------------------------------------------------------------------
(* Unloading and loading the module; a crash. A crash while users.conf is   *)
(* written leaves its beginning, and perhaps one more user without the      *)
(* lines after its flags, "deleted" among them.                             *)
UsersSpend == userscene.steps > 0 /\ userscene' = [userscene EXCEPT !.steps = @ - 1]
users_moddeinit ==
    /\ usersup /\ usersup' = FALSE /\ "Stop" \in userscene.cmds /\ UsersSpend
    /\ LET st == ocf_user_save_loggedin(ocf_users_updated(Memory))
       IN file' = st.file /\ loggedin' = st.saved
    /\ queue' = <<>> /\ proved' = {} /\ sessions' = [n \in Nicks |-> None] /\ users' = <<>>
    /\ UNCHANGED <<online, revived, last>>
HalfUser(u) ==
    [id |-> u.id, name |-> u.name, flags |-> u.flags, pass |-> u.pass,
     hosts |-> {}, main |-> None, servers |-> <<>>, umode |-> {}, deleted |-> FALSE]
TornFiles == {SubSeq(users, 1, k) : k \in 0 .. Len(users)}
               \cup {SubSeq(users, 1, k - 1) \o <<HalfUser(users[k])>> : k \in DOMAIN users}
UsersCrash(saving) ==
    /\ usersup /\ usersup' = FALSE /\ "Crash" \in userscene.cmds /\ UsersSpend
    /\ IF saving THEN file' \in TornFiles ELSE UNCHANGED file
    /\ queue' = <<>> /\ sessions' = [n \in Nicks |-> None] /\ users' = <<>>
    /\ UNCHANGED <<loggedin, online, proved, revived, last>>

(* recent: the loggedin file is not older than OCF_USER_LOGGEDIN_MAXTIME.  *)
users_modinit(recent) ==
    LET U  == ocf_user_load_all(file)
        st == ocf_user_load_loggedin(SetUsers(Memory, U), IF recent THEN loggedin ELSE {})
        back == {<<st.sessions[n].id, n, st.sessions[n].addr>> : n \in LoggedIn(st)}
    IN /\ ~usersup /\ usersup' = TRUE /\ users' = U /\ sessions' = st.sessions
       /\ loggedin' = IF recent THEN loggedin ELSE {}
       /\ revived' = back /\ proved' = {}
       /\ UNCHANGED <<file, online, queue, last, userscene>>

(* The network: a client takes or leaves a nick, or sends a command.       *)
Appear(n, a) == /\ UsersSpend /\ online[n] = None /\ \A k \in Nicks : online[k] # a /\ online' = [online EXCEPT ![n] = a]
                /\ UNCHANGED <<users, sessions, file, loggedin, queue, usersup, proved, revived, last>>
Vanish(n) == /\ UsersSpend /\ online[n] # None /\ online' = [online EXCEPT ![n] = None]
             /\ UNCHANGED <<users, sessions, file, loggedin, queue, usersup, proved, revived, last>>
Send(n, c) == /\ UsersSpend /\ usersup /\ online[n] # None /\ Len(queue) < 2
              /\ queue' = Append(queue, [nick |-> n, addr |-> online[n], line |-> c])
              /\ UNCHANGED <<users, sessions, file, loggedin, online, usersup, proved, revived, last>>

UsersInit ==
    /\ users = <<>> /\ sessions = [n \in Nicks |-> None] /\ file = FirstUsers /\ loggedin = FirstSaved /\ usersup = FALSE
    /\ queue = <<>> /\ proved = {} /\ revived = {} /\ last = None /\ userscene \in UserScenes
    /\ online = userscene.clients

UsersNext ==
    \/ ReadLine \/ users_moddeinit
    \/ \E b \in BOOLEAN : CheckUsers(b) \/ UsersCrash(b) \/ users_modinit(b)
    \/ \E n \in Nicks : Vanish(n) \/ (\E a \in Addrs : Appear(n, a)) \/ (\E c \in userscene.lines : Send(n, c))
UsersSpec == UsersInit /\ [][UsersNext]_usersvars

(* What ocf_user_load_all() leaves of a line of users.conf; the id of every *)
(* user of the first file is its own, as ocf_users_get_unique_id() gives   *)
(* it. ChanfixProofs.tla relies on it.                                     *)
IsUser(u) ==
    /\ u = [id |-> u.id, name |-> u.name, flags |-> u.flags, pass |-> u.pass, hosts |-> u.hosts,
            main |-> u.main, servers |-> u.servers, umode |-> u.umode, deleted |-> u.deleted]
    /\ u.id \in Nat /\ u.deleted \in BOOLEAN /\ u.servers \in Seq(ToSet(u.servers) \ {None})
UniqueIds(U) == \A i, j \in DOMAIN U : U[i].id = U[j].id => i = j
FirstRight ==
    /\ FirstUsers \in Seq(ToSet(FirstUsers)) /\ UniqueIds(FirstUsers)
    /\ \A i \in DOMAIN FirstUsers : IsUser(FirstUsers[i])

-----------------------------------------------------------------------------
(***************************************************************************)
(* Every session is one that this client opened with the password of this  *)
(* user, or that came back from the loggedin file, and every command runs  *)
(* as the user its sender logged in as: whatever happens to nicks,         *)
(* servers and users between the login, the command and the handler.       *)
(***************************************************************************)
SessionsProved ==
    /\ \A n \in Nicks : sessions[n] # None =>
          /\ <<sessions[n].id, n, sessions[n].addr>> \in proved \cup revived
          /\ ~ById(users, sessions[n].id).deleted
    /\ last # None => last.right

(* Every user of U who is not deleted comes back from the file f.          *)
ButMain(u) == [u EXCEPT !.main = None]
GivenBack(U, f) ==
    \A i \in DOMAIN U : ~U[i].deleted => \E u \in Range(ocf_user_load_all(f)) : ButMain(u) = ButMain(WithMain(U[i]))

(***************************************************************************)
(* What users.conf would give back is what the service knows, for every    *)
(* user and except for the main server, which a server admin gives to the  *)
(* one it adds, and a load to one who has only others: a REHASH or a       *)
(* reload neither gives nor takes any other right.                         *)
(***************************************************************************)
RightsKept == usersup => GivenBack(users, file)
=============================================================================
