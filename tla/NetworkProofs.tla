--------------------------- MODULE NetworkProofs ---------------------------
(* Theorems about Network for every set of servers, connect{} blocks and    *)
(* users, and for every bound.                                              *)
EXTENDS Network, TLAPS, FiniteSetTheorems

(* An end names two different servers, and the two ends of a connection     *)
(* point at each other.                                                     *)
LEMMA EndsFacts ==
    ASSUME NEW e \in Ends
    PROVE  /\ e.me \in Servers /\ e.peer \in Servers /\ e.me # e.peer
           /\ e = End(e.me, e.peer, e.role)
           /\ Other(e) \in Ends /\ Other(e).me = e.peer /\ Other(e).peer = e.me
           /\ Other(Other(e)) = e
<1>1. CASE \E c \in Connects : e = End(c[1], c[2], "out")
  BY <1>1, NetworkAssumption DEF Ends, End, Other
<1>2. CASE \E c \in Connects : e = End(c[2], c[1], "in")
  BY <1>2, NetworkAssumption DEF Ends, End, Other
<1> QED BY <1>1, <1>2 DEF Ends

(* The constructors build messages.                                         *)
LEMMA MessageTypes ==
    /\ SERVER \in Messages /\ EOF \in Messages
    /\ \A src, x \in Servers : SID(src, x) \in Messages
    /\ \A src \in Ids \cup {None}, x \in Servers : SQUIT(src, x) \in Messages
    /\ \A src \in Ids, u \in Uids : KILL(src, u) \in Messages
    /\ \A u \in Uids : QUIT(u) \in Messages
    /\ \A u \in Uids, n \in Nicks, ts \in Timestamps :
          NICK(u, n, ts) \in Messages /\ UID(u, n, ts) \in Messages
BY DEF Messages

(* What the type of a message says about its fields.                        *)
LEMMA MessageFields ==
    ASSUME NEW m \in Messages
    PROVE  /\ m.type \in {"SERVER", "EOF", "SID", "SQUIT", "KILL", "QUIT", "NICK", "UID"}
           /\ m.src \in Ids \cup {None}
           /\ m.type = "SID" => m.src \in Servers /\ m.obj \in Servers
           /\ m.type = "SQUIT" => m.obj \in Servers
           /\ m.type = "KILL" => m.src \in Ids /\ m.obj \in Uids
           /\ m.type = "QUIT" => m.src \in Uids
           /\ m.type = "NICK" => m.src \in Uids /\ m.nick \in Nicks /\ m.ts \in Timestamps
           /\ m.type = "UID" => /\ m.obj \in Uids /\ m.src = Home[m.obj]
                                /\ m.nick \in Nicks /\ m.ts \in Timestamps
<1> USE NetworkAssumption, NoneAssumption DEF Ids
<1>1. CASE m \in {SERVER, EOF}
  BY <1>1 DEF SERVER, EOF, Message
<1>2. CASE \E src, x \in Servers : m = SID(src, x)
  BY <1>2 DEF SID, Message
<1>3. CASE \E src \in Ids \cup {None}, x \in Servers : m = SQUIT(src, x)
  BY <1>3 DEF SQUIT, Message
<1>4. CASE \E src \in Ids, u \in Uids : m = KILL(src, u)
  BY <1>4 DEF KILL, Message
<1>5. CASE \E u \in Uids : m = QUIT(u)
  BY <1>5 DEF QUIT, Message
<1>6. CASE \E u \in Uids, n \in Nicks, ts \in Timestamps : m = NICK(u, n, ts)
  BY <1>6 DEF NICK, Message
<1>7. CASE \E u \in Uids, n \in Nicks, ts \in Timestamps : m = UID(u, n, ts)
  BY <1>7 DEF UID, Message
<1> QED BY <1>1, <1>2, <1>3, <1>4, <1>5, <1>6, <1>7 DEF Messages

Outputs == [Ends -> Seq(Messages)]

(* What one step writes is a family of sequences of messages.               *)
LEMMA OutputTypes ==
    /\ Silent \in Outputs
    /\ \A E : \A m \in Messages : SendTo(E, m) \in Outputs
    /\ \A o1, o2 \in Outputs : And(o1, o2) \in Outputs
<1>1. Silent \in Outputs
  BY DEF Silent, Outputs
<1>2. ASSUME NEW E, NEW m \in Messages PROVE SendTo(E, m) \in Outputs
  BY DEF SendTo, Outputs
<1>3. ASSUME NEW o1 \in Outputs, NEW o2 \in Outputs PROVE And(o1, o2) \in Outputs
  <2>1. \A e \in Ends : o1[e] \o o2[e] \in Seq(Messages)
    BY DEF Outputs
  <2> QED BY <2>1 DEF And, Outputs
<1> QED BY <1>1, <1>2, <1>3

(* Parsing one line and sending others keeps the queues well typed. *)
LEMMA TransmitType ==
    ASSUME TypeOK, NEW s, NEW e, NEW shut, NEW out \in Outputs,
           e \in Ends => queue[e] # <<>>,
           Transmit(s, e, shut, out)
    PROVE  queue' \in [Ends -> Seq(Messages)]
<1> DEFINE keep(f) == IF f = e THEN Tail(queue[f]) ELSE queue[f]
           add(f) == IF f.peer = s THEN out[Other(f)] ELSE <<>>
           eof(f) == IF Other(f) \in shut THEN <<EOF>> ELSE <<>>
<1>1. ASSUME NEW f \in Ends PROVE keep(f) \in Seq(Messages)
  BY DEF TypeOK
<1>2. ASSUME NEW f \in Ends PROVE add(f) \in Seq(Messages)
  BY EndsFacts DEF Outputs
<1>3. ASSUME NEW f \in Ends PROVE eof(f) \in Seq(Messages)
  BY MessageTypes
<1>4. ASSUME NEW f \in Ends PROVE keep(f) \o add(f) \o eof(f) \in Seq(Messages)
  BY <1>1, <1>2, <1>3
<1>5. queue' = [f \in Ends |-> IF f \in shut \/ link[f] = "down" THEN <<>>
                               ELSE keep(f) \o add(f) \o eof(f)]
  BY DEF Transmit
<1> HIDE DEF keep, add, eof
<1> QED BY <1>4, <1>5

(* Closing connections keeps the links well typed. *)
LEMMA ShutType ==
    ASSUME TypeOK, NEW E, Shut(E)
    PROVE  link' \in [Ends -> {"down", "wait", "up"}]
BY DEF Shut, TypeOK

(* Using a budget keeps the budgets well typed. *)
LEMMA SpendType ==
    ASSUME TypeOK, NEW k \in Kinds, Spend(k)
    PROVE  spent' \in [Kinds -> Nat]
BY DEF Spend, TypeOK

(* A directory with users removed is a directory. *)
LEMMA WithoutType ==
    ASSUME TypeOK, NEW s \in Servers, NEW U
    PROVE  Without(s, U) \in [Uids -> ClientRecords \cup {None}]
BY DEF Without, TypeOK

(* Replacing the user directory of one server keeps all of them well typed. *)
LEMMA ClientsType ==
    ASSUME TypeOK, NEW s \in Servers, NEW f \in [Uids -> ClientRecords \cup {None}],
           ClientsAt(s, f)
    PROVE  client' \in [Servers -> [Uids -> ClientRecords \cup {None}]]
BY DEF ClientsAt, TypeOK

(* Removing servers and the users behind them keeps directories well typed. *)
LEMMA ForgetType ==
    ASSUME TypeOK, NEW s \in Servers, NEW X, ForgetServers(s, X)
    PROVE  /\ server' \in [Servers -> [Servers -> ServerRecords \cup {None}]]
           /\ client' \in [Servers -> [Uids -> ClientRecords \cup {None}]]
<1>1. client' \in [Servers -> [Uids -> ClientRecords \cup {None}]]
  BY WithoutType, ClientsType DEF ForgetServers
<1> QED BY <1>1 DEF ForgetServers, TypeOK

(* sendto_server() sends messages, to all links or to all but one. *)
LEMMA Broadcasts ==
    ASSUME NEW m \in Messages, NEW s, NEW e
    PROVE  ToAll(s, m) \in Outputs /\ ToAllBut(s, e, m) \in Outputs
BY OutputTypes DEF ToAll, ToAllBut

(* A user record is a record, and is not None. *)
LEMMA UserType ==
    ASSUME NEW n \in Nicks, NEW ts \in Timestamps, NEW st \in {"unknown", "client"}
    PROVE  User(n, ts, st) \in ClientRecords /\ User(n, ts, st) # None
BY NoneAssumption DEF User, ClientRecords

(* A line that is read is a message, and its source has an ID.              *)
LEMMA LineFacts ==
    ASSUME TypeOK, NEW e \in Ends, queue[e] # <<>>
    PROVE  Line(e) \in Messages /\ Source(e) \in Ids
<1>1. Line(e) \in Messages
  BY DEF TypeOK, Line
<1> QED BY <1>1, EndsFacts, MessageFields DEF Source, Ids

(* A line that parse() accepts on e comes from a source known through e.    *)
LEMMA ArrivesFacts ==
    ASSUME TypeOK, NEW e \in Ends, NEW type, Arrives(e, type)
    PROVE  /\ link[e] = "up" /\ queue[e] # <<>>
           /\ Line(e) \in Messages /\ Line(e).type = type /\ Source(e) \in Ids
           /\ Source(e) \in Servers => /\ Source(e) # e.me
                                       /\ server[e.me][Source(e)] \in ServerRecords
                                       /\ server[e.me][Source(e)].from = e
           /\ Source(e) \in Uids => /\ IsClient(e.me, Source(e))
                                    /\ client[e.me][Source(e)] \in ClientRecords
                                    /\ Home[Source(e)] # e.me
                                    /\ server[e.me][Home[Source(e)]].from = e
<1>1. link[e] = "up" /\ queue[e] # <<>> /\ Line(e).type = type
  BY DEF Arrives, Pending
<1>2. Line(e) \in Messages /\ Source(e) \in Ids
  BY <1>1, LineFacts
<1>3. HasId(e.me, Source(e)) /\ Route(e.me, Source(e)) = e /\ e # None
  BY NoneAssumption DEF Arrives
<1>4. ASSUME Source(e) \in Servers
      PROVE  /\ Source(e) # e.me /\ server[e.me][Source(e)] \in ServerRecords
             /\ server[e.me][Source(e)].from = e
  BY <1>3, <1>4, EndsFacts DEF HasId, Route, Knows, TypeOK
<1>5. ASSUME Source(e) \in Uids
      PROVE  /\ IsClient(e.me, Source(e)) /\ client[e.me][Source(e)] \in ClientRecords
             /\ Home[Source(e)] # e.me /\ server[e.me][Home[Source(e)]].from = e
  <2>1. Source(e) \notin Servers
    BY <1>5, NetworkAssumption
  <2> QED BY <1>3, <1>5, <2>1, EndsFacts DEF HasId, Route, IsClient, TypeOK
<1> QED BY <1>1, <1>2, <1>4, <1>5

(* exit_client() of a server keeps links, queues and directories well typed. *)
LEMMA ExitLinkType ==
    ASSUME TypeOK, NEW e, NEW l \in Ends, NEW note \in Messages, NEW bye \in Messages,
           e \in Ends => queue[e] # <<>>,
           exit_link(e, l, note, bye)
    PROVE  /\ link' \in [Ends -> {"down", "wait", "up"}]
           /\ queue' \in [Ends -> Seq(Messages)]
           /\ server' \in [Servers -> [Servers -> ServerRecords \cup {None}]]
           /\ client' \in [Servers -> [Uids -> ClientRecords \cup {None}]]
<1> USE EndsFacts DEF exit_link
<1>1. link' \in [Ends -> {"down", "wait", "up"}]
  BY ShutType
<1>2. /\ server' \in [Servers -> [Servers -> ServerRecords \cup {None}]]
      /\ client' \in [Servers -> [Uids -> ClientRecords \cup {None}]]
  BY ForgetType
<1>3. And(SendTo(LocalServers(l.me) \ {l, e}, note), SendTo({l}, bye)) \in Outputs
  BY OutputTypes
<1>4. queue' \in [Ends -> Seq(Messages)]
  BY <1>3, TransmitType
<1> QED BY <1>1, <1>2, <1>4

(* Steps that touch the users of one server only.                           *)
LEMMA UserStepType ==
    ASSUME TypeOK, NEW s \in Servers, NEW f \in [Uids -> ClientRecords \cup {None}],
           NEW e, e \in Ends => queue[e] # <<>>, NEW out \in Outputs,
           ClientsAt(s, f), Transmit(s, e, {}, out)
    PROVE  /\ queue' \in [Ends -> Seq(Messages)]
           /\ client' \in [Servers -> [Uids -> ClientRecords \cup {None}]]
BY ClientsType, TransmitType

(* uid_from_server() keeps queues and directories well typed. *)
LEMMA UidFromServerType ==
    ASSUME TypeOK, NEW e \in Ends, Arrives(e, "UID"), NEW gone, NEW kills \in Outputs,
           uid_from_server(e, gone, kills)
    PROVE  /\ queue' \in [Ends -> Seq(Messages)]
           /\ client' \in [Servers -> [Uids -> ClientRecords \cup {None}]]
<1> DEFINE s == e.me
           m == Line(e)
<1>1. s \in Servers /\ queue[e] # <<>> /\ m \in Messages /\ m.type = "UID"
  BY EndsFacts, ArrivesFacts
<1>2. m.obj \in Uids /\ m.nick \in Nicks /\ m.ts \in Timestamps
  BY <1>1, MessageFields
<1>3. [Without(s, gone) EXCEPT ![m.obj] = User(m.nick, m.ts, "client")]
        \in [Uids -> ClientRecords \cup {None}]
  BY <1>1, <1>2, WithoutType, UserType
<1>4. And(kills, ToAllBut(s, e, UID(m.obj, m.nick, m.ts))) \in Outputs
  BY <1>2, MessageTypes, Broadcasts, OutputTypes
<1> QED BY <1>1, <1>3, <1>4, UserStepType DEF uid_from_server

(* change_remote_nick() keeps queues and directories well typed. *)
LEMMA ChangeRemoteNickType ==
    ASSUME TypeOK, NEW e \in Ends, Arrives(e, "NICK"), NEW gone, NEW kills \in Outputs,
           change_remote_nick(e, gone, kills)
    PROVE  /\ queue' \in [Ends -> Seq(Messages)]
           /\ client' \in [Servers -> [Uids -> ClientRecords \cup {None}]]
<1> DEFINE s == e.me
           u == Source(e)
           n == Line(e).nick
           ts == IF client[s][u].nick = n THEN client[s][u].ts ELSE Line(e).ts
<1>1. s \in Servers /\ queue[e] # <<>> /\ Line(e) \in Messages /\ Line(e).type = "NICK"
  BY EndsFacts, ArrivesFacts
<1>2. u \in Uids /\ n \in Nicks /\ Line(e).ts \in Timestamps
  BY <1>1, MessageFields, NetworkAssumption, NoneAssumption DEF Source, Ids
<1>3. ts \in Timestamps
  BY <1>2, ArrivesFacts DEF ClientRecords
<1> HIDE DEF ts
<1>4. [Without(s, gone) EXCEPT ![u] = User(n, ts, "client")]
        \in [Uids -> ClientRecords \cup {None}]
  BY <1>1, <1>2, <1>3, WithoutType, UserType
<1>5. And(kills, ToAllBut(s, e, NICK(u, n, ts))) \in Outputs
  BY <1>2, <1>3, MessageTypes, Broadcasts, OutputTypes
<1>6. /\ ClientsAt(s, [Without(s, gone) EXCEPT ![u] = User(n, ts, "client")])
      /\ Transmit(s, e, {}, And(kills, ToAllBut(s, e, NICK(u, n, ts))))
  BY DEF change_remote_nick, ts
<1> QED BY <1>1, <1>4, <1>5, <1>6, UserStepType

(* A function on an initial segment of the numbers is a sequence. *)
LEMMA FunctionIsSeq ==
    ASSUME NEW S, NEW k \in Nat, NEW f \in [1 .. k -> S]
    PROVE  f \in Seq(S)
OBVIOUS

(* The burst: every server and every user s knows, in some order.           *)
LEMMA BurstType ==
    ASSUME TypeOK, NEW s \in Servers, NEW e,
           NEW sids \in SetToSeqs({y \in Servers : server[s][y] # None}),
           NEW uids \in SetToSeqs({u \in Uids : IsClient(s, u)})
    PROVE  (IF e.role = "in" THEN <<SERVER>> ELSE <<>>)
           \o [i \in DOMAIN sids |-> SID(server[s][sids[i]].servptr, sids[i])]
           \o [i \in DOMAIN uids |->
                 UID(uids[i], client[s][uids[i]].nick, client[s][uids[i]].ts)]
           \in Seq(Messages)
<1> DEFINE known == {y \in Servers : server[s][y] # None}
           users == {u \in Uids : IsClient(s, u)}
           hello == IF e.role = "in" THEN <<SERVER>> ELSE <<>>
           one == [i \in DOMAIN sids |-> SID(server[s][sids[i]].servptr, sids[i])]
           two == [i \in DOMAIN uids |->
                     UID(uids[i], client[s][uids[i]].nick, client[s][uids[i]].ts)]
<1>1. Cardinality(known) \in Nat /\ Cardinality(users) \in Nat
  BY NetworkAssumption, FS_Subset, FS_CardinalityType
<1>2. /\ sids \in [1 .. Cardinality(known) -> known]
      /\ uids \in [1 .. Cardinality(users) -> users]
  BY DEF SetToSeqs
<1>3. hello \in Seq(Messages)
  BY MessageTypes
<1>4. one \in Seq(Messages)
  <2>1. ASSUME NEW i \in 1 .. Cardinality(known)
        PROVE  SID(server[s][sids[i]].servptr, sids[i]) \in Messages
    <3>1. sids[i] \in known
      BY <1>2
    <3>2. sids[i] \in Servers /\ server[s][sids[i]] \in ServerRecords
      BY <3>1 DEF TypeOK
    <3> QED BY <3>2, MessageTypes DEF ServerRecords
  <2>2. one \in [1 .. Cardinality(known) -> Messages]
    BY <1>2, <2>1
  <2> HIDE DEF one, known
  <2> QED BY <1>1, <2>2, FunctionIsSeq
<1>5. two \in Seq(Messages)
  <2>1. ASSUME NEW i \in 1 .. Cardinality(users)
        PROVE  UID(uids[i], client[s][uids[i]].nick, client[s][uids[i]].ts) \in Messages
    <3>1. uids[i] \in Uids /\ client[s][uids[i]] \in ClientRecords
      BY <1>2 DEF TypeOK, IsClient
    <3> QED BY <3>1, MessageTypes DEF ClientRecords
  <2>2. two \in [1 .. Cardinality(users) -> Messages]
    BY <1>2, <2>1
  <2> HIDE DEF two, users
  <2> QED BY <1>1, <2>2, FunctionIsSeq
<1> HIDE DEF hello, one, two
<1>6. hello \o one \o two \in Seq(Messages)
  BY <1>3, <1>4, <1>5
<1> QED BY <1>6 DEF hello, one, two
-----------------------------------------------------------------------------
(* Every step keeps TypeOK.                                                 *)

LEMMA InitType == Init => TypeOK
BY NetworkAssumption DEF Init, TypeOK

(* Connecting, the handshake, a lost link and refused lines keep TypeOK. *)
LEMMA LinkStepType ==
    ASSUME TypeOK, NEW e \in Ends,
           \/ serv_connect(e) \/ mr_server_refuse(e) \/ mr_server_estab(e)
           \/ link_break(e) \/ link_eof(e) \/ parse_reject(e)
    PROVE  TypeOK'
<1> USE EndsFacts
<1>1. CASE serv_connect(e)
  <2>1. spent' \in [Kinds -> Nat]
    BY <1>1, SpendType DEF serv_connect, Kinds
  <2>2. <<SERVER>> \in Seq(Messages) /\ <<>> \in Seq(Messages)
    BY MessageTypes
  <2>3. queue' \in [Ends -> Seq(Messages)]
    BY <1>1, <2>2 DEF serv_connect, TypeOK
  <2> QED BY <1>1, <2>1, <2>3 DEF serv_connect, TypeOK
<1>2. CASE mr_server_refuse(e)
  <2> DEFINE shut == {e} \cup (IF Knows(e.me, e.peer) THEN {} ELSE InProgress(e.me, e.peer) \ {e})
  <2>1. /\ queue[e] # <<>> /\ Shut(shut) /\ Transmit(e.me, e, shut, Silent)
        /\ UNCHANGED <<server, client, signon, spent>>
    BY <1>2 DEF mr_server_refuse, Pending
  <2> HIDE DEF shut
  <2>2. link' \in [Ends -> {"down", "wait", "up"}]
    BY <2>1, ShutType
  <2>3. queue' \in [Ends -> Seq(Messages)]
    BY <2>1, TransmitType, OutputTypes
  <2> QED BY <2>1, <2>2, <2>3 DEF TypeOK
<1>3. CASE mr_server_estab(e)
  <2> DEFINE s == e.me
             x == e.peer
             shut == InProgress(s, x) \ {e}
  <2>1. PICK sids \in SetToSeqs({y \in Servers : server[s][y] # None}),
             uids \in SetToSeqs({u \in Uids : IsClient(s, u)}) :
          Transmit(s, e, shut,
            And(ToAll(s, SID(s, x)),
                [f \in Ends |-> IF f # e THEN <<>> ELSE
                  (IF e.role = "in" THEN <<SERVER>> ELSE <<>>)
                  \o [i \in DOMAIN sids |-> SID(server[s][sids[i]].servptr, sids[i])]
                  \o [i \in DOMAIN uids |->
                        UID(uids[i], client[s][uids[i]].nick, client[s][uids[i]].ts)]]))
    BY <1>3 DEF mr_server_estab
  <2> DEFINE burst == (IF e.role = "in" THEN <<SERVER>> ELSE <<>>)
                      \o [i \in DOMAIN sids |-> SID(server[s][sids[i]].servptr, sids[i])]
                      \o [i \in DOMAIN uids |->
                            UID(uids[i], client[s][uids[i]].nick, client[s][uids[i]].ts)]
  <2>2. s \in Servers /\ x \in Servers /\ queue[e] # <<>>
    BY <1>3 DEF mr_server_estab, Pending
  <2>3. burst \in Seq(Messages)
    BY <2>2, BurstType
  <2>4. Transmit(s, e, shut, And(ToAll(s, SID(s, x)),
                                 [f \in Ends |-> IF f # e THEN <<>> ELSE burst]))
    BY <2>1
  <2> HIDE DEF burst, shut
  <2>5. [f \in Ends |-> IF f # e THEN <<>> ELSE burst] \in Outputs
    BY <2>3 DEF Outputs
  <2>6. queue' \in [Ends -> Seq(Messages)]
    <3>1. SID(s, x) \in Messages
      BY <2>2, MessageTypes
    <3>2. ToAll(s, SID(s, x)) \in Outputs
      BY <3>1, Broadcasts
    <3>3. And(ToAll(s, SID(s, x)), [f \in Ends |-> IF f # e THEN <<>> ELSE burst]) \in Outputs
      BY <2>5, <3>2, OutputTypes
    <3> QED BY <2>2, <2>4, <3>3, TransmitType
  <2>7. link' \in [Ends -> {"down", "wait", "up"}]
    BY <1>3 DEF mr_server_estab, TypeOK
  <2>8. [from |-> e, servptr |-> s, path |-> {x}] \in ServerRecords
    BY <2>2 DEF ServerRecords
  <2>9. server' \in [Servers -> [Servers -> ServerRecords \cup {None}]]
    BY <1>3, <2>2, <2>8 DEF mr_server_estab, TypeOK
  <2> QED BY <1>3, <2>6, <2>7, <2>9 DEF mr_server_estab, TypeOK
<1>4. CASE link_break(e)
  <2> DEFINE note == IF link[e] = "up" THEN SQUIT(None, e.peer) ELSE EOF
             told == IF link[e] = "up" THEN LocalServers(e.me) \ {e} ELSE {}
  <2>1. spent' \in [Kinds -> Nat]
    BY <1>4, SpendType DEF link_break, Kinds
  <2>2. link' \in [Ends -> {"down", "wait", "up"}]
    BY <1>4, ShutType DEF link_break
  <2>3. /\ server' \in [Servers -> [Servers -> ServerRecords \cup {None}]]
        /\ client' \in [Servers -> [Uids -> ClientRecords \cup {None}]]
    BY <1>4, ForgetType DEF link_break, TypeOK
  <2>4. note \in Messages /\ EOF \in Messages
    BY MessageTypes
  <2>5. queue' = [f \in Ends |->
              IF f = e \/ link[f] = "down" THEN <<>>
              ELSE IF f = Other(e) THEN <<EOF>>
              ELSE IF Other(f) \in told THEN Append(queue[f], note) ELSE queue[f]]
    BY <1>4 DEF link_break
  <2> HIDE DEF note, told
  <2>6. <<>> \in Seq(Messages) /\ <<EOF>> \in Seq(Messages)
    BY <2>4
  <2>7. \A f \in Ends : Append(queue[f], note) \in Seq(Messages) /\ queue[f] \in Seq(Messages)
    BY <2>4 DEF TypeOK
  <2>8. queue' \in [Ends -> Seq(Messages)]
    BY <2>5, <2>6, <2>7
  <2> QED BY <1>4, <2>1, <2>2, <2>3, <2>8 DEF link_break, TypeOK
<1>5. CASE link_eof(e)
  <2>1. queue[e] # <<>> /\ UNCHANGED <<signon, spent>>
    BY <1>5 DEF link_eof, Pending
  <2>2. CASE link[e] = "up"
    <3>1. exit_link(e, e, SQUIT(None, e.peer), EOF)
      BY <1>5, <2>2 DEF link_eof
    <3>2. SQUIT(None, e.peer) \in Messages /\ EOF \in Messages
      BY MessageTypes
    <3> QED BY <2>1, <3>1, <3>2, ExitLinkType DEF TypeOK
  <2>3. CASE link[e] # "up"
    <3>1. Shut({e}) /\ Transmit(e.me, e, {e}, Silent) /\ UNCHANGED <<server, client>>
      BY <1>5, <2>3 DEF link_eof
    <3>2. queue' \in [Ends -> Seq(Messages)]
      BY <2>1, <3>1, TransmitType, OutputTypes
    <3> QED BY <2>1, <3>1, <3>2, ShutType DEF TypeOK
  <2> QED BY <2>2, <2>3
<1>6. CASE parse_reject(e)
  <2> DEFINE src == Source(e)
             answer == IF src \in Servers THEN SQUIT(e.me, src) ELSE KILL(e.me, src)
             out == IF HasId(e.me, src) THEN Silent ELSE SendTo({e}, answer)
  <2>1. queue[e] # <<>> /\ Transmit(e.me, e, {}, out)
    BY <1>6 DEF parse_reject
  <2>2. answer \in Messages
    BY <2>1, LineFacts, MessageTypes DEF Ids
  <2> HIDE DEF answer
  <2>3. out \in Outputs
    BY <2>2, OutputTypes
  <2> HIDE DEF out
  <2>4. queue' \in [Ends -> Seq(Messages)]
    BY <2>1, <2>3, TransmitType
  <2> QED BY <1>6, <2>4 DEF parse_reject, TypeOK
<1> QED BY <1>1, <1>2, <1>3, <1>4, <1>5, <1>6

(* SID, with its refusals, and SQUIT keep TypeOK. *)
LEMMA ServerStepType ==
    ASSUME TypeOK, NEW e \in Ends,
           ms_sid_collision(e) \/ ms_sid_refuse(e) \/ ms_sid(e) \/ ms_squit(e)
    PROVE  TypeOK'
<1> DEFINE s == e.me
           src == Source(e)
           obj == Line(e).obj
<1>0. s \in Servers /\ e.peer \in Servers /\ s # e.peer
  BY EndsFacts
<1>a. ASSUME Arrives(e, "SID")
      PROVE  /\ queue[e] # <<>> /\ obj \in Servers /\ src \in Servers
             /\ server[s][src] \in ServerRecords
  <2>1. /\ queue[e] # <<>> /\ Line(e) \in Messages /\ Line(e).type = "SID"
        /\ src \in Servers => server[s][src] \in ServerRecords
    BY <1>a, ArrivesFacts
  <2>2. obj \in Servers /\ src \in Servers
    BY <1>0, <2>1, MessageFields, NoneAssumption DEF Source, Ids
  <2> QED BY <2>1, <2>2
<1>1. CASE ms_sid_collision(e)
  <2>1. SQUIT(None, e.peer) \in Messages /\ SQUIT(e.me, e.me) \in Messages
    BY <1>0, MessageTypes DEF Ids
  <2>2. queue[e] # <<>>
    BY <1>1, <1>a DEF ms_sid_collision
  <2> QED BY <1>1, <2>1, <2>2, ExitLinkType DEF ms_sid_collision, TypeOK
<1>2. CASE ms_sid_refuse(e)
  <2> DEFINE shut == InProgress(s, obj)
             out == IF obj \in HubMask[s] THEN e.peer ELSE src
  <2>1. /\ queue[e] # <<>> /\ ForgetServers(s, Behind(s, out)) /\ out \in Servers
        /\ UNCHANGED <<signon, spent>>
    BY <1>0, <1>2, <1>a DEF ms_sid_refuse
  <2>2. /\ server' \in [Servers -> [Servers -> ServerRecords \cup {None}]]
        /\ client' \in [Servers -> [Uids -> ClientRecords \cup {None}]]
    BY <1>0, <2>1, ForgetType
  <2>3. SQUIT(None, out) \in Messages /\ SQUIT(s, s) \in Messages
    BY <1>0, <2>1, MessageTypes DEF Ids
  <2>4. CASE out = e.peer
    <3>1. /\ Shut(shut \cup {e})
          /\ Transmit(s, e, shut \cup {e},
               And(ToAllBut(s, e, SQUIT(None, out)), SendTo({e}, SQUIT(s, s))))
      BY <1>2, <2>4 DEF ms_sid_refuse
    <3>2. And(ToAllBut(s, e, SQUIT(None, out)), SendTo({e}, SQUIT(s, s))) \in Outputs
      BY <2>3, Broadcasts, OutputTypes
    <3>3. queue' \in [Ends -> Seq(Messages)]
      BY <2>1, <3>1, <3>2, TransmitType
    <3> QED BY <2>1, <2>2, <3>1, <3>3, ShutType DEF TypeOK
  <2>5. CASE out # e.peer
    <3>1. Shut(shut) /\ Transmit(s, e, shut, ToAll(s, SQUIT(None, out)))
      BY <1>2, <2>5 DEF ms_sid_refuse
    <3>2. ToAll(s, SQUIT(None, out)) \in Outputs
      BY <2>3, Broadcasts
    <3>3. queue' \in [Ends -> Seq(Messages)]
      BY <2>1, <3>1, <3>2, TransmitType
    <3> QED BY <2>1, <2>2, <3>1, <3>3, ShutType DEF TypeOK
  <2> QED BY <2>4, <2>5
<1>3. CASE ms_sid(e)
  <2> DEFINE shut == InProgress(s, obj)
             new == [from |-> e, servptr |-> src, path |-> server[s][src].path \cup {obj}]
  <2>1. /\ queue[e] # <<>> /\ obj \in Servers /\ src \in Servers
        /\ server[s][src] \in ServerRecords
        /\ server' = [server EXCEPT ![s][obj] = new]
        /\ Shut(shut) /\ Transmit(s, e, shut, ToAllBut(s, e, SID(src, obj)))
        /\ UNCHANGED <<client, signon, spent>>
    BY <1>3, <1>a DEF ms_sid
  <2>2. new \in ServerRecords
    BY <2>1 DEF ServerRecords
  <2> HIDE DEF new, shut
  <2>3. server' \in [Servers -> [Servers -> ServerRecords \cup {None}]]
    BY <1>0, <2>1, <2>2 DEF TypeOK
  <2>4. queue' \in [Ends -> Seq(Messages)]
    BY <2>1, MessageTypes, Broadcasts, TransmitType
  <2> QED BY <2>1, <2>3, <2>4, ShutType DEF TypeOK
<1>4. CASE ms_squit(e)
  <2> DEFINE x == IF obj = s THEN e.peer ELSE obj
  <2>1. Arrives(e, "SQUIT") /\ UNCHANGED <<signon, spent>>
    BY <1>4 DEF ms_squit
  <2>2. /\ queue[e] # <<>> /\ obj \in Servers /\ src \in Ids
        /\ x \in Servers /\ x # s
    BY <1>0, <2>1, ArrivesFacts, MessageFields
  <2>3. SQUIT(src, x) \in Messages /\ SQUIT(src, s) \in Messages
    BY <1>0, <2>2, MessageTypes
  <2>4. CASE ~Knows(s, x) /\ Transmit(s, e, {}, Silent) /\ UNCHANGED <<link, server, client>>
    <3>1. queue' \in [Ends -> Seq(Messages)]
      BY <2>2, <2>4, TransmitType, OutputTypes
    <3> QED BY <2>1, <2>4, <3>1 DEF TypeOK
  <2>5. CASE Knows(s, x) /\ exit_link(e, server[s][x].from, SQUIT(src, x), SQUIT(src, s))
    <3>1. server[s][x].from \in Ends
      BY <1>0, <2>2, <2>5 DEF Knows, TypeOK, ServerRecords
    <3> QED BY <2>1, <2>2, <2>3, <2>5, <3>1, ExitLinkType DEF TypeOK
  <2>6. CASE /\ ForgetServers(s, Behind(s, x))
             /\ Transmit(s, e, {}, ToAllBut(s, e, SQUIT(src, x)))
             /\ UNCHANGED link
    <3>1. queue' \in [Ends -> Seq(Messages)]
      BY <2>2, <2>3, <2>6, Broadcasts, TransmitType
    <3> QED BY <1>0, <2>1, <2>6, <3>1, ForgetType DEF TypeOK
  <2> QED BY <1>4, <2>4, <2>5, <2>6 DEF ms_squit
<1> QED BY <1>1, <1>2, <1>3, <1>4

(* What a local user does keeps TypeOK. *)
LEMMA LocalStepType ==
    ASSUME TypeOK, NEW u \in Uids,
           \/ \E n \in Nicks, ts \in Timestamps : mr_nick(u, n, ts) \/ m_nick(u, n, ts)
           \/ register_local_user(u) \/ register_bad_password(u) \/ m_quit(u)
    PROVE  TypeOK'
<1> DEFINE s == Home[u]
           c == client[s][u]
<1>0. s \in Servers /\ None \notin Ends
  BY NetworkAssumption, NoneAssumption
<1>a. c # None => c \in ClientRecords /\ c.nick \in Nicks /\ c.ts \in Timestamps
  BY <1>0 DEF TypeOK, ClientRecords
<1>b. Without(s, {u}) \in [Uids -> ClientRecords \cup {None}]
  BY <1>0, WithoutType
<1>1. ASSUME NEW n \in Nicks, NEW ts \in Timestamps, mr_nick(u, n, ts) PROVE TypeOK'
  <2>1. [client[s] EXCEPT ![u] = User(n, ts, "unknown")] \in [Uids -> ClientRecords \cup {None}]
    BY <1>0, UserType DEF TypeOK
  <2> QED BY <1>0, <1>1, <2>1, ClientsType DEF mr_nick, TypeOK
<1>2. ASSUME NEW n \in Nicks, NEW ts \in Timestamps, m_nick(u, n, ts) PROVE TypeOK'
  <2> DEFINE newts == IF c.nick = n THEN c.ts ELSE ts
             rest == Without(s, Holders(s, n))
  <2>1. newts \in Timestamps /\ rest \in [Uids -> ClientRecords \cup {None}]
    BY <1>0, <1>2, <1>a, WithoutType DEF m_nick, IsClient
  <2>2. spent' \in [Kinds -> Nat]
    BY <1>2, SpendType DEF m_nick, Kinds
  <2>3. CASE u \in Opers
    <3>1. /\ ClientsAt(s, [rest EXCEPT ![u] = User(n, newts, "client")])
          /\ Transmit(s, None, {}, ToAll(s, NICK(u, n, newts)))
      BY <1>2, <2>3 DEF m_nick
    <3> HIDE DEF newts, rest
    <3>2. [rest EXCEPT ![u] = User(n, newts, "client")] \in [Uids -> ClientRecords \cup {None}]
      BY <2>1, UserType
    <3>3. ToAll(s, NICK(u, n, newts)) \in Outputs
      BY <2>1, MessageTypes, Broadcasts
    <3>4. /\ queue' \in [Ends -> Seq(Messages)]
          /\ client' \in [Servers -> [Uids -> ClientRecords \cup {None}]]
      BY <1>0, <3>1, <3>2, <3>3, UserStepType
    <3> QED BY <1>2, <2>2, <3>4 DEF m_nick, TypeOK
  <2>4. CASE u \notin Opers
    <3>1. /\ ClientsAt(s, [rest EXCEPT ![u] = None])
          /\ Transmit(s, None, {}, ToAll(s, QUIT(u)))
      BY <1>2, <2>4 DEF m_nick
    <3> HIDE DEF newts, rest
    <3>2. [rest EXCEPT ![u] = None] \in [Uids -> ClientRecords \cup {None}]
      BY <2>1
    <3>3. ToAll(s, QUIT(u)) \in Outputs
      BY MessageTypes, Broadcasts
    <3>4. /\ queue' \in [Ends -> Seq(Messages)]
          /\ client' \in [Servers -> [Uids -> ClientRecords \cup {None}]]
      BY <1>0, <3>1, <3>2, <3>3, UserStepType
    <3> QED BY <1>2, <2>2, <3>4 DEF m_nick, TypeOK
  <2> QED BY <2>3, <2>4
<1>3. CASE register_local_user(u)
  <2>1. c \in ClientRecords /\ c.nick \in Nicks /\ c.ts \in Timestamps
    BY <1>3, <1>a DEF register_local_user, IsUnknown
  <2>2. [client[s] EXCEPT ![u] = User(c.nick, c.ts, "client")]
          \in [Uids -> ClientRecords \cup {None}]
    BY <1>0, <2>1, UserType DEF TypeOK
  <2>3. ToAll(s, UID(u, c.nick, c.ts)) \in Outputs
    BY <2>1, MessageTypes, Broadcasts
  <2>4. /\ queue' \in [Ends -> Seq(Messages)]
        /\ client' \in [Servers -> [Uids -> ClientRecords \cup {None}]]
    BY <1>0, <1>3, <2>2, <2>3, UserStepType DEF register_local_user
  <2> QED BY <1>3, <2>1, <2>4 DEF register_local_user, TypeOK
<1>4. CASE register_bad_password(u)
  <2>1. c \in ClientRecords /\ c.nick \in Nicks /\ c.ts \in Timestamps
    BY <1>4, <1>a DEF register_bad_password, IsUnknown
  <2>2. ToAll(s, QUIT(u)) \in Outputs
    BY MessageTypes, Broadcasts
  <2>3. /\ queue' \in [Ends -> Seq(Messages)]
        /\ client' \in [Servers -> [Uids -> ClientRecords \cup {None}]]
    BY <1>0, <1>4, <1>b, <2>2, UserStepType DEF register_bad_password
  <2>4. spent' \in [Kinds -> Nat]
    BY <1>4, SpendType DEF register_bad_password, Kinds
  <2> QED BY <1>4, <2>1, <2>3, <2>4 DEF register_bad_password, TypeOK
<1>5. CASE m_quit(u)
  <2> DEFINE out == IF IsClient(s, u) THEN ToAll(s, QUIT(u)) ELSE Silent
  <2>1. out \in Outputs
    BY MessageTypes, Broadcasts, OutputTypes
  <2>2. ClientsAt(s, Without(s, {u})) /\ Transmit(s, None, {}, out)
    BY <1>5 DEF m_quit
  <2> HIDE DEF out
  <2>3. /\ queue' \in [Ends -> Seq(Messages)]
        /\ client' \in [Servers -> [Uids -> ClientRecords \cup {None}]]
    BY <1>0, <1>b, <2>1, <2>2, UserStepType
  <2>4. spent' \in [Kinds -> Nat]
    BY <1>5, SpendType DEF m_quit, Kinds
  <2> QED BY <1>5, <2>3, <2>4 DEF m_quit, TypeOK
<1> QED BY <1>1, <1>2, <1>3, <1>4, <1>5

(* KILL and SQUIT by an operator keep TypeOK. *)
LEMMA OperStepType ==
    ASSUME TypeOK, NEW s \in Servers, NEW o \in Opers,
           \/ \E u \in Uids : mo_kill(s, o, u)
           \/ \E x \in Servers : mo_squit(s, o, x)
    PROVE  TypeOK'
<1>0. None \notin Ends /\ o \in Uids /\ o \in Ids
  BY NetworkAssumption, NoneAssumption DEF Ids
<1>1. ASSUME NEW u \in Uids, mo_kill(s, o, u) PROVE TypeOK'
  <2> DEFINE out == IF Home[u] # s THEN ToAll(s, KILL(o, u))
                    ELSE IF IsClient(s, u) THEN ToAll(s, QUIT(u)) ELSE Silent
  <2>1. out \in Outputs
    BY <1>0, MessageTypes, Broadcasts, OutputTypes
  <2>2. ClientsAt(s, Without(s, {u})) /\ Transmit(s, None, {}, out)
    BY <1>1 DEF mo_kill
  <2> HIDE DEF out
  <2>3. /\ queue' \in [Ends -> Seq(Messages)]
        /\ client' \in [Servers -> [Uids -> ClientRecords \cup {None}]]
    BY <1>0, <2>1, <2>2, WithoutType, UserStepType
  <2>4. spent' \in [Kinds -> Nat]
    BY <1>1, SpendType DEF mo_kill, Kinds
  <2> QED BY <1>1, <2>3, <2>4 DEF mo_kill, TypeOK
<1>2. ASSUME NEW x \in Servers, mo_squit(s, o, x) PROVE TypeOK'
  <2>1. spent' \in [Kinds -> Nat] /\ signon' = signon
    BY <1>2, SpendType DEF mo_squit, Kinds
  <2>2. SQUIT(o, x) \in Messages /\ SQUIT(o, s) \in Messages
    BY <1>0, MessageTypes
  <2>3. server[s][x].from \in Ends
    BY <1>2 DEF mo_squit, Knows, TypeOK, ServerRecords
  <2>4. CASE exit_link(None, server[s][x].from, SQUIT(o, x), SQUIT(o, s))
    BY <1>0, <2>1, <2>2, <2>3, <2>4, ExitLinkType DEF TypeOK
  <2>5. CASE /\ ForgetServers(s, Behind(s, x))
             /\ Transmit(s, None, {}, ToAll(s, SQUIT(o, x)))
             /\ UNCHANGED link
    <3>1. queue' \in [Ends -> Seq(Messages)]
      BY <1>0, <2>2, <2>5, Broadcasts, TransmitType
    <3> QED BY <2>1, <2>5, <3>1, ForgetType DEF TypeOK
  <2> QED BY <1>2, <2>4, <2>5 DEF mo_squit
<1> QED BY <1>1, <1>2

(* UID, NICK, QUIT and KILL of other servers keep TypeOK. *)
LEMMA RemoteStepType ==
    ASSUME TypeOK, NEW e \in Ends, ms_uid(e) \/ ms_nick(e) \/ ms_quit(e) \/ ms_kill(e)
    PROVE  TypeOK'
<1> DEFINE s == e.me
           m == Line(e)
<1>0. s \in Servers /\ s \in Ids
  BY EndsFacts DEF Ids
<1>a. \A U : Without(s, U) \in [Uids -> ClientRecords \cup {None}]
  BY <1>0, WithoutType
<1>b. \A u \in Uids : KILL(s, u) \in Messages
  BY <1>0, MessageTypes
<1>c. /\ \A u \in Uids : ToAll(s, KILL(s, u)) \in Outputs
      /\ \A u \in Uids : SendTo({e}, KILL(s, u)) \in Outputs
  BY <1>b, Broadcasts, OutputTypes
<1>d. ASSUME NEW f \in [Uids -> ClientRecords \cup {None}], NEW out \in Outputs,
             queue[e] # <<>>, ClientsAt(s, f) \/ UNCHANGED client,
             Transmit(s, e, {}, out), UNCHANGED <<link, server, signon, spent>>
      PROVE  TypeOK'
  <2>1. queue' \in [Ends -> Seq(Messages)]
    BY <1>d, TransmitType
  <2>2. client' \in [Servers -> [Uids -> ClientRecords \cup {None}]]
    BY <1>0, <1>d, ClientsType DEF TypeOK
  <2> QED BY <1>d, <2>1, <2>2 DEF TypeOK
<1>1. CASE ms_quit(e)
  <2>1. queue[e] # <<>> /\ m \in Messages /\ m.type = "QUIT"
    BY <1>1, ArrivesFacts DEF ms_quit
  <2>2. Source(e) \in Uids
    BY <2>1, MessageFields, NetworkAssumption, NoneAssumption DEF Source, Ids
  <2>3. ToAllBut(s, e, QUIT(Source(e))) \in Outputs
    BY <2>2, MessageTypes, Broadcasts
  <2> QED BY <1>1, <1>a, <1>d, <2>1, <2>3 DEF ms_quit
<1>2. CASE ms_kill(e)
  <2>1. queue[e] # <<>> /\ m \in Messages /\ m.type = "KILL" /\ Source(e) \in Ids
    BY <1>2, ArrivesFacts DEF ms_kill
  <2>2. KILL(Source(e), m.obj) \in Messages
    BY <2>1, MessageFields, MessageTypes
  <2>3. ToAllBut(s, e, KILL(Source(e), m.obj)) \in Outputs /\ Silent \in Outputs
    BY <2>2, Broadcasts, OutputTypes
  <2> QED BY <1>2, <1>a, <1>d, <2>1, <2>3 DEF ms_kill
<1>3. CASE ms_uid(e)
  <2>1. /\ queue[e] # <<>> /\ m \in Messages /\ m.type = "UID"
        /\ Arrives(e, "UID") /\ UNCHANGED <<link, server, signon, spent>>
    BY <1>3, ArrivesFacts DEF ms_uid
  <2>2. m.obj \in Uids
    BY <2>1, MessageFields
  <2>3. ASSUME NEW gone, NEW kills \in Outputs, uid_from_server(e, gone, kills)
        PROVE  TypeOK'
    BY <2>1, <2>3, UidFromServerType DEF TypeOK
  <2>4. CASE /\ ClientsAt(s, Without(s, {m.obj}))
             /\ Transmit(s, e, {}, ToAll(s, KILL(s, m.obj)))
    BY <1>a, <1>c, <1>d, <2>1, <2>2, <2>4
  <2>5. CASE uid_from_server(e, Holders(s, m.nick), Silent)
    BY <2>3, <2>5, OutputTypes
  <2>6. ASSUME NEW h \in Holders(s, m.nick), uid_collides(e, h) PROVE TypeOK'
    <3>1. h \in Uids
      BY DEF Holders
    <3>2. ToAll(s, KILL(s, h)) \in Outputs /\ SendTo({e}, KILL(s, m.obj)) \in Outputs
      BY <1>c, <2>2, <3>1
    <3>3. And(SendTo({e}, KILL(s, m.obj)), ToAll(s, KILL(s, h))) \in Outputs
      BY <3>2, OutputTypes
    <3>4. CASE uid_from_server(e, {h}, ToAll(s, KILL(s, h)))
      BY <2>3, <3>2, <3>4
    <3>5. CASE /\ ClientsAt(s, Without(s, {h}))
               /\ Transmit(s, e, {}, And(SendTo({e}, KILL(s, m.obj)), ToAll(s, KILL(s, h))))
      BY <1>a, <1>d, <2>1, <3>3, <3>5
    <3>6. CASE Transmit(s, e, {}, SendTo({e}, KILL(s, m.obj))) /\ UNCHANGED client
      BY <1>a, <1>d, <2>1, <3>2, <3>6
    <3> QED BY <2>6, <3>4, <3>5, <3>6 DEF uid_collides
  <2> QED BY <1>3, <2>4, <2>5, <2>6 DEF ms_uid
<1>4. CASE ms_nick(e)
  <2> DEFINE u == Source(e)
  <2>1. /\ queue[e] # <<>> /\ m \in Messages /\ m.type = "NICK"
        /\ Arrives(e, "NICK") /\ UNCHANGED <<link, server, signon, spent>>
    BY <1>4, ArrivesFacts DEF ms_nick
  <2>2. u \in Uids
    BY <2>1, MessageFields, NetworkAssumption, NoneAssumption DEF Source, Ids
  <2>3. ASSUME NEW gone, NEW kills \in Outputs, change_remote_nick(e, gone, kills)
        PROVE  TypeOK'
    BY <2>1, <2>3, ChangeRemoteNickType DEF TypeOK
  <2>4. CASE change_remote_nick(e, Holders(s, m.nick) \ {u}, Silent)
    BY <2>3, <2>4, OutputTypes
  <2>5. ASSUME NEW h \in Holders(s, m.nick) \ {u}, nick_collides(e, h) PROVE TypeOK'
    <3>1. h \in Uids
      BY DEF Holders
    <3>2. ToAll(s, KILL(s, h)) \in Outputs /\ ToAll(s, KILL(s, u)) \in Outputs
      BY <1>c, <2>2, <3>1
    <3>3. And(ToAll(s, KILL(s, u)), ToAll(s, KILL(s, h))) \in Outputs
      BY <3>2, OutputTypes
    <3>4. CASE change_remote_nick(e, {h}, ToAll(s, KILL(s, h)))
      BY <2>3, <3>2, <3>4
    <3>5. CASE /\ ClientsAt(s, Without(s, {u, h}))
               /\ Transmit(s, e, {}, And(ToAll(s, KILL(s, u)), ToAll(s, KILL(s, h))))
      BY <1>a, <1>d, <2>1, <3>3, <3>5
    <3>6. CASE ClientsAt(s, Without(s, {u})) /\ Transmit(s, e, {}, ToAll(s, KILL(s, u)))
      BY <1>a, <1>d, <2>1, <3>2, <3>6
    <3> QED BY <2>5, <3>4, <3>5, <3>6 DEF nick_collides
  <2> QED BY <1>4, <2>4, <2>5 DEF ms_nick
<1> QED BY <1>1, <1>2, <1>3, <1>4

(* Type correctness of the network: in particular every line in flight is   *)
(* well formed, however bursts, floods and repairs interleave (m_server.c,   *)
(* m_nick.c).                                                                *)
THEOREM TypeCorrect == Spec => []TypeOK
<1>1. TypeOK /\ [Next]_vars => TypeOK'
  <2> SUFFICES ASSUME TypeOK, [Next]_vars PROVE TypeOK'
    OBVIOUS
  <2>1. CASE Environment
    BY <2>1, LinkStepType, LocalStepType, OperStepType DEF Environment
  <2>2. ASSUME NEW e \in Ends, Receive(e) PROVE TypeOK'
    BY <2>2, LinkStepType, ServerStepType, RemoteStepType DEF Receive
  <2>3. CASE UNCHANGED vars
    BY <2>3 DEF vars, TypeOK
  <2> QED BY <2>1, <2>2, <2>3 DEF Next
<1> QED BY InitType, <1>1, PTL DEF Spec
-----------------------------------------------------------------------------
(* Nicknames are unique on every server.  NickUnique is inductive together   *)
(* with TypeOK: a step that gives a user a nick either finds no holder of it *)
(* or removes the one holder there is.                                       *)

LEMMA ForgetKeepsUnique ==
    ASSUME TypeOK, NickUnique, NEW s \in Servers, NEW U, ClientsAt(s, Without(s, U))
    PROVE  NickUnique'
BY DEF ClientsAt, Without, NickUnique, TypeOK

(* A nick whose holders are all removed, or are the user itself, may be given. *)
LEMMA NewNickUnique ==
    ASSUME TypeOK, NickUnique, NEW s \in Servers, NEW u \in Uids, NEW G,
           NEW n \in Nicks, NEW ts \in Timestamps, NEW st \in {"unknown", "client"},
           Holders(s, n) \subseteq G \cup {u},
           ClientsAt(s, [Without(s, G) EXCEPT ![u] = User(n, ts, st)])
    PROVE  NickUnique'
<1>1. User(n, ts, st).nick = n
  BY DEF User
<1>2. \A v \in Uids : client'[s][v] = IF v = u THEN User(n, ts, st)
                                      ELSE IF v \in G THEN None ELSE client[s][v]
  BY DEF ClientsAt, Without, TypeOK
<1>3. \A t \in Servers \ {s} : client'[t] = client[t]
  BY DEF ClientsAt, TypeOK
<1>4. \A v \in Uids : client[s][v] # None /\ client[s][v].nick = n => v \in G \cup {u}
  BY DEF Holders
<1> QED BY <1>1, <1>2, <1>3, <1>4 DEF NickUnique

(* Removing servers with their users keeps nicks unique. *)
LEMMA ExitKeepsUnique ==
    ASSUME TypeOK, NickUnique, NEW s \in Servers, NEW X, ForgetServers(s, X)
    PROVE  NickUnique'
BY ForgetKeepsUnique DEF ForgetServers

(* exit_client() of a server keeps nicks unique. *)
LEMMA ExitLinkKeepsUnique ==
    ASSUME TypeOK, NickUnique, NEW e, NEW l \in Ends, NEW note, NEW bye,
           exit_link(e, l, note, bye)
    PROVE  NickUnique'
BY EndsFacts, ExitKeepsUnique DEF exit_link

(* A step that leaves the user directories alone keeps nicks unique. *)
LEMMA SameClients ==
    ASSUME NickUnique, UNCHANGED client PROVE NickUnique'
BY DEF NickUnique

(* What happens to links and servers keeps nicks unique. *)
LEMMA LinkStepUnique ==
    ASSUME TypeOK, NickUnique, NEW e \in Ends,
           \/ serv_connect(e) \/ mr_server_refuse(e) \/ mr_server_estab(e)
           \/ link_break(e) \/ link_eof(e) \/ parse_reject(e)
           \/ ms_sid_collision(e) \/ ms_sid_refuse(e) \/ ms_sid(e) \/ ms_squit(e)
    PROVE  NickUnique'
<1> USE SameClients
<1>0. e.me \in Servers /\ e.peer \in Servers /\ e.me # e.peer
  BY EndsFacts
<1>1. CASE serv_connect(e) \/ mr_server_refuse(e) \/ mr_server_estab(e) \/ parse_reject(e)
  BY <1>1 DEF serv_connect, mr_server_refuse, mr_server_estab, parse_reject
<1>2. CASE link_break(e)
  BY <1>0, <1>2, ExitKeepsUnique DEF link_break
<1>3. CASE link_eof(e)
  BY <1>3, ExitLinkKeepsUnique DEF link_eof
<1>4. CASE ms_sid_collision(e)
  BY <1>4, ExitLinkKeepsUnique DEF ms_sid_collision
<1>5. CASE ms_sid_refuse(e)
  BY <1>0, <1>5, ExitKeepsUnique DEF ms_sid_refuse
<1>6. CASE ms_sid(e)
  BY <1>6 DEF ms_sid
<1>7. CASE ms_squit(e)
  <2> DEFINE x == IF Line(e).obj = e.me THEN e.peer ELSE Line(e).obj
  <2>0. Arrives(e, "SQUIT")
    BY <1>7 DEF ms_squit
  <2>1. x \in Servers /\ x # e.me
    BY <1>0, <2>0, ArrivesFacts, MessageFields
  <2>2. CASE Knows(e.me, x) /\ exit_link(e, server[e.me][x].from, SQUIT(Source(e), x),
                                         SQUIT(Source(e), e.me))
    <3>1. server[e.me][x].from \in Ends
      BY <1>0, <2>1, <2>2 DEF Knows, TypeOK, ServerRecords
    <3> QED BY <2>2, <3>1, ExitLinkKeepsUnique
  <2>3. CASE ForgetServers(e.me, Behind(e.me, x))
    BY <1>0, <2>3, ExitKeepsUnique
  <2> QED BY <1>7, <2>2, <2>3 DEF ms_squit
<1> QED BY <1>1, <1>2, <1>3, <1>4, <1>5, <1>6, <1>7

(* What a local user does keeps nicks unique. *)
LEMMA LocalStepUnique ==
    ASSUME TypeOK, NickUnique, NEW u \in Uids,
           \/ \E n \in Nicks, ts \in Timestamps : mr_nick(u, n, ts) \/ m_nick(u, n, ts)
           \/ register_local_user(u) \/ register_bad_password(u) \/ m_quit(u)
    PROVE  NickUnique'
<1> DEFINE s == Home[u]
           c == client[s][u]
<1>0. s \in Servers /\ client[s] = Without(s, {})
  BY NetworkAssumption DEF Without, TypeOK
<1>a. c # None => c \in ClientRecords /\ c.nick \in Nicks /\ c.ts \in Timestamps
  BY <1>0 DEF TypeOK, ClientRecords
<1>1. ASSUME NEW n \in Nicks, NEW ts \in Timestamps, mr_nick(u, n, ts) PROVE NickUnique'
  <2>1. ClientsAt(s, [Without(s, {}) EXCEPT ![u] = User(n, ts, "unknown")])
    BY <1>0, <1>1 DEF mr_nick
  <2>2. Holders(s, n) \subseteq {} \cup {u}
    BY <1>1 DEF mr_nick
  <2> QED BY <1>0, <2>1, <2>2, NewNickUnique
<1>2. ASSUME NEW n \in Nicks, NEW ts \in Timestamps, m_nick(u, n, ts) PROVE NickUnique'
  <2> DEFINE newts == IF c.nick = n THEN c.ts ELSE ts
             H == Holders(s, n)
  <2>1. newts \in Timestamps
    BY <1>2, <1>a DEF m_nick, IsClient
  <2>2. CASE u \in Opers
    <3>1. ClientsAt(s, [Without(s, H) EXCEPT ![u] = User(n, newts, "client")])
      BY <1>2, <2>2 DEF m_nick
    <3> HIDE DEF newts
    <3> QED BY <1>0, <2>1, <3>1, NewNickUnique
  <2>3. CASE u \notin Opers
    <3>1. ClientsAt(s, [Without(s, H) EXCEPT ![u] = None])
      BY <1>2, <2>3 DEF m_nick
    <3>2. [Without(s, H) EXCEPT ![u] = None] = Without(s, H \cup {u})
      BY DEF Without
    <3> QED BY <1>0, <3>1, <3>2, ForgetKeepsUnique
  <2> QED BY <2>2, <2>3
<1>3. CASE register_local_user(u)
  <2>1. c \in ClientRecords /\ c.nick \in Nicks /\ c.ts \in Timestamps /\ c # None
    BY <1>3, <1>a DEF register_local_user, IsUnknown
  <2>2. ClientsAt(s, [Without(s, {}) EXCEPT ![u] = User(c.nick, c.ts, "client")])
    BY <1>0, <1>3 DEF register_local_user
  <2>3. Holders(s, c.nick) \subseteq {} \cup {u}
    BY <1>0, <2>1 DEF Holders, NickUnique
  <2> QED BY <1>0, <2>1, <2>2, <2>3, NewNickUnique
<1>4. CASE register_bad_password(u)
  BY <1>0, <1>4, ForgetKeepsUnique DEF register_bad_password
<1>5. CASE m_quit(u)
  BY <1>0, <1>5, ForgetKeepsUnique DEF m_quit
<1> QED BY <1>1, <1>2, <1>3, <1>4, <1>5

(* UID, NICK, QUIT and KILL of other servers keep nicks unique. *)
LEMMA RemoteStepUnique ==
    ASSUME TypeOK, NickUnique, NEW e \in Ends,
           ms_uid(e) \/ ms_nick(e) \/ ms_quit(e) \/ ms_kill(e)
    PROVE  NickUnique'
<1> DEFINE s == e.me
           m == Line(e)
           u == Source(e)
<1> USE SameClients
<1>0. s \in Servers
  BY EndsFacts
<1>1. CASE ms_quit(e)
  BY <1>0, <1>1, ForgetKeepsUnique DEF ms_quit
<1>2. CASE ms_kill(e)
  BY <1>0, <1>2, ForgetKeepsUnique DEF ms_kill
<1>h. ASSUME NEW n, NEW h \in Holders(s, n) PROVE Holders(s, n) = {h}
  BY <1>0 DEF Holders, NickUnique
<1>3. CASE ms_uid(e)
  <2>1. m \in Messages /\ m.type = "UID"
    BY <1>3, ArrivesFacts DEF ms_uid
  <2>2. m.obj \in Uids /\ m.nick \in Nicks /\ m.ts \in Timestamps
    BY <2>1, MessageFields
  <2>3. ASSUME NEW gone, NEW kills, Holders(s, m.nick) \subseteq gone,
               uid_from_server(e, gone, kills)
        PROVE  NickUnique'
    <3>1. ClientsAt(s, [Without(s, gone) EXCEPT ![m.obj] = User(m.nick, m.ts, "client")])
      BY <2>3 DEF uid_from_server
    <3> QED BY <1>0, <2>2, <2>3, <3>1, NewNickUnique
  <2>4. ASSUME NEW h \in Holders(s, m.nick), uid_collides(e, h) PROVE NickUnique'
    <3>1. CASE uid_from_server(e, {h}, ToAll(s, KILL(s, h)))
      BY <1>h, <2>3, <3>1
    <3>2. CASE ClientsAt(s, Without(s, {h}))
      BY <1>0, <3>2, ForgetKeepsUnique
    <3> QED BY <2>4, <3>1, <3>2 DEF uid_collides
  <2>5. CASE uid_from_server(e, Holders(s, m.nick), Silent)
    BY <2>3, <2>5
  <2>6. CASE ClientsAt(s, Without(s, {m.obj}))
    BY <1>0, <2>6, ForgetKeepsUnique
  <2> QED BY <1>3, <2>4, <2>5, <2>6 DEF ms_uid
<1>4. CASE ms_nick(e)
  <2>1. m \in Messages /\ m.type = "NICK" /\ Arrives(e, "NICK")
    BY <1>4, ArrivesFacts DEF ms_nick
  <2>2. u \in Uids /\ m.nick \in Nicks /\ m.ts \in Timestamps
    BY <2>1, MessageFields, NetworkAssumption, NoneAssumption DEF Source, Ids
  <2>3. ASSUME NEW gone, NEW kills, Holders(s, m.nick) \subseteq gone \cup {u},
               change_remote_nick(e, gone, kills)
        PROVE  NickUnique'
    <3> DEFINE ts == IF client[s][u].nick = m.nick THEN client[s][u].ts ELSE m.ts
    <3>1. ts \in Timestamps
      BY <2>1, <2>2, ArrivesFacts DEF ClientRecords
    <3>2. ClientsAt(s, [Without(s, gone) EXCEPT ![u] = User(m.nick, ts, "client")])
      BY <2>3 DEF change_remote_nick
    <3> HIDE DEF ts
    <3> QED BY <1>0, <2>2, <2>3, <3>1, <3>2, NewNickUnique
  <2>4. ASSUME NEW h \in Holders(s, m.nick) \ {u}, nick_collides(e, h) PROVE NickUnique'
    <3>1. CASE change_remote_nick(e, {h}, ToAll(s, KILL(s, h)))
      BY <1>h, <2>3, <3>1
    <3>2. CASE ClientsAt(s, Without(s, {u, h})) \/ ClientsAt(s, Without(s, {u}))
      BY <1>0, <3>2, ForgetKeepsUnique
    <3> QED BY <2>4, <3>1, <3>2 DEF nick_collides
  <2>5. CASE change_remote_nick(e, Holders(s, m.nick) \ {u}, Silent)
    BY <2>3, <2>5
  <2> QED BY <1>4, <2>4, <2>5 DEF ms_nick
<1> QED BY <1>1, <1>2, <1>3, <1>4

(* KILL and SQUIT by an operator keep nicks unique. *)
LEMMA OperStepUnique ==
    ASSUME TypeOK, NickUnique, NEW s \in Servers, NEW o \in Opers,
           \/ \E u \in Uids : mo_kill(s, o, u)
           \/ \E x \in Servers : mo_squit(s, o, x)
    PROVE  NickUnique'
<1>1. ASSUME NEW u \in Uids, mo_kill(s, o, u) PROVE NickUnique'
  BY <1>1, ForgetKeepsUnique DEF mo_kill
<1>2. ASSUME NEW x \in Servers, mo_squit(s, o, x) PROVE NickUnique'
  <2>1. server[s][x].from \in Ends
    BY <1>2 DEF mo_squit, Knows, TypeOK, ServerRecords
  <2>2. CASE exit_link(None, server[s][x].from, SQUIT(o, x), SQUIT(o, s))
    BY <2>1, <2>2, ExitLinkKeepsUnique
  <2>3. CASE ForgetServers(s, Behind(s, x))
    BY <2>3, ExitKeepsUnique
  <2> QED BY <1>2, <2>2, <2>3 DEF mo_squit
<1> QED BY <1>1, <1>2

(* No server ever has two users with one nick, for any network and any      *)
(* interleaving of sign ons, nick changes, collisions and splits: the hash   *)
(* table of names (hash_find_client) has one entry per nick.                 *)
THEOREM NicksStayUnique == Spec => []NickUnique
<1>1. Init => NickUnique
  BY DEF Init, NickUnique
<1>2. TypeOK /\ NickUnique /\ [Next]_vars => NickUnique'
  <2> SUFFICES ASSUME TypeOK, NickUnique, [Next]_vars PROVE NickUnique'
    OBVIOUS
  <2>1. CASE Environment
    BY <2>1, LinkStepUnique, LocalStepUnique, OperStepUnique DEF Environment
  <2>2. ASSUME NEW e \in Ends, Receive(e) PROVE NickUnique'
    BY <2>2, LinkStepUnique, RemoteStepUnique DEF Receive
  <2>3. CASE UNCHANGED vars
    BY <2>3, SameClients DEF vars
  <2> QED BY <2>1, <2>2, <2>3 DEF Next
<1> QED BY <1>1, <1>2, TypeCorrect, PTL DEF Spec
-----------------------------------------------------------------------------
(* Reachable is inductive together with TypeOK: a server is added below one  *)
(* that is known by the same link, and whatever is removed is removed with   *)
(* everything behind it.                                                     *)

LinksKept == \A e \in Ends : link[e] = "up" => link'[e] = "up"

(* While no link goes down and directories stay, everything stays reachable. *)
LEMMA LinksKeptReachable ==
    ASSUME TypeOK, Reachable, LinksKept, UNCHANGED <<server, client>>
    PROVE  Reachable'
<1>1. \A s \in Servers : LocalServers(s) \subseteq LocalServers(s)'
  BY DEF LinksKept, LocalServers, Local
<1>2. ASSUME NEW s \in Servers, NEW x \in Servers, server[s][x] # None
      PROVE  ServerReachable(s, x)'
  BY <1>1, <1>2 DEF Reachable, ServerReachable
<1>3. ASSUME NEW s \in Servers, NEW u \in Uids, client[s][u] # None
      PROVE  UserReachable(s, u)'
  BY <1>3 DEF Reachable, UserReachable, Knows, IsClient
<1> QED BY <1>2, <1>3 DEF Reachable

(* New user directories whose remote users have a known home server stay reachable. *)
LEMMA UsersChangeReachable ==
    ASSUME TypeOK, Reachable, UNCHANGED <<link, server>>, NEW s \in Servers,
           NEW f \in [Uids -> ClientRecords \cup {None}], ClientsAt(s, f),
           \A u \in Uids : f[u] # None /\ Home[u] # s =>
               server[s][Home[u]] # None /\ f[u].status = "client"
    PROVE  Reachable'
<1>1. ASSUME NEW t \in Servers, NEW x \in Servers, server[t][x] # None
      PROVE  ServerReachable(t, x)'
  BY <1>1 DEF Reachable, ServerReachable, LocalServers
<1>2. client'[s] = f /\ \A t \in Servers \ {s} : client'[t] = client[t]
  BY DEF ClientsAt, TypeOK
<1>3. ASSUME NEW t \in Servers, NEW u \in Uids, client'[t][u] # None
      PROVE  UserReachable(t, u)'
  <2>1. CASE t = s
    BY <1>2, <1>3, <2>1 DEF UserReachable, Knows, IsClient
  <2>2. CASE t # s
    BY <1>2, <1>3, <2>2 DEF Reachable, UserReachable, Knows, IsClient
  <2> QED BY <2>1, <2>2
<1> QED BY <1>1, <1>3 DEF Reachable

(* When a link goes down, removing all that is behind it leaves only what has a route. *)
LEMMA ForgetReachable ==
    ASSUME TypeOK, Reachable, NEW s \in Servers, NEW x \in Servers,
           ForgetServers(s, Behind(s, x)),
           \A e \in Ends : link[e] = "up" /\ link'[e] # "up" => e.me = s /\ e.peer = x
    PROVE  Reachable'
<1> DEFINE B == Behind(s, x)
<1>1. /\ \A y \in Servers : server'[s][y] = IF y \in B THEN None ELSE server[s][y]
      /\ \A t \in Servers \ {s} : server'[t] = server[t] /\ client'[t] = client[t]
      /\ \A u \in Uids : client'[s][u] = IF Home[u] \in B THEN None ELSE client[s][u]
  BY DEF ForgetServers, ClientsAt, Without, TypeOK
<1>2. \A y \in Servers : server[s][y] # None /\ y \notin B => x \notin server[s][y].path
  BY DEF Behind
<1>3. ASSUME NEW t \in Servers, NEW y \in Servers, server'[t][y] # None
      PROVE  ServerReachable(t, y)'
  <2>1. server'[t][y] = server[t][y] /\ ServerReachable(t, y)
    BY <1>1, <1>3 DEF Reachable
  <2>2. CASE t # s
    <3>1. server[t][y].from \in LocalServers(t)'
      BY <2>1, <2>2 DEF ServerReachable, LocalServers, Local
    <3> QED BY <1>1, <2>1, <2>2, <3>1 DEF ServerReachable
  <2>3. CASE t = s
    <3>1. y \notin B /\ x \notin server[s][y].path
      BY <1>1, <1>2, <1>3, <2>3
    <3>2. server[s][y].from \in LocalServers(s)'
      BY <2>1, <2>3, <3>1 DEF ServerReachable, LocalServers, Local
    <3>3. server[s][y] \in ServerRecords
      BY <1>3, <2>1, <2>3 DEF TypeOK
    <3>4. \A z \in server[s][y].path : z \in Servers /\ x \notin server[s][z].path
      BY <2>1, <2>3, <3>1, <3>3 DEF ServerReachable, ServerRecords
    <3>5. \A z \in server[s][y].path : z \notin B
      BY <3>4 DEF Behind
    <3>6. \A z \in server[s][y].path : server'[s][z] = server[s][z]
      BY <1>1, <3>4, <3>5
    <3> QED BY <2>1, <2>3, <3>2, <3>6 DEF ServerReachable
  <2> QED BY <2>2, <2>3
<1>4. ASSUME NEW t \in Servers, NEW u \in Uids, client'[t][u] # None
      PROVE  UserReachable(t, u)'
  <2>1. client'[t][u] = client[t][u] /\ UserReachable(t, u)
    BY <1>1, <1>4 DEF Reachable
  <2>2. Home[u] \in Servers
    BY NetworkAssumption
  <2>3. Home[u] # t => server'[t][Home[u]] = server[t][Home[u]]
    BY <1>1, <1>4, <2>2
  <2> QED BY <2>1, <2>3 DEF UserReachable, Knows, IsClient
<1>5. \A t \in Servers : server'[t][t] = None
  BY <1>1 DEF Reachable
<1> QED BY <1>3, <1>4, <1>5 DEF Reachable

(* A server introduced by a link that is up, with a closed path, has a route. *)
LEMMA AddServerReachable ==
    ASSUME TypeOK, Reachable, LinksKept, UNCHANGED client,
           NEW s \in Servers, NEW x \in Servers, x # s, server[s][x] = None,
           NEW r \in ServerRecords, server'[s][x] = r,
           \A y \in Servers \ {x} : server'[s][y] = server[s][y],
           \A t \in Servers \ {s} : server'[t] = server[t],
           r.from \in Local(s), link'[r.from] = "up",
           {x, r.from.peer} \subseteq r.path, r.servptr \in r.path \cup {s},
           \A y \in r.path \ {x} : /\ server[s][y] # None
                                   /\ server[s][y].from = r.from
                                   /\ server[s][y].path \subseteq r.path
    PROVE  Reachable'
<1>1. /\ server'[s][x] = r
      /\ \A y \in Servers \ {x} : server'[s][y] = server[s][y]
      /\ \A t \in Servers \ {s} : server'[t] = server[t]
  OBVIOUS
<1>2. \A t \in Servers : LocalServers(t) \subseteq LocalServers(t)'
  BY DEF LinksKept, LocalServers, Local
<1>3. ASSUME NEW t \in Servers, NEW y \in Servers, server'[t][y] # None
      PROVE  ServerReachable(t, y)'
  <2>1. CASE t = s /\ y = x
    <3>1. r.from \in LocalServers(s)' /\ r.path \subseteq Servers
      BY DEF LocalServers, Local, ServerRecords
    <3> QED BY <1>1, <2>1, <3>1, NoneAssumption DEF ServerReachable
  <2>2. CASE ~(t = s /\ y = x)
    <3>1. server'[t][y] = server[t][y] /\ server[t][y] # None
      BY <1>1, <1>3, <2>2
    <3>2. ServerReachable(t, y) /\ server[t][y] \in ServerRecords
      BY <3>1 DEF Reachable, TypeOK
    <3>3. \A z \in server[t][y].path : server'[t][z] = server[t][z]
      BY <1>1, <3>2 DEF ServerReachable, ServerRecords
    <3> QED BY <1>2, <3>1, <3>2, <3>3 DEF ServerReachable
  <2> QED BY <2>1, <2>2
<1>4. ASSUME NEW t \in Servers, NEW u \in Uids, client'[t][u] # None
      PROVE  UserReachable(t, u)'
  <2>1. UserReachable(t, u) /\ Home[u] \in Servers
    BY <1>4, NetworkAssumption DEF Reachable
  <2>2. server[t][Home[u]] # None => server'[t][Home[u]] # None
    BY <1>1, <2>1
  <2> QED BY <2>1, <2>2 DEF UserReachable, Knows, IsClient
<1>5. \A t \in Servers : server'[t][t] = None
  BY <1>1 DEF Reachable
<1> QED BY <1>3, <1>4, <1>5 DEF Reachable

(* Connections that are not established yet carry nothing.                  *)
LEMMA ShutWaiting ==
    ASSUME TypeOK, NEW E, Shut(E), \A e \in E : e \in Ends => link[e] # "up"
    PROVE  LinksKept
BY DEF Shut, LinksKept, TypeOK

(* exit_client() of a server leaves only what has a route. *)
LEMMA ExitLinkReachable ==
    ASSUME TypeOK, Reachable, NEW e, NEW l \in Ends, NEW note, NEW bye,
           exit_link(e, l, note, bye)
    PROVE  Reachable'
<1>1. l.me \in Servers /\ l.peer \in Servers
  BY EndsFacts
<1>2. \A f \in Ends : link[f] = "up" /\ link'[f] # "up" => f.me = l.me /\ f.peer = l.peer
  BY DEF exit_link, Shut
<1>3. ForgetServers(l.me, Behind(l.me, l.peer))
  BY DEF exit_link
<1> QED BY <1>1, <1>2, <1>3, ForgetReachable

(* Connecting, the handshake, a lost link and refused lines keep everything reachable. *)
LEMMA LinkStepReachable ==
    ASSUME TypeOK, Reachable, NEW e \in Ends,
           \/ serv_connect(e) \/ mr_server_refuse(e) \/ mr_server_estab(e)
           \/ link_break(e) \/ link_eof(e) \/ parse_reject(e)
    PROVE  Reachable'
<1>0. e.me \in Servers /\ e.peer \in Servers /\ e.me # e.peer /\ e \in Local(e.me)
  BY EndsFacts DEF Local
<1>1. CASE serv_connect(e)
  <2>1. LinksKept
    BY <1>1 DEF serv_connect, LinksKept, TypeOK
  <2> QED BY <1>1, <2>1, LinksKeptReachable DEF serv_connect
<1>2. CASE mr_server_refuse(e)
  <2> DEFINE shut == {e} \cup (IF Knows(e.me, e.peer) THEN {} ELSE InProgress(e.me, e.peer) \ {e})
  <2>1. Shut(shut) /\ link[e] = "wait" /\ UNCHANGED <<server, client>>
    BY <1>2 DEF mr_server_refuse
  <2>2. \A f \in shut : link[f] # "up"
    BY <2>1 DEF InProgress
  <2> HIDE DEF shut
  <2> QED BY <2>1, <2>2, ShutWaiting, LinksKeptReachable
<1>3. CASE mr_server_estab(e)
  <2> DEFINE r == [from |-> e, servptr |-> e.me, path |-> {e.peer}]
  <2>1. /\ link' = [f \in Ends |-> IF f = e THEN "up"
                                   ELSE IF f \in InProgress(e.me, e.peer) \ {e} THEN "down"
                                   ELSE link[f]]
        /\ server' = [server EXCEPT ![e.me][e.peer] = r]
        /\ UNCHANGED client /\ server[e.me][e.peer] = None
    BY <1>3 DEF mr_server_estab, Knows
  <2>2. LinksKept /\ link'[e] = "up"
    BY <2>1 DEF LinksKept, InProgress
  <2>3. r \in ServerRecords
    BY <1>0 DEF ServerRecords
  <2>4. /\ server'[e.me][e.peer] = r
        /\ \A y \in Servers \ {e.peer} : server'[e.me][y] = server[e.me][y]
        /\ \A t \in Servers \ {e.me} : server'[t] = server[t]
    BY <1>0, <2>1 DEF TypeOK
  <2>5. r.from = e /\ r.servptr = e.me /\ r.path = {e.peer}
    OBVIOUS
  <2> HIDE DEF r
  <2> QED BY <1>0, <2>1, <2>2, <2>3, <2>4, <2>5, AddServerReachable
<1>4. CASE link_break(e)
  <2>1. \A f \in Ends : link[f] = "up" /\ link'[f] # "up" => f = e
    BY <1>4 DEF link_break, Shut
  <2>2. CASE link[e] = "up"
    BY <1>0, <1>4, <2>1, <2>2, ForgetReachable DEF link_break
  <2>3. CASE link[e] # "up"
    <3>1. LinksKept /\ UNCHANGED <<server, client>>
      BY <1>4, <2>1, <2>3 DEF link_break, LinksKept
    <3> QED BY <3>1, LinksKeptReachable
  <2> QED BY <2>2, <2>3
<1>5. CASE link_eof(e)
  <2>1. CASE link[e] = "up"
    BY <1>5, <2>1, ExitLinkReachable DEF link_eof
  <2>2. CASE link[e] # "up"
    BY <1>5, <2>2, ShutWaiting, LinksKeptReachable DEF link_eof
  <2> QED BY <2>1, <2>2
<1>6. CASE parse_reject(e)
  BY <1>6, LinksKeptReachable DEF parse_reject, LinksKept
<1> QED BY <1>1, <1>2, <1>3, <1>4, <1>5, <1>6

(* SID, with its refusals, and SQUIT keep everything reachable. *)
LEMMA ServerStepReachable ==
    ASSUME TypeOK, Reachable, NEW e \in Ends,
           ms_sid_collision(e) \/ ms_sid_refuse(e) \/ ms_sid(e) \/ ms_squit(e)
    PROVE  Reachable'
<1> DEFINE s == e.me
           src == Source(e)
           obj == Line(e).obj
<1>0. s \in Servers /\ e.peer \in Servers /\ s # e.peer /\ e \in Local(s)
  BY EndsFacts DEF Local
<1>a. ASSUME Arrives(e, "SID")
      PROVE  /\ link[e] = "up" /\ obj \in Servers /\ src \in Servers
             /\ server[s][src] \in ServerRecords /\ server[s][src] # None
             /\ server[s][src].from = e
  <2>1. /\ link[e] = "up" /\ Line(e) \in Messages /\ Line(e).type = "SID"
        /\ src \in Servers => /\ server[s][src] \in ServerRecords
                              /\ server[s][src].from = e
    BY <1>a, ArrivesFacts
  <2>2. obj \in Servers /\ src \in Servers
    BY <1>0, <2>1, MessageFields, NoneAssumption DEF Source, Ids
  <2> QED BY <2>1, <2>2, NoneAssumption
<1>1. CASE ms_sid_collision(e)
  BY <1>1, ExitLinkReachable DEF ms_sid_collision
<1>2. CASE ms_sid_refuse(e)
  <2> DEFINE shut == InProgress(s, obj)
             out == IF obj \in HubMask[s] THEN e.peer ELSE src
  <2>1. ForgetServers(s, Behind(s, out)) /\ out \in Servers
    BY <1>0, <1>2, <1>a DEF ms_sid_refuse
  <2>2. \A f \in shut : link[f] # "up"
    BY DEF InProgress
  <2>3. CASE out = e.peer
    <3>1. Shut(shut \cup {e})
      BY <1>2, <2>3 DEF ms_sid_refuse
    <3>2. \A f \in Ends : link[f] = "up" /\ link'[f] # "up" => f = e
      BY <2>2, <3>1 DEF Shut
    <3> QED BY <1>0, <2>1, <2>3, <3>2, ForgetReachable
  <2>4. CASE out # e.peer
    <3>1. Shut(shut)
      BY <1>2, <2>4 DEF ms_sid_refuse
    <3>2. \A f \in Ends : link[f] = "up" => link'[f] = "up"
      BY <2>2, <3>1 DEF Shut
    <3> QED BY <1>0, <2>1, <3>2, ForgetReachable
  <2> QED BY <2>3, <2>4
<1>3. CASE ms_sid(e)
  <2> DEFINE P == server[s][src].path
             r == [from |-> e, servptr |-> src, path |-> P \cup {obj}]
  <2>1. /\ link[e] = "up" /\ obj \in Servers /\ src \in Servers
        /\ server[s][src] \in ServerRecords /\ server[s][src].from = e
        /\ server[s][src] # None
    BY <1>3, <1>a DEF ms_sid
  <2>2. /\ obj # s /\ server[s][obj] = None
        /\ server' = [server EXCEPT ![s][obj] = r]
        /\ Shut(InProgress(s, obj)) /\ UNCHANGED client
    BY <1>3 DEF ms_sid, Knows
  <2>3. LinksKept
    BY <2>2, ShutWaiting DEF InProgress
  <2>4. link'[e] = "up"
    BY <2>1, <2>3 DEF LinksKept
  <2>5. r \in ServerRecords
    BY <2>1 DEF ServerRecords
  <2>6. ServerReachable(s, src)
    BY <1>0, <2>1 DEF Reachable
  <2>7. /\ src \in P /\ e.peer \in P
        /\ \A y \in P : /\ server[s][y] # None /\ server[s][y].from = e
                        /\ server[s][y].path \subseteq P
    BY <2>1, <2>6 DEF ServerReachable
  <2>8. /\ r.from = e /\ r.servptr = src /\ r.path = P \cup {obj}
    OBVIOUS
  <2>9. /\ {obj, r.from.peer} \subseteq r.path /\ r.servptr \in r.path \cup {s}
        /\ \A y \in r.path \ {obj} : /\ server[s][y] # None
                                     /\ server[s][y].from = r.from
                                     /\ server[s][y].path \subseteq r.path
    BY <2>7, <2>8
  <2>10. /\ server'[s][obj] = r
         /\ \A y \in Servers \ {obj} : server'[s][y] = server[s][y]
         /\ \A t \in Servers \ {s} : server'[t] = server[t]
    BY <1>0, <2>1, <2>2 DEF TypeOK
  <2> HIDE DEF r, s, src, obj
  <2> QED BY <1>0, <2>1, <2>2, <2>3, <2>4, <2>5, <2>8, <2>9, <2>10, AddServerReachable
<1>4. CASE ms_squit(e)
  <2> DEFINE x == IF obj = s THEN e.peer ELSE obj
  <2>0. Arrives(e, "SQUIT")
    BY <1>4 DEF ms_squit
  <2>1. x \in Servers /\ x # s
    BY <1>0, <2>0, ArrivesFacts, MessageFields
  <2>2. CASE Knows(s, x) /\ exit_link(e, server[s][x].from, SQUIT(src, x), SQUIT(src, s))
    <3>1. server[s][x].from \in Ends
      BY <1>0, <2>1, <2>2 DEF Knows, TypeOK, ServerRecords
    <3> QED BY <2>2, <3>1, ExitLinkReachable
  <2>3. CASE ForgetServers(s, Behind(s, x)) /\ UNCHANGED link
    BY <1>0, <2>1, <2>3, ForgetReachable
  <2>4. CASE UNCHANGED <<link, server, client>>
    BY <2>4, LinksKeptReachable DEF LinksKept
  <2> QED BY <1>4, <2>2, <2>3, <2>4 DEF ms_squit
<1> QED BY <1>1, <1>2, <1>3, <1>4

(* Removing users, and giving a nick to a user whose server is known.       *)
LEMMA RemoveUsersReachable ==
    ASSUME TypeOK, Reachable, UNCHANGED <<link, server>>, NEW s \in Servers, NEW U,
           ClientsAt(s, Without(s, U))
    PROVE  Reachable'
<1>1. Without(s, U) \in [Uids -> ClientRecords \cup {None}]
  BY WithoutType
<1>2. \A u \in Uids : Without(s, U)[u] # None =>
        Without(s, U)[u] = client[s][u] /\ client[s][u] # None
  BY DEF Without
<1>3. \A u \in Uids : client[s][u] # None /\ Home[u] # s =>
        server[s][Home[u]] # None /\ client[s][u].status = "client"
  BY DEF Reachable, UserReachable, Knows, IsClient
<1> QED BY <1>1, <1>2, <1>3, UsersChangeReachable

(* Giving a user of a known server a nick keeps everything reachable. *)
LEMMA SetUserReachable ==
    ASSUME TypeOK, Reachable, UNCHANGED <<link, server>>, NEW s \in Servers, NEW U,
           NEW u \in Uids, NEW n \in Nicks, NEW ts \in Timestamps,
           NEW st \in {"unknown", "client"},
           Home[u] # s => server[s][Home[u]] # None /\ st = "client",
           ClientsAt(s, [Without(s, U) EXCEPT ![u] = User(n, ts, st)])
    PROVE  Reachable'
<1> DEFINE f == [Without(s, U) EXCEPT ![u] = User(n, ts, st)]
<1>1. f \in [Uids -> ClientRecords \cup {None}]
  BY WithoutType, UserType
<1>2. \A v \in Uids : f[v] # None =>
        IF v = u THEN f[v].status = st ELSE f[v] = client[s][v] /\ client[s][v] # None
  BY DEF Without, User
<1>3. \A v \in Uids : client[s][v] # None /\ Home[v] # s =>
        server[s][Home[v]] # None /\ client[s][v].status = "client"
  BY DEF Reachable, UserReachable, Knows, IsClient
<1>4. \A v \in Uids : f[v] # None /\ Home[v] # s =>
        server[s][Home[v]] # None /\ f[v].status = "client"
  BY <1>2, <1>3
<1> HIDE DEF f
<1>5. ClientsAt(s, f)
  BY DEF f
<1> QED BY <1>1, <1>4, <1>5, UsersChangeReachable

(* What a local user does keeps everything reachable. *)
LEMMA LocalStepReachable ==
    ASSUME TypeOK, Reachable, NEW u \in Uids,
           \/ \E n \in Nicks, ts \in Timestamps : mr_nick(u, n, ts) \/ m_nick(u, n, ts)
           \/ register_local_user(u) \/ register_bad_password(u) \/ m_quit(u)
    PROVE  Reachable'
<1> DEFINE s == Home[u]
           c == client[s][u]
<1>0. s \in Servers /\ client[s] = Without(s, {})
  BY NetworkAssumption DEF Without, TypeOK
<1>a. c # None => c.nick \in Nicks /\ c.ts \in Timestamps
  BY <1>0 DEF TypeOK, ClientRecords
<1>1. ASSUME NEW n \in Nicks, NEW ts \in Timestamps, mr_nick(u, n, ts) PROVE Reachable'
  <2>1. /\ ClientsAt(s, [Without(s, {}) EXCEPT ![u] = User(n, ts, "unknown")])
        /\ UNCHANGED <<link, server>>
    BY <1>0, <1>1 DEF mr_nick
  <2> QED BY <1>0, <2>1, SetUserReachable
<1>2. ASSUME NEW n \in Nicks, NEW ts \in Timestamps, m_nick(u, n, ts) PROVE Reachable'
  <2> DEFINE newts == IF c.nick = n THEN c.ts ELSE ts
             H == Holders(s, n)
  <2>1. newts \in Timestamps
    BY <1>2, <1>a DEF m_nick, IsClient
  <2>2. CASE u \in Opers
    <3>1. /\ ClientsAt(s, [Without(s, H) EXCEPT ![u] = User(n, newts, "client")])
          /\ UNCHANGED <<link, server>>
      BY <1>2, <2>2 DEF m_nick
    <3> HIDE DEF newts, H
    <3> QED BY <1>0, <2>1, <3>1, SetUserReachable
  <2>3. CASE u \notin Opers
    <3>1. ClientsAt(s, [Without(s, H) EXCEPT ![u] = None]) /\ UNCHANGED <<link, server>>
      BY <1>2, <2>3 DEF m_nick
    <3>2. [Without(s, H) EXCEPT ![u] = None] = Without(s, H \cup {u})
      BY DEF Without
    <3> QED BY <1>0, <3>1, <3>2, RemoveUsersReachable
  <2> QED BY <2>2, <2>3
<1>3. CASE register_local_user(u)
  <2>1. c.nick \in Nicks /\ c.ts \in Timestamps
    BY <1>3, <1>a DEF register_local_user, IsUnknown
  <2>2. /\ ClientsAt(s, [Without(s, {}) EXCEPT ![u] = User(c.nick, c.ts, "client")])
        /\ UNCHANGED <<link, server>>
    BY <1>0, <1>3 DEF register_local_user
  <2> QED BY <1>0, <2>1, <2>2, SetUserReachable
<1>4. CASE register_bad_password(u)
  BY <1>0, <1>4, RemoveUsersReachable DEF register_bad_password
<1>5. CASE m_quit(u)
  BY <1>0, <1>5, RemoveUsersReachable DEF m_quit
<1> QED BY <1>1, <1>2, <1>3, <1>4, <1>5

(* UID, NICK, QUIT and KILL of other servers keep everything reachable. *)
LEMMA RemoteStepReachable ==
    ASSUME TypeOK, Reachable, NEW e \in Ends,
           ms_uid(e) \/ ms_nick(e) \/ ms_quit(e) \/ ms_kill(e)
    PROVE  Reachable'
<1> DEFINE s == e.me
           m == Line(e)
           u == Source(e)
<1>0. s \in Servers
  BY EndsFacts
<1>a. ASSUME UNCHANGED <<link, server, client>> PROVE Reachable'
  BY <1>a, LinksKeptReachable DEF LinksKept
<1>1. CASE ms_quit(e)
  BY <1>0, <1>1, RemoveUsersReachable DEF ms_quit
<1>2. CASE ms_kill(e)
  BY <1>0, <1>2, <1>a, RemoveUsersReachable DEF ms_kill
<1>3. CASE ms_uid(e)
  <2>1. /\ m \in Messages /\ m.type = "UID" /\ UNCHANGED <<link, server>>
        /\ u \in Servers => server[s][u] \in ServerRecords
    BY <1>3, ArrivesFacts DEF ms_uid
  <2>2. m.obj \in Uids /\ m.nick \in Nicks /\ m.ts \in Timestamps /\ m.src = Home[m.obj]
    BY <2>1, MessageFields
  <2>3. u = Home[m.obj] /\ server[s][Home[m.obj]] # None
    BY <2>1, <2>2, NetworkAssumption, NoneAssumption DEF Source, Ids
  <2>4. ASSUME NEW gone, NEW kills, uid_from_server(e, gone, kills) PROVE Reachable'
    <3>1. ClientsAt(s, [Without(s, gone) EXCEPT ![m.obj] = User(m.nick, m.ts, "client")])
      BY <2>4 DEF uid_from_server
    <3> QED BY <1>0, <2>1, <2>2, <2>3, <3>1, SetUserReachable
  <2>5. ASSUME NEW h, uid_collides(e, h) PROVE Reachable'
    BY <1>0, <1>a, <2>1, <2>4, <2>5, RemoveUsersReachable DEF uid_collides
  <2>6. CASE ClientsAt(s, Without(s, {m.obj}))
    BY <1>0, <2>1, <2>6, RemoveUsersReachable
  <2> QED BY <1>3, <2>4, <2>5, <2>6 DEF ms_uid
<1>4. CASE ms_nick(e)
  <2>1. Arrives(e, "NICK") /\ UNCHANGED <<link, server>>
    BY <1>4 DEF ms_nick
  <2>2. m \in Messages /\ m.type = "NICK"
    BY <2>1, ArrivesFacts
  <2>3. u \in Uids /\ m.nick \in Nicks /\ m.ts \in Timestamps
    BY <2>2, MessageFields, NetworkAssumption, NoneAssumption DEF Source, Ids
  <2>4. /\ client[s][u] \in ClientRecords /\ Home[u] # s
    BY <2>1, <2>3, ArrivesFacts
  <2>5. server[s][Home[u]] # None
    BY <1>0, <2>3, <2>4, NoneAssumption DEF Reachable, UserReachable, Knows
  <2>6. ASSUME NEW gone, NEW kills, change_remote_nick(e, gone, kills) PROVE Reachable'
    <3> DEFINE ts == IF client[s][u].nick = m.nick THEN client[s][u].ts ELSE m.ts
    <3>1. ts \in Timestamps
      BY <2>3, <2>4 DEF ClientRecords
    <3>2. ClientsAt(s, [Without(s, gone) EXCEPT ![u] = User(m.nick, ts, "client")])
      BY <2>6 DEF change_remote_nick
    <3> HIDE DEF ts
    <3> QED BY <1>0, <2>1, <2>3, <2>5, <3>1, <3>2, SetUserReachable
  <2>7. ASSUME NEW h, nick_collides(e, h) PROVE Reachable'
    BY <1>0, <2>1, <2>6, <2>7, RemoveUsersReachable DEF nick_collides
  <2> QED BY <1>4, <2>6, <2>7 DEF ms_nick
<1> QED BY <1>1, <1>2, <1>3, <1>4

(* KILL and SQUIT by an operator keep everything reachable. *)
LEMMA OperStepReachable ==
    ASSUME TypeOK, Reachable, NEW s \in Servers, NEW o \in Opers,
           \/ \E u \in Uids : mo_kill(s, o, u)
           \/ \E x \in Servers : mo_squit(s, o, x)
    PROVE  Reachable'
<1>1. ASSUME NEW u \in Uids, mo_kill(s, o, u) PROVE Reachable'
  BY <1>1, RemoveUsersReachable DEF mo_kill
<1>2. ASSUME NEW x \in Servers, mo_squit(s, o, x) PROVE Reachable'
  <2>1. server[s][x].from \in Ends
    BY <1>2 DEF mo_squit, Knows, TypeOK, ServerRecords
  <2>2. CASE exit_link(None, server[s][x].from, SQUIT(o, x), SQUIT(o, s))
    BY <2>1, <2>2, ExitLinkReachable
  <2>3. CASE ForgetServers(s, Behind(s, x)) /\ UNCHANGED link
    BY <2>3, ForgetReachable
  <2> QED BY <1>2, <2>2, <2>3 DEF mo_squit
<1> QED BY <1>1, <1>2

(* No dangling reference: at every moment each server or user a server      *)
(* knows is known through an established link and below known servers, so    *)
(* source_p->from and servptr are never stale, whatever splits, rejoins and   *)
(* remote SQUITs interleave (exit_client(), recurse_remove_clients()).       *)
THEOREM StaysReachable == Spec => []Reachable
<1>1. Init => Reachable
  BY DEF Init, Reachable
<1>2. TypeOK /\ Reachable /\ [Next]_vars => Reachable'
  <2> SUFFICES ASSUME TypeOK, Reachable, [Next]_vars PROVE Reachable'
    OBVIOUS
  <2>1. CASE Environment
    BY <2>1, LinkStepReachable, LocalStepReachable, OperStepReachable DEF Environment
  <2>2. ASSUME NEW e \in Ends, Receive(e) PROVE Reachable'
    BY <2>2, LinkStepReachable, ServerStepReachable, RemoteStepReachable DEF Receive
  <2>3. CASE UNCHANGED vars
    BY <2>3, LinksKeptReachable DEF vars, LinksKept
  <2> QED BY <2>1, <2>2, <2>3 DEF Next
<1> QED BY <1>1, <1>2, TypeCorrect, PTL DEF Spec
=============================================================================
