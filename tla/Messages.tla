------------------------------ MODULE Messages ------------------------------
(***************************************************************************)
(* Lines in and out of one server: the receive queues with their flood     *)
(* control (packet.c), PRIVMSG and NOTICE (m_message.c), the ways to send  *)
(* one line to many (send.c) and the send queues, whose blocks are shared  *)
(* between the clients a line is sent to (dbuf.c).                         *)
(*                                                                         *)
(* A line is Size units of a block; `room' of a connection is what its     *)
(* socket will take at present. Received data is a sequence of tokens, the *)
(* text of a line or an end of line character. Who may send to a channel   *)
(* is a constant: channel modes are the subject of Channels.               *)
(***************************************************************************)
EXTENDS Integers, Sequences, SequencesExt, FiniteSets, Absent

CONSTANTS
    Locals, Links,     \* local clients and servers
    From,             \* client -> the local client or server it is reached by
    Operators, Deaf, CallerId, RegOnly, Away,
    Accepts,          \* <<source, target>> for which accept_message() holds
    Members,          \* channel -> sequence of [who, flags], chptr->members
    CanSend,          \* <<source, channel>> -> "OPV", "NONOP" or "no"
    MaskCovers,       \* mask of a $$ or $# target -> local users it matches
    SendqMax,         \* get_sendq()
    RecvqMax,         \* get_recvq(), in tokens
    MAX_FLOOD, MAX_FLOOD_BURST, FloodCount, MaxTargets, CallerIdWait,
    MessageScenes     \* [wire, room, resets, drains, ssl, cuts, time]:
                      \* what peers will do, and for how long

VARIABLES
    out,        \* [conn, refs, abort_list]: connections, blocks, write errors
    recv,       \* [recvq, sent_parsed, allow_read, done, flush] of each
    flood,      \* received_number_of_privmsgs, its time, FLOOD_NOTICED
    caller,     \* last_caller_id_time
    clock,
    run,        \* whose parse_client_queued() runs, and for whom
    wire,       \* what each peer has still to send
    owed,       \* history: <<block, connection>> that should get it
    parsed,     \* history: lines parsed since flood_endgrace(), and its time
    passed,     \* history: messages let through to a target
    msgscene
messagesvars == <<out, recv, flood, caller, clock, run, wire, owed, parsed, passed, msgscene>>

Conns == Locals \cup Links
Everyone == DOMAIN From
EOL == "eol"
Size == 2
Remotes(s) == {u \in Everyone \ Locals : From[u] = s}
Low(a, b) == IF a < b THEN a ELSE b

-----------------------------------------------------------------------------
(* Blocks are numbered in the order of their allocation, so block b is the *)
(* b-th line the server made.                                              *)
dbuf_alloc(S) == [S EXCEPT !.refs = Append(@, 1)]
New(S) == Len(S.refs) + 1
dbuf_ref_free(S, b) == [S EXCEPT !.refs[b] = @ - 1]
dbuf_add(S, to, b) ==
    [S EXCEPT !.refs[b] = @ + 1, !.conn[to].sendq = Append(@, b), !.conn[to].total = @ + Size,
              !.conn[to].queued = Append(@, b)]

(* Units are deleted from the first block until it is empty, then from the *)
(* next: one turn of the loop.                                             *)
DeletedOne(D, to) ==
    LET C == D.S.conn[to]
        avail == Size - C.pos
    IN IF D.count = 0 \/ C.total = 0 THEN D
       ELSE IF D.count >= avail
       THEN [S |-> [dbuf_ref_free(D.S, Head(C.sendq)) EXCEPT
                      !.conn[to].sendq = Tail(@), !.conn[to].total = @ - avail, !.conn[to].pos = 0],
             count |-> D.count - avail]
       ELSE [S |-> [D.S EXCEPT !.conn[to].pos = @ + D.count, !.conn[to].total = @ - D.count], count |-> 0]
dbuf_delete(S, to, count) ==
    LET turns == Len(S.conn[to].sendq)
        left[i \in 0 .. turns] == IF i = 0 THEN [S |-> S, count |-> count] ELSE DeletedOne(left[i - 1], to)
    IN left[turns].S
dbuf_clear(S, to) == dbuf_delete(S, to, S.conn[to].total)

IsDefunct(S, c) == S.conn[c].at # "up"
IsDead(S, c) == S.conn[c].at = "dead"
dead_link_on_write(S, to) ==
    IF IsDefunct(S, to) THEN S
    ELSE [dbuf_clear(S, to) EXCEPT !.conn[to].at = "dead", !.abort_list = Append(@, to)]

(* The socket takes what it has room for, one send() per block: a block is *)
(* written whole or fills the room, so that the loop has at most one turn  *)
(* more than there are blocks.                                             *)
Units(b, pos, n) == [k \in 1..n |-> <<b, pos + k>>]
WrittenOne(S, to) ==
    LET C == S.conn[to]
        n == Low(C.room, Size - C.pos)
    IN IF IsDead(S, to) \/ C.blocked \/ C.total = 0 \/ C.peer = "want read" THEN S
       ELSE IF C.peer = "reset" THEN dead_link_on_write(S, to)
       ELSE IF C.room = 0 THEN [S EXCEPT !.conn[to].blocked = TRUE]
       ELSE [dbuf_delete(S, to, n) EXCEPT !.conn[to].room = @ - n,
                 !.conn[to].got = @ \o Units(Head(C.sendq), C.pos, n)]
send_queued_write(S, to) ==
    LET turns == Len(S.conn[to].sendq) + 1
        written[i \in 0 .. turns] == IF i = 0 THEN S ELSE WrittenOne(written[i - 1], to)
    IN written[turns]

(* A line that does not fit ends the client it is for. For a server the    *)
(* operators are told first, with lines of their own.                      *)
Exceeds(S, to) == S.conn[to].total + Size > SendqMax[to]
PutLine(S, to, b) ==
    IF Exceeds(S, to) THEN dead_link_on_write(S, to) ELSE send_queued_write(dbuf_add(S, to, b), to)
PutNew(S, to) == IF IsDead(S, to) THEN S ELSE dbuf_ref_free(PutLine(dbuf_alloc(S), to, New(S)), New(S))
sendto_realops_flags(S) ==
    LET tell(T, c) == IF T.conn[c].at = "gone" \/ c \in T.closing THEN T ELSE PutNew(T, c)
    IN FoldLeft(tell, S, SetToSeq(Operators \cap Locals))
send_message(S, to, b) ==
    PutLine(IF to \in Links /\ Exceeds(S, to) THEN sendto_realops_flags(S) ELSE S, to, b)
sendto_one(S, to) ==
    IF IsDead(S, From[to]) THEN S
    ELSE dbuf_ref_free(send_message(dbuf_alloc(S), From[to], New(S)), New(S))

-----------------------------------------------------------------------------
(* One line to many. The local members get block local_buf, and each       *)
(* server with members behind it remote_buf, once: `serial' holds the      *)
(* connections that carry current_serial.                                  *)
StillHere(S, u) == S.conn[From[u]].at # "gone" /\ From[u] \notin S.closing
sendto_channel_butone_fault(S, from, ch, type) ==
    LET local_buf == New(S)
        remote_buf == local_buf + 1
        step(T, m) ==
            IF ~StillHere(T, m.who) \/ (m.who \in Locals /\ IsDefunct(T, m.who)) \/ m.who \in Deaf
                  \/ From[m.who] = From[from] \/ (type # {} /\ m.flags \cap type = {})
            THEN T
            ELSE send_message(T, From[m.who], IF m.who \in Locals THEN local_buf ELSE remote_buf)
        done == FoldLeft(step, dbuf_alloc(dbuf_alloc(S)), Members[ch])
    IN dbuf_ref_free(dbuf_ref_free(done, local_buf), remote_buf)
sendto_channel_butone(S, from, ch, type) ==
    LET local_buf == New(S)
        remote_buf == local_buf + 1
        step(T, m) ==
            IF ~StillHere(T.S, m.who) \/ (m.who \in Locals /\ IsDefunct(T.S, m.who)) \/ m.who \in Deaf
                  \/ From[m.who] = From[from] \/ (type # {} /\ m.flags \cap type = {})
            THEN T
            ELSE [S |-> IF m.who \in Locals THEN send_message(T.S, m.who, local_buf)
                        ELSE IF From[m.who] \in T.serial THEN T.S
                        ELSE send_message(T.S, From[m.who], remote_buf),
                  serial |-> T.serial \cup {From[m.who]}]
        done == FoldLeft(step, [S |-> dbuf_alloc(dbuf_alloc(S)), serial |-> {}], Members[ch])
    IN dbuf_ref_free(dbuf_ref_free(done.S, local_buf), remote_buf)

SendAll(S, all) ==
    LET b == New(S)
        step(T, c) == send_message(T, c, b)
    IN dbuf_ref_free(FoldLeft(step, dbuf_alloc(S), SetToSeq(all)), b)
sendto_server(S, one) == SendAll(S, {s \in Links : ~IsDefunct(S, s) /\ s # one})
sendto_common_channels_local(S, user) ==
    SendAll(S, {c \in Locals \ {user} : /\ ~IsDefunct(S, c)
                   /\ \E ch \in DOMAIN Members : \A u \in {c, user} :
                         \E i \in DOMAIN Members[ch] : Members[ch][i].who = u})
sendto_match_butone(S, from, mask) ==
    LET local_buf == New(S)
        remote_buf == local_buf + 1
        local(T, c) == send_message(T, c, local_buf)
        remote(T, s) == send_message(T, s, remote_buf)
        here == {c \in MaskCovers[mask] : ~IsDefunct(S, c)}
        done == FoldLeft(local, dbuf_alloc(dbuf_alloc(S)), SetToSeq(here))
    IN dbuf_ref_free(dbuf_ref_free(
          FoldLeft(remote, done, SetToSeq({s \in Links : ~IsDefunct(done, s) /\ s # From[from]})),
          local_buf), remote_buf)
sendto_anywhere(S, to) == sendto_one(S, to)

-----------------------------------------------------------------------------
(* The end of a connection: what it is still owed is written if possible,  *)
(* the other servers hear of it and then those who share a channel.        *)
close_connection(S, c) ==
    LET flush == IF IsDead(S, c) THEN S ELSE send_queued_write([S EXCEPT !.conn[c].blocked = FALSE], c)
    IN [dbuf_clear(flush, c) EXCEPT !.conn[c].at = "gone"]
exit_one_client(S, u) == sendto_common_channels_local(S, u)
exit_client(S, c) ==
    LET told(T) == IF c \in Locals THEN sendto_realops_flags(T) ELSE T
        parting(T) == IF IsDead(T, c) THEN T ELSE sendto_one(IF c \in Links THEN sendto_one(T, c) ELSE T, c)
        heard(T) == IF c \in Locals THEN exit_one_client(sendto_server(T, c), c)
                    ELSE sendto_realops_flags(FoldLeft(exit_one_client, sendto_server(T, None), SetToSeq(Remotes(c))))
    IN heard([close_connection(parting(told([S EXCEPT !.closing = {c}])), c) EXCEPT !.closing = {}])

-----------------------------------------------------------------------------
(* Messages. Both flood limits count what a target receives and let the    *)
(* count fall with the time.                                               *)
Decayed(f) ==
    IF f.first + 1 < clock
    THEN LET n == f.n - (clock - f.first)
         IN IF n <= 0 THEN [n |-> 0, first |-> clock, noticed |-> FALSE]
            ELSE [n |-> n, first |-> clock, noticed |-> f.noticed]
    ELSE f
Floods(f) == f.n >= FloodCount \/ f.noticed
flood_attack(F, t) ==
    LET f == Decayed(F[t])
    IN [F EXCEPT ![t] = IF ~Floods(f) THEN [f EXCEPT !.n = @ + 1]
                        ELSE IF f.noticed THEN f ELSE [f EXCEPT !.noticed = TRUE, !.n = @ + 2]]
Attack(F, t) == Floods(Decayed(F[t]))
Notices(M, src, t, notice) ==   \* the operators and, for a PRIVMSG, the source
    LET f == Decayed(M.flood[t])
        told == IF f.noticed THEN M.out ELSE sendto_realops_flags(M.out)
    IN IF src \in Locals /\ ~notice THEN sendto_one(told, src) ELSE told
Reply(M, src, notice) == IF notice THEN M ELSE [M EXCEPT !.out = sendto_one(M.out, src)]

(* M carries what a command changes: the queues, the flood counters and    *)
(* caller ID times, and the histories.                                     *)
Sent(M, sent, due) == [M EXCEPT !.out = sent, !.owed = @ \cup due]
Withheld(M, told, t) == [M EXCEPT !.out = told, !.flood = flood_attack(@, t)]
LetThrough(M, t) == [M EXCEPT !.flood = flood_attack(@, t), !.passed[t] = @ + 1]
Eligible(S, src, ch, type) ==
    {m \in ToSet(Members[ch]) : /\ StillHere(S, m.who) /\ m.who \notin Deaf /\ From[m.who] # From[src]
                                /\ type = {} \/ m.flags \cap type # {}}
msg_channel(M, src, ch, type, notice) ==
    LET sent == sendto_channel_butone(M.out, src, ch, type)
        lo == New(M.out)
        due == {<<IF m.who \in Locals THEN lo ELSE lo + 1, From[m.who]>> : m \in Eligible(M.out, src, ch, type)}
               \cup {<<lo, None>>, <<lo + 1, None>>}
        free == CanSend[src, ch] = "OPV"
    IN IF CanSend[src, ch] = "no" THEN Reply(M, src, notice)
       ELSE IF free THEN Sent(M, sent, due)
       ELSE IF Attack(M.flood, ch) THEN Withheld(M, Notices(M, src, ch, notice), ch)
       ELSE LetThrough(Sent(M, sent, due), ch)

flood_attack_client(src) == src \notin Operators
(* The target is told of the source now and then, and the source of that.  *)
CallerIdNotice(M, src, to, notice) ==
    LET tell(N) == [N EXCEPT !.out = sendto_one(@, to), !.caller[to] = clock]
    IN IF M.caller[to] + CallerIdWait < clock THEN tell(Reply(M, src, notice)) ELSE M
CountedNotice(M, src, to, notice) ==
    IF ~flood_attack_client(src) THEN M
    ELSE Withheld(M, IF Attack(M.flood, to) THEN Notices(M, src, to, notice) ELSE M.out, to)
Direct(M, to, counted) ==
    LET due == IF IsDead(M.out, From[to]) THEN {} ELSE {<<New(M.out), From[to]>>}
        sent == Sent(M, sendto_anywhere(M.out, to), due)
    IN IF counted THEN LetThrough(sent, to) ELSE sent
msg_client(M0, src, to, notice) ==
    LET counted == to \in Locals /\ flood_attack_client(src)
        deliver(M) ==
            IF src \in Locals /\ to \in RegOnly /\ src \notin Operators /\ src # to THEN Reply(M, src, notice)
            ELSE IF to \in CallerId /\ <<src, to>> \notin Accepts
            THEN CountedNotice(CallerIdNotice(Reply(M, src, notice), src, to, notice), src, to, TRUE)
            ELSE IF counted /\ Attack(M.flood, to) THEN CountedNotice(M, src, to, notice)
            ELSE Direct(M, to, counted)
    IN deliver(IF src \in Locals /\ to \in Away THEN Reply(M0, src, notice) ELSE M0)

(* The targets of a command, each once and no more than MaxTargets; those  *)
(* that are errors or oper masks are dealt with while the list is made.    *)
handle_special(M, src, t) ==
    IF src \notin Operators THEN Reply(M, src, FALSE)
    ELSE Sent(M, sendto_match_butone(M.out, src, t.name),
              {<<New(M.out), c>> : c \in MaskCovers[t.name] \cup {None}}
              \cup {<<New(M.out) + 1, s>> : s \in (Links \ {From[src]}) \cup {None}})
Found(M, t) == IF t.kind = "client" THEN StillHere(M.out, t.name) ELSE t.kind = "channel"
Voiced(src, ch) == \E m \in ToSet(Members[ch]) : m.who = src /\ m.flags # {}
AddTarget(A, src, t, notice) ==
    IF A.full THEN A
    ELSE IF t.kind = "special" THEN [A EXCEPT !.M = handle_special(@, src, t)]
    ELSE IF ~Found(A.M, t) THEN [A EXCEPT !.M = Reply(@, src, notice)]
    ELSE IF t.type # {} /\ ~Voiced(src, t.name) THEN [A EXCEPT !.M = Reply(@, src, FALSE)]
    ELSE IF \E x \in ToSet(A.targets) : x.name = t.name THEN A
    ELSE IF Len(A.targets) >= MaxTargets THEN [A EXCEPT !.M = Reply(@, src, FALSE), !.full = TRUE]
    ELSE [A EXCEPT !.targets = Append(@, t)]
build_target_list(M, src, list, notice) ==
    LET made[i \in 0 .. Len(list)] ==
            IF i = 0 THEN [M |-> M, targets |-> <<>>, full |-> FALSE] ELSE AddTarget(made[i - 1], src, list[i], notice)
    IN made[Len(list)]
DeliverTo(M, src, t, notice) ==
    IF t.kind = "client" THEN msg_client(M, src, t.name, notice) ELSE msg_channel(M, src, t.name, t.type, notice)
Delivering(M, src, targets, notice) ==
    LET done[i \in 0 .. Len(targets)] == IF i = 0 THEN M ELSE DeliverTo(done[i - 1], src, targets[i], notice)
    IN done[Len(targets)]
m_message(M, src, list, notice) ==
    LET B == build_target_list(M, src, list, notice)
    IN Delivering(B.M, src, B.targets, notice)

-----------------------------------------------------------------------------
(* Lines are taken off the receive queue up to the first end of line, and  *)
(* a second end of line character with it.                                 *)
extract_one_line(q) ==
    LET e == SelectInSeq(q, LAMBDA x : x = [text |-> EOL])
        more == e # 0 /\ e < Len(q) /\ q[e + 1] = [text |-> EOL]
    IN [line |-> IF e > 1 THEN q[1] ELSE [text |-> None],
        rest |-> IF e = 0 THEN q ELSE SubSeq(q, e + (IF more THEN 2 ELSE 1), Len(q))]
checkflood(c) == c \in Locals \ Operators
Idle == [c |-> None, read |-> FALSE]

(* A piece of what the peer sends arrives; a server or an exempt client is *)
(* read without limit.                                                     *)
read_packet(c) ==
    /\ run = Idle /\ ~IsDefunct(out, c) /\ wire[c] # <<>>
    /\ \E n \in msgscene.cuts \cap 1..Len(wire[c]) :
          /\ recv' = [recv EXCEPT ![c].recvq = @ \o SubSeq(wire[c], 1, n)]
          /\ wire' = [wire EXCEPT ![c] = SubSeq(@, n + 1, Len(@))]
    /\ run' = [c |-> c, read |-> TRUE]
    /\ UNCHANGED <<out, flood, caller, clock, owed, parsed, passed, msgscene>>

flood_endgrace(R) == [R EXCEPT !.done = TRUE, !.allow_read = MAX_FLOOD, !.sent_parsed = 0]
(* Most commands end the grace period of new clients; INVITE tests the     *)
(* flag the other way round.                                               *)
EndsGrace(c, line) ==
    /\ c \in Locals
    /\ \/ line.text \in {"PRIVMSG", "NOTICE"} /\ ~recv[c].done
       \/ line.text = "INVITE" /\ recv[c].done
Limited(c) == checkflood(c) /\ recv[c].sent_parsed >= recv[c].allow_read
client_dopacket(c, line) ==
    LET M == [out |-> out, flood |-> flood, caller |-> caller, owed |-> owed, passed |-> passed]
    IN \E N \in {IF line.text \in {"PRIVMSG", "NOTICE"}
                  THEN m_message(M, line.src, line.targets, line.text = "NOTICE") ELSE M} :
         out' = N.out /\ flood' = N.flood /\ caller' = N.caller /\ owed' = N.owed /\ passed' = N.passed
Consumed(R, rest) == [R EXCEPT !.recvq = rest, !.sent_parsed = @ + 1]
parse_client_queued(c) ==
    /\ run # Idle /\ run.c = c
    /\ LET x == extract_one_line(recv[c].recvq)
           R == IF EndsGrace(c, x.line) THEN flood_endgrace(recv[c]) ELSE recv[c]
       IN /\ ~IsDefunct(out, c) /\ ~Limited(c) /\ x.line.text # None
          /\ client_dopacket(c, x.line)
          /\ recv' = [recv EXCEPT ![c] = Consumed(R, x.rest)]
          /\ parsed' = IF EndsGrace(c, x.line) THEN [parsed EXCEPT ![c] = [n |-> 1, since |-> clock]]
                       ELSE IF R.done /\ c \in Locals THEN [parsed EXCEPT ![c].n = @ + 1] ELSE parsed
    /\ UNCHANGED <<clock, run, wire, msgscene>>
(* The loop is over; what is left of an empty line goes, and a reader with *)
(* too much unread is sent away.                                           *)
Rest(c) ==
    /\ run # Idle /\ run.c = c
    /\ LET x == extract_one_line(recv[c].recvq)
           q == IF IsDefunct(out, c) \/ Limited(c) THEN recv[c].recvq ELSE x.rest
       IN /\ IsDefunct(out, c) \/ Limited(c) \/ x.line.text = None
          /\ out' = IF run.read /\ c \in Locals /\ ~IsDefunct(out, c) /\ Len(q) > RecvqMax
                    THEN exit_client(out, c) ELSE out
          /\ recv' = [recv EXCEPT ![c] = [recv[c] EXCEPT
                        !.recvq = q, !.flush = IF run.read THEN @ ELSE IF IsDead(out, c) THEN None ELSE clock + 1]]
    /\ run' = Idle
    /\ UNCHANGED <<flood, caller, clock, wire, owed, parsed, passed, msgscene>>

flood_recalc_fault(c) ==
    /\ run = Idle /\ out.conn[c].at # "gone" /\ recv[c].flush # None /\ recv[c].flush < clock
    /\ recv' = [recv EXCEPT ![c].sent_parsed = 0, ![c].flush = None]
    /\ run' = [c |-> c, read |-> FALSE]
    /\ UNCHANGED <<out, flood, caller, clock, wire, owed, parsed, passed, msgscene>>
flood_recalc(c) ==
    /\ run = Idle /\ out.conn[c].at # "gone" /\ recv[c].flush # None /\ recv[c].flush < clock
    /\ recv' = [recv EXCEPT ![c] = [recv[c] EXCEPT !.sent_parsed = IF recv[c].done /\ @ > 2 THEN @ - 2 ELSE 0,
                                               !.flush = None]]
    /\ run' = [c |-> c, read |-> FALSE]
    /\ UNCHANGED <<out, flood, caller, clock, wire, owed, parsed, passed, msgscene>>

-----------------------------------------------------------------------------
(* The rest of the main loop, and the peers.                               *)
sendq_unblocked(c) ==
    /\ run = Idle /\ out.conn[c].at # "gone" /\ out.conn[c].blocked
    /\ out.conn[c].room > 0 \/ out.conn[c].peer = "reset"
    /\ out' = send_queued_write([out EXCEPT !.conn[c].blocked = FALSE], c)
    /\ UNCHANGED <<recv, flood, caller, clock, run, wire, owed, parsed, passed, msgscene>>
send_queued_all ==
    /\ run = Idle
    /\ LET up(T, c) == IF T.conn[c].at = "gone" THEN T ELSE send_queued_write(T, c)
       IN out' = FoldLeft(up, out, SetToSeq(Links) \o SetToSeq(Locals))
    /\ out' # out
    /\ UNCHANGED <<recv, flood, caller, clock, run, wire, owed, parsed, passed, msgscene>>
exit_aborted_clients ==
    /\ run = Idle /\ out.abort_list # <<>>
    /\ out' = exit_client([out EXCEPT !.abort_list = Tail(@)], Head(out.abort_list))
    /\ UNCHANGED <<recv, flood, caller, clock, run, wire, owed, parsed, passed, msgscene>>
dead_link_on_read(c) ==
    /\ run = Idle /\ ~IsDefunct(out, c) /\ out.conn[c].peer = "reset"
    /\ out' = exit_client(dbuf_clear(IF c \in Links THEN sendto_realops_flags(out) ELSE out, c), c)
    /\ UNCHANGED <<recv, flood, caller, clock, run, wire, owed, parsed, passed, msgscene>>
PeerDoes(c, C) == run = Idle /\ ~IsDefunct(out, c) /\ out' = [out EXCEPT !.conn[c] = C]
PeerReads(c) ==
    /\ msgscene.drains > 0 /\ out.conn[c].room = 0
    /\ PeerDoes(c, [out.conn[c] EXCEPT !.room = msgscene.room, !.peer = IF @ = "want read" THEN "ok" ELSE @])
    /\ msgscene' = [msgscene EXCEPT !.drains = @ - 1]
    /\ UNCHANGED <<recv, flood, caller, clock, run, wire, owed, parsed, passed>>
PeerResets(c) ==
    /\ c \in msgscene.resets /\ out.conn[c].peer # "reset"
    /\ PeerDoes(c, [out.conn[c] EXCEPT !.peer = "reset"])
    /\ UNCHANGED <<recv, flood, caller, clock, run, wire, owed, parsed, passed, msgscene>>
MessageTick ==
    /\ run = Idle /\ clock < msgscene.time /\ clock' = clock + 1
    /\ UNCHANGED <<out, recv, flood, caller, run, wire, owed, parsed, passed, msgscene>>

MessagesInit ==
    /\ msgscene \in MessageScenes
    /\ out = [conn |-> [c \in Conns |-> [sendq |-> <<>>, pos |-> 0, total |-> 0, blocked |-> FALSE, at |-> "up",
                             room |-> msgscene.room, peer |-> IF c \in msgscene.ssl THEN "want read" ELSE "ok",
                             queued |-> <<>>, got |-> <<>>]],
              refs |-> <<>>, abort_list |-> <<>>, closing |-> {}]
    /\ recv = [c \in Conns |-> [recvq |-> <<>>, sent_parsed |-> 0, allow_read |-> MAX_FLOOD_BURST,
                                done |-> FALSE, flush |-> IF c \in Locals THEN 1 ELSE None]]
    /\ flood = [t \in Locals \cup DOMAIN Members |-> [n |-> 0, first |-> 0, noticed |-> FALSE]]
    /\ caller = [c \in Locals |-> 0 - CallerIdWait - 1]
    /\ clock = 0 /\ run = Idle /\ wire = msgscene.wire /\ owed = {}
    /\ parsed = [c \in Locals |-> [n |-> 0, since |-> None]]
    /\ passed = [t \in Locals \cup DOMAIN Members |-> 0]
MessagesNext ==
    \/ \E c \in Conns : \/ read_packet(c) \/ flood_recalc(c) \/ sendq_unblocked(c)
                        \/ dead_link_on_read(c) \/ PeerReads(c) \/ PeerResets(c)
                        \/ parse_client_queued(c) \/ Rest(c)
    \/ send_queued_all \/ exit_aborted_clients \/ MessageTick
MessagesSpec == MessagesInit /\ [][MessagesNext]_messagesvars

(* What the proof of FloodBounded supposes: the limits are numbers, peers   *)
(* send sequences of tokens, and the targets of a command are a list.       *)
Tokens == UNION {ToSet(s.wire[c]) : s \in MessageScenes, c \in Conns}
LimitsRight ==
    /\ MAX_FLOOD \in Nat \ {0} /\ FloodCount \in Nat \ {0}
    /\ \A s \in MessageScenes : s.wire \in [Conns -> Seq(Tokens)]
    /\ \A x \in Tokens : x.text \in {"PRIVMSG", "NOTICE"} => Len(x.targets) \in Nat

-----------------------------------------------------------------------------
Count(q, b) == Len(SelectSeq(q, LAMBDA x : x = b))
Flat(q) == FlattenSeq([i \in DOMAIN q |-> Units(q[i], 0, Size)])
InOrder(C) ==
    /\ Flat(C.queued) = C.got \o SubSeq(Flat(C.sendq), C.pos + 1, Size * Len(C.sendq))
    /\ C.total = Size * Len(C.sendq) - C.pos
(***************************************************************************)
(* A connection that is up has received the lines queued for it whole and  *)
(* in order, up to what is still in its queue, though blocks are shared,   *)
(* writes are partial and others die in the middle; it gets each message   *)
(* once if it or a member behind it is meant, and else not at all; and a   *)
(* block lives as long as some queue holds it (send.c, dbuf.c).            *)
(***************************************************************************)
Delivered ==
    /\ \A c \in {u \in Conns : ~IsDefunct(out, u)} :
          /\ InOrder(out.conn[c])
          /\ \A x \in owed : Count(out.conn[c].queued, x[1]) = IF <<x[1], c>> \in owed THEN 1 ELSE 0
    /\ \A b \in DOMAIN out.refs :
          out.refs[b] = Cardinality({x \in Conns \X DOMAIN out.refs :
              x[2] \in DOMAIN out.conn[x[1]].sendq /\ out.conn[x[1]].sendq[x[2]] = b})
(***************************************************************************)
(* "anything beyond MAX_FLOOD is limited to about one line per second"     *)
(* (packet.h): from the end of its grace period, or the last INVITE, on,   *)
(* for every client that is not exempt; and no target gets more messages   *)
(* than FloodCount and one per second (m_message.c).                       *)
(***************************************************************************)
FloodBounded ==
    /\ \A c \in {u \in Locals : checkflood(u) /\ parsed[u].since # None} :
          parsed[c].n <= MAX_FLOOD + 2 + (clock - parsed[c].since)
    /\ \A t \in DOMAIN passed : passed[t] <= FloodCount + clock
=============================================================================
