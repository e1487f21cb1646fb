# TLA+ models of ircd-hybrid

This directory holds TLA+ models of the IRC daemon in this repository, the TLC
configurations that check them on small instances, and TLAPS proofs of what
holds for networks of every size. `PROJECT.json` lists the components, the runs,
which definition models which lines, the mutants that show each property can
fail, the findings and the hazards.

    tlc -config NetCollisions.cfg MCNetwork      # one run
    tlapm NetworkProofs.tla                      # the proofs, a module at a time: also
                                                 # LinkedListsProofs, ConnectionProofs, ChannelModesProofs,
                                                 # ChannelsProofs, BansProofs, ChanfixProofs, PartsProofs

A definition whose name ends in `_fault` is a mutated form of the definition
that follows it. It is not part of the model; it is there to be put in place of
the original, to see that the property it belongs to is then violated.

## Inventory of the system

ircd is a single-threaded event loop (`io_loop()` in `src/ircd.c`). Handlers run
to completion, so what is concurrent is the network: servers that each keep a
copy of the same directory, lines in flight between them, and inside one
server callbacks that re-enter the parser from the middle of a list walk.
`chanfix/` is a module of the same process: a service that scores who is
operator of which channel, and gives status back in channels without one.

| Part | State | Operations | Interacts with | What makes it hard / correct | Module |
|---|---|---|---|---|---|
| Users and nick timestamps (`m_nick.c`, `m_kill.c`, `m_quit.c`, `user.c`, `parse.c`) | per server: nick, TS, status of every user | sign on, NICK, UID, KILL, QUIT, collision rules | floods to all links; `parse()` drops or answers lines with an unknown prefix | lines cross; both sides must judge a collision alike. Nicks unique, directories agree at rest, the winner of a collision survives | `Network` |
| Server links and routing (`m_server.c`, `m_squit.c`, `server.c`) | per server: known servers, `servptr`, `from` | connect, SERVER, burst, SID, SQUIT, EOF, hub/leaf rules | removes users behind a lost server | crossing connections, rings, splits seen at different times. No loop at rest, everything known is reachable | `Network` |
| Connections (`listener.c`, `s_bsd.c`, `auth.c`, `client.c`, `ircd.c`) | clients, flags, pending, abort and dead lists, counters | accept, ident, release, read, register, exit, free | calls the resolver and is called back; every module calls `exit_client()` | re-entrancy, double exits, deferred freeing. No dangling pointer, counters right, nobody held back | `LinkedLists`, `Connection`, `Lifecycle` |
| Resolver (`res.c`) | outstanding requests | query, answer, retry, time out | calls back into `auth.c` | callback before removal, late answers | `Connection` |
| Channels (`channel.c`, `channel_mode.c`, `m_sjoin.c`, `m_join.c`, `m_part.c`, `m_kick.c`, `m_mode.c`, `m_topic.c`, `m_invite.c`) | members, status, modes, lists, invitations, channel TS | JOIN, SJOIN, MODE, TMODE, BMASK, PART, KICK, TBURST, INVITE | same flooding as users | TS merge after a split, desync of modes, cached bans | `ChannelModes`, `Channels` |
| Receive queue and flood control (`packet.c`, `dbuf.c`) | recvq, `sent_parsed`, `allow_read` | read, parse, recalc, end of grace | connections, every command | bursts at the limits | `Messages` |
| Messages and send queue (`m_message.c`, `send.c`, `dbuf.c`) | sendq, shared blocks, flood counts | PRIVMSG, NOTICE, send, flush, block, exceed | `dead_link_on_write()` | failure inside an unrelated handler | `Messages` |
| Bans (`conf.c`, `conf_db.c`, `hostmask.c`, `m_kline.c`, `m_dline.c`, `m_xline.c`, `m_resv.c`, `m_gline.c`) | ban lists, G-line votes, files | add, remove, expire, vote, save, load | exits clients | expiry, votes counted once, crash while saving | `Bans` |
| Configuration (`conf_parser.c`, `conf.c`, `conf_class.c`, `listener.c`, `ipcache.c`) | settings, classes, items, listeners, addresses, their reference counts | parse, REHASH, attach, detach, expire | registration, exit, OPER, servers | what outlives the file it came from; counts that drift | `Config` |
| Tables (`hash.c`, `watch.c`, `whowas.c`, `m_accept.c`, `m_list.c`) | hash buckets, user@host counts, cross-linked lists, LIST tasks | add, delete, find, notify, reuse, walk | exit, nick and host change, main loop | both directions must agree; a walk that is resumed | `Lists` |
| Operators (`m_oper.c`, `m_challenge.c`, `m_mode.c`, `m_svsmode.c`, `m_set.c`, `user.c`) | user modes, oper flags and blocks, global counts, splitmode | OPER, CHALLENGE, MODE, SVSMODE, SVSNICK, SVSTAG, AWAY, SET | services, splits, channels (splitmode) | two sources of mode changes that cross; counts kept by hand | `Opers` |
| chanfix (`chanfix/cf_*.c`) | scores by day, three copies on disk, fix lists, users, sessions | gather, rotate, save, load, fix, login, user commands | is a client of the server | crash in a save, day boundaries, stale sessions | `ChanfixDB`, `ChanfixFix`, `ChanfixUsers` |
| Events (`event.c`) | timed list | add, run, clock set back | everything periodic | | steps of the modules above |
| Modules and commands (`modules.c`, `m_module.c`, `parse.c`, `conf_pseudo.c`) | loaded modules, tree of commands, pseudo commands, capabilities, ISUPPORT | load, unload, reload, REHASH | every handler; `ircd.conf` | a reload that fails half way; a tree kept by reference counts | `Commands` |
| Memory pools (`mempool.c`) | chunks on three lists, free items | get, release, collect | everything that allocates | what is freed follows from two counters | `Pools` |
| Queries and listings, libltdl, tools | | | | | see "Not modelled" |

The hazards, each at its line and with the properties that cover it, are in
`PROJECT.json`.

## Plan

Done, in this order: 1 `Network` with its proofs; 2 `Connection` with the abstract
specification `Lifecycle`; 3 `ChannelModes` and `Channels`; 4 the parts of `MCParts`:
`ChanfixDB`, `ChanfixFix`, `ChanfixUsers`, `Bans`, `Messages`, `Config`, `Lists`, `Opers`,
`Commands`, `Pools`; 5 the proofs about `Connection`, its refinement of `Lifecycle`, and the
proofs about `Channels`; 6 the proofs about the copies of the chanfix database, the lists of
fixes, the bans and their votes, the memory pools and flood control.

Left, in this order: of `Network` that `NoIdCollision` holds, which needs an invariant on the SID lines in the queues; of `Lists` that the
two directions of WATCH agree; of `Opers` that the rights of an operator end with `+o`; of `Messages` that the
reference count of a block is the number of queues that hold it. `Config` and `Lists` use RECURSIVE operators, and a module
that is proved about must not reach one, so these would first be written as recursive functions; in `Config` and `Opers` some CASEs have arms that
overlap, which TLC reads in order and the prover does not.

## Network: servers, users and the lines between them

`Network.tla` models any number of servers, each with its own directory.

| Variable | Code |
|---|---|
| `link[e]` | list the peer's `struct Client` is on: `unknown_list` ("wait"), `local_server_list` ("up"), none ("down"). An end is one side of the connection a `connect{}` block opens |
| `queue[e]` | lines written to the socket and not yet parsed at `e`; TCP, so FIFO; the last one may be the end of file |
| `server[s][x]` | what `s` knows of server `x`: `servptr`, `from`, and the chain of `servptr` up to `x` |
| `client[s][u]` | what `s` knows of user `u`: nick, TS, and whether it is still registering |
| `signon`, `spent` | history of sign-ons, and the budgets of the environment |

One action is one line parsed, one command of a local user, or one event of a
connection. The names are those of the handlers: `serv_connect`,
`mr_server`, `server_estab` with its burst, `ms_sid` and its refusals, `ms_squit`, `mr_nick`, `m_nick`,
`register_local_user`, `ms_uid`, `ms_nick` with the two collision functions, `ms_kill`,
`mo_kill`, `m_quit`, `exit_link` for `exit_client()` of a server. A prefix that is unknown, or comes from
the wrong direction, is treated as `parse()` does. This fork tests the
password after the client has become a user; `register_bad_password` is that path.

Properties: `NickUnique`, `Reachable`, `NoIdCollision` hold in every state; `UsersAgree`,
`ServersAgree`, `NoLoop` hold whenever no line is in flight; `WinnerSurvives` says that
the TS rules spare the same user everywhere; `Settles` that the network comes to rest.

| Run | Instance | Shows |
|---|---|---|
| `NetCollisions` | line of 3, 3 users (two of them one person), 2 nicks, TS 1 and 2, one nick change | every order of colliding introductions gives the same survivor, on every server |
| `NetRings` | 3 servers, 4 `connect{}` blocks (a triangle with one pair in both directions), 1 break, a user that signs on and quits | crossing connections and rings are cut, survivors agree, and nobody meets a remainder of a lost branch (`NoIdCollision`) |
| `NetPolicy` | 4 servers (a triangle and one behind it), 2 not hubs, a `hub_mask` and a `leaf_mask`, one break, one SQUIT | refused introductions cut the branch they must, at the server or at the link, and leave nothing behind that can not be reached |
| `NetFaults` | line of 3, 2 users, one nick, two TS values, one each of break, SQUIT and KILL | `TypeOK` and `NickUnique` under all faults together, and no exchange of repairs goes on for ever |
| `NetGhostUser` (violation) | one break and a collision | after a split a KILL for the first introduction meets the second |

Bounds. Environment steps (connect, break, SQUIT, NICK, KILL, QUIT) have a
budget each, `Limit`; lines have none, their number follows from the budgets. Three
servers are the smallest network in which lines about one user travel by
different ways at different speed; four give a branch behind a branch. Two
nicks and two TS values give every case of the collision rules (older, newer,
equal; same user or not). Within these, all interleavings are explored (68
thousand to 655 thousand states). Symmetry is not used: the servers have
different places in the graph.

The agreement properties are NOT claimed for all faults together: `NetGhostUser`
shows how they fail, and each passing run leaves out the combination that breaks them. `UsersAgree` is claimed without breaks,
`ServersAgree` without SQUITs by operators and without refusals (one that meets a break leaves a ghost, below). `Reachable` and `NickUnique` need no such care and are proved.

Fairness: `FairSpec` has weak fairness of `Receive(e)` for each end: the event
loop reads every readable socket in each turn. Nothing is assumed of users,
operators or the network. Deadlock is not checked, since with the budgets used up a network
at rest is the desired end.

The ghost user, in short: B kills both colliders while its link to A breaks; A
re-links and introduces its user `a1` again; C, which learned of the first introduction,
sends a KILL for it, which removes `a1` at B and at A; but the second introduction is
still on its way to C, where `a1` then stays. A ghost server comes about likewise, in three
ways, and no run is kept for them. `a1` on A sends `SQUIT A`; at C `a1` has just lost a collision, so the
prefix is unknown and the line is dropped: C keeps A. Or, in a ring and without any fault: an operator on C sends `SQUIT A`;
while it is on its way B links to A and introduces it to C; B then closes that link, and since the line came from C it does not go back
there (`m_squit.c:177`), although RFC 1459 (`doc/technical/rfc1459.txt:855`) has both ends of a closed connection tell all their
other servers: C keeps A. Or C refuses a server behind A and sends `SQUIT A` to B, which has just lost A and linked to it
again, to the same effect. `NetPolicy`, which has a break, a SQUIT and refusals, therefore checks `Reachable` only, and `NetRings` has
neither an operator nor a refusal.

## Connection: one server's clients from accept to free

`Connection.tla` models the life of local clients in one process. `phase` is the part of
`io_loop()`; `walk` is a handler in the middle of a list walk, with the node it is
at and the one it has saved as next; `reader` is the client whose `read_packet()`
is running. The rest are the lists, flags and counters of the code under
their own names; `flags[c]` joins `FLAGS_*`, the `AM_*` flags of `auth.h`, and what the client
holds (an open socket, a class).

Each handler is an action; one that can be re-entered is split exactly at the call
of `read_packet()`: `query_fails` / `query_failed`, `auth_expires` / `auth_expired`,
`res_readreply_final` / `res_readreply_return`. Between the two halves the reader's commands
(`register_local_user`, `mo_close`, `mo_kill`, `mo_dline`, `conf_rehash`, `read_exits`) may happen.
`exit_aborted_clients()` is split inside its `exit_client()`, because what that sends
may fail for another client. `dead_link_on_write(d)` may happen wherever the code sends.
`exit_clients(C, fl, cnt)` is `exit_client()` for the clients in `C`, with the flags
and counts at that point of the caller.

`fault` records a failed assertion or a walk to a node that is gone. What the
program does then is undefined, and the model stops there.

| Run | Instance | Shows |
|---|---|---|
| `ConnLifecycle` | 2 client slots, 2 addresses, one client per address, room for one ident socket at a time | `NoDangling`, `LookupsMatch`, `Counters`, and that the module implements `Lifecycle` |
| `ConnEnds` | 2 slots, 1 address, class limit 1, no limit per address | `AuthEnds` and `Reaped`: nobody waits for a lookup for ever, the dead are freed |
| `ConnIdentSocket` (violation) | `socket()` may fail for ident | `fd_close()` of a descriptor that was never opened |

`Lifecycle.tla` is the abstract specification: a client is free, in auth, open,
a user, exited, and goes through these in order, exiting at most once and from
anywhere. `stage` in `Connection` is the mapping; it is computed from memory, flags and lists,
so that an exit that misses one of them is not a step of `Lifecycle`. The loops of
`timeout_auth_queries_event()` and `timeout_query_list()` save their next node while they call back
into the parser, whose commands may remove that node; the model then stops with
`fault = "next_node"`, and the properties that speak of lists allow for it, so they do not catch what such a walk does next.

Bounds. Slots are reused without limit, so a client that is
freed and accepted again is covered. Two clients are enough for a walk with a
current and a next node, one reader and one victim; three would only lengthen the lists.
DNS requests keep the code's two tries.

Fairness (`FairSpec`): a handler that has begun returns (weak); the loop comes
round to `exit_aborted_clients()` and to the auth timer (strong: it may be busy at any
moment but is free again and again); and time passes, so that a pending client is
not found "not due" for ever (strong). Nothing is assumed of peers, ident or
name servers. Both liveness properties allow for `fault`.

`LinkedLists.tla` has the two operations of `list.c` that the walks depend on: the nodes that are left after
some were deleted, and the next node that `DLINK_FOREACH_SAFE` saves.

Configuration assumed: one `listen{}`, one `class{}`, one `auth{}` block without `exceed_limit`;
any user may be an operator. Left out: SSL handshakes, the connection throttle,
server links, message ids of DNS packets (an answer with an unknown id changes nothing). A client that dies of what
it is sent between `attach_iline()` and its registration (`user.c:464`) is not a state of its own: it dies before or after.

## Channels: timestamps, modes and lists

`ChannelModes.tla` has the data of one channel and the functions that compute a
new one: `set_channel_mode()` with its letters and `mode_changes`, ban lists,
`can_join()`, `can_send()`, the merge of `ms_sjoin()`. `Channels.tla` puts copies of the channels on a tree
of servers with FIFO links; the actions are the commands of local users and the messages
of other servers, named as their handlers. A scene is what the servers start with, who
acts, which commands they use, and how many. The walk over the letters of a mode line, the list of a
JOIN and the split of a mode change or a burst into lines are recursive functions on the position
in the line, as the loops of the code are, and so can be reasoned about for any length.

| Run | Instance | Shows |
|---|---|---|
| `Channels` | 2 and 3 servers, 4 users, 1 or 2 channels; sides of a split that are empty, old with an operator, old without, or young with one, in every combination; up to 4 commands | `ChannelsAgree`, `NoTakeover`, `BanCacheFresh`, `InvitesMatch` |
| `ChanDesync` (violation) | 2 servers with one channel, each operator sets a key | two `+k` of the same TS cross on a link and stay different, which `doc/technical/ts3.txt` excludes |

`ChannelsAgree` is stated for commands that only add (JOIN, and MODE `+m`, `+b`, `+o`): lines that take
away and cross additions desynchronise copies by the design of the protocol, and keys
and limits even when they add, which is what `ChanDesync` shows.
`NoTakeover`, `BanCacheFresh` and `InvitesMatch` are checked with every command.
Bounds: the clock has three values, links come up at most twice; three servers
suffice for a burst that passes through a server that merges something else meanwhile.

## Parts with state of their own

The modules below meet the rest of the server only through what they leave open
(who connects, what a socket takes, what services send). They are checked together in
`MCParts.tla`: a behaviour is one of a single part, chosen by `part` in the initial state. The six parts with theorems (`Bans`, `ChanfixDB`,
`ChanfixFix`, `ChanfixUsers`, `Pools`, `Messages`) are extended, with variables and constants of their own, so that a run checks the very definition that is proved; when another
part moves they rest in an initial state without steps (`BansRest`, `DBRest`, `UsersRest`, `MsgRest`). The others are instances, and `v1` to `v6` are the
variables of the one that moves. `Absent` declares the `None` that the six share. Each part starts in one of several scenes, which fix
the commands that may occur and the number of steps (`steps`); a
scene keeps the instance small, and each scene is there for one group of
interleavings. Deadlock is not checked, because a scene whose steps are used up
has ended. In all, the run `Parts` has about 440 thousand states.

| Module | Models | Properties |
|---|---|---|
| `ChanfixDB` | the arrays of channels with their hash index, scores by day, notes and flags, gathering, the rotation and cleaning of each day, the three copies on disk with every point at which a save may break | `IndexFinds`, `ScoresRight`, `CopySurvives` |
| `ChanfixFix` | one channel under automatic and manual fixes: the four events, the attempts and their thresholds, CHANFIX, BLOCK, ALERT, splits, the service's own JOIN, MODE and PART | `OneFix`, `FixEnds` |
| `ChanfixUsers` | users, flags, hosts and servers, sessions by nick, the dispatch of a line to a command, the user commands, `users.conf` and `loggedin`, reload and crash | `SessionsProved`, `RightsKept` |
| `Bans` | the address table with its precedence, X-lines and RESVs, the commands of opers and of other servers, G-line votes, expiry, REHASH, the databases with failures and crashes at open, write and rename, clients before and after | `BansEnforced`, `BansKept`, `ThreeOpers` |
| `Messages` | receive queues, the flood allowance with its timer and grace period, PRIVMSG and NOTICE to channels, users and masks, the `sendto_` functions, send queues with shared blocks, partial writes, exceeded and dead links | `Delivered`, `FloodBounded` |
| `Config` | the blocks and items of the parser in both passes, defaults and limits, REHASH with clients, opers and servers attached, classes with CIDR limits, listeners, the address cache and its throttle | `RehashFresh`, `RefsRight` |
| `Lists` | the hash tables and user@host counts, WATCH, WHOWAS, ACCEPT, LIST with its options and its walk resumed from the main loop | `ReportsTrue`, `TablesMatch` |
| `Opers` | servers `l` - `h` - `k` with services at `h`: MODE, OPER, CHALLENGE, AWAY, NICK, SVSMODE, SVSNICK, SVSTAG, registration, exits, splits and bursts, the counts, splitmode and its event, SET, oper blocks under REHASH | `CountsRight`, `OpersRight` |
| `Commands` | the tree of commands with its reference counts, modules loaded from the autoload directory, `ircd.conf`, the core table and by MODULE, files that cannot be opened, pseudo commands, capabilities and ISUPPORT tokens, start, exit and REHASH | `CommandsRight` |
| `Pools` | the size of chunks, `mp_pool_get()`, `mp_pool_release()`, the sorting and freeing of `mp_pool_clean()`, the collection of all pools | `PoolsRight` |

What the properties say, beyond their names:

* `ScoresRight`: a score is the number of points of the last DAYSAMPLES days (2 here), except for the days after a
  start with data of an earlier day, where `DB_set_day()` does not empty the counters it passed.
* `CopySurvives`: as long as no two saves in a row are broken off, what would be loaded is the last complete
  save or the broken one, perhaps without the last operators of its last channel.
* `FixEnds` (liveness): a channel does not stay on the lists of fixes, not even by going from one to the other, unless the network stays split. Fairness: the timed events run, the lines
  on the service's connection are read, and the clock goes on, all of which `io_loop()` does in every turn.
* `SessionsProved`: a command runs as the user whose password its sender gave, through changes of nick and server, DELUSER, REHASH and reload.
* `RightsKept`: `users.conf` gives back every user with every right, except for the main server of a user: a server admin who adds a user
  gives it its own after the save, and a load makes the first server of one who has none his main server (`WithMain`).
* `BansEnforced`: no client stays that a line matches and no exemption over-rules, whichever came first.
  The two known ways past it are left out by name (`rchg`, `skipped`), see below.
* `ThreeOpers` (action property): a G-line comes and goes by three opers of three servers, each in time.
* `Delivered`: a connection that is up has received exactly what was queued for it, whole, in order and once, though
  blocks are shared and others die in the middle of a send; a block lives while a queue holds it.
* `RehashFresh`: REHASH leads where a restart with the same file would, but for the settings listed in `Kept`.
* `RefsRight`: items, classes, listeners and address entries are counted exactly, and go when unused and out of the file.
* `ReportsTrue`: what WATCH, `find_chasing()` and LIST tell clients is so, however a walk was interrupted.
* `CountsRight`: users, operators and invisible users are counted exactly on every server, the list of operators holds the local ones once
  each, and automatic splitmode is on while servers or users are missing, with its event there to end it.
* `OpersRight`: rights end with `+o`, and at rest the servers agree on modes, nick TS, AWAY and tags, but for what a line of
  services crossed on a link.
* `CommandsRight`: however loads fail and REHASH and MODULE follow each other, no command leads to a module or pseudo block that is
  gone, no node of the tree is left over or freed too early, the core and resident modules are there while the server is up, and what
  is announced to clients and servers is what the loaded modules offer.
* `PoolsRight`: the assertions of `mp_pool_assert_ok()`, no item held twice or in a freed chunk, and a collection frees only what has been
  empty since the last one. `Pools` has no scenes: it is explored whole, up to a number of chunks per pool (`Limit`).

`BanRehash` (violation, same module): `clear_out_old_conf()` drops the X-lines and RESVs that operators placed, while its comment
says that it only frees what the parser allocated.

Bounds. Two or three clients, two channels, two values of a mask, 2 to 7 steps per scene: the
hazards in question need a holder and a rival, and one event between two halves of an
operation. Limits are set so that they are met: queues hold two or three lines, histories two nicks, DAYSAMPLES is 2, a
clock passes each expiry. A part whose scene has no more steps may still receive lines or run its events.

Departures of the code that the models show and the properties account for, without a
run of their own:

* chanfix: a fix that is attempted late, after a long split, uses a threshold below its end value; two broken saves in a row
  lose the database; the last channel gathered is left unsorted; a crash soon after a REHASH revives sessions that had ended;
  ADDUSER by a server admin sets the main server after the save, so it is lost by a reload unless another command saves again, and if ADDSERVER
  did that for another server first, that one becomes the main one; BLOCK is overwritten by ALERT.
* Bans: `check_conf_klines()` stops at the first kind that matches, even if an exemption over-rules it; RCHG changes the gecos without the
  X-line check; UNDLINE and UNKLINE of an address inside a covering network look in another bucket than the one they report.
* Messages: INVITE renews the flood allowance each time (`m_invite.c:80` lacks a negation); an empty line ends a
  round of parsing, so later lines wait for the next read. The comments in `packet.c` at 206 and at 261 disagree on what a second gives back (one line
  or two); the model follows the code, which gives two.
  Whoever may flood (`can_flood` in his auth block) is an operator here (`checkflood`), and nobody is a registered user, so only operators
  pass `+R`.
* Config: `rebuild_cidr_list()` runs before the new lengths are stored, so a class whose CIDR length changes counts wrongly (`touched`); edits of the class
  "default" outlive their removal; name, sid, certificate and DH parameters outlive REHASH (`Kept`). An oper block whose class is full is passed over for the next of that name, whatever file it comes from.
* Lists: LIST with several plain names shows nothing; one that named a channel twice would show it twice (`hash.c:838`), which is not among the options; a NICK change kills a user without the OPME flag.
* Opers: SVSMODE `-o` leaves `+a`, does not recount invisible users when `i` is an oper-only mode, and does not propagate what it removes; SVSMODE that
  crosses MODE or OPER leaves servers with different modes; SVSNICK that only changes case drops `+r` and sets the TS at home only; the tag of an oper block stays
  after `-o` and each OPER adds another; SET SPLITMODE AUTO after ON has no event to end it; the response to CHALLENGE finds the oper block again by
  name, without its other conditions.
* Commands: `pseudo_clear()` asserts that each pseudo command is found in the tree. It is not when the command has a character that is not a letter
  (`msg_tree_parse()` stops there, `add_msg_element()` does not), nor when a module with a command of that name was unloaded, since
  `mod_del_cmd()` goes by name. Without assertions the first case leaves a node that points to freed memory, and the command whose
  letters share its slots leads there (`Odd`); the model goes on as such a build does. `m_evo` is in the table of core modules but lacks
  their flag, so it may be unloaded.

## What is proved

| Module | Proves |
|---|---|
| `NetworkProofs` | `TypeCorrect`, `NicksStayUnique`, `StaysReachable` of `Network` |
| `LinkedListsProofs` | what deleting, adding and fetching the next node do to a list; induction over lengths |
| `ConnectionProofs` | `TypeCorrect`, `NothingDangles`, `LookupsAgree`, `CountersRight` of `Connection`, from `Invariance`; `Refinement`: it implements `Lifecycle` |
| `ChannelModesProofs` | what the functions of `channel.c` and `channel_mode.c` keep of one channel |
| `ChannelsProofs` | `TakeoverPrevented`, `CacheStaysFresh`, `InvitationsMatch` of `Channels`, from `Invariance` |
| `BansProofs` | `BansStay`, `LinesEnforced` and `ThreeAgree` of `Bans` |
| `ChanfixProofs` | `EntriesFound` and `CopiesSurvive` of `ChanfixDB`, `FixedOneWay` of `ChanfixFix`, `SessionsStayProved` and `RightsStayKept` of `ChanfixUsers` |
| `PartsProofs` | `PoolsStayRight` of `Pools`, `FloodHeld` of `Messages` |

The assumptions on the constants are named in the modules that declare them, and TLC
evaluates each of them on the runs of that module. The theorems about `Bans`, `Pools`, `Messages`, `ChanfixUsers` and the index of `ChanfixDB` carry theirs as a
hypothesis, and `MCParts` has TLC evaluate `ScenesRight`, `SizesRight`, `LimitsRight`, `FirstRight` and `IndexRight` on its instances (`ConstantsRight`).

### Network

For every set of servers and users, every graph of `connect{}` blocks, every hub
policy and every budget:

* `TypeCorrect`: `Spec => []TypeOK`.
* `NicksStayUnique`: `Spec => []NickUnique`. No two users share a nick on a server.
* `StaysReachable`: `Spec => []Reachable`. Everything in a directory has a route.

Assumptions: `NetworkAssumption` (kinds of the constants; finite servers and users;
nobody connects to itself; TS values are positive) and `NoneAssumption` (`None` is not
an ID, a nick or a record).

The argument. `TypeOK` is inductive. Lemmas on the helpers say that each message
constructor yields a message, that transmitting, flooding and bursting lines
keeps queues well typed, and that forgetting servers keeps directories well typed;
then one lemma per group of actions (link, server, local, operator and remote steps) and a
PTL step. `NickUnique` is inductive together with `TypeOK`: removing clients keeps it
(`ForgetKeepsUnique`), and a nick is only given when nobody holds it after the
collision was resolved (`NewNickUnique`). `Reachable` is the strengthened form: that every known server has an
established link is not inductive alone, because removing a branch must leave nothing whose
path leads through it. So it also says that a path is closed (each server on it is
known, by the same link, with a path inside this one) and starts at the
neighbour; then `ForgetReachable` and `AddServerReachable` carry the step.

### Connection

For every number of client slots, every set of addresses, every limit of clients, descriptors and
connections per address, and whether or not `socket()` may fail:

* `NothingDangles`: `Spec => []NoDangling`. It holds in the states with a `fault` too.
* `LookupsAgree`: `Spec => []LookupsMatch`. As long as no loop has lost its next node.
* `CountersRight`: `Spec => []Counters`. Under the same condition.
* `Refinement`: `Spec => Implements`, which is `Abstract!Spec`.

Assumption: `ConnectionAssumption` (finitely many slots, `None` is neither a client nor
the name of a fault, limits are numbers).

None of the three is inductive. The invariant `Inv` has six parts beside the absence of the fault
`rem_request`, and each is needed by another one:

* `TypeOK`.
* `Records`: what memory, list, flags and descriptor of one client say of each other. A freed
  slot is blank; a client on a list is allocated and has not exited; an unknown client holds no address and no class, an exited one nothing at
  all. Without it `exit_client()` could give back what was never taken, and `Counters` fails.
* `Aborts`: `abort_list` holds each dead client that has not exited, once, and `eac_next` is the
  node that follows the one being exited, also when `dead_link_on_write()` appends to the
  list in the middle of the walk. From this follows that nobody is left behind when memory is freed.
* `Pointers`: everything that is referenced is allocated, a walk has a node, and a client that is
  read has finished auth.
* `Lookups`: `LookupsMatch`, and that the request whose callback is running is still in the queue, with its flag
  already cleared. This is what `rem_request()` relies on after the callback.
* `Counters`.

Exits are handled once: `ExitFacts` says what `exit_clients(C, fl, cnt)` does to each variable, and one lemma that it
keeps `Inv` for any `C`; each handler then adds only what it does before and after. The counts are
sets of clients, so a step changes `Cardinality` by the clients that leave (`Counting`). `MoveStep` covers the
steps that only move a walk.

For the refinement, `stage` depends on memory, list and two flags (`StageFacts`). An action that leaves these alone
stutters; `release_auth_client()` is Release, registration is Register, `exit_clients` an Exit of
those not closing yet, `free_client()` of the dead list is Reap, because `Inv` says that
`dead_list` holds exactly the exited clients.

### Channels

For every number of servers, users and channels, every start of the servers with channels made apart, every set of
commands, mode lines, JOIN lists and bursts of any length, and any number of splits and rejoins:

* `TakeoverPrevented`: `Spec => []NoTakeover`. No member is operator of a copy older than the status.
* `CacheStaysFresh`: `Spec => []BanCacheFresh`. What `can_send()` cached is what `is_banned()` would say.
* `InvitationsMatch`: `Spec => []InvitesMatch`. Both directions of an invitation agree.

Assumptions: `ModesAssumption` (users, the empty string and `*` are parameters; `split_nuh()` makes no empty mask, since
it puts in `!` and `@`; the empty string is not a number), `ChannelAssumption` (every user has a home server, limits are positive, finitely many channels)
and `SceneAssumption` (each server starts with channels that its own users made, and the parameters of commands are of
their kind).

The invariant. `NoTakeover` speaks of copies, but a copy becomes older or gets operators by lines that come from
elsewhere, so `Inv` also speaks of every line on its way. Its parts:

* `World`: on each server, each channel is `Good` (typed; `Dated`, a channel that exists has a TS and one that does not is
  blank; `Lawful`, operators earned it at this TS or before; `Fresh`, the cached bans), invitation lists have no
  repetition and no more than the limit, and they match the channels (`Matched`) of users that are known and local (`Guests`).
* `QueueOK`: each line in a queue is one that some handler sends, and an SJOIN or TMODE that makes somebody operator
  carries a TS at which that was earned. As `earned` only decreases (`Earlier`), what is in a queue stays right.
* A server is not its own neighbour, and sends itself nothing but an INVITE that finds no way.

The step that takes most work is a line sent by one server and walked by another: `set_channel_mode()` at the sender emits
letters and parameters that `send_mode_changes_server()` splits into lines, and the receiver must find with each
letter the parameter it was sent with. Otherwise an operator could be made of a user that nobody
named. `ArgsOf` says which parameters belong to which letters, and the lemmas on the remote
walk that the receiver pairs them alike. For `ms_sjoin()` the cases are those of the TS comparison (`KeepOurs`, `KeepTheirs`): the side
that loses drops status and lists, and with them the cached bans.

### Bans

For every set of masks, clients, opers and servers, every configuration, and commands, votes, saves, failures,
stops and crashes in any order and number:

* `BansStay`: `BansSpec => []BansKept`. The K-, D- and G-lines in force are those that were placed.
* `LinesEnforced`: `BansSpec => []BansEnforced`. No client stays that a line in force bars.
* `ThreeAgree`: `BansSpec => ThreeOpers`. Three opers of three servers agree on each G-line.

Hypothesis: `InputsRight`, which is `ScenesRight` of `Bans.tla` (configurations contain no entry of the database, finitely many G-lines at the
start) and that `None` is not a file.

`BansKept` is not inductive: it says nothing of the files, from which the lists are made again at a start. `KeptInv` adds to
the lists in force (`InForce`: each entry of the database once) that the file of each kind holds what its last finished save wrote
(`OnDisk`), and that while the databases are saved, a temporary file about to be renamed holds what is in force now (`Saving`):
nothing is placed or removed between the writing and the renaming. A `Listing` is a list whose entries of the database are a given set, each once;
what appending, joining, deleting and `Keep` do to one is proved first. X-lines and RESVs are not
covered, since a REHASH drops them (`BanRehash`).

`BansEnforced` needs what the next search or start will find. `BarInv` says of every client that it is off or `Safe`: no entry of the lists hits it,
or an exemption covers it, or one of its history fields tells why it was passed over. An added line keeps that because the check after it (`check_conf_klines()`) looks
at every client for the new list, a removed or expired line because a client safe from more entries is safe from fewer (`FewerEntries`), a REHASH because
it checks every client for the lists it made. X-lines in force may come from the file at a start, where nobody is connected.
The step from "an entry hits" to "the search finds one" and back is `HitsFound`.

`ThreeOpers` needs what a pending request stands for: `Backed` says that its last voter voted at the time it carries and, if it has two, that the
first voted within the allowed time before, from another server. Expiry, removal and the merging of a vote keep that, and the third vote completes it.
A vote takes away the first entry that the voted mask finds, which may be a wider or narrower one than the voters named (`find_conf_by_address()`);
`ThreeOpers` says so (`FoundBy`).

### Chanfix

* `CopiesSurvive`: `DBSpec => []CopySurvives`. What would be loaded is what was saved, or nearly.
* `EntriesFound`: `DBSpec => []IndexFinds`. `CE_find_channel()` finds what is in the array, and the operators of a channel fit in theirs.
* `FixedOneWay`: `FixSpec => []OneFix`. One fix at a time, and the service leaves the channel.
* `SessionsStayProved`: `UsersSpec => []SessionsProved`. Every session and every command belongs to a user who logged in with his password.
* `RightsStayKept`: `UsersSpec => []RightsKept`. The file gives back what the service knows.

`CopiesSurvive` and `FixedOneWay` have no hypotheses. `EntriesFound` has `IndexRight`: each name has one hash, there are finitely many
hosts, and an array of operators has room for one from the start. The two about users have `FirstRight`: the users of the first file are records of users with ids of their own, and nothing is
assumed of their names, flags, hosts or servers. For the copies, `CopiesInv` adds that unless the last save was broken off there are two whole copies of each
sub-database, so the one that `DB_save()` overwrites next is spare (`TwoCopies`); a lemma for each point at which a save may break says
what is then found. For the fixes, `FixInv` adds that lines in the queue of the service are of the kinds it reads, so that no line before the PART
can take the PART away: each way into the channel (`Enter`) queues one, and only reading it takes the service out.

For the index, `IndexInv` has that each sub-database is `Indexed`: the array is sorted by hash without being said to be, because `subsort[h]` splits it into the
channels of lower hashes and the others, for every `h` at once; names occur once; and each entry is `EntryRight`, its operators within its array. `IndexFinds` alone
would not do: that a channel is found says nothing of where the next one is to go. The channel that is open for writing must exist (`WriteRight`), since closing it
writes through its index, and every whole copy on disk must be `Indexed` as well, the one with a shortened last channel too, since a start takes the array from it
(`CopiesRight`). `NewKeeps`, `DelKeeps` and `ForgetKeeps` are the steps of it that could go wrong: the insertion that shifts `subsort`
above the new hash, the deletion that shifts it back, and the cleaning of a day that deletes while it walks the array.

The two theorems about users have one invariant, `UsersInv`, since they need each other: a REHASH logs the sessions in again by name from what it has just read,
so that a session still belongs to the user who logged in only if the file has that user under that name with that id (`KeptFound`). `Sound` therefore has
that ids are unique and names are among the users not deleted, that the file gives each of those back (`GivenBack`), and that the login behind each session is in
`proved` or came back from the `loggedin` file. `Alive` (nobody deleted has a session) is a part of its own because DELUSER breaks it: the user is marked deleted and saved before the
sessions are ended one by one. In between only `Sound` holds, and the lemmas on `Quiet` steps carry both. A save that a crash breaks off leaves a prefix of
the users, whose ids are still unique: nothing more is needed, as the service is down then and no session outlives it.
`RightsKept` was once stated with the main server and the proof attempt showed it false (the departure above).

### Pools

* `PoolsStayRight`: `PoolsSpec => []PoolsRight`, for any number of pools, chunks and items, and whatever `Limit` is.

Hypothesis: `SizesRight` (sizes are numbers, and two items of a pool fit in a gigabyte, since
`mp_pool_new()` doubles in 32 bits). That a chunk has room for two items is proved from it (`CapacityFacts`), and is needed: with room for one,
a chunk would go from the used list to the full one and back and never be empty.

The invariant has, for each pool, `Lists` (the three lists are disjoint, without repetition, and cover the chunks), `Boxes` (the items of a chunk
are those in use and those on its free list, which together are the ones carved from its memory), `Filled` (the list a chunk is on follows
from its count), and `Marks`. The last one is what makes the two counters of `mp_pool_clean()` enough: the last `min_empty` of the
empty chunks have been empty since the last collection, because chunks are taken from and put on the front of the list. `Inside` ties held items to
chunks. In the middle of `mp_pool_get()` the first used chunk may have no item yet (`Opened`). That the
assertions of the code hold, and that no chunk with a held item is freed, follow.

### Messages

* `FloodHeld`: `MessagesSpec => []FloodBounded`, for any clients, links, channels, limits and lines, cut into any pieces.

Hypothesis: `LimitsRight` (`MAX_FLOOD` and `FloodCount` are positive, since a floodcount of 0 turns the limit off; what peers
send are sequences of tokens; a message names finitely many targets). That write errors, exits and full queues happen in
the middle of a command does not matter for it: the proof leaves what is sent open.

`FloodBounded` compares a count with a clock, and a line and a second are not one step, so it is not inductive. For a client, `Quota` also follows the allowance: lines parsed since the
grace period ended are no more than those charged at present (`sent_parsed`), which are at most `MAX_FLOOD`, or than those and the seconds that had passed when the timer
was set, with two to spare while `flood_recalc()` runs and the timer is not set. The timer gives two back and runs after more than one second (`flush < clock`):
this is where 2 lines for 2 seconds come out even (`QuotaOfRecalc`); `Alarms` bounds how late the timer may be set for, which the
end of a grace period needs. For a target, `Paid` says that the messages passed are no more than the count and the time the count was brought up to date at: one falls as the
other rises (`DecayedKeeps`). A command with many targets keeps that target by target (`ListKeeps`, `DeliveringKeeps`).

### Induction

The library's induction theorems take a predicate as parameter and cannot be used. Where a recursive function
on the positions of a list is proved about (`Keep`, which `Bans` and `Pools` use too, the mode walk, `channel_do_join()`, `burst_all()`,
`ArgsOf`, `send_mode_changes_server()`, the targets of a message), the induction is over a set of numbers: the set of
positions where the claim fails has a least element (`LeastNumber`, from the well-foundedness of <),
which contradicts the step. `KeepSolvable` and its like first show in this way that the recursive
definition has a solution.

### Only model-checked

* `UsersAgree`, `ServersAgree`, `NoLoop`, `WinnerSurvives`, `NoIdCollision`, `ChannelsAgree`: each relates the directories of
  several servers to the contents of all queues between them, and the first four and the last hold only at rest and for the
  combinations of faults a run allows, so an invariant would have to say what every state on the way there can still become.
* `OpersRight` and `CountsRight`: likewise, with lines of services that cross those of users.
* `ScoresRight`: sums over days, which are folds;
  `Delivered`: whole lines and blocks are counted in what many sends leave, which are folds too;
  `TablesMatch`, `ReportsTrue`, `RehashFresh`, `RefsRight`: the modules have RECURSIVE operators.
* `CommandsRight`: a state machine of many commands without an obstacle of principle; its invariant (of the tree and its reference counts) is not written.
* `ClosesOpen` and the other properties of runs that expect a violation are false.
* The liveness properties `Settles`, `AuthEnds`, `Reaped` and `FixEnds`, which are out of the prover's reach.

## Not modelled

* Message texts and numerics, TLS, encryption of links, capability negotiation (a link that fails it never becomes a server).
* Queries that only read and format (STATS, WHO, WHOIS, TRACE, NAMES, MAP, LINKS), HELP, MOTD, ISUPPORT.
* The lexer of the configuration file (`conf_lexer.c`, generated by flex) and the tables of the generated parser; `Config` starts from the items.
* Character loops without state: `match()`, `collapse()`, `valid_nickname()`, parsing of numbers and masks. Masks are members of small sets with a table of what they match.
* libltdl (third-party; opening a module either works or does not), the pollers, DNS packet formats, GeoIP, the tools.
* chanfix: its own connection as a client (`cf_init.c`), settings, logs, the notices to those logged in when someone is logged out (`cf_user.c:965`) and the commands that only show data.
* Failures of the system besides those named above: an `ircd.conf` that can not be opened at REHASH (`conf.c:1285`, which then changes nothing of the settings),
  a failing `fclose()` of the chanfix database, whose return the code does not check (`cf_database.c:1223`).
* SET AUTOCONN, several listeners with ident at the same time, the order of the event queue and a clock that is set back.
