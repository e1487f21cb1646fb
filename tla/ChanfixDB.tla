----------------------------- MODULE ChanfixDB -----------------------------
(***************************************************************************)
(* The score database of the chanfix service (chanfix/cf_database.c), the  *)
(* gathering that fills it (cf_gather.c) and its three copies on disk.     *)
(* A sub-database is an array of channels sorted by a hash, with subsort   *)
(* telling where each hash begins; a channel keeps the user@hosts seen as  *)
(* operators with one counter per day, DAYSAMPLES days round.              *)
(*                                                                         *)
(* Ghosts: when (in a chanop) is what each counter stands for by calendar  *)
(* day; good and attempt are the contents of the last DB_save() that ended *)
(* and of the last that did not; slip is the last day on which the service *)
(* started with data of an earlier day. dbscene bounds what a behaviour does *)
(* (steps, saves) and which channels and commands it uses.                 *)
(***************************************************************************)
EXTENDS Integers, FiniteSets, SequencesExt, FiniteSetsExt, Absent

CONSTANTS Names, DBHash, CEHash, Hashes, Hosts,
          DAYSAMPLES, MAXOPCOUNT, InitOps, MAXNOTECOUNT,
          FirstDay, MaxDay, DBScenes
VARIABLES db, write, day, dbup, files, good, attempt, failing, slip, today, dbscene
dbvars == <<db, write, day, dbup, files, good, attempt, failing, slip, today, dbscene>>

Subs == {DBHash[n] : n \in Names}
Days == FirstDay .. MaxDay
DaySlot(d) == d % DAYSAMPLES

-----------------------------------------------------------------------------
(* One channel and its operators.                                          *)
NoNotes == [i \in 1 .. MAXNOTECOUNT |-> None]
NewChannel(n) == [name |-> n, chanop |-> <<>>, chanopmax |-> InitOps, flag |-> {}, channote |-> NoNotes]
NewOp(h) == [host |-> h, daycount |-> [s \in 0 .. DAYSAMPLES - 1 |-> 0], when |-> [d \in Days |-> 0]]
Score(op) == SumFunction(op.daycount)

(* DB_write_end(): an insertion sort, best score first, ties in place.     *)
Ranked(done, op) == InsertAt(done, 1 + Cardinality({i \in DOMAIN done : Score(done[i]) >= Score(op)}), op)
DB_write_end(ops) ==
    LET done[i \in 0 .. Len(ops)] == IF i = 0 THEN <<>> ELSE Ranked(done[i - 1], ops[i])
    IN done[Len(ops)]
Sorted(c) == [c EXCEPT !.chanop = DB_write_end(@)]

(* CE_register_op(): one point for the current day; a user@host that has no *)
(* entry gets one unless the array has reached its last size.               *)
CE_register_op(c, h, d) ==
    LET known == {i \in DOMAIN c.chanop : c.chanop[i].host = h}
        full  == Len(c.chanop) >= c.chanopmax
        grown == IF known = {} /\ full THEN [c EXCEPT !.chanopmax = 2 * @] ELSE c
        at    == IF known = {} THEN Len(c.chanop) + 1 ELSE Min(known)
        ops   == IF known = {} THEN Append(c.chanop, NewOp(h)) ELSE c.chanop
    IN IF known = {} /\ full /\ c.chanopmax >= MAXOPCOUNT THEN c
       ELSE [grown EXCEPT !.chanop = [ops EXCEPT ![at].daycount[DaySlot(d)] = @ + 1, ![at].when[d] = @ + 1]]
Registered(c, hosts, d) ==
    LET done[i \in 0 .. Len(hosts)] == IF i = 0 THEN c ELSE CE_register_op(done[i - 1], hosts[i], d)
    IN done[Len(hosts)]

(* DB_channel_add_note(): newest first, shifting up to the first hole.     *)
DB_channel_add_note(c, note) ==
    LET holes == {i \in 1 .. MAXNOTECOUNT : c.channote[i] = None}
        s     == IF holes = {} THEN MAXNOTECOUNT ELSE Min(holes)
    IN [c EXCEPT !.channote = [i \in 1 .. MAXNOTECOUNT |->
            IF i = 1 THEN note ELSE IF i <= s THEN c.channote[i - 1] ELSE c.channote[i]]]

NoteSlots(c) == {i \in 1 .. MAXNOTECOUNT : c.channote[i] # None}

(* DB_channel_del_note(): empties the slot of the k-th note there is.      *)
DB_channel_del_note(c, k) ==
    LET i == CHOOSE i \in NoteSlots(c) : Cardinality({j \in NoteSlots(c) : j <= i}) = k
    IN [c EXCEPT !.channote[i] = None]

-----------------------------------------------------------------------------
(* One sub-database: struct ChannelElement.                                *)
CE_reset == [channels |-> <<>>, subsort |-> [h \in Hashes |-> 0]]

CE_find_channel(ce, n) ==   \* the index, or 0
    LET at == {i \in ce.subsort[CEHash[n]] + 1 .. Len(ce.channels) : ce.channels[i].name = n}
    IN IF at = {} THEN 0 ELSE Min(at)

Shift(ce, h, by) == [j \in Hashes |-> IF j > h THEN ce.subsort[j] + by ELSE ce.subsort[j]]

(* CE_new_channel(): LexicographicCompare() only tells equal from different, *)
(* so the place is the beginning of the hash, or the end of the array.       *)
CE_new_channel(ce, n) ==
    LET start == ce.subsort[CEHash[n]]
        r     == IF start < Len(ce.channels) THEN start ELSE Len(ce.channels)
    IN [channels |-> InsertAt(ce.channels, r + 1, NewChannel(n)), subsort |-> Shift(ce, CEHash[n], 1)]

CE_del_channel_fault(ce, n) ==   \* the index is not moved down
    [ce EXCEPT !.channels = RemoveAt(ce.channels, CE_find_channel(ce, n))]

CE_del_channel(ce, n) ==
    [channels |-> RemoveAt(ce.channels, CE_find_channel(ce, n)), subsort |-> Shift(ce, CEHash[n], -1)]

(* The part of CE_update_day() that forgets operators without a score, and *)
(* gives memory back.                                                      *)
Zeroed(c, d) == [c EXCEPT !.chanop = [i \in DOMAIN @ |-> [@[i] EXCEPT !.daycount[DaySlot(d)] = 0]]]
CutZeros(c) ==
    LET zero == {i \in DOMAIN c.chanop : Score(c.chanop[i]) = 0}
    IN IF zero = {} THEN c ELSE [c EXCEPT !.chanop = SubSeq(@, 1, Min(zero) - 1)]
Shrunk(c) ==
    IF c.chanop # <<>> /\ Len(c.chanop) <= c.chanopmax \div 3 /\ c.chanopmax > InitOps
    THEN [c EXCEPT !.chanopmax = @ \div 2] ELSE c
Obsolete(c) == c.chanop = <<>> /\ c.flag = {} /\ NoteSlots(c) = {}
Forget(ce, c) == IF Obsolete(c) THEN CE_del_channel(ce, c.name) ELSE ce
ForgetObsolete(ce) ==   \* by name, in the order of the array
    LET left[i \in 0 .. Len(ce.channels)] == IF i = 0 THEN ce ELSE Forget(left[i - 1], ce.channels[i])
    IN left[Len(ce.channels)]

CE_update_day_fault(ce, d) ==   \* the counter of the new day keeps its old points
    ForgetObsolete([ce EXCEPT !.channels = [i \in DOMAIN @ |->
        Shrunk(CutZeros(Sorted(@[i])))]])

CE_update_day(ce, d) ==
    ForgetObsolete([ce EXCEPT !.channels = [i \in DOMAIN @ |->
        Shrunk(CutZeros(Sorted(Zeroed(@[i], d))))]])

-----------------------------------------------------------------------------
(* The write channel: closing it sorts its operators, opening one that is  *)
(* not there creates it.                                                   *)
DB_channel_exists(D, n) == CE_find_channel(D[DBHash[n]], n) # 0
ChannelEntry(D, n) == D[DBHash[n]].channels[CE_find_channel(D[DBHash[n]], n)]
Put(D, n, c) == [D EXCEPT ![DBHash[n]].channels[CE_find_channel(D[DBHash[n]], n)] = c]

Closed(D) == IF write = None THEN D ELSE Put(D, write, Sorted(ChannelEntry(D, write)))
DB_set_write_channel(D, n) ==
    LET C == Closed(D)
    IN IF DB_channel_exists(C, n) THEN C ELSE [C EXCEPT ![DBHash[n]] = CE_new_channel(@, n)]

(* Commands and fixes that change the entry of n through F, leaving n open. *)
Change(n, F(_)) ==
    /\ dbup /\ dbscene.steps > 0 /\ dbscene' = [dbscene EXCEPT !.steps = @ - 1] /\ write' = n
    /\ LET D == DB_set_write_channel(db, n) IN db' = Put(D, n, F(ChannelEntry(D, n)))
    /\ UNCHANGED <<day, dbup, files, good, attempt, failing, slip, today>>

Flags(n) == IF DB_channel_exists(db, n) THEN ChannelEntry(db, n).flag ELSE {}

process_cmd_addnote(n) == Change(n, LAMBDA c : DB_channel_add_note(c, "NOTE"))
process_cmd_delnote(n, k) ==
    /\ DB_channel_exists(db, n) /\ k \in 1 .. Cardinality(NoteSlots(ChannelEntry(db, n)))
    /\ Change(n, LAMBDA c : DB_channel_del_note(c, k))
process_cmd_block(n) ==
    "BLOCK" \notin Flags(n) /\ Change(n, LAMBDA c : DB_channel_add_note([c EXCEPT !.flag = {"BLOCK"}], "BLOCK"))
process_cmd_unblock(n) ==
    "BLOCK" \in Flags(n) /\ Change(n, LAMBDA c : DB_channel_add_note([c EXCEPT !.flag = @ \ {"BLOCK"}], "UNBLOCK"))
process_cmd_alert(n) ==
    "ALERT" \notin Flags(n) /\ Change(n, LAMBDA c : DB_channel_add_note([c EXCEPT !.flag = {"ALERT"}], "ALERT"))
process_cmd_unalert(n) ==
    "ALERT" \in Flags(n) /\ Change(n, LAMBDA c : DB_channel_add_note([c EXCEPT !.flag = @ \ {"ALERT"}], "UNALERT"))
add_fix(n) ==   \* a fix enters itself in the history of the channel
    DB_channel_exists(db, n) /\ Change(n, LAMBDA c : c)

(* gather_all_channels(): rotate the counters if the day is over, then take *)
(* the operators of the channels of this run, here at most one channel.     *)
gather_rotate ==   \* all a run does while the network is split
    /\ dbup /\ today > day
    /\ db' = [k \in Subs |-> CE_update_day(Closed(db)[k], today)]
    /\ day' = today /\ write' = None
    /\ UNCHANGED <<dbup, files, good, attempt, failing, slip, today, dbscene>>
update_scores_of_channel(n, hosts) ==
    /\ dbup /\ today = day
    /\ LET D == DB_set_write_channel(db, n)
       IN db' = Put(D, n, Registered(ChannelEntry(D, n), hosts, day))
    /\ dbscene.steps > 0 /\ dbscene' = [dbscene EXCEPT !.steps = @ - 1] /\ write' = n
    /\ UNCHANGED <<day, dbup, files, good, attempt, failing, slip, today>>

-----------------------------------------------------------------------------
(* The copies database<k>.ocf, .ocf.bak and .ocf.old. A file whose end is   *)
(* missing is refused, unless it was cut between the operators of its last  *)
(* channel: fread() of the array is content with the first of them, and the *)
(* rest of the array stays blank.                                           *)
Gone == [state |-> "gone"]
Torn == [state |-> "torn"]
Whole(ce, d) == [state |-> "whole", ce |-> ce, day |-> d]
Blanked(ce, k) ==
    [ce EXCEPT !.channels[Len(ce.channels)].chanop =
        [i \in DOMAIN @ |-> IF i <= k THEN @[i] ELSE NewOp(None)]]
Shortened(ce) ==
    IF ce.channels = <<>> \/ NoteSlots(Last(ce.channels)) # {} THEN {}
    ELSE {Blanked(ce, k) : k \in 1 .. Len(Last(ce.channels).chanop) - 1}
Cut(ce) == {Torn} \cup {Whole(e, day) : e \in Shortened(ce)}

(* A note list is written, and read back, without its holes.               *)
Packed(c) ==
    LET Nth(i) == CHOOSE j \in NoteSlots(c) : Cardinality({m \in NoteSlots(c) : m <= j}) = i
    IN [c EXCEPT !.channote = [i \in 1 .. MAXNOTECOUNT |->
            IF i > Cardinality(NoteSlots(c)) THEN None ELSE c.channote[Nth(i)]]]
DB_save_iteration(ce) == [ce EXCEPT !.channels = [i \in DOMAIN @ |-> Packed(@[i])]]

(* DB_load() of one sub-database: the first copy that can be read, and an   *)
(* empty one if there is none.                                              *)
DB_load_fault(f) ==   \* the oldest copy is not tried
    IF f.ocf.state = "whole" THEN f.ocf ELSE IF f.bak.state = "whole" THEN f.bak ELSE Whole(CE_reset, today)

DB_load(f) ==
    IF f.ocf.state = "whole" THEN f.ocf
    ELSE IF f.bak.state = "whole" THEN f.bak
    ELSE IF f.old.state = "whole" THEN f.old ELSE Whole(CE_reset, today)

(* DB_save() of one sub-database, and what is on disk if it is broken off,  *)
(* by a crash or by a write error, after each of its steps.                 *)
Copies(ocf, bak, old) == [ocf |-> ocf, bak |-> bak, old |-> old]
Saved(f, ce) == Copies(Whole(ce, day), Whole(ce, day), f.bak)
Interrupted(f, ce) ==
    {Copies(o, f.bak, f.old) : o \in Cut(ce)}                     \* .old not yet removed
      \cup {Copies(o, f.bak, Gone) : o \in Cut(ce)}              \* removed
      \cup {Copies(o, Gone, f.bak) : o \in Cut(ce)}              \* .bak moved to .old
      \cup {Copies(Whole(ce, day), b, f.bak) : b \in {Gone} \cup Cut(ce)}

DB_save ==
    /\ dbup /\ dbscene.saves > 0 /\ dbscene' = [dbscene EXCEPT !.saves = @ - 1]
    /\ LET D == [k \in Subs |-> DB_save_iteration(db[k])]
       IN /\ files' = [k \in Subs |-> Saved(files[k], D[k])]
          /\ good' = D /\ attempt' = D
    /\ failing' = FALSE
    /\ UNCHANGED <<db, write, day, slip, today>>
ocf_save_database == DB_save /\ UNCHANGED dbup
db_moddeinit == DB_save /\ dbup' = FALSE

(* A save that is broken off: the sub-databases before k are on disk, k is *)
(* half way, the rest is untouched. Two in a row may lose everything: the  *)
(* only good copy may be .old, which is removed before .ocf is flushed.    *)
SaveBroken ==
    /\ dbup /\ dbscene.saves > 0 /\ dbscene' = [dbscene EXCEPT !.saves = @ - 1] /\ ~failing /\ failing' = TRUE
    /\ \E k \in Subs :
         LET D    == [j \in Subs |-> DB_save_iteration(db[j])]
             done == {j \in Subs : j < k}
         IN \E f \in Interrupted(files[k], D[k]) :
              /\ files' = [j \in Subs |-> IF j \in done THEN Saved(files[j], D[j])
                                          ELSE IF j = k THEN f ELSE files[j]]
              /\ good' = [j \in Subs |-> IF j \in done THEN D[j] ELSE good[j]]
              /\ attempt' = [j \in Subs |-> IF j \in done \cup {k} THEN D[j] ELSE attempt[j]]
    /\ dbup' \in BOOLEAN        \* the disk was full, or a crash
    /\ UNCHANGED <<db, write, day, slip, today>>

DBCrash == dbup /\ dbup' = FALSE /\ UNCHANGED <<db, write, day, files, good, attempt, failing, slip, today, dbscene>>

(* _modinit(): load, and take the counters of today's slot as they are.    *)
db_modinit ==
    /\ ~dbup /\ dbup' = TRUE /\ day' = today /\ write' = None
    /\ db' = [k \in Subs |-> DB_load(files[k]).ce]
    /\ slip' = IF \E k \in Subs : DB_load(files[k]).day < today THEN today ELSE slip
    /\ UNCHANGED <<files, good, attempt, failing, today, dbscene>>

(* Midnight; the update event is timed to fire then.                       *)
Midnight ==
    /\ today < MaxDay /\ (dbup => day = today) /\ today' = today + 1
    /\ UNCHANGED <<db, write, day, dbup, files, good, attempt, failing, slip, dbscene>>

DBInit ==
    /\ db = [k \in Subs |-> CE_reset] /\ write = None /\ day = FirstDay /\ dbup = TRUE
    /\ files = [k \in Subs |-> Copies(Gone, Gone, Gone)]
    /\ good = [k \in Subs |-> CE_reset] /\ attempt = good /\ failing = FALSE
    /\ slip = FirstDay - DAYSAMPLES /\ today = FirstDay /\ dbscene \in DBScenes

(* The user@hosts of the operators of a channel, in any order.              *)
HostLists == UNION {SetToSeqs(H) : H \in SUBSET Hosts}
DBNext ==
    \/ \E n \in dbscene.names :
         \/ \E hosts \in HostLists : update_scores_of_channel(n, hosts)
         \/ add_fix(n)
         \/ dbscene.commands /\
              \/ process_cmd_addnote(n) \/ process_cmd_block(n) \/ process_cmd_unblock(n)
              \/ process_cmd_alert(n) \/ process_cmd_unalert(n)
              \/ \E k \in 1 .. MAXNOTECOUNT : process_cmd_delnote(n, k)
    \/ gather_rotate \/ ocf_save_database \/ db_moddeinit \/ SaveBroken \/ DBCrash \/ db_modinit \/ Midnight
DBSpec == DBInit /\ [][DBNext]_dbvars

-----------------------------------------------------------------------------
(* What the proof of IndexFinds supposes: arrays have room from the start,  *)
(* a channel has one hash, and a behaviour is about these channels.        *)
IndexRight ==
    /\ IsFiniteSet(Hosts) /\ InitOps \in Nat \ {0} /\ Hashes \subseteq Nat /\ CEHash \in [Names -> Hashes]
    /\ DBScenes \subseteq [saves : Nat, steps : Nat, names : SUBSET Names, commands : BOOLEAN]

(***************************************************************************)
(* Every channel of the array is found where it is, under its own hash,    *)
(* and once: an entry the index loses would be created a second time and   *)
(* the channel would lose its scores, flags and notes.                     *)
(***************************************************************************)
IndexFinds ==
    \A k \in Subs : LET ce == db[k] IN
        /\ \A i \in DOMAIN ce.channels : CE_find_channel(ce, ce.channels[i].name) = i
        /\ \A h \in Hashes : ce.subsort[h] = Cardinality({i \in DOMAIN ce.channels : CEHash[ce.channels[i].name] < h})
        /\ \A i \in DOMAIN ce.channels : Len(ce.channels[i].chanop) <= ce.channels[i].chanopmax

(***************************************************************************)
(* A score is the number of points of the last DAYSAMPLES days, except for *)
(* the DAYSAMPLES days that follow a start with data of an earlier day.    *)
(***************************************************************************)
ScoresRight ==
    dbup /\ day >= slip + DAYSAMPLES =>
      \A k \in Subs : \A i \in DOMAIN db[k].channels : \A o \in Range(db[k].channels[i].chanop) :
         Score(o) = SumFunctionOnSet(o.when, {d \in Days : day - DAYSAMPLES < d /\ d <= day})

(***************************************************************************)
(* As long as no two saves in a row are broken off, what would be loaded   *)
(* is the last complete save or the one that was broken off, perhaps       *)
(* without the last operators of its last channel.                         *)
(***************************************************************************)
CopySurvives ==
    \A k \in Subs : DB_load(files[k]).ce \in {good[k], attempt[k]} \cup Shortened(attempt[k])
=============================================================================
