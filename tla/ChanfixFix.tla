----------------------------- MODULE ChanfixFix -----------------------------
(***************************************************************************)
(* Automatic and manual fixes of one channel by the chanfix service:       *)
(* chanfix/cf_fix.c, the timed events of cf_event.c and the command CHANFIX *)
(* of cf_process.c. The scores are those of the database (ChanfixDB) and do *)
(* not change here; HostScore[h] = 0 means that user@host h has no entry.   *)
(*                                                                         *)
(* Time: FixTick is one unit of the intervals below; before it each timed   *)
(* event has run (they come every 5 or 10 seconds) and the lines the        *)
(* service wrote to its own connection have been read; a new fix is met by  *)
(* the next event, in the same unit. A fix keeps its age and the time since *)
(* its last attempt, both up to MaxAge.                                     *)
(***************************************************************************)
EXTENDS Integers, FiniteSets, Sequences, FiniteSetsExt, Absent

CONSTANTS ChanClients, Host, HostScore, MaxScore, NumOpped, MinClients,
          AUTOFIX_INTERVAL, AUTOFIX_MAXIMUM, CHANFIX_DELAY, CHANFIX_INTERVAL, CHANFIX_MAXIMUM,
          MaxTS, MaxAge, Bustle
VARIABLES members, ops, modes, ts,   \* the channel
          linked, split,             \* enough servers; currently_split
          flag, auto, manual,        \* the entry of the channel in each list, or None
          svc, svcqueue,             \* the service in the channel; lines on its connection
          due, bustle                \* events still to run; what users may yet do
chanvars == <<members, ops, modes, ts>>
fixvars == <<auto, manual>>
allfixvars == <<members, ops, modes, ts, linked, split, flag, auto, manual, svc, svcqueue, due, bustle>>

Events == {"split", "opless", "auto", "manual"}
Lower(a, b) == IF a < b THEN a ELSE b
Higher(a, b) == IF a > b THEN a ELSE b
Trunc(a, b) == IF a >= 0 THEN a \div b ELSE -((-a) \div b)   \* (int) of a quotient

ClientHosts == {Host[c] : c \in ChanClients}
TopScore == Max({HostScore[h] : h \in ClientHosts})
Present(c) == c \in members
Exists == members # {} \/ svc
Users == Cardinality(members) + (IF svc THEN 1 ELSE 0)
ocf_get_number_chanops == Cardinality(ops) + (IF svc THEN 1 ELSE 0)
NonOpped == {Host[c] : c \in members \ ops}
AbsEnd == (4 * MaxScore) \div 100

is_being_chanfixed == manual # None
is_being_autofixed == auto # None
is_being_fixed_fault == is_being_autofixed
is_being_fixed == is_being_chanfixed \/ is_being_autofixed

(* add_autofix_channel(), add_chanfix_channel(): no attempt has been made.  *)
NewFix == [age |-> 0, since |-> MaxAge, max |-> TopScore, stage |-> 1, modes_removed |-> FALSE]
add_autofix_channel == auto' = IF is_being_fixed THEN auto ELSE NewFix
add_chanfix_channel(deleted) ==   \* deleted: the autofix has just been taken off its list
    manual' = IF is_being_chanfixed \/ (is_being_autofixed /\ ~deleted) THEN manual ELSE NewFix

(* ocf_check_split()                                                       *)
ocf_check_split ==
    /\ "split" \in due /\ due' = due \ {"split"}
    /\ split' = ~linked
    /\ UNCHANGED <<chanvars, linked, flag, fixvars, svc, svcqueue, bustle>>

(* has_a_scored_client(): somebody without ops could be opped in the end.  *)
has_a_scored_client ==
    /\ TopScore > AbsEnd
    /\ \E h \in NonOpped : HostScore[h] > AbsEnd /\ HostScore[h] > (30 * TopScore) \div 100

ocf_check_opless_channels ==
    /\ "opless" \in due /\ due' = (due \ {"opless"}) \cup {"auto"}
    /\ IF /\ ~split /\ Exists /\ Users >= MinClients /\ ocf_get_number_chanops = 0
          /\ ~is_being_fixed /\ "BLOCK" \notin flag /\ has_a_scored_client
       THEN add_autofix_channel
       ELSE UNCHANGED auto
    /\ UNCHANGED <<chanvars, linked, split, flag, manual, svc, svcqueue, bustle>>

-----------------------------------------------------------------------------
(* The score needed for ops falls linearly from 20% of MaxScore and 90% of  *)
(* the best score of the channel to 4% and 30% in the time of the fix.      *)
MinScore(f, age, maximum) ==
    Higher(Trunc(MaxScore * (20 * maximum - 16 * age), 100 * maximum),
           Trunc(f.max * (90 * maximum - 60 * age), 100 * maximum))

(* DB_get_top_user_hosts(): those of the database who are here without ops, *)
(* the best NumOpped of them.                                               *)
HighScores ==
    LET scored == {h \in NonOpped : HostScore[h] > 0}
    IN {h \in scored : Cardinality({g \in scored : HostScore[g] > HostScore[h]}) < NumOpped}

(* find_scored_nicks(): the choices of at most n clients, best hosts first. *)
find_scored_nicks(n, min) ==
    LET fit == {c \in members \ ops : Host[c] \in HighScores /\ HostScore[Host[c]] >= min}
    IN {S \in SUBSET fit : /\ Cardinality(S) = Lower(n, Cardinality(fit))
                           /\ \A c \in S, d \in fit \ S : HostScore[Host[c]] >= HostScore[Host[d]]}

(* Going into the channel (ocf_ojoin_channel()) takes effect at once; modes, *)
(* messages and the PART go through the connection of the service.           *)
Line(cmd, nicks) == [cmd |-> cmd, nicks |-> nicks]
RemoveModes == IF modes THEN <<Line("-iklb", {})>> ELSE <<>>
Enter(lines) == svc' = TRUE /\ svcqueue' = svcqueue \o lines \o <<Line("PART", {})>>
StayOut == UNCHANGED <<svc, svcqueue>>

Enough(n) == n + ocf_get_number_chanops >= Users \/ n + ocf_get_number_chanops >= NumOpped
GiveOps(min, Done(_)) ==
    \E S \in find_scored_nicks(NumOpped - ocf_get_number_chanops, min) :
        /\ IF S = {} THEN StayOut ELSE Enter(<<Line("+o", S)>>)
        /\ Done(Enough(Cardinality(S)))

NobodyGoodEnough(min) == \A h \in HighScores : HostScore[h] < min

(* A fix leaves its list when the channel is fixed or its time is over.    *)
Ended(f, fixed, maximum) == IF fixed \/ f.age > maximum THEN None ELSE f

Attempted_fault(f) == [f EXCEPT !.age = 0, !.since = 0]   \* the time of the fix starts again
Attempted(f) == [f EXCEPT !.since = 0]

(* ocf_fix_opless_channel(): one attempt of an automatic fix.              *)
ocf_fix_opless_channel ==
    LET tried == Attempted(auto)
        min   == MinScore(auto, auto.age, AUTOFIX_MAXIMUM)
        Done(fixed) == auto' = Ended(tried, fixed, AUTOFIX_MAXIMUM)
    IN IF ~Exists THEN StayOut /\ Done(TRUE)
       ELSE IF 100 * auto.max <= 4 * MaxScore THEN StayOut /\ Done(FALSE)
       ELSE IF ocf_get_number_chanops >= NumOpped THEN StayOut /\ Done(TRUE)
       ELSE IF NobodyGoodEnough(min) /\ ocf_get_number_chanops = 0
       THEN IF modes /\ ~auto.modes_removed
            THEN /\ Enter(RemoveModes)
                 /\ auto' = Ended([tried EXCEPT !.modes_removed = TRUE], FALSE, AUTOFIX_MAXIMUM)
            ELSE StayOut /\ Done(FALSE)
       ELSE GiveOps(min, Done)

ocf_fix_autofix_channels ==
    /\ "auto" \in due /\ due' = due \ {"auto"}
    /\ IF split \/ auto = None THEN UNCHANGED <<auto, svc, svcqueue>>
       ELSE IF auto.since < AUTOFIX_INTERVAL
       THEN StayOut /\ auto' = Ended(auto, FALSE, AUTOFIX_MAXIMUM)
       ELSE ocf_fix_opless_channel
    /\ UNCHANGED <<chanvars, linked, split, flag, manual, bustle>>

(* ocf_manual_fix_stage_one(): take the channel over, with TS - 1 if the TS *)
(* allows it (which deops everybody here), and remove its modes.            *)
ocf_manual_fix_stage_one ==
    IF ~Exists THEN StayOut /\ manual' = None /\ UNCHANGED <<ops, ts>>
    ELSE /\ manual' = [manual EXCEPT !.stage = 2, !.age = 0, !.since = CHANFIX_INTERVAL - CHANFIX_DELAY]
         /\ Enter(RemoveModes)
         /\ IF ts > 1 /\ ~svc THEN ops' = {} /\ ts' = ts - 1 ELSE UNCHANGED <<ops, ts>>

(* ocf_manual_fix_stage_two(): one attempt, as for an automatic fix but for *)
(* the modes, which are gone.                                               *)
ocf_manual_fix_stage_two ==
    LET tried == Attempted(manual)
        min   == MinScore(manual, manual.age - CHANFIX_DELAY, CHANFIX_MAXIMUM)
        Done(fixed) == manual' = Ended(tried, fixed, CHANFIX_MAXIMUM + CHANFIX_DELAY)
    IN /\ IF ~Exists \/ ocf_get_number_chanops >= NumOpped THEN StayOut /\ Done(TRUE)
          ELSE IF NobodyGoodEnough(min) THEN StayOut /\ Done(FALSE)
          ELSE GiveOps(min, Done)
       /\ UNCHANGED <<ops, ts>>

ocf_fix_chanfix_channels ==
    /\ "manual" \in due /\ due' = due \ {"manual"}
    /\ IF split \/ manual = None THEN UNCHANGED <<manual, svc, svcqueue, ops, ts>>
       ELSE IF manual.stage = 1 THEN ocf_manual_fix_stage_one
       ELSE IF manual.since < CHANFIX_INTERVAL
       THEN /\ StayOut /\ UNCHANGED <<ops, ts>>
            /\ manual' = Ended(manual, FALSE, CHANFIX_MAXIMUM + CHANFIX_DELAY)
       ELSE ocf_manual_fix_stage_two
    /\ UNCHANGED <<members, modes, linked, split, flag, auto, bustle>>

(* The server reads a line of the service: modes count while it is an       *)
(* operator of the channel, and only for those who are still there.         *)
ReadService ==
    /\ svcqueue # <<>> /\ svcqueue' = Tail(svcqueue)
    /\ ops' = IF svc /\ Head(svcqueue).cmd = "+o" THEN ops \cup (Head(svcqueue).nicks \cap members) ELSE ops
    /\ modes' = (modes /\ ~(svc /\ Head(svcqueue).cmd = "-iklb"))
    /\ svc' = (svc /\ Head(svcqueue).cmd # "PART")
    /\ UNCHANGED <<members, ts, linked, split, flag, fixvars, due, bustle>>

-----------------------------------------------------------------------------
(* Commands of the service's users; override is the OVERRIDE flag. The     *)
(* automatic fix goes before the last refusals have been tested.           *)
process_cmd_chanfix(override) ==
    LET refused == "BLOCK" \in flag \/ ("ALERT" \in flag /\ ~override) \/ ~Exists
    IN /\ bustle > 0 /\ bustle' = bustle - 1
       /\ split' = ~linked
       /\ IF ~linked \/ is_being_chanfixed \/ TopScore <= AbsEnd \/ (is_being_autofixed /\ ~override)
          THEN UNCHANGED fixvars
          ELSE /\ auto' = None
               /\ IF refused THEN UNCHANGED manual ELSE add_chanfix_channel(TRUE)
       /\ due' = due \cup {"manual"}
       /\ UNCHANGED <<chanvars, linked, flag, svc, svcqueue>>
SetFlag(f, before) ==
    /\ bustle > 0 /\ bustle' = bustle - 1 /\ before /\ flag' = f
    /\ UNCHANGED <<chanvars, linked, split, fixvars, svc, svcqueue, due>>
FlagCommand ==
    \/ SetFlag({"BLOCK"}, "BLOCK" \notin flag) \/ SetFlag(flag \ {"BLOCK"}, "BLOCK" \in flag)
    \/ SetFlag({"ALERT"}, "ALERT" \notin flag) \/ SetFlag(flag \ {"ALERT"}, "ALERT" \in flag)

(* What happens in the channel and the network.                            *)
Happens == bustle > 0 /\ bustle' = bustle - 1 /\ UNCHANGED <<split, flag, fixvars, svc, svcqueue, due>>
Join(c) == Happens /\ ~Present(c) /\ members' = members \cup {c} /\ UNCHANGED <<ops, modes, ts, linked>>
Leave(c) ==
    /\ Happens /\ Present(c) /\ members' = members \ {c} /\ ops' = ops \ {c}
    /\ modes' = (modes /\ (members' # {} \/ svc)) /\ UNCHANGED <<ts, linked>>
Op(c) == Happens /\ Present(c) /\ c \notin ops /\ ops # {} /\ ops' = ops \cup {c} /\ UNCHANGED <<members, modes, ts, linked>>
SetModes == Happens /\ ops # {} /\ ~modes /\ modes' = TRUE /\ UNCHANGED <<members, ops, ts, linked>>
Netsplit == Happens /\ linked' = ~linked /\ UNCHANGED chanvars

Older(f) == IF f = None THEN None
            ELSE [f EXCEPT !.age = Lower(@ + 1, MaxAge), !.since = Lower(@ + 1, MaxAge)]
FixTick ==
    /\ due = {} /\ svcqueue = <<>> /\ due' = Events
    /\ auto' = Older(auto) /\ manual' = Older(manual)
    /\ UNCHANGED <<chanvars, linked, split, flag, svc, svcqueue, bustle>>

FixInit ==
    /\ members = ChanClients /\ ops \in {{}, {CHOOSE c \in ChanClients : HostScore[Host[c]] = TopScore}}
    /\ modes \in BOOLEAN /\ ts \in {1, MaxTS}
    /\ linked = TRUE /\ split = TRUE /\ flag = {} /\ auto = None /\ manual = None
    /\ svc = FALSE /\ svcqueue = <<>> /\ due = Events /\ bustle = Bustle

Event == ocf_check_split \/ ocf_check_opless_channels \/ ocf_fix_autofix_channels \/ ocf_fix_chanfix_channels
FixNext ==
    \/ Event \/ ReadService \/ FixTick
    \/ \E o \in BOOLEAN : process_cmd_chanfix(o)
    \/ FlagCommand \/ SetModes \/ Netsplit
    \/ \E c \in ChanClients : Join(c) \/ Leave(c) \/ Op(c)

(* Fairness: the event loop and the clock go on.                           *)
FixFairness == WF_allfixvars(Event) /\ WF_allfixvars(ReadService) /\ WF_allfixvars(FixTick)
FixSpec == FixInit /\ [][FixNext]_allfixvars /\ FixFairness

-----------------------------------------------------------------------------
(***************************************************************************)
(* A channel is on one of the two lists at most, whatever the commands and *)
(* events in between, and the service never stays in a channel: its PART   *)
(* is on its way as long as it is there.                                   *)
(***************************************************************************)
OneFix ==
    /\ ~(is_being_chanfixed /\ is_being_autofixed)
    /\ svc => \E i \in DOMAIN svcqueue : svcqueue[i].cmd = "PART"

(***************************************************************************)
(* A channel is not fixed for ever, not even by a manual fix that takes    *)
(* over from an automatic one, unless a split goes on                      *)
(* (ocf_fix_autofix_channels(), ocf_fix_chanfix_channels()).               *)
(***************************************************************************)
FixEnds == is_being_fixed ~> (~is_being_fixed \/ split)
=============================================================================
