----------------------------- MODULE MCChannels -----------------------------
(* Instances of Channels for TLC.                                           *)
EXTENDS Channels

MCUsers == {"u1", "u2", "u3", "u4"}
MCServers == {"A", "B", "C"}
MCChans == {"#a", "#b"}
MCHome == "u1" :> "A" @@ "u2" :> "B" @@ "u3" :> "B" @@ "u4" :> "C"
MCUmodes == "u1" :> {} @@ "u2" :> {} @@ "u3" :> {"oper", "opme"} @@ "u4" :> {}
MCArgs == MCUsers \cup {"*", "*!*@bad", "*!*@ok", "k1", "k2", "5", ""}
MCNuh == [a \in MCArgs |-> IF a = "" THEN "*" ELSE a]
MCAtoi == [a \in MCArgs |-> IF a = "5" THEN 5 ELSE 0]
MCKeyRank == [a \in MCArgs |-> CASE a = "" -> 0 [] a = "k1" -> 1 [] OTHER -> 2]
MCMatches == {<<"*!*@bad", "bad">>}
MCClasses == [u \in MCUsers |-> IF u = "u2" THEN 2 ELSE 0]
Nobody == {}

Chan(ts, mode, key, bans, members) ==
    [NoChannel EXCEPT !.ts = ts, !.mode = mode, !.key = key, !.list["b"] = bans,
                      !.members = members]
Line(letters, args) == [letters |-> letters, args |-> args]
Plus(l) == [dir |-> "+", letter |-> l]
Minus(l) == [dir |-> "-", letter |-> l]
Into(c) == <<[chan |-> c, key |-> ""]>>

(* Sides of a split: no channel, an old one with an operator, one of the    *)
(* same age without, a newer one with an operator.                          *)
Old(u) == Chan(1, {"n", "t"}, "", {}, u :> {"o"})
Opless(u) == Chan(1, {"i"}, "k1", {"*!*@bad"}, u :> {"v"})
New(u) == Chan(2, {"m"}, "k2", {"*!*@ok"}, u :> {"o"})
Sides(u) == {NoChannel, Old(u), Opless(u), New(u)}

Start(a, b, c) ==
    [s \in MCServers |-> [x \in MCChans |->
        IF x = "#b" THEN NoChannel ELSE CASE s = "A" -> a [] s = "B" -> b [] OTHER -> c]]

Scene(start, links, actors, commands, lines, maxops) ==
    [chans |-> start, links |-> links, actors |-> actors, commands |-> commands,
     joins |-> {Into("#a")}, lines |-> lines, topics |-> {"t"}, maxops |-> maxops,
     splitconf |-> {}]
Pair == {{"A", "B"}}
Three == {{"A", "B"}, {"B", "C"}}
Adding ==
    {Line(<<Plus("m")>>, <<>>), Line(<<Plus("b")>>, <<"*!*@bad">>),
     Line(<<Plus("o")>>, <<"u1">>), Line(<<Plus("o")>>, <<"u3">>)}

(* Three sides of a split join, in any order.                               *)
Joining == {Scene(Start(x, y, z), Three, {}, {}, {}, 0) :
    x \in Sides("u1"), y \in Sides("u2"), z \in {NoChannel, Opless("u4"), New("u4")}}

(* Users join and operators add modes while two sides join, and three.      *)
Growing ==
    {Scene(Start(x, y, NoChannel), Pair, {"u1", "u2", "u3"}, {"JOIN", "MODE"}, Adding, 2) :
        x \in Sides("u1"), y \in Sides("u2")}
    \cup {Scene(Start(x, NoChannel, z), Three, {"u1", "u2", "u4"}, {"JOIN", "MODE"}, Adding, 1) :
        x \in {Old("u1"), New("u1")}, z \in {Opless("u4"), New("u4")}}

(* Every command, splits too.                                               *)
Splitting == {Scene(Start(x, y, NoChannel), Pair, {"u1", "u2", "u3"},
        {"JOIN", "MODE", "PART", "KICK", "OPME", "QUIT", "SQUIT", "INVITE", "TOPIC"},
        {Line(<<Plus("o")>>, <<"u3">>)}, 2) :
    x \in Sides("u1"), y \in Sides("u2")}
    \cup {Scene(Start(Old("u1"), NoChannel, New("u4")), Three, {}, {"SQUIT"}, {}, 1)}

(* One server with two users and two channels: invitations (at most one is  *)
(* kept) to the one who is on neither, bans on the one who is a member.     *)
RoomOf(a, commands, lines, maxops) ==
    [Scene([s \in MCServers |-> [c \in MCChans |->
                CASE s = "B" /\ c = "#a" -> a
                  [] s = "B" /\ c = "#b" -> Chan(1, {"n", "i"}, "", {}, "u2" :> {"o"})
                  [] OTHER -> NoChannel]],
           {}, {"u2", "u3"}, commands, lines, maxops)
        EXCEPT !.joins = {Into("#a"), Into("#b") \o Into("#a"), Into("#a") \o Into("0")},
               !.splitconf = {"no_create_on_split"}]
Room ==
    {RoomOf(Chan(1, {"n", "t", "i"}, "", {}, "u2" :> {"o"}),
            {"JOIN", "MODE", "PART", "KICK", "QUIT", "INVITE"},
            {Line(<<Minus("i"), Plus("v")>>, <<"u3">>)}, 4),
     RoomOf(Chan(1, {"n", "t"}, "", {"*!*@bad"}, "u2" :> {"o"} @@ "u3" :> {}),
            {"JOIN", "MODE", "PART", "PRIVMSG", "NICK"},
            {Line(<<Plus("b")>>, <<"*!*@bad">>), Line(<<Minus("b")>>, <<"*!*@bad">>),
             Line(<<Plus("e"), Plus("v")>>, <<"*!*@bad", "u3">>),
             Line(<<Minus("e"), Minus("v")>>, <<"*!*@bad", "u3">>)}, 4)}

MCScenes == Joining \cup Growing \cup Splitting \cup Room

(* A key is set while two channels of the same age merge.                   *)
Keying == {Scene(Start(Old("u1"), Chan(1, {"n", "t"}, "k2", {}, "u2" :> {"o"}), NoChannel), Pair,
        {"u1", "u2"}, {"MODE"}, {Line(<<Plus("k")>>, <<"k1">>)}, 1)}
=============================================================================
