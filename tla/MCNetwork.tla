----------------------------- MODULE MCNetwork -----------------------------
(* Instances of Network: three servers in a line or in a triangle of        *)
(* connect{} blocks, and one user per server.                               *)
EXTENDS Network

CONSTANTS A, B, C, D, a1, b1, c1
CONSTANTS nConnect, nBreak, nSquit, nNick, nKill, nQuit

Line3 == {<<A, B>>, <<B, C>>}
Triangle == {<<A, B>>, <<B, A>>, <<B, C>>, <<C, A>>}
Ring == {<<A, B>>, <<B, C>>, <<C, A>>, <<D, A>>}
Open == [s \in Servers |-> Servers]
Nobody == [s \in Servers |-> {}]
NoC == [s \in Servers |-> IF s = D THEN {C} ELSE {}]
NoD == [s \in Servers |-> IF s = C THEN {A, B} ELSE Servers]
Homes == [u \in Uids |-> CASE u = a1 -> A [] u = b1 -> B [] u = c1 -> C]
Limits == [k \in Kinds |-> CASE k = "connect" -> nConnect [] k = "break" -> nBreak
                             [] k = "squit" -> nSquit [] k = "nick" -> nNick
                             [] k = "kill" -> nKill [] k = "quit" -> nQuit]
Reconnect ==   \* a1 and b1 are one user, c1 is another
    [u \in Uids |-> IF u = c1 THEN [user |-> "y", host |-> "hy", sock |-> "sy"]
                    ELSE [user |-> "x", host |-> "hx", sock |-> "sx"]]
Strangers == [u \in Uids |-> [user |-> u, host |-> u, sock |-> u]]
=============================================================================
