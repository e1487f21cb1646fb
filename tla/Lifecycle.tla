----------------------------- MODULE Lifecycle -----------------------------
(***************************************************************************)
(* What the connection code promises of a struct Client: it is allocated,  *)
(* looked up, released for reading once, registers at most once, exits at  *)
(* most once from wherever it is, and is freed only after that.            *)
(***************************************************************************)
CONSTANT Clients
VARIABLE stage

Stages == {"free", "auth", "open", "user", "exited"}
Init == stage = [c \in Clients |-> "free"]

Move(c, from, to) == stage[c] = from /\ stage' = [stage EXCEPT ![c] = to]
Accept(c) == Move(c, "free", "auth")
Release(c) == Move(c, "auth", "open")
Register(c) == Move(c, "open", "user")

(* One command or one ban may end any number of connections.               *)
Exit(C) ==
    /\ \A c \in C : stage[c] \in {"auth", "open", "user"}
    /\ stage' = [c \in Clients |-> IF c \in C THEN "exited" ELSE stage[c]]

(* Memory is returned for all exited clients together.                     *)
Reap == stage' = [c \in Clients |-> IF stage[c] = "exited" THEN "free" ELSE stage[c]]

Next ==
    \/ \E c \in Clients : Accept(c) \/ Release(c) \/ Register(c)
    \/ \E C \in SUBSET Clients : Exit(C)
    \/ Reap

Spec == Init /\ [][Next]_stage
=============================================================================
