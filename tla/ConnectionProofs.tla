-------------------------- MODULE ConnectionProofs --------------------------
(***************************************************************************)
(* Theorems about Connection for every number of client slots, every set   *)
(* of addresses and every limit, whether or not socket() may fail.         *)
(***************************************************************************)
EXTENDS Connection, LinkedListsProofs, FiniteSetTheorems

(* What memory, list, flags and descriptor of one client say together.     *)
FreeIsBlank(c) ==
    mem[c] = "free" => flags[c] = {} /\ list[c] = "none" /\ ident[c] = "closed"
UsedHasAddress(c) == mem[c] = "used" => ip[c] \in Addrs
ListedIsLive(c) == list[c] # "none" => mem[c] = "used" /\ ~Has(c, "Closing")
UnknownHoldsNothing(c) == IsUnknown(c) => ~Has(c, "IPHash") /\ ~Has(c, "Conf")
ExitedIsStripped(c) ==
    Has(c, "Closing") =>
      /\ mem[c] = "used" /\ list[c] = "none" /\ ident[c] = "closed" /\ Has(c, "Dead")
      /\ flags[c] \cap {"Open", "InAuth", "IPHash", "Conf"} = {}
IdentIsFlagged(c) == ident[c] # "closed" => Has(c, "DoingAuth")
Records ==
    \A c \in Clients :
      /\ FreeIsBlank(c) /\ UsedHasAddress(c) /\ ListedIsLive(c)
      /\ UnknownHoldsNothing(c) /\ ExitedIsStripped(c) /\ IdentIsFlagged(c)

(* Where exit_aborted_clients() is in abort_list, and what is in the lists. *)
Aborts ==
    /\ IsInjective(abort_list) /\ ToSet(abort_list) \subseteq All("Dead")
    /\ All("Dead") \subseteq ToSet(abort_list) \cup All("Closing")
    /\ dead_list = All("Closing")
    /\ phase = "abort" <=> walk.fn = "exit_aborted_clients"
    /\ phase = "free" => abort_list = <<>> /\ walk = NoWalk
    /\ phase = "abort" /\ ~walk.called =>
         abort_list # <<>> /\ walk.node = Head(abort_list) /\ eac_next = After(abort_list, walk.node, None)
    /\ phase # "abort" \/ walk.called => eac_next = First(abort_list, None)
    /\ phase # "run" => reader = None

(* Nothing points to freed memory, in a state with a fault either.          *)
Pointers ==
    /\ \A c \in Referenced : mem[c] = "used"
    /\ listener = "freed" => \A c \in Clients : mem[c] = "free"
    /\ walk.fn = "none" <=> walk = NoWalk
    /\ walk.fn \notin {"none"} => walk.node # None
    /\ reader # None => Has(reader, "FinishedAuth") /\ (walk.fn = "none" \/ walk.called)

(* The lookups, as long as no assertion has failed.                         *)
Lookups ==
    fault = None =>
      /\ IsInjective(auth_pending_list) /\ ToSet(auth_pending_list) = All("InAuth")
      /\ IsInjective(Contexts)
      /\ \A c \in Clients \ All("Closing") :
           /\ c \in ToSet(Contexts) <=> Has(c, "DNSPending") \/ c \in Returning
           /\ SocketFails \/ (ident[c] # "closed" <=> Has(c, "DoingAuth"))
           /\ mem[c] = "used" =>
                (Has(c, "InAuth") <=> flags[c] \cap {"DNSPending", "DoingAuth"} # {})
           /\ Has(c, "FinishedAuth") <=> mem[c] = "used" /\ ~Has(c, "InAuth")
      /\ \A c \in All("Closing") : c \notin ToSet(Contexts) \ Returning
      /\ Returning \subseteq ToSet(Contexts) \ All("DNSPending")
      /\ walk.fn = "res_readreply" => walk.called
      /\ walk.fn = "timeout_query_list" => walk.node \in ToSet(Contexts)

Inv == TypeOK /\ Records /\ Aborts /\ Pointers /\ Lookups /\ Counters
       /\ fault # "rem_request"
-----------------------------------------------------------------------------
(* Lists of requests, and the clients they are for.                         *)
LEMMA CtxFacts ==
    ASSUME NEW q \in Seq(Requests)
    PROVE  /\ Ctx(q) \in Seq(Clients) /\ DOMAIN Ctx(q) = DOMAIN q /\ Len(Ctx(q)) = Len(q)
           /\ \A i \in DOMAIN q : Ctx(q)[i] = q[i].ctx /\ q[i] \in Requests /\ q[i].ctx \in Clients
           /\ ToSet(Ctx(q)) = {r.ctx : r \in ToSet(q)} /\ ToSet(Ctx(q)) \subseteq Clients
<1>0. \A r \in Requests : r.ctx \in Clients
  BY DEF Requests
<1>1. /\ DOMAIN q = 1 .. Len(q) /\ Len(q) \in Nat
      /\ \A i \in DOMAIN q : q[i] \in Requests /\ q[i].ctx \in Clients
  BY <1>0
<1>2. DOMAIN Ctx(q) = DOMAIN q /\ \A i \in DOMAIN q : Ctx(q)[i] = q[i].ctx
  BY DEF Ctx
<1>3. Ctx(q) \in Seq(Clients) /\ Len(Ctx(q)) = Len(q)
  BY <1>1 DEF Ctx
<1>4. ToSet(Ctx(q)) = {r.ctx : r \in ToSet(q)}
  BY <1>1, <1>2 DEF ToSet
<1>5. ToSet(Ctx(q)) \subseteq Clients
  BY <1>1, <1>2 DEF ToSet
<1> QED BY <1>1, <1>2, <1>3, <1>4, <1>5

(* delete_resolver_queries() and rem_request(): exactly the requests of the *)
(* clients in C go.                                                         *)
LEMMA WithoutFacts ==
    ASSUME NEW q \in Seq(Requests), NEW C
    PROVE  /\ Without(q, C) \in Seq(Requests)
           /\ ToSet(Ctx(Without(q, C))) = ToSet(Ctx(q)) \ C
           /\ IsInjective(Ctx(q)) => IsInjective(Ctx(Without(q, C)))
<1> DEFINE T == {r \in Requests : r.ctx \notin C}
           w == Without(q, C)
<1>1. /\ w \in Seq(Requests) /\ ToSet(w) = ToSet(q) \cap T
      /\ IsInjective(q) => IsInjective(w)
  BY KeepFacts DEF Without
<1> HIDE DEF w
<1>2. ToSet(q) \subseteq Requests
  BY DEF ToSet
<1>3. ToSet(Ctx(w)) = {r.ctx : r \in ToSet(w)} /\ ToSet(Ctx(q)) = {r.ctx : r \in ToSet(q)}
  BY <1>1, CtxFacts
<1>4. ToSet(Ctx(w)) = ToSet(Ctx(q)) \ C
  BY <1>1, <1>2, <1>3
<1>5. ASSUME IsInjective(Ctx(q))
      PROVE  IsInjective(Ctx(w))
  <2>1. IsInjective(q)
    BY <1>5, CtxFacts DEF IsInjective
  <2>2. IsInjective(w)
    BY <2>1, <1>1
  <2>3. ASSUME NEW i \in DOMAIN Ctx(w), NEW j \in DOMAIN Ctx(w), Ctx(w)[i] = Ctx(w)[j]
        PROVE  i = j
    <3>1. i \in DOMAIN w /\ j \in DOMAIN w /\ w[i].ctx = w[j].ctx
      BY <2>3, <1>1, CtxFacts
    <3>2. w[i] \in ToSet(q) /\ w[j] \in ToSet(q)
      BY <3>1, <1>1 DEF ToSet
    <3>3. PICK k \in DOMAIN q, l \in DOMAIN q : w[i] = q[k] /\ w[j] = q[l]
      BY <3>2 DEF ToSet
    <3>4. k = l
      BY <3>1, <3>3, <1>5, CtxFacts DEF IsInjective
    <3> QED BY <3>1, <3>3, <3>4, <2>2 DEF IsInjective
  <2> QED BY <2>3 DEF IsInjective
<1> QED BY <1>1, <1>4, <1>5 DEF w

(* A request put in front, as make_request() does.                          *)
LEMMA RequestPushed ==
    ASSUME NEW q \in Seq(Requests), NEW r \in Requests
    PROVE  /\ <<r>> \o q \in Seq(Requests)
           /\ ToSet(Ctx(<<r>> \o q)) = ToSet(Ctx(q)) \cup {r.ctx}
           /\ IsInjective(Ctx(q)) /\ r.ctx \notin ToSet(Ctx(q)) => IsInjective(Ctx(<<r>> \o q))
<1>1. <<r>> \o q \in Seq(Requests)
  OBVIOUS
<1>2. Ctx(<<r>> \o q) = <<r.ctx>> \o Ctx(q)
  <2> DEFINE n == <<r>> \o q
             m == <<r.ctx>> \o Ctx(q)
  <2>1. /\ DOMAIN n = 1 .. Len(q) + 1 /\ n[1] = r
        /\ \A i \in 2 .. Len(q) + 1 : n[i] = q[i - 1]
    OBVIOUS
  <2>2. /\ DOMAIN m = 1 .. Len(q) + 1 /\ m[1] = r.ctx /\ m \in Seq(Clients)
        /\ \A i \in 2 .. Len(q) + 1 : m[i] = Ctx(q)[i - 1]
    <3> DEFINE k == Ctx(q)
               x == r.ctx
    <3>1. k \in Seq(Clients) /\ Len(k) = Len(q) /\ x \in Clients
      BY CtxFacts DEF Requests
    <3> HIDE DEF k, x
    <3>2. /\ DOMAIN (<<x>> \o k) = 1 .. Len(q) + 1 /\ (<<x>> \o k)[1] = x /\ <<x>> \o k \in Seq(Clients)
          /\ \A i \in 2 .. Len(q) + 1 : (<<x>> \o k)[i] = k[i - 1]
      BY <3>1
    <3> QED BY <3>2 DEF k, x
  <2>3. Ctx(n) \in Seq(Clients) /\ DOMAIN Ctx(n) = DOMAIN n /\ \A i \in DOMAIN n : Ctx(n)[i] = n[i].ctx
    BY <1>1, CtxFacts
  <2>4. \A i \in DOMAIN q : Ctx(q)[i] = q[i].ctx
    BY CtxFacts
  <2> HIDE DEF n, m
  <2>5. ASSUME NEW i \in 1 .. Len(q) + 1
        PROVE  Ctx(n)[i] = m[i]
    <3>1. CASE i = 1
      BY <2>1, <2>2, <2>3, <3>1
    <3>2. CASE i # 1
      <4>1. i \in 2 .. Len(q) + 1 /\ i - 1 \in DOMAIN q
        BY <3>2
      <4> QED BY <2>1, <2>2, <2>3, <2>4, <4>1
    <3> QED BY <3>1, <3>2
  <2>6. Ctx(n) = m
    BY <2>1, <2>2, <2>3, <2>5
  <2> QED BY <2>6 DEF n, m
<1>3. r.ctx \in Clients /\ Ctx(q) \in Seq(Clients)
  BY CtxFacts DEF Requests
<1>4. /\ ToSet(<<r.ctx>> \o Ctx(q)) = ToSet(Ctx(q)) \cup {r.ctx}
      /\ IsInjective(Ctx(q)) /\ r.ctx \notin ToSet(Ctx(q)) => IsInjective(<<r.ctx>> \o Ctx(q))
  BY <1>3, PushFacts
<1> QED BY <1>1, <1>2, <1>4

(* The request for a name replaced by one for its address.                  *)
LEMMA RequestReplaced ==
    ASSUME NEW q \in Seq(Requests), NEW i \in DOMAIN q, NEW r \in Requests,
           r.ctx = q[i].ctx
    PROVE  LET n == <<r>> \o RemoveAt(q, i)
           IN /\ n \in Seq(Requests) /\ ToSet(Ctx(n)) = ToSet(Ctx(q))
              /\ IsInjective(Ctx(q)) => IsInjective(Ctx(n))
<1> DEFINE w == RemoveAt(q, i)
<1>1. /\ w \in Seq(Requests) /\ ToSet(q) = ToSet(w) \cup {q[i]} /\ Len(w) = Len(q) - 1
      /\ \A j \in 1 .. Len(q) - 1 : w[j] = IF j < i THEN q[j] ELSE q[j + 1]
  BY RemoveAtFacts
<1> HIDE DEF w
<1>2. ToSet(Ctx(q)) = ToSet(Ctx(w)) \cup {q[i].ctx}
  BY <1>1, CtxFacts
<1>3. ASSUME IsInjective(Ctx(q))
      PROVE  IsInjective(Ctx(w)) /\ q[i].ctx \notin ToSet(Ctx(w))
  <2>1. /\ Ctx(q) \in Seq(Clients) /\ i \in DOMAIN Ctx(q) /\ Ctx(q)[i] = q[i].ctx
        /\ Len(Ctx(q)) = Len(q) /\ \A j \in DOMAIN q : Ctx(q)[j] = q[j].ctx
    BY CtxFacts
  <2>2. /\ Ctx(w) \in Seq(Clients) /\ Len(Ctx(w)) = Len(w)
        /\ DOMAIN Ctx(w) = 1 .. Len(w) /\ \A j \in 1 .. Len(w) : Ctx(w)[j] = w[j].ctx
    BY <1>1, CtxFacts
  <2>3. /\ RemoveAt(Ctx(q), i) \in Seq(Clients) /\ Len(RemoveAt(Ctx(q), i)) = Len(q) - 1
        /\ \A j \in 1 .. Len(q) - 1 :
              RemoveAt(Ctx(q), i)[j] = IF j < i THEN Ctx(q)[j] ELSE Ctx(q)[j + 1]
        /\ IsInjective(RemoveAt(Ctx(q), i)) /\ Ctx(q)[i] \notin ToSet(RemoveAt(Ctx(q), i))
    BY <2>1, <1>3, RemoveAtFacts
  <2>4. ASSUME NEW j \in 1 .. Len(q) - 1
        PROVE  RemoveAt(Ctx(q), i)[j] = Ctx(w)[j]
    <3>1. j \in DOMAIN q /\ j + 1 \in DOMAIN q
      OBVIOUS
    <3> QED BY <1>1, <2>1, <2>2, <2>3, <3>1
  <2>5. Ctx(w) = RemoveAt(Ctx(q), i)
    <3> DEFINE x == RemoveAt(Ctx(q), i)
    <3> HIDE DEF x
    <3>1. x \in Seq(Clients) /\ Len(x) = Len(q) - 1 /\ \A j \in 1 .. Len(q) - 1 : x[j] = Ctx(w)[j]
      BY <2>3, <2>4 DEF x
    <3>2. Ctx(w) = x
      BY <3>1, <2>2, <1>1
    <3> QED BY <3>2 DEF x
  <2> QED BY <2>1, <2>3, <2>5
<1>4. /\ <<r>> \o w \in Seq(Requests)
      /\ ToSet(Ctx(<<r>> \o w)) = ToSet(Ctx(w)) \cup {r.ctx}
      /\ IsInjective(Ctx(w)) /\ r.ctx \notin ToSet(Ctx(w)) => IsInjective(Ctx(<<r>> \o w))
  BY <1>1, RequestPushed
<1> QED BY <1>2, <1>3, <1>4 DEF w
-----------------------------------------------------------------------------
(* Counting clients.                                                        *)
LEMMA CountIsNat ==
    ASSUME NEW A \in SUBSET Clients
    PROVE  Cardinality(A) \in Nat
BY ConnectionAssumption, FS_Subset, FS_CardinalityType

(* Cardinality of sets of clients, which are finite: subsets, differences, one element more or less. *)
LEMMA Counting ==
    ASSUME NEW A \in SUBSET Clients, NEW B \in SUBSET A
    PROVE  /\ Cardinality(A) \in Nat /\ Cardinality(B) \in Nat /\ Cardinality(B) <= Cardinality(A)
           /\ Cardinality(A \ B) = Cardinality(A) - Cardinality(B)
           /\ Cardinality(A) = 0 <=> A = {}
           /\ \A c \in Clients : Cardinality(A \cup {c}) = IF c \in A THEN Cardinality(A) ELSE Cardinality(A) + 1
           /\ \A c : Cardinality(A \ {c}) = IF c \in A THEN Cardinality(A) - 1 ELSE Cardinality(A)
<1>1. IsFiniteSet(A)
  BY ConnectionAssumption, FS_Subset
<1>2. IsFiniteSet(B) /\ Cardinality(B) <= Cardinality(A)
  BY <1>1, FS_Subset
<1>3. Cardinality(A) \in Nat /\ Cardinality(B) \in Nat
  BY <1>1, <1>2, FS_CardinalityType
<1>4. Cardinality(A \ B) = Cardinality(A) - Cardinality(A \cap B)
  BY <1>1, FS_Difference
<1>5. A \cap B = B
  OBVIOUS
<1>6. Cardinality(A) = 0 <=> A = {}
  BY <1>1, FS_EmptySet
<1>7. ASSUME NEW c \in Clients
      PROVE  Cardinality(A \cup {c}) = IF c \in A THEN Cardinality(A) ELSE Cardinality(A) + 1
  BY <1>1, FS_AddElement
<1>8. ASSUME NEW c
      PROVE  Cardinality(A \ {c}) = IF c \in A THEN Cardinality(A) - 1 ELSE Cardinality(A)
  BY <1>1, FS_RemoveElement
<1> QED BY <1>2, <1>3, <1>4, <1>5, <1>6, <1>7, <1>8

(***************************************************************************)
(* exit_client() of the clients in C.  fl are the flags at the call: those *)
(* of the state, or with the address and the class that were attached to   *)
(* an unknown client just before.                                          *)
(***************************************************************************)
Called(C, fl) ==
    /\ C \in SUBSET Clients /\ \A c \in C : mem[c] = "used"
    /\ fl \in [Clients -> SUBSET Flags]
    /\ \A c \in Clients : \/ fl[c] = flags[c]
                           \/ /\ c \in C /\ ~Has(c, "Closing")
                              /\ fl[c] \ {"IPHash", "Conf"} = flags[c] \ {"IPHash", "Conf"}

Exiting(C) == {c \in C : ~Has(c, "Closing")}
Stripped(c) == (flags[c] \ {"Open", "InAuth", "IPHash", "Conf"}) \cup {"Dead", "Closing"}

(* What it does to flags, lists and lookups.                                *)
LEMMA ExitFacts ==
    ASSUME NEW C, NEW fl, NEW cnt, TypeOK, fault = None, Called(C, fl), exit_clients(C, fl, cnt)
    PROVE  /\ flags' = [c \in Clients |-> IF c \in Exiting(C) THEN Stripped(c) ELSE flags[c]]
           /\ list' = [c \in Clients |-> IF c \in Exiting(C) THEN "none" ELSE list[c]]
           /\ ident' = [c \in Clients |-> IF c \in Exiting(C) /\ Has(c, "DoingAuth") THEN "closed" ELSE ident[c]]
           /\ auth_pending_list' \in Seq(Clients)
           /\ ToSet(auth_pending_list') = ToSet(auth_pending_list) \ {c \in Exiting(C) : Has(c, "InAuth")}
           /\ IsInjective(auth_pending_list) => IsInjective(auth_pending_list')
           /\ request_list' \in Seq(Requests)
           /\ ToSet(Contexts') = ToSet(Contexts) \ {c \in Exiting(C) : Has(c, "DNSPending")}
           /\ IsInjective(Contexts) => IsInjective(Contexts')
           /\ dead_list' = dead_list \cup Exiting(C)
           /\ fault' = IF \A c \in Exiting(C) : Has(c, "DoingAuth") => ident[c] # "closed" THEN None ELSE "fd_close"
<1> DEFINE out == not_closing(C, fl)
           with(f) == {c \in out : f \in fl[c]}
<1>1. /\ C \in SUBSET Clients /\ fl \in [Clients -> SUBSET Flags] /\ flags \in [Clients -> SUBSET Flags]
      /\ auth_pending_list \in Seq(Clients) /\ request_list \in Seq(Requests)
  BY DEF Called, TypeOK
<1>2. ASSUME NEW c \in Clients
      PROVE  /\ fl[c] \ {"IPHash", "Conf"} = flags[c] \ {"IPHash", "Conf"}
             /\ c \notin Exiting(C) => fl[c] = flags[c]
  BY <1>1 DEF Called, Exiting
<1>3. out = Exiting(C)
  BY <1>1, <1>2 DEF not_closing, Exiting, Has
<1>4. ASSUME NEW f \in {"DoingAuth", "InAuth", "DNSPending"}
      PROVE  with(f) = {c \in Exiting(C) : Has(c, f)}
  <2>1. f \notin {"IPHash", "Conf"}
    OBVIOUS
  <2>2. \A c \in Clients : f \in fl[c] <=> f \in flags[c]
    BY <1>2, <2>1
  <2>3. out \in SUBSET Clients
    BY <1>1 DEF not_closing
  <2> HIDE DEF out
  <2> QED BY <1>3, <2>2, <2>3 DEF Has
<1>5. \A c \in Clients : (fl[c] \ {"Open", "InAuth", "IPHash", "Conf"}) \cup {"Dead", "Closing"} = Stripped(c)
  BY <1>2 DEF Stripped
<1>6. /\ flags' = [c \in Clients |-> IF c \in out
                      THEN (fl[c] \ {"Open", "InAuth", "IPHash", "Conf"}) \cup {"Dead", "Closing"}
                      ELSE fl[c]]
      /\ list' = [c \in Clients |-> IF c \in out THEN "none" ELSE list[c]]
      /\ ident' = [c \in Clients |-> IF c \in with("DoingAuth") THEN "closed" ELSE ident[c]]
      /\ auth_pending_list' = Keep(auth_pending_list, Clients \ with("InAuth"))
      /\ request_list' = Without(request_list, with("DNSPending"))
      /\ dead_list' = dead_list \cup out
      /\ fault' = IF \A c \in with("DoingAuth") : ident[c] # "closed" THEN fault ELSE "fd_close"
  BY DEF exit_clients, delete_resolver_queries
<1> HIDE DEF out, with
<1>7. flags' = [c \in Clients |-> IF c \in Exiting(C) THEN Stripped(c) ELSE flags[c]]
  BY <1>2, <1>3, <1>5, <1>6
<1>8. /\ auth_pending_list' \in Seq(Clients)
      /\ ToSet(auth_pending_list') = ToSet(auth_pending_list) \cap (Clients \ with("InAuth"))
      /\ IsInjective(auth_pending_list) => IsInjective(auth_pending_list')
  BY <1>1, <1>6, KeepFacts
<1>9. ToSet(auth_pending_list) \subseteq Clients
  BY <1>1 DEF ToSet
<1>10. /\ request_list' \in Seq(Requests)
       /\ ToSet(Ctx(request_list')) = ToSet(Ctx(request_list)) \ with("DNSPending")
       /\ IsInjective(Ctx(request_list)) => IsInjective(Ctx(request_list'))
  BY <1>1, <1>6, WithoutFacts
<1>11. Contexts' = Ctx(request_list') /\ Contexts = Ctx(request_list)
  BY DEF Contexts, Ctx
<1>12. ident' = [c \in Clients |-> IF c \in Exiting(C) /\ Has(c, "DoingAuth") THEN "closed" ELSE ident[c]]
  BY <1>4, <1>6
<1>13. fault' = IF \A c \in Exiting(C) : Has(c, "DoingAuth") => ident[c] # "closed" THEN None ELSE "fd_close"
  BY <1>4, <1>6
<1>14. ToSet(auth_pending_list') = ToSet(auth_pending_list) \ {c \in Exiting(C) : Has(c, "InAuth")}
  BY <1>4, <1>8, <1>9
<1>15. ToSet(Contexts') = ToSet(Contexts) \ {c \in Exiting(C) : Has(c, "DNSPending")}
  BY <1>4, <1>10, <1>11
<1> QED BY <1>3, <1>6, <1>7, <1>8, <1>10, <1>11, <1>12, <1>13, <1>14, <1>15

(* The counters that go with flags fl, lists and descriptors as they are.   *)
CountsFor(cnt, fl, active) ==
    /\ cnt \in [ip : [Addrs -> Int], class : Int, local : Int, fd : Int, listener : Int]
    /\ \A a \in Addrs : cnt.ip[a] = Cardinality({c \in Clients : "IPHash" \in fl[c] /\ ip[c] = a})
    /\ cnt.class = Cardinality({c \in Clients : "Conf" \in fl[c]})
    /\ cnt.local = Cardinality({c \in Clients : IsClient(c)})
    /\ cnt.fd = Cardinality({c \in Clients : "Open" \in fl[c]})
                  + Cardinality({c \in Clients : ident[c] # "closed"})
                  + (IF active THEN 1 ELSE 0)
    /\ cnt.listener = Cardinality({c \in Clients : mem[c] = "used"})

(* Counters says so of the flags of the state.                              *)
LEMMA CountersAreFor ==
    ASSUME TypeOK, fault = None
    PROVE  Counters <=> CountsFor(count, flags, listener = "active")
<1>1. \A f : All(f) = {c \in Clients : f \in flags[c]}
  BY DEF All, Has
<1>2. \A a : {c \in All("IPHash") : ip[c] = a} = {c \in Clients : "IPHash" \in flags[c] /\ ip[c] = a}
  BY <1>1
<1>3. count \in [ip : [Addrs -> Int], class : Int, local : Int, fd : Int, listener : Int]
  BY DEF TypeOK
<1> QED BY <1>1, <1>2, <1>3 DEF Counters, CountsFor

(* The same of the next state.                                              *)
LEMMA CountersNext ==
    ASSUME fault' = None =>
             /\ \A a \in Addrs : count'.ip[a] = Cardinality({c \in Clients : "IPHash" \in flags'[c] /\ ip'[c] = a})
             /\ count'.class = Cardinality({c \in Clients : "Conf" \in flags'[c]})
             /\ count'.local = Cardinality({c \in Clients : list'[c] = "local_client_list"})
             /\ count'.fd = Cardinality({c \in Clients : "Open" \in flags'[c]})
                              + Cardinality({c \in Clients : ident'[c] # "closed"})
                              + (IF listener' = "active" THEN 1 ELSE 0)
             /\ count'.listener = Cardinality({c \in Clients : mem'[c] = "used"})
    PROVE  Counters'
<1>1. \A a : {c \in {d \in Clients : "IPHash" \in flags'[d]} : ip'[c] = a}
               = {c \in Clients : "IPHash" \in flags'[c] /\ ip'[c] = a}
  OBVIOUS
<1>2. SUFFICES ASSUME fault' = None
      PROVE /\ \A a \in Addrs : count'.ip[a] = Cardinality({c \in {d \in Clients : "IPHash" \in flags'[d]} : ip'[c] = a})
            /\ count'.class = Cardinality({c \in Clients : "Conf" \in flags'[c]})
            /\ count'.local = Cardinality({c \in Clients : list'[c] = "local_client_list"})
            /\ count'.fd = Cardinality({c \in Clients : "Open" \in flags'[c]})
                              + Cardinality({c \in Clients : ident'[c] # "closed"})
                              + (IF listener' = "active" THEN 1 ELSE 0)
            /\ count'.listener = Cardinality({c \in Clients : mem'[c] = "used"})
  BY Zenon DEF Counters, All, Has, IsClient
<1> QED BY <1>1, <1>2

(* exit_client() gives back what the clients in C hold, no more and no less.*)
LEMMA ExitCounts ==
    ASSUME NEW C, NEW fl, NEW cnt, NEW active \in BOOLEAN,
           TypeOK, Records, fault = None, Called(C, fl), exit_clients(C, fl, cnt),
           mem' = mem, ip' = ip, CountsFor(cnt, fl, active)
    PROVE  /\ count' \in [ip : [Addrs -> Int], class : Int, local : Int, fd : Int, listener : Int]
           /\ fault' = None => /\ \A a \in Addrs : count'.ip[a] = Cardinality({c \in Clients : "IPHash" \in flags'[c] /\ ip'[c] = a})
                               /\ count'.class = Cardinality({c \in Clients : "Conf" \in flags'[c]})
                               /\ count'.local = Cardinality({c \in Clients : list'[c] = "local_client_list"})
                               /\ count'.fd = Cardinality({c \in Clients : "Open" \in flags'[c]})
                                               + Cardinality({c \in Clients : ident'[c] # "closed"})
                                               + (IF active THEN 1 ELSE 0)
                               /\ count'.listener = Cardinality({c \in Clients : mem'[c] = "used"})
<1> DEFINE out == not_closing(C, fl)
           with(f) == {c \in out : f \in fl[c]}
           Int5 == [ip : [Addrs -> Int], class : Int, local : Int, fd : Int, listener : Int]
<1>1. count' = [cnt EXCEPT
            !.ip = [a \in Addrs |-> @[a] - Cardinality({c \in with("IPHash") : ip[c] = a})],
            !.class = @ - Cardinality(with("Conf")),
            !.local = @ - Cardinality({c \in out : IsClient(c)}),
            !.fd = @ - Cardinality(with("Open")) - Cardinality(with("DoingAuth"))]
  BY DEF exit_clients
<1>2. flags' = [c \in Clients |-> IF c \in out
                      THEN (fl[c] \ {"Open", "InAuth", "IPHash", "Conf"}) \cup {"Dead", "Closing"}
                      ELSE fl[c]]
  BY DEF exit_clients
<1>3. /\ list' = [c \in Clients |-> IF c \in out THEN "none" ELSE list[c]]
      /\ ident' = [c \in Clients |-> IF c \in with("DoingAuth") THEN "closed" ELSE ident[c]]
      /\ fault' = IF \A c \in with("DoingAuth") : ident[c] # "closed" THEN fault ELSE "fd_close"
  BY DEF exit_clients
<1>4. out \in SUBSET Clients /\ cnt \in Int5
  BY DEF Called, not_closing, CountsFor
<1> HIDE DEF out
<1>5. \A f : with(f) \in SUBSET Clients
  BY <1>4
<1>6. \A f \in {"Open", "IPHash", "Conf"}, c \in Clients : f \in flags'[c] <=> f \in fl[c] /\ c \notin out
  BY <1>2
<1>7. ASSUME NEW a \in Addrs
      PROVE  /\ Cardinality({c \in with("IPHash") : ip[c] = a}) \in Int
             /\ Cardinality({c \in Clients : "IPHash" \in flags'[c] /\ ip'[c] = a})
                  = cnt.ip[a] - Cardinality({c \in with("IPHash") : ip[c] = a})
  <2> DEFINE A == {c \in Clients : "IPHash" \in fl[c] /\ ip[c] = a}
             B == {c \in with("IPHash") : ip[c] = a}
  <2>1. A \in SUBSET Clients /\ B \in SUBSET A
    BY <1>4
  <2>2. {c \in Clients : "IPHash" \in flags'[c] /\ ip'[c] = a} = A \ B
    BY <1>4, <1>6
  <2>3. cnt.ip[a] = Cardinality(A)
    BY DEF CountsFor
  <2> HIDE DEF A, B
  <2>4. Cardinality(B) \in Int /\ Cardinality(A \ B) = Cardinality(A) - Cardinality(B)
    BY <2>1, Counting
  <2> QED BY <2>2, <2>3, <2>4 DEF B
<1>8. /\ Cardinality(with("Conf")) \in Int
      /\ Cardinality({c \in Clients : "Conf" \in flags'[c]}) = cnt.class - Cardinality(with("Conf"))
  <2> DEFINE A == {c \in Clients : "Conf" \in fl[c]}
             B == with("Conf")
  <2>1. A \in SUBSET Clients /\ B \in SUBSET A
    BY <1>4
  <2>2. {c \in Clients : "Conf" \in flags'[c]} = A \ B
    BY <1>4, <1>6
  <2>3. cnt.class = Cardinality(A)
    BY DEF CountsFor
  <2> HIDE DEF A, B
  <2>4. Cardinality(B) \in Int /\ Cardinality(A \ B) = Cardinality(A) - Cardinality(B)
    BY <2>1, Counting
  <2> QED BY <2>2, <2>3, <2>4 DEF B
<1>9. /\ Cardinality(with("Open")) \in Int
      /\ Cardinality({c \in Clients : "Open" \in flags'[c]})
           = Cardinality({c \in Clients : "Open" \in fl[c]}) - Cardinality(with("Open"))
  <2> DEFINE A == {c \in Clients : "Open" \in fl[c]}
             B == with("Open")
  <2>1. A \in SUBSET Clients /\ B \in SUBSET A
    BY <1>4
  <2>2. {c \in Clients : "Open" \in flags'[c]} = A \ B
    BY <1>4, <1>6
  <2> HIDE DEF A, B
  <2>4. Cardinality(B) \in Int /\ Cardinality(A \ B) = Cardinality(A) - Cardinality(B)
    BY <2>1, Counting
  <2> QED BY <2>2, <2>4 DEF A, B
<1>10. /\ Cardinality({c \in out : IsClient(c)}) \in Int
       /\ Cardinality({c \in Clients : list'[c] = "local_client_list"})
            = cnt.local - Cardinality({c \in out : IsClient(c)})
  <2> DEFINE A == {c \in Clients : IsClient(c)}
             B == {c \in out : IsClient(c)}
  <2>1. A \in SUBSET Clients /\ B \in SUBSET A
    BY <1>4
  <2>2. {c \in Clients : list'[c] = "local_client_list"} = A \ B
    BY <1>3, <1>4 DEF IsClient
  <2>3. cnt.local = Cardinality(A)
    BY DEF CountsFor
  <2> HIDE DEF A, B
  <2>4. Cardinality(B) \in Int /\ Cardinality(A \ B) = Cardinality(A) - Cardinality(B)
    BY <2>1, Counting
  <2> QED BY <2>2, <2>3, <2>4 DEF B
<1>11. /\ Cardinality(with("DoingAuth")) \in Int
       /\ Cardinality({c \in Clients : ident[c] # "closed"}) \in Int
       /\ Cardinality({c \in Clients : "Open" \in fl[c]}) \in Int
       /\ fault' = None =>
            Cardinality({c \in Clients : ident'[c] # "closed"})
              = Cardinality({c \in Clients : ident[c] # "closed"}) - Cardinality(with("DoingAuth"))
  <2> DEFINE A == {c \in Clients : ident[c] # "closed"}
             B == with("DoingAuth")
  <2>1. A \in SUBSET Clients /\ B \in SUBSET Clients
    BY <1>4
  <2>2. ASSUME fault' = None
        PROVE  Cardinality({c \in Clients : ident'[c] # "closed"}) = Cardinality(A) - Cardinality(B)
    <3>1. B \in SUBSET A
      BY <1>3, <2>1, <2>2, ConnectionAssumption
    <3>2. {c \in Clients : ident'[c] # "closed"} = A \ B
      BY <1>3, <2>1
    <3> HIDE DEF A, B
    <3> QED BY <3>1, <3>2, <2>1, Counting
  <2>3. Cardinality({c \in Clients : "Open" \in fl[c]}) \in Int
    <3> DEFINE D == {c \in Clients : "Open" \in fl[c]}
    <3>1. D \in SUBSET Clients
      OBVIOUS
    <3> HIDE DEF D
    <3>2. Cardinality(D) \in Int
      BY <3>1, CountIsNat
    <3> QED BY <3>2 DEF D
  <2> HIDE DEF A, B
  <2>4. Cardinality(A) \in Int /\ Cardinality(B) \in Int
    BY <2>1, CountIsNat
  <2> QED BY <2>2, <2>3, <2>4 DEF A, B
<1>12. count' \in Int5
  <2> DEFINE n(a) == Cardinality({c \in with("IPHash") : ip[c] = a})
             i == [a \in Addrs |-> cnt.ip[a] - n(a)]
             nc == Cardinality(with("Conf"))
             nl == Cardinality({c \in out : IsClient(c)})
             no == Cardinality(with("Open"))
             nd == Cardinality(with("DoingAuth"))
  <2>1. \A a \in Addrs : n(a) \in Int
    BY <1>7
  <2>2. nc \in Int /\ nl \in Int /\ no \in Int /\ nd \in Int
    BY <1>8, <1>9, <1>10, <1>11
  <2>3. count' = [cnt EXCEPT !.ip = i, !.class = @ - nc, !.local = @ - nl, !.fd = @ - no - nd]
    BY <1>1
  <2> HIDE DEF n, nc, nl, no, nd
  <2>4. cnt.ip \in [Addrs -> Int]
    BY <1>4
  <2>5. i \in [Addrs -> Int]
    BY <2>1, <2>4
  <2> HIDE DEF i
  <2>6. cnt = [ip |-> cnt.ip, class |-> cnt.class, local |-> cnt.local, fd |-> cnt.fd, listener |-> cnt.listener]
    BY <1>4
  <2>7. count' = [ip |-> i, class |-> cnt.class - nc, local |-> cnt.local - nl,
                  fd |-> cnt.fd - no - nd, listener |-> cnt.listener]
    BY <2>3, <2>6
  <2> QED BY <2>2, <2>5, <2>7, <1>4
<1>13. \A a \in Addrs : count'.ip[a] = cnt.ip[a] - Cardinality({c \in with("IPHash") : ip[c] = a})
  BY <1>1, <1>4
<1>14. /\ count'.class = cnt.class - Cardinality(with("Conf"))
       /\ count'.local = cnt.local - Cardinality({c \in out : IsClient(c)})
       /\ count'.fd = cnt.fd - Cardinality(with("Open")) - Cardinality(with("DoingAuth"))
       /\ count'.listener = cnt.listener
  BY <1>1, <1>4
<1>15. ASSUME fault' = None
       PROVE  count'.fd = Cardinality({c \in Clients : "Open" \in flags'[c]})
                           + Cardinality({c \in Clients : ident'[c] # "closed"})
                           + (IF active THEN 1 ELSE 0)
  <2>1. cnt.fd = Cardinality({c \in Clients : "Open" \in fl[c]})
                  + Cardinality({c \in Clients : ident[c] # "closed"})
                  + (IF active THEN 1 ELSE 0)
    BY DEF CountsFor
  <2> QED BY <1>9, <1>11, <1>14, <1>15, <2>1
<1>16. cnt.listener = Cardinality({c \in Clients : mem'[c] = "used"})
  BY DEF CountsFor
<1> QED BY <1>7, <1>8, <1>10, <1>12, <1>13, <1>14, <1>15, <1>16

(* exit_client() leaves every client in order.                              *)
LEMMA ExitRecords ==
    ASSUME NEW C, NEW fl, NEW cnt, TypeOK, Records, fault = None,
           Called(C, fl), exit_clients(C, fl, cnt), mem' = mem, ip' = ip
    PROVE  Records'
<1>1. /\ flags' = [c \in Clients |-> IF c \in Exiting(C) THEN Stripped(c) ELSE flags[c]]
      /\ list' = [c \in Clients |-> IF c \in Exiting(C) THEN "none" ELSE list[c]]
      /\ ident' = [c \in Clients |-> IF c \in Exiting(C) /\ Has(c, "DoingAuth") THEN "closed" ELSE ident[c]]
  BY ExitFacts
<1>2. SUFFICES ASSUME NEW c \in Clients
               PROVE  /\ FreeIsBlank(c)' /\ UsedHasAddress(c)' /\ ListedIsLive(c)'
                      /\ UnknownHoldsNothing(c)' /\ ExitedIsStripped(c)' /\ IdentIsFlagged(c)'
  BY DEF Records
<1>3. /\ FreeIsBlank(c) /\ UsedHasAddress(c) /\ ListedIsLive(c)
      /\ UnknownHoldsNothing(c) /\ ExitedIsStripped(c) /\ IdentIsFlagged(c)
  BY DEF Records
<1>4. flags[c] \in SUBSET Flags
  BY DEF TypeOK
<1>5. CASE c \in Exiting(C)
  <2>1. mem[c] = "used" /\ "Closing" \notin flags[c]
    BY <1>5 DEF Called, Exiting, Has
  <2>2. /\ flags'[c] = (flags[c] \ {"Open", "InAuth", "IPHash", "Conf"}) \cup {"Dead", "Closing"}
        /\ list'[c] = "none" /\ ident'[c] = IF "DoingAuth" \in flags[c] THEN "closed" ELSE ident[c]
        /\ mem'[c] = mem[c] /\ ip'[c] = ip[c]
    BY <1>1, <1>5 DEF Stripped, Has
  <2>3. ident'[c] = "closed"
    BY <2>2, <1>3 DEF IdentIsFlagged, Has
  <2> QED BY <1>3, <2>1, <2>2, <2>3
       DEF FreeIsBlank, UsedHasAddress, ListedIsLive, UnknownHoldsNothing, ExitedIsStripped, IdentIsFlagged,
           Has, IsUnknown
<1>6. CASE c \notin Exiting(C)
  <2>1. flags'[c] = flags[c] /\ list'[c] = list[c] /\ ident'[c] = ident[c] /\ mem'[c] = mem[c] /\ ip'[c] = ip[c]
    BY <1>1, <1>6
  <2> QED BY <1>3, <2>1
       DEF FreeIsBlank, UsedHasAddress, ListedIsLive, UnknownHoldsNothing, ExitedIsStripped, IdentIsFlagged,
           Has, IsUnknown
<1> QED BY <1>5, <1>6

(* exit_client() ends the lookups of the clients in C and no others.        *)
LEMMA ExitLookups ==
    ASSUME NEW C, NEW fl, NEW cnt, TypeOK, Records, Lookups, fault = None,
           Called(C, fl), exit_clients(C, fl, cnt), mem' = mem,
           walk'.fn = walk.fn, walk'.node = walk.node, Returning' = Returning,
           walk.fn \notin {"res_readreply", "timeout_query_list"} \/ (walk.called /\ walk'.called)
    PROVE  Lookups'
<1>1. /\ flags' = [c \in Clients |-> IF c \in Exiting(C) THEN Stripped(c) ELSE flags[c]]
      /\ ident' = [c \in Clients |-> IF c \in Exiting(C) /\ Has(c, "DoingAuth") THEN "closed" ELSE ident[c]]
      /\ ToSet(auth_pending_list') = ToSet(auth_pending_list) \ {c \in Exiting(C) : Has(c, "InAuth")}
      /\ IsInjective(auth_pending_list) => IsInjective(auth_pending_list')
      /\ ToSet(Contexts') = ToSet(Contexts) \ {c \in Exiting(C) : Has(c, "DNSPending")}
      /\ IsInjective(Contexts) => IsInjective(Contexts')
  BY ExitFacts
<1>2. SUFFICES ASSUME fault' = None PROVE Lookups'
  BY DEF Lookups
<1>3. /\ flags \in [Clients -> SUBSET Flags] /\ Exiting(C) \in SUBSET Clients
      /\ \A c \in Exiting(C) : "Closing" \notin flags[c]
  BY DEF TypeOK, Called, Exiting, Has
<1>4. \A c \in Clients : \A f : f \notin {"Open", "InAuth", "IPHash", "Conf", "Dead", "Closing"}
                                  => (f \in flags'[c] <=> f \in flags[c])
  BY <1>1 DEF Stripped
<1>5. \A c \in Clients : "Closing" \in flags'[c] <=> "Closing" \in flags[c] \/ c \in Exiting(C)
  BY <1>1 DEF Stripped
<1>6. \A c \in Clients : "InAuth" \in flags'[c] <=> "InAuth" \in flags[c] /\ c \notin Exiting(C)
  BY <1>1 DEF Stripped
<1>7. ToSet(auth_pending_list) = All("InAuth") /\ IsInjective(auth_pending_list) /\ IsInjective(Contexts)
  BY DEF Lookups
<1>8. ToSet(auth_pending_list') = All("InAuth")'
  BY <1>1, <1>6, <1>7 DEF All, Has
<1>9. ASSUME NEW c \in Clients \ All("Closing")'
      PROVE  /\ c \in ToSet(Contexts') <=> Has(c, "DNSPending")' \/ c \in Returning'
             /\ SocketFails \/ (ident'[c] # "closed" <=> Has(c, "DoingAuth")')
             /\ mem'[c] = "used" =>
                  (Has(c, "InAuth")' <=> flags'[c] \cap {"DNSPending", "DoingAuth"} # {})
             /\ Has(c, "FinishedAuth")' <=> mem'[c] = "used" /\ ~Has(c, "InAuth")'
  <2>1. c \in Clients /\ "Closing" \notin flags[c] /\ c \notin Exiting(C)
    BY <1>5, <1>9 DEF All, Has
  <2>2. flags'[c] = flags[c] /\ ident'[c] = ident[c] /\ (c \in ToSet(Contexts') <=> c \in ToSet(Contexts))
    BY <1>1, <2>1
  <2>3. /\ c \in ToSet(Contexts) <=> Has(c, "DNSPending") \/ c \in Returning
        /\ SocketFails \/ (ident[c] # "closed" <=> Has(c, "DoingAuth"))
        /\ mem[c] = "used" => (Has(c, "InAuth") <=> flags[c] \cap {"DNSPending", "DoingAuth"} # {})
        /\ Has(c, "FinishedAuth") <=> mem[c] = "used" /\ ~Has(c, "InAuth")
    BY <2>1 DEF Lookups, All, Has
  <2> QED BY <2>2, <2>3 DEF Has
<1>10. ASSUME NEW c \in All("Closing")'
       PROVE  c \notin ToSet(Contexts') \ Returning'
  <2>1. CASE c \in Exiting(C)
    <3>1. c \in Clients /\ c \notin All("Closing")
      BY <2>1, <1>3 DEF All, Has
    <3>2. c \in ToSet(Contexts) <=> Has(c, "DNSPending") \/ c \in Returning
      BY <3>1 DEF Lookups
    <3> QED BY <1>1, <2>1, <3>2
  <2>2. CASE c \notin Exiting(C)
    <3>1. c \in All("Closing")
      BY <2>2, <1>5, <1>10 DEF All, Has
    <3>2. c \notin ToSet(Contexts) \ Returning
      BY <3>1 DEF Lookups
    <3> QED BY <1>1, <3>2
  <2> QED BY <2>1, <2>2
<1>11. Returning' \subseteq ToSet(Contexts') \ All("DNSPending")'
  <2>1. Returning \subseteq ToSet(Contexts) \ All("DNSPending")
    BY DEF Lookups
  <2>2. All("DNSPending")' = All("DNSPending")
    BY <1>4 DEF All, Has
  <2>3. \A c \in Exiting(C) : Has(c, "DNSPending") => c \in All("DNSPending")
    BY <1>3 DEF All
  <2> QED BY <1>1, <2>1, <2>2, <2>3
<1>12. walk'.fn = "res_readreply" => walk'.called
  OBVIOUS
<1>13. walk'.fn = "timeout_query_list" => walk'.node \in ToSet(Contexts')
  BY <1>11 DEF Returning
<1> QED BY <1>1, <1>2, <1>7, <1>8, <1>9, <1>10, <1>11, <1>12, <1>13 DEF Lookups

(* The clients that are dead, exited or dead and exited, after exit_client().*)
LEMMA ExitDead ==
    ASSUME NEW C, NEW fl, NEW cnt, TypeOK, fault = None, Called(C, fl), exit_clients(C, fl, cnt)
    PROVE  /\ All("Dead")' = All("Dead") \cup Exiting(C)
           /\ All("Closing")' = All("Closing") \cup Exiting(C)
           /\ \A c \in Clients : Has(c, "FinishedAuth")' <=> Has(c, "FinishedAuth")
<1>1. flags' = [c \in Clients |-> IF c \in Exiting(C) THEN Stripped(c) ELSE flags[c]]
  BY ExitFacts
<1>2. flags \in [Clients -> SUBSET Flags] /\ Exiting(C) \in SUBSET Clients
  BY DEF TypeOK, Called, Exiting
<1> QED BY <1>1, <1>2 DEF All, Has, Stripped

(* The types of what exit_client() assigns.                                 *)
LEMMA ExitTypes ==
    ASSUME NEW C, NEW fl, NEW cnt, TypeOK, fault = None, Called(C, fl), exit_clients(C, fl, cnt)
    PROVE  /\ flags' \in [Clients -> SUBSET Flags]
           /\ list' \in [Clients -> {"none", "unknown_list", "local_client_list"}]
           /\ ident' \in [Clients -> {"closed", "connecting", "reading"}]
           /\ auth_pending_list' \in Seq(Clients) /\ request_list' \in Seq(Requests)
           /\ dead_list' \in SUBSET Clients
           /\ fault' \in {None, "fd_close"}
<1>1. /\ flags' = [c \in Clients |-> IF c \in Exiting(C) THEN Stripped(c) ELSE flags[c]]
      /\ list' = [c \in Clients |-> IF c \in Exiting(C) THEN "none" ELSE list[c]]
      /\ ident' = [c \in Clients |-> IF c \in Exiting(C) /\ Has(c, "DoingAuth") THEN "closed" ELSE ident[c]]
      /\ dead_list' = dead_list \cup Exiting(C)
      /\ auth_pending_list' \in Seq(Clients) /\ request_list' \in Seq(Requests)
      /\ fault' = IF \A c \in Exiting(C) : Has(c, "DoingAuth") => ident[c] # "closed" THEN None ELSE "fd_close"
  BY ExitFacts
<1>2. /\ flags \in [Clients -> SUBSET Flags] /\ Exiting(C) \in SUBSET Clients
      /\ list \in [Clients -> {"none", "unknown_list", "local_client_list"}]
      /\ ident \in [Clients -> {"closed", "connecting", "reading"}]
      /\ dead_list \in SUBSET Clients
  BY DEF TypeOK, Called, Exiting
<1>3. \A c \in Clients : Stripped(c) \in SUBSET Flags
  BY <1>2 DEF Stripped, Flags
<1> QED BY <1>1, <1>2, <1>3

(* A handler or a command that ends clients and leaves the loop where it is.*)
LEMMA ExitStep ==
    ASSUME NEW C, NEW fl, NEW cnt, Inv, fault = None,
           Called(C, fl), exit_clients(C, fl, cnt),
           UNCHANGED <<loopvars, mem, ip, abort_list, eac_next>>,
           listener' \in {"active", "closed", "freed"},
           listener' = "freed" => \A c \in Clients : mem[c] = "free",
           CountsFor(cnt, fl, listener' = "active"),
           walk.fn = "none" \/ walk.called
    PROVE  Inv'
<1>1. TypeOK /\ Records /\ Aborts /\ Pointers /\ Lookups
  BY DEF Inv
<1>2. phase' = phase /\ walk' = walk /\ reader' = reader /\ mem' = mem /\ ip' = ip
      /\ abort_list' = abort_list /\ eac_next' = eac_next
  BY DEF loopvars
<1>3. /\ count' \in [ip : [Addrs -> Int], class : Int, local : Int, fd : Int, listener : Int]
      /\ fault' = None => /\ \A a \in Addrs : count'.ip[a] = Cardinality({c \in Clients : "IPHash" \in flags'[c] /\ ip'[c] = a})
                          /\ count'.class = Cardinality({c \in Clients : "Conf" \in flags'[c]})
                          /\ count'.local = Cardinality({c \in Clients : list'[c] = "local_client_list"})
                          /\ count'.fd = Cardinality({c \in Clients : "Open" \in flags'[c]})
                                          + Cardinality({c \in Clients : ident'[c] # "closed"})
                                          + (IF listener' = "active" THEN 1 ELSE 0)
                          /\ count'.listener = Cardinality({c \in Clients : mem'[c] = "used"})
  <2>1. (listener' = "active") \in BOOLEAN
    OBVIOUS
  <2> QED BY <1>1, <1>2, <2>1, ExitCounts
<1>4. TypeOK'
  <2>1. /\ flags' \in [Clients -> SUBSET Flags]
        /\ list' \in [Clients -> {"none", "unknown_list", "local_client_list"}]
        /\ ident' \in [Clients -> {"closed", "connecting", "reading"}]
        /\ auth_pending_list' \in Seq(Clients) /\ request_list' \in Seq(Requests)
        /\ dead_list' \in SUBSET Clients
        /\ fault' \in {None, "fd_close"}
    BY <1>1, ExitTypes
  <2> QED BY <1>1, <1>2, <1>3, <2>1 DEF TypeOK
<1>5. Records'
  BY <1>1, <1>2, ExitRecords
<1>6. Returning' = Returning
  BY <1>2 DEF Returning
<1>7. Lookups'
  BY <1>1, <1>2, <1>6, ExitLookups
<1>8. Counters'
  BY <1>3, CountersNext
<1>9. /\ All("Dead")' = All("Dead") \cup Exiting(C)
      /\ All("Closing")' = All("Closing") \cup Exiting(C)
      /\ \A c \in Clients : Has(c, "FinishedAuth")' <=> Has(c, "FinishedAuth")
  BY <1>1, ExitDead
<1>10. dead_list' = dead_list \cup Exiting(C)
  BY <1>1, ExitFacts
<1>11. Aborts'
  BY <1>1, <1>2, <1>9, <1>10 DEF Aborts
<1>12. Pointers'
  <2>1. ToSet(auth_pending_list') \subseteq ToSet(auth_pending_list) /\ ToSet(Contexts') \subseteq ToSet(Contexts)
    BY <1>1, ExitFacts
  <2>2. \A c \in Exiting(C) : mem[c] = "used"
    BY DEF Called, Exiting
  <2>3. \A c \in Referenced' : mem'[c] = "used"
    BY <1>1, <1>2, <1>10, <2>1, <2>2 DEF Pointers, Referenced
  <2>4. reader # None => reader \in Clients
    BY <1>1 DEF TypeOK
  <2> QED BY <1>1, <1>2, <1>9, <2>3, <2>4 DEF Pointers
<1>13. fault' # "rem_request"
  BY <1>1, ExitTypes, ConnectionAssumption
<1> QED BY <1>4, <1>5, <1>7, <1>8, <1>11, <1>12, <1>13 DEF Inv

(* What the loop guarantees while lines of c are parsed, and when it is free.*)
LEMMA ReadingFacts ==
    ASSUME Inv, NEW c \in Clients, Reading(c)
    PROVE  /\ fault = None /\ reader = c /\ mem[c] = "used" /\ phase = "run"
           /\ Has(c, "FinishedAuth") /\ ~Has(c, "Closing") /\ ~Has(c, "Dead")
           /\ walk.fn = "none" \/ walk.called
<1>1. fault = None /\ reader = c /\ ~IsDefunct(c) /\ c # None
  BY ConnectionAssumption DEF Reading
<1>2. mem[c] = "used" /\ Has(c, "FinishedAuth") /\ (walk.fn = "none" \/ walk.called)
  BY <1>1 DEF Inv, Pointers, Referenced
<1>3. phase = "run"
  BY <1>1 DEF Inv, TypeOK, Phases, Aborts
<1>4. ~Has(c, "Closing") /\ ~Has(c, "Dead")
  BY <1>1 DEF IsDefunct, Has
<1> QED BY <1>1, <1>2, <1>3, <1>4

(* Between two handlers nothing has failed, no list is walked and nobody reads. *)
LEMMA IdleFacts ==
    ASSUME Idle
    PROVE  /\ fault = None /\ phase = "run" /\ reader = None /\ walk = NoWalk
           /\ walk.fn = "none" /\ walk.node = None /\ walk.next = None /\ walk.called = FALSE
BY DEF Idle, NoWalk, Walk

(* exit_client() with the flags and the counters of the state.              *)
LEMMA ExitCall ==
    ASSUME NEW C, Inv, fault = None, C \in SUBSET Clients, \A c \in C : mem[c] = "used",
           exit_client(C), handled, walk.fn = "none" \/ walk.called
    PROVE  Inv'
<1>1. TypeOK /\ Counters
  BY DEF Inv
<1>2. CountsFor(count, flags, listener = "active")
  BY <1>1, CountersAreFor
<1>3. Called(C, flags)
  BY <1>1 DEF Called, TypeOK
<1>4. listener' = listener /\ UNCHANGED <<loopvars, mem, ip, abort_list, eac_next>>
  BY DEF handled
<1>5. listener' \in {"active", "closed", "freed"}
  BY <1>1, <1>4 DEF TypeOK
<1>6. listener' = "freed" => \A c \in Clients : mem[c] = "free"
  BY <1>4 DEF Inv, Pointers
<1>7. exit_clients(C, flags, count)
  BY DEF exit_client
<1>8. CountsFor(count, flags, listener' = "active")
  BY <1>2, <1>4
<1> QED BY <1>3, <1>4, <1>5, <1>6, <1>7, <1>8, ExitStep

(* A client that is unknown, registered or on a list is allocated and has not exited. *)
LEMMA ListedIsUsed ==
    ASSUME Inv, NEW c \in Clients, IsUnknown(c) \/ IsClient(c) \/ list[c] # "none"
    PROVE  mem[c] = "used" /\ ~Has(c, "Closing")
BY DEF Inv, Records, ListedIsLive, IsUnknown, IsClient

(* read_packet() that ends its client (end of file, error, QUIT) keeps the invariant. *)
LEMMA ReadExits ==
    ASSUME Inv, NEW c \in Clients, read_exits(c)
    PROVE  Inv'
<1>1. Reading(c) /\ exit_client({c}) /\ handled
  BY DEF read_exits
<1>2. fault = None /\ mem[c] = "used" /\ (walk.fn = "none" \/ walk.called)
  BY <1>1, ReadingFacts
<1>3. {c} \in SUBSET Clients /\ \A d \in {c} : mem[d] = "used"
  BY <1>2
<1> QED BY <1>1, <1>2, <1>3, ExitCall

(* CLOSE, which exits every unknown client, keeps the invariant. *)
LEMMA MoClose ==
    ASSUME Inv, NEW c \in Clients, mo_close(c)
    PROVE  Inv'
<1> DEFINE C == {d \in Clients : IsUnknown(d)}
<1>1. Reading(c) /\ exit_client(C) /\ handled
  BY DEF mo_close
<1>2. fault = None /\ (walk.fn = "none" \/ walk.called)
  BY <1>1, ReadingFacts
<1>3. C \in SUBSET Clients /\ \A d \in C : mem[d] = "used"
  BY ListedIsUsed
<1> HIDE DEF C
<1> QED BY <1>1, <1>2, <1>3, ExitCall

(* KILL of a registered client keeps the invariant. *)
LEMMA MoKill ==
    ASSUME Inv, NEW c \in Clients, NEW d \in Clients, mo_kill(c, d)
    PROVE  Inv'
<1>1. Reading(c) /\ IsClient(d) /\ exit_client({d}) /\ handled
  BY DEF mo_kill
<1>2. fault = None /\ (walk.fn = "none" \/ walk.called)
  BY <1>1, ReadingFacts
<1>3. {d} \in SUBSET Clients /\ \A e \in {d} : mem[e] = "used"
  BY <1>1, ListedIsUsed
<1> QED BY <1>1, <1>2, <1>3, ExitCall

(* DLINE, which exits every client of an address, keeps the invariant. *)
LEMMA MoDline ==
    ASSUME Inv, NEW c \in Clients, NEW a \in Addrs, mo_dline(c, a)
    PROVE  Inv'
<1> DEFINE C == {d \in Clients : list[d] # "none" /\ ip[d] = a /\ ~Has(d, "Dead")}
<1>1. Reading(c) /\ exit_client(C) /\ handled
  BY DEF mo_dline
<1>2. fault = None /\ (walk.fn = "none" \/ walk.called)
  BY <1>1, ReadingFacts
<1>3. C \in SUBSET Clients /\ \A d \in C : mem[d] = "used"
  BY ListedIsUsed
<1> HIDE DEF C
<1> QED BY <1>1, <1>2, <1>3, ExitCall

(* check_pings_list() and check_unknowns_list() keep the invariant. *)
LEMMA Checks ==
    ASSUME Inv, NEW c \in Clients, check_pings(c) \/ check_unknowns(c)
    PROVE  Inv'
<1>1. Idle /\ (IsClient(c) \/ IsUnknown(c)) /\ exit_client({c}) /\ handled
  BY DEF check_pings, check_unknowns
<1>2. fault = None /\ (walk.fn = "none" \/ walk.called)
  BY <1>1, IdleFacts
<1>3. {c} \in SUBSET Clients /\ \A d \in {c} : mem[d] = "used"
  BY <1>1, ListedIsUsed
<1> QED BY <1>1, <1>2, <1>3, ExitCall

(***************************************************************************)
(* attach_iline() counts the address, attach_conf() the class, of a client *)
(* that holds neither.                                                     *)
(***************************************************************************)
LEMMA AttachCounts ==
    ASSUME Inv, fault = None, NEW c \in Clients, IsUnknown(c), NEW f \in {{"IPHash"}, {"IPHash", "Conf"}}
    PROVE  /\ attached(c, f) \in [Clients -> SUBSET Flags]
           /\ \A d \in Clients : attached(c, f)[d] = IF d = c THEN flags[d] \cup f ELSE flags[d]
           /\ CountsFor(with_ip(c), attached(c, {"IPHash"}), listener = "active")
           /\ CountsFor(with_conf(c), attached(c, {"IPHash", "Conf"}), listener = "active")
<1>1. /\ flags \in [Clients -> SUBSET Flags]
      /\ count \in [ip : [Addrs -> Int], class : Int, local : Int, fd : Int, listener : Int]
  BY DEF Inv, TypeOK
<1>2. mem[c] = "used" /\ ip[c] \in Addrs /\ "IPHash" \notin flags[c] /\ "Conf" \notin flags[c]
  <2>1. mem[c] = "used"
    BY ListedIsUsed
  <2> QED BY <2>1 DEF Inv, Records, UsedHasAddress, UnknownHoldsNothing, Has
<1>3. CountsFor(count, flags, listener = "active")
  BY CountersAreFor DEF Inv
<1>4. ASSUME NEW g \in {{"IPHash"}, {"IPHash", "Conf"}}
      PROVE  /\ attached(c, g) \in [Clients -> SUBSET Flags]
             /\ \A d \in Clients : attached(c, g)[d] = IF d = c THEN flags[d] \cup g ELSE flags[d]
             /\ \A a \in Addrs : Cardinality({d \in Clients : "IPHash" \in attached(c, g)[d] /\ ip[d] = a})
                                   = IF a = ip[c] THEN count.ip[a] + 1 ELSE count.ip[a]
             /\ {d \in Clients : "Open" \in attached(c, g)[d]} = {d \in Clients : "Open" \in flags[d]}
  <2>1. g \in SUBSET Flags /\ "IPHash" \in g /\ "Open" \notin g
    BY DEF Flags
  <2>2. attached(c, g) \in [Clients -> SUBSET Flags]
    BY <1>1, <2>1 DEF attached
  <2>3. \A d \in Clients : attached(c, g)[d] = IF d = c THEN flags[d] \cup g ELSE flags[d]
    BY <1>1 DEF attached
  <2>4. ASSUME NEW a \in Addrs
        PROVE  Cardinality({d \in Clients : "IPHash" \in attached(c, g)[d] /\ ip[d] = a})
                 = IF a = ip[c] THEN count.ip[a] + 1 ELSE count.ip[a]
    <3> DEFINE A == {d \in Clients : "IPHash" \in flags[d] /\ ip[d] = a}
    <3>1. A \in SUBSET Clients /\ c \notin A
      BY <1>2
    <3>2. {d \in Clients : "IPHash" \in attached(c, g)[d] /\ ip[d] = a} = IF a = ip[c] THEN A \cup {c} ELSE A
      BY <2>1, <2>3
    <3>3. count.ip[a] = Cardinality(A)
      BY <1>3 DEF CountsFor
    <3> HIDE DEF A
    <3>4. Cardinality(A \cup {c}) = Cardinality(A) + 1
      BY <3>1, Counting
    <3> QED BY <3>2, <3>3, <3>4
  <2>5. {d \in Clients : "Open" \in attached(c, g)[d]} = {d \in Clients : "Open" \in flags[d]}
    BY <2>1, <2>3
  <2> QED BY <2>2, <2>3, <2>4, <2>5
<1>5. /\ {d \in Clients : "Conf" \in attached(c, {"IPHash"})[d]} = {d \in Clients : "Conf" \in flags[d]}
      /\ {d \in Clients : "Conf" \in attached(c, {"IPHash", "Conf"})[d]} = {d \in Clients : "Conf" \in flags[d]} \cup {c}
  <2>1. /\ \A d \in Clients : attached(c, {"IPHash"})[d] = IF d = c THEN flags[d] \cup {"IPHash"} ELSE flags[d]
        /\ \A d \in Clients :
             attached(c, {"IPHash", "Conf"})[d] = IF d = c THEN flags[d] \cup {"IPHash", "Conf"} ELSE flags[d]
    BY <1>4
  <2> QED BY <2>1
<1>6. Cardinality({d \in Clients : "Conf" \in flags[d]} \cup {c}) = count.class + 1
  <2> DEFINE A == {d \in Clients : "Conf" \in flags[d]}
  <2>1. A \in SUBSET Clients /\ c \notin A /\ count.class = Cardinality(A)
    BY <1>2, <1>3 DEF CountsFor
  <2> HIDE DEF A
  <2>2. Cardinality(A \cup {c}) = Cardinality(A) + 1
    BY <2>1, Counting
  <2>3. Cardinality(A \cup {c}) = count.class + 1
    BY <2>1, <2>2
  <2> QED BY <2>3 DEF A
<1>7. /\ with_ip(c) \in [ip : [Addrs -> Int], class : Int, local : Int, fd : Int, listener : Int]
      /\ with_ip(c).class = count.class /\ with_ip(c).local = count.local /\ with_ip(c).fd = count.fd
      /\ with_ip(c).listener = count.listener
      /\ \A a \in Addrs : with_ip(c).ip[a] = IF a = ip[c] THEN count.ip[a] + 1 ELSE count.ip[a]
  BY <1>1, <1>2 DEF with_ip
<1>8. /\ with_conf(c) \in [ip : [Addrs -> Int], class : Int, local : Int, fd : Int, listener : Int]
      /\ with_conf(c).class = count.class + 1 /\ with_conf(c).local = count.local /\ with_conf(c).fd = count.fd
      /\ with_conf(c).listener = count.listener
      /\ \A a \in Addrs : with_conf(c).ip[a] = IF a = ip[c] THEN count.ip[a] + 1 ELSE count.ip[a]
  BY <1>1, <1>7 DEF with_conf
<1>9. CountsFor(with_ip(c), attached(c, {"IPHash"}), listener = "active")
  BY <1>3, <1>4, <1>5, <1>7 DEF CountsFor
<1>10. CountsFor(with_conf(c), attached(c, {"IPHash", "Conf"}), listener = "active")
  BY <1>3, <1>4, <1>5, <1>6, <1>8 DEF CountsFor
<1> QED BY <1>4, <1>9, <1>10

(* A client that is refused gives back what was attached just before.       *)
LEMMA Refused ==
    ASSUME Inv, NEW c \in Clients, too_many(c) \/ register_refused(c)
    PROVE  Inv'
<1>1. Reading(c) /\ IsUnknown(c) /\ handled
  BY DEF too_many, register_refused
<1>2. fault = None /\ mem[c] = "used" /\ ~Has(c, "Closing") /\ (walk.fn = "none" \/ walk.called)
  BY <1>1, ReadingFacts
<1>3. listener' = listener /\ UNCHANGED <<loopvars, mem, ip, abort_list, eac_next>>
  BY <1>1 DEF handled
<1>4. listener' \in {"active", "closed", "freed"} /\ (listener' = "freed" => \A d \in Clients : mem[d] = "free")
  BY <1>3 DEF Inv, TypeOK, Pointers
<1>5. PICK f \in {{"IPHash"}, {"IPHash", "Conf"}} :
        \E cnt : exit_clients({c}, attached(c, f), cnt) /\ CountsFor(cnt, attached(c, f), listener = "active")
  BY <1>1, <1>2, AttachCounts DEF too_many, register_refused
<1>6. PICK cnt : exit_clients({c}, attached(c, f), cnt) /\ CountsFor(cnt, attached(c, f), listener = "active")
  BY <1>5
<1>7. /\ attached(c, f) \in [Clients -> SUBSET Flags]
      /\ \A d \in Clients : attached(c, f)[d] = IF d = c THEN flags[d] \cup f ELSE flags[d]
  BY <1>1, <1>2, AttachCounts
<1>8. Called({c}, attached(c, f))
  BY <1>2, <1>7 DEF Called
<1>9. CountsFor(cnt, attached(c, f), listener' = "active")
  BY <1>3, <1>6
<1> QED BY <1>2, <1>3, <1>4, <1>6, <1>8, <1>9, ExitStep

(* A new file may close or open the listener; its D-lines end connections.  *)
LEMMA ConfRehash ==
    ASSUME Inv, NEW D \in SUBSET Addrs, NEW listen \in BOOLEAN, conf_rehash(D, listen)
    PROVE  Inv'
<1> DEFINE was == IF listener = "active" THEN 1 ELSE 0
           now == IF listen THEN 1 ELSE 0
           C == {c \in Clients : ip[c] \in D /\ (IsUnknown(c) \/ (IsClient(c) /\ ~Has(c, "Dead")))}
           cnt == [count EXCEPT !.fd = @ - was + now]
<1>1. /\ Idle \/ \E c \in Clients : Reading(c)
      /\ listener' = CASE listen -> "active"
                       [] ~listen /\ count.listener > 0 -> "closed"
                       [] OTHER -> "freed"
      /\ exit_clients(C, flags, cnt)
      /\ UNCHANGED <<loopvars, mem, ip, abort_list, eac_next>>
  BY DEF conf_rehash
<1>2. fault = None /\ (walk.fn = "none" \/ walk.called)
  BY <1>1, ReadingFacts, IdleFacts
<1>3. CountsFor(count, flags, listener = "active")
  BY <1>2, CountersAreFor DEF Inv
<1>4. C \in SUBSET Clients /\ \A c \in C : mem[c] = "used"
  BY ListedIsUsed
<1>5. Called(C, flags)
  BY <1>4 DEF Called, Inv, TypeOK
<1>6. listener' \in {"active", "closed", "freed"} /\ (listener' = "active" <=> listen)
  BY <1>1
<1>7. listener' = "freed" => \A c \in Clients : mem[c] = "free"
  <2> DEFINE A == {c \in Clients : mem[c] = "used"}
  <2>1. A \in SUBSET Clients /\ count.listener = Cardinality(A)
    BY <1>3 DEF CountsFor
  <2>2. A = {} => \A c \in Clients : mem[c] = "free"
    BY DEF Inv, TypeOK
  <2> HIDE DEF A
  <2>3. Cardinality(A) \in Nat /\ (Cardinality(A) = 0 => A = {})
    BY <2>1, Counting
  <2>4. listener' = "freed" => ~(count.listener > 0)
    BY <1>1
  <2> QED BY <2>1, <2>2, <2>3, <2>4
<1>8. CountsFor(cnt, flags, listener' = "active")
  <2> DEFINE no == Cardinality({c \in Clients : "Open" \in flags[c]})
             nd == Cardinality({c \in Clients : ident[c] # "closed"})
  <2>1. count \in [ip : [Addrs -> Int], class : Int, local : Int, fd : Int, listener : Int]
    BY DEF Inv, TypeOK
  <2>2. /\ cnt \in [ip : [Addrs -> Int], class : Int, local : Int, fd : Int, listener : Int]
        /\ cnt.fd = count.fd - was + now /\ cnt.ip = count.ip /\ cnt.class = count.class
        /\ cnt.local = count.local /\ cnt.listener = count.listener
    BY <2>1
  <2> HIDE DEF cnt
  <2>3. no \in Int /\ nd \in Int
    <3> DEFINE A == {c \in Clients : "Open" \in flags[c]}
               B == {c \in Clients : ident[c] # "closed"}
    <3>1. A \in SUBSET Clients /\ B \in SUBSET Clients
      OBVIOUS
    <3> HIDE DEF A, B
    <3>2. Cardinality(A) \in Int /\ Cardinality(B) \in Int
      BY <3>1, CountIsNat
    <3> QED BY <3>2 DEF A, B
  <2>4. count.fd = no + nd + was
    BY <1>3 DEF CountsFor
  <2>5. cnt.fd = no + nd + (IF listener' = "active" THEN 1 ELSE 0)
    <3> HIDE DEF no, nd
    <3> QED BY <1>6, <2>2, <2>3, <2>4
  <2> QED BY <1>3, <2>2, <2>5 DEF CountsFor
<1> HIDE DEF C, cnt
<1> QED BY <1>1, <1>2, <1>5, <1>6, <1>7, <1>8, ExitStep
-----------------------------------------------------------------------------
(* The nodes a handler can be at.                                           *)
LEMMA WalkFacts ==
    /\ NoWalk \in Walks /\ NoWalk.fn = "none" /\ NoWalk.node = None /\ NoWalk.next = None /\ NoWalk.called = FALSE
    /\ \A fn \in {"none", "res_readreply", "timeout_query_list", "timeout_auth_queries_event", "exit_aborted_clients"},
          c \in Clients \cup {None}, d \in Clients \cup {None}, b \in BOOLEAN :
         /\ Walk(fn, c, d, b) \in Walks /\ Walk(fn, c, d, b).fn = fn /\ Walk(fn, c, d, b).node = c
         /\ Walk(fn, c, d, b).next = d /\ Walk(fn, c, d, b).called = b
BY DEF NoWalk, Walk, Walks

(* A handler that is in the middle of a list of lookups runs in the loop.   *)
LEMMA WalkingFacts ==
    ASSUME Inv, NEW fn \in {"res_readreply", "timeout_query_list", "timeout_auth_queries_event"}, In(fn)
    PROVE  /\ fault = None /\ reader = None /\ phase = "run" /\ walk.fn = fn
           /\ walk.node \in Clients /\ mem[walk.node] = "used" /\ walk.next \in Clients \cup {None}
<1>1. fault = None /\ reader = None /\ walk.fn = fn
  BY DEF In
<1>2. walk # NoWalk
  BY <1>1, WalkFacts
<1>3. phase = "run"
  BY <1>1, <1>2 DEF Inv, TypeOK, Phases, Aborts
<1>4. walk.node # None /\ walk.node \in Clients \cup {None} /\ walk.next \in Clients \cup {None}
  BY <1>1 DEF Inv, Pointers, TypeOK, Walks
<1>5. mem[walk.node] = "used"
  BY <1>4 DEF Inv, Pointers, Referenced
<1> QED BY <1>1, <1>3, <1>4, <1>5

(***************************************************************************)
(* A handler moves on: it changes where it is, and may have removed the    *)
(* request whose callback returned.                                        *)
(***************************************************************************)
LEMMA LookupsMove ==
    ASSUME TypeOK, Lookups, fault = None, UNCHANGED <<mem, flags, ident, auth_pending_list>>,
           fault' = None =>
             /\ IsInjective(Contexts')
             /\ Returning' \subseteq Returning
             /\ ToSet(Contexts') = ToSet(Contexts) \ (Returning \ Returning')
             /\ walk'.fn = "res_readreply" => walk'.called
             /\ walk'.fn = "timeout_query_list" => walk'.node \in ToSet(Contexts')
    PROVE  Lookups'
<1>1. SUFFICES ASSUME fault' = None PROVE Lookups'
  BY DEF Lookups
<1>2. \A f : All(f)' = All(f)
  BY DEF All, Has
<1>3. \A c, f : Has(c, f)' <=> Has(c, f)
  BY DEF Has
<1>4. IsInjective(auth_pending_list') /\ ToSet(auth_pending_list') = All("InAuth")'
  BY <1>2 DEF Lookups
<1>5. Returning \subseteq ToSet(Contexts) \ All("DNSPending")
  BY DEF Lookups
<1>6. ASSUME NEW c \in Clients \ All("Closing")'
      PROVE  /\ c \in ToSet(Contexts') <=> Has(c, "DNSPending")' \/ c \in Returning'
             /\ SocketFails \/ (ident'[c] # "closed" <=> Has(c, "DoingAuth")')
             /\ mem'[c] = "used" => (Has(c, "InAuth")' <=> flags'[c] \cap {"DNSPending", "DoingAuth"} # {})
             /\ Has(c, "FinishedAuth")' <=> mem'[c] = "used" /\ ~Has(c, "InAuth")'
  <2>1. c \in Clients \ All("Closing")
    BY <1>2, <1>6
  <2>2. /\ c \in ToSet(Contexts) <=> Has(c, "DNSPending") \/ c \in Returning
        /\ SocketFails \/ (ident[c] # "closed" <=> Has(c, "DoingAuth"))
        /\ mem[c] = "used" => (Has(c, "InAuth") <=> flags[c] \cap {"DNSPending", "DoingAuth"} # {})
        /\ Has(c, "FinishedAuth") <=> mem[c] = "used" /\ ~Has(c, "InAuth")
    BY <2>1 DEF Lookups
  <2>3. c \in Returning => ~Has(c, "DNSPending")
    BY <1>5, <2>1 DEF All
  <2>4. c \in ToSet(Contexts') <=> Has(c, "DNSPending")' \/ c \in Returning'
    BY <1>1, <1>3, <2>2, <2>3
  <2> QED BY <1>3, <2>2, <2>4
<1>7. ASSUME NEW c \in All("Closing")'
      PROVE  c \notin ToSet(Contexts') \ Returning'
  <2>1. c \notin ToSet(Contexts) \ Returning
    BY <1>2, <1>7 DEF Lookups
  <2> QED BY <1>1, <2>1
<1>8. Returning' \subseteq ToSet(Contexts') \ All("DNSPending")'
  BY <1>1, <1>2, <1>5
<1> QED BY <1>1, <1>4, <1>6, <1>7, <1>8 DEF Lookups

(* Records and Counters depend on the clients, the counts and the listener only. *)
LEMMA Frame ==
    ASSUME TypeOK, Records, Counters, fault = None, UNCHANGED <<clientvars, count, listener>>
    PROVE  Records' /\ Counters'
<1>1. mem' = mem /\ ip' = ip /\ list' = list /\ flags' = flags /\ ident' = ident
  BY DEF clientvars
<1>2. Records'
  BY <1>1 DEF Records, FreeIsBlank, UsedHasAddress, ListedIsLive, UnknownHoldsNothing, ExitedIsStripped,
              IdentIsFlagged, Has, IsUnknown
<1>3. CountsFor(count, flags, listener = "active")
  BY CountersAreFor
<1>4. Counters'
  BY <1>1, <1>3, CountersNext DEF CountsFor, IsClient
<1> QED BY <1>2, <1>4

(* A step that only moves a walk or the reader, or drops an answered request, keeps the invariant. *)
LEMMA MoveStep ==
    ASSUME Inv, fault = None, phase = "run",
           UNCHANGED <<phase, clientvars, auth_pending_list, abort_list, eac_next, dead_list, count, listener>>,
           request_list' \in Seq(Requests), ToSet(Contexts') \subseteq ToSet(Contexts),
           fault' \in {None, "next_node"},
           walk' \in Walks, walk'.fn # "exit_aborted_clients", walk'.fn = "none" <=> walk' = NoWalk,
           walk'.fn # "none" => walk'.node # None,
           {walk'.node, walk'.next, reader'} \subseteq Referenced \cup {None}, reader' \in Clients \cup {None},
           reader' # None => Has(reader', "FinishedAuth") /\ (walk'.fn = "none" \/ walk'.called),
           fault' = None =>
             /\ IsInjective(Contexts')
             /\ Returning' \subseteq Returning
             /\ ToSet(Contexts') = ToSet(Contexts) \ (Returning \ Returning')
             /\ walk'.fn = "res_readreply" => walk'.called
             /\ walk'.fn = "timeout_query_list" => walk'.node \in ToSet(Contexts')
    PROVE  Inv'
<1>1. TypeOK /\ Records /\ Aborts /\ Pointers /\ Lookups /\ Counters
  BY DEF Inv
<1>2. /\ mem' = mem /\ ip' = ip /\ list' = list /\ flags' = flags /\ ident' = ident
      /\ UNCHANGED <<clientvars, count, listener>>
  BY DEF clientvars
<1>3. TypeOK'
  BY <1>1, <1>2 DEF TypeOK
<1>4. Records' /\ Counters'
  BY <1>1, <1>2, Frame
<1>5. Lookups'
  BY <1>1, <1>2, LookupsMove
<1>6. \A f : All(f)' = All(f)
  BY <1>2 DEF All, Has
<1>7. Aborts'
  BY <1>1, <1>6 DEF Aborts
<1>8. Pointers'
  <2>1. \A c \in Referenced' : c \in Referenced
    BY DEF Referenced
  <2> QED BY <1>1, <1>2, <2>1 DEF Pointers, Has
<1>9. fault' # "rem_request"
  BY ConnectionAssumption
<1> QED BY <1>3, <1>4, <1>5, <1>7, <1>8, <1>9 DEF Inv

(* timeout_query_list() reaches a node, or the end of the list.             *)
LEMMA MoveToFacts ==
    ASSUME NEW q \in Seq(Clients), NEW c \in Clients \cup {None}, fault = None, MoveTo(c, q)
    PROVE  /\ walk' \in Walks /\ walk'.fn \in {"none", "timeout_query_list"} /\ walk'.called = FALSE
           /\ walk'.fn = "none" <=> walk' = NoWalk
           /\ walk'.fn = "none" => walk'.node = None /\ walk'.next = None
           /\ walk'.fn # "none" => walk'.node = c /\ c \in ToSet(q) /\ walk'.next \in ToSet(q) \cup {None}
           /\ walk'.fn # "none" => walk'.node # None
           /\ fault' \in {None, "next_node"}
<1>1. ToSet(q) \subseteq Clients
  BY DEF ToSet
<1>2. fault' \in {None, "next_node"}
  BY DEF MoveTo
<1>3. CASE c \in ToSet(q)
  <2> DEFINE n == After(q, c, None)
  <2>1. walk' = Walk("timeout_query_list", c, n, FALSE)
    BY <1>3 DEF MoveTo
  <2>2. n \in ToSet(q) \cup {None}
    BY <1>3, AfterFacts
  <2> HIDE DEF n
  <2>3. c \in Clients \cup {None} /\ n \in Clients \cup {None}
    BY <1>1, <2>2
  <2>4. /\ walk' \in Walks /\ walk'.fn = "timeout_query_list" /\ walk'.node = c /\ walk'.next = n /\ walk'.called = FALSE
    BY <2>1, <2>3 DEF Walk, Walks
  <2>5. walk' # NoWalk /\ c # None
    BY <1>1, <1>3, <2>4, WalkFacts, ConnectionAssumption
  <2> QED BY <1>2, <1>3, <2>2, <2>4, <2>5
<1>4. CASE c \notin ToSet(q)
  <2>1. walk' = NoWalk
    BY <1>4 DEF MoveTo
  <2> QED BY <1>2, <2>1, WalkFacts
<1> QED BY <1>3, <1>4

(* Without a callback in progress no request is about to be removed. *)
LEMMA NothingReturns ==
    ASSUME walk'.called = FALSE
    PROVE  Returning' = {}
BY DEF Returning

(* timeout_query_list() that starts, resends, times out or ends keeps the invariant. *)
LEMMA TimeoutQueryList ==
    ASSUME Inv, timeout_query_list
    PROVE  Inv'
<1>1. Idle /\ request_list # <<>> /\ MoveTo(Head(Contexts), Contexts)
      /\ UNCHANGED <<phase, reader, clientvars, listvars, count, listener>>
  BY DEF timeout_query_list
<1>2. fault = None /\ phase = "run" /\ reader = None /\ walk = NoWalk /\ walk.called = FALSE
  BY <1>1, IdleFacts
<1>3. request_list \in Seq(Requests) /\ Contexts \in Seq(Clients) /\ Contexts # <<>>
  <2>1. request_list \in Seq(Requests)
    BY DEF Inv, TypeOK
  <2>2. Ctx(request_list) \in Seq(Clients) /\ Len(Ctx(request_list)) = Len(request_list)
    BY <2>1, CtxFacts
  <2>3. Len(request_list) # 0
    BY <1>1, <2>1, EmptyList
  <2> QED BY <2>1, <2>2, <2>3, EmptyList DEF Contexts
<1>4. Head(Contexts) \in Clients \cup {None}
  BY <1>3
<1>5. /\ walk' \in Walks /\ walk'.fn \in {"none", "timeout_query_list"} /\ walk'.called = FALSE
      /\ walk'.fn = "none" <=> walk' = NoWalk
      /\ walk'.fn = "none" => walk'.node = None /\ walk'.next = None
      /\ walk'.fn # "none" => walk'.node \in ToSet(Contexts) /\ walk'.next \in ToSet(Contexts) \cup {None}
      /\ walk'.fn # "none" => walk'.node # None
      /\ fault' \in {None, "next_node"}
  BY <1>1, <1>2, <1>3, <1>4, MoveToFacts
<1>6. Contexts' = Contexts /\ request_list' = request_list
  BY <1>1 DEF Contexts, Ctx, listvars
<1>7. Returning' = {} /\ Returning = {}
  BY <1>2, <1>5, NothingReturns DEF Returning
<1>8. IsInjective(Contexts)
  BY <1>2 DEF Inv, Lookups
<1>9. UNCHANGED <<phase, clientvars, auth_pending_list, abort_list, eac_next, dead_list, count, listener>>
  BY <1>1 DEF listvars
<1>10. {walk'.node, walk'.next, reader'} \subseteq Referenced \cup {None} /\ reader' = None
  BY <1>1, <1>2, <1>5 DEF Referenced
<1> QED BY <1>2, <1>3, <1>5, <1>6, <1>7, <1>8, <1>9, <1>10, MoveStep

(* A query that is not due, or that is sent again.                          *)
LEMMA QueryWaits ==
    ASSUME Inv, NEW i \in DOMAIN request_list, query_waits(i)
    PROVE  Inv'
<1>1. /\ In("timeout_query_list") /\ ~walk.called /\ MoveTo(walk.next, Contexts)
      /\ UNCHANGED request_list \/ resend_query(i)
      /\ UNCHANGED <<phase, reader, clientvars, auth_pending_list, abort_list, eac_next, dead_list, count, listener>>
  BY DEF query_waits, query_at
<1>2. fault = None /\ phase = "run" /\ reader = None /\ walk.next \in Clients \cup {None}
  BY <1>1, WalkingFacts
<1>3. request_list \in Seq(Requests) /\ Contexts \in Seq(Clients)
  BY CtxFacts DEF Inv, TypeOK, Contexts
<1>4. request_list' \in Seq(Requests) /\ Contexts' = Contexts
  <2>1. CASE UNCHANGED request_list
    BY <1>3, <2>1 DEF Contexts, Ctx
  <2>2. CASE resend_query(i)
    <3> DEFINE r == request_list[i]
               s == [ctx |-> r.ctx, type |-> r.type, retries |-> r.retries - 1]
    <3>1. r \in Requests /\ r.retries > 1 /\ request_list' = [request_list EXCEPT ![i].retries = @ - 1]
      BY <1>3, <2>2 DEF resend_query
    <3>2. request_list' = [request_list EXCEPT ![i] = s]
      <4>1. [r EXCEPT !.retries = @ - 1] = s
        BY <3>1 DEF Requests
      <4>2. request_list' = [request_list EXCEPT ![i] = [r EXCEPT !.retries = @ - 1]]
        BY <3>1
      <4> QED BY <4>1, <4>2
    <3>3. s \in Requests /\ s.ctx = r.ctx
      BY <3>1 DEF Requests
    <3> HIDE DEF s
    <3>4. request_list' \in Seq(Requests)
      BY <1>3, <3>2, <3>3
    <3>5. DOMAIN request_list' = DOMAIN request_list /\ \A j \in DOMAIN request_list : request_list'[j].ctx = request_list[j].ctx
      BY <1>3, <3>2, <3>3
    <3>6. Contexts' = Contexts
      BY <3>5 DEF Contexts, Ctx
    <3> QED BY <3>4, <3>6
  <2> QED BY <1>1, <2>1, <2>2
<1>5. /\ walk' \in Walks /\ walk'.fn \in {"none", "timeout_query_list"} /\ walk'.called = FALSE
      /\ walk'.fn = "none" <=> walk' = NoWalk
      /\ walk'.fn = "none" => walk'.node = None /\ walk'.next = None
      /\ walk'.fn # "none" => walk'.node \in ToSet(Contexts) /\ walk'.next \in ToSet(Contexts) \cup {None}
      /\ walk'.fn # "none" => walk'.node # None
      /\ fault' \in {None, "next_node"}
  BY <1>1, <1>2, <1>3, MoveToFacts
<1>6. Returning' = {} /\ Returning = {}
  BY <1>1, <1>5, NothingReturns DEF Returning
<1>7. IsInjective(Contexts)
  BY <1>2 DEF Inv, Lookups
<1>8. {walk'.node, walk'.next, reader'} \subseteq Referenced \cup {None} /\ reader' = None
  BY <1>1, <1>2, <1>5 DEF Referenced
<1> QED BY <1>1, <1>2, <1>4, <1>5, <1>6, <1>7, <1>8, MoveStep

(* rem_request() of a query whose callback returned, in the timer.          *)
LEMMA QueryFailed ==
    ASSUME Inv, query_failed
    PROVE  Inv'
<1>1. /\ In("timeout_query_list") /\ walk.called
      /\ request_list' = Without(request_list, {walk.node})
      /\ IF walk.node \in ToSet(Contexts)
         THEN MoveTo(walk.next, Ctx(Without(request_list, {walk.node})))
         ELSE fault' = "rem_request" /\ walk' = NoWalk
      /\ UNCHANGED <<phase, reader, clientvars, auth_pending_list, abort_list, eac_next, dead_list, count, listener>>
  BY DEF query_failed
<1>2. fault = None /\ phase = "run" /\ reader = None /\ walk.next \in Clients \cup {None} /\ walk.fn = "timeout_query_list"
  BY <1>1, WalkingFacts
<1>3. request_list \in Seq(Requests)
  BY DEF Inv, TypeOK
<1>4. /\ request_list' \in Seq(Requests) /\ Contexts' = Ctx(Without(request_list, {walk.node}))
      /\ ToSet(Contexts') = ToSet(Contexts) \ {walk.node}
      /\ IsInjective(Contexts) => IsInjective(Contexts')
      /\ Contexts' \in Seq(Clients)
  <2>1. Contexts' = Ctx(request_list') /\ Contexts = Ctx(request_list)
    BY DEF Contexts, Ctx
  <2>2. /\ request_list' \in Seq(Requests)
        /\ ToSet(Ctx(request_list')) = ToSet(Ctx(request_list)) \ {walk.node}
        /\ IsInjective(Ctx(request_list)) => IsInjective(Ctx(request_list'))
    BY <1>1, <1>3, WithoutFacts
  <2>3. Ctx(request_list') \in Seq(Clients)
    BY <2>2, CtxFacts
  <2> QED BY <1>1, <2>1, <2>2, <2>3
<1>5. walk.node \in ToSet(Contexts) /\ IsInjective(Contexts)
  BY <1>2 DEF Inv, Lookups
<1>7. /\ walk' \in Walks /\ walk'.fn \in {"none", "timeout_query_list"} /\ walk'.called = FALSE
      /\ walk'.fn = "none" <=> walk' = NoWalk
      /\ walk'.fn = "none" => walk'.node = None /\ walk'.next = None
      /\ walk'.fn # "none" => walk'.node \in ToSet(Contexts') /\ walk'.next \in ToSet(Contexts') \cup {None}
      /\ walk'.fn # "none" => walk'.node # None
      /\ fault' \in {None, "next_node"}
  <2> DEFINE q == Ctx(Without(request_list, {walk.node}))
  <2>1. MoveTo(walk.next, q) /\ q \in Seq(Clients) /\ Contexts' = q
    BY <1>1, <1>4, <1>5
  <2> HIDE DEF q
  <2> QED BY <2>1, <1>2, MoveToFacts
<1>8. Returning' = {} /\ Returning = {walk.node}
  BY <1>1, <1>2, <1>7, NothingReturns DEF Returning
<1>9. {walk'.node, walk'.next, reader'} \subseteq Referenced \cup {None} /\ reader' = None
  BY <1>1, <1>2, <1>4, <1>7 DEF Referenced
<1> QED BY <1>1, <1>2, <1>4, <1>5, <1>7, <1>8, <1>9, MoveStep

(* rem_request() when the callback of an answer returned.                   *)
LEMMA ReplyReturn ==
    ASSUME Inv, res_readreply_return
    PROVE  Inv'
<1>1. /\ In("res_readreply") /\ walk' = NoWalk
      /\ request_list' = Without(request_list, {walk.node})
      /\ fault' = IF walk.node \in ToSet(Contexts) THEN fault ELSE "rem_request"
      /\ UNCHANGED <<phase, reader, clientvars, auth_pending_list, abort_list, eac_next, dead_list, count, listener>>
  BY DEF res_readreply_return, rem_request
<1>2. fault = None /\ phase = "run" /\ reader = None /\ walk.fn = "res_readreply"
  BY <1>1, WalkingFacts
<1>3. request_list \in Seq(Requests)
  BY DEF Inv, TypeOK
<1>4. walk.called /\ IsInjective(Contexts) /\ Returning \subseteq ToSet(Contexts)
  BY <1>2 DEF Inv, Lookups
<1>5. Returning = {walk.node} /\ Returning' = {}
  BY <1>1, <1>2, <1>4, WalkFacts DEF Returning
<1>6. fault' = None
  BY <1>1, <1>2, <1>4, <1>5
<1>7. /\ request_list' \in Seq(Requests)
      /\ ToSet(Contexts') = ToSet(Contexts) \ {walk.node} /\ IsInjective(Contexts')
  <2>1. Contexts' = Ctx(request_list') /\ Contexts = Ctx(request_list)
    BY DEF Contexts, Ctx
  <2>2. /\ request_list' \in Seq(Requests)
        /\ ToSet(Ctx(request_list')) = ToSet(Ctx(request_list)) \ {walk.node}
        /\ IsInjective(Ctx(request_list)) => IsInjective(Ctx(request_list'))
    BY <1>1, <1>3, WithoutFacts
  <2> QED BY <1>4, <2>1, <2>2
<1> QED BY <1>1, <1>2, <1>5, <1>6, <1>7, WalkFacts, MoveStep

(* A request for a name is replaced by one for its address.                 *)
LEMMA ReplyName ==
    ASSUME Inv, NEW i \in DOMAIN request_list, res_readreply_name(i)
    PROVE  Inv'
<1> DEFINE r == [ctx |-> request_list[i].ctx, type |-> "A", retries |-> 2]
<1>1. /\ Idle /\ request_list' = <<r>> \o RemoveAt(request_list, i)
      /\ UNCHANGED <<loopvars, clientvars, auth_pending_list, abort_list, eac_next, dead_list, count, listener, fault>>
  BY DEF res_readreply_name
<1>2. fault = None /\ phase = "run" /\ reader = None /\ walk = NoWalk
  BY <1>1, IdleFacts
<1>3. request_list \in Seq(Requests)
  BY DEF Inv, TypeOK
<1>4. r \in Requests /\ r.ctx = request_list[i].ctx
  <2>1. request_list[i].ctx \in Clients
    BY <1>3, CtxFacts
  <2> QED BY <2>1 DEF Requests
<1> HIDE DEF r
<1>5. /\ request_list' \in Seq(Requests) /\ ToSet(Ctx(request_list')) = ToSet(Ctx(request_list))
      /\ IsInjective(Ctx(request_list)) => IsInjective(Ctx(request_list'))
  BY <1>1, <1>3, <1>4, RequestReplaced
<1>6. Contexts' = Ctx(request_list') /\ Contexts = Ctx(request_list)
  BY DEF Contexts, Ctx
<1>7. Returning = {} /\ Returning' = {} /\ walk' = NoWalk /\ reader' = None /\ fault' = None
  BY <1>1, <1>2, WalkFacts DEF Returning, loopvars
<1>8. IsInjective(Contexts) /\ UNCHANGED phase
  BY <1>1, <1>2 DEF Inv, Lookups, loopvars
<1> QED BY <1>1, <1>2, <1>5, <1>6, <1>7, <1>8, WalkFacts, MoveStep

(* timeout_auth_queries_event() reaches a node, or its end.                 *)
LEMMA AuthMoveToFacts ==
    ASSUME auth_pending_list \in Seq(Clients), NEW c \in Clients \cup {None}, AuthMoveTo(c)
    PROVE  /\ walk' \in Walks /\ walk'.fn \in {"none", "timeout_auth_queries_event"} /\ walk'.called = FALSE
           /\ walk'.fn = "none" <=> walk' = NoWalk
           /\ walk'.fn # "none" => walk'.node # None
           /\ walk'.node = c /\ walk'.next \in ToSet(auth_pending_list) \cup {None}
<1>1. ToSet(auth_pending_list) \subseteq Clients
  BY DEF ToSet
<1>2. CASE c = None
  BY <1>2, WalkFacts DEF AuthMoveTo
<1>3. CASE c # None
  <2> DEFINE n == IF c \in ToSet(auth_pending_list) THEN After(auth_pending_list, c, None) ELSE None
  <2>1. walk' = Walk("timeout_auth_queries_event", c, n, FALSE)
    BY <1>3 DEF AuthMoveTo
  <2>2. n \in ToSet(auth_pending_list) \cup {None}
    BY AfterFacts
  <2> HIDE DEF n
  <2>3. walk' \in Walks /\ walk'.fn = "timeout_auth_queries_event" /\ walk'.node = c /\ walk'.next = n /\ walk'.called = FALSE
    BY <1>1, <2>1, <2>2 DEF Walk, Walks
  <2>4. walk' # NoWalk
    BY <2>3, WalkFacts
  <2> QED BY <1>3, <2>2, <2>3, <2>4
<1> QED BY <1>2, <1>3

(* The steps of timeout_auth_queries_event() between its calls.             *)
LEMMA AuthMoves ==
    ASSUME Inv, timeout_auth_queries_event \/ auth_not_due \/ auth_expired
    PROVE  Inv'
<1>1. UNCHANGED <<phase, reader, clientvars, listvars, count, listener, fault>>
  BY DEF timeout_auth_queries_event, auth_not_due, auth_expired
<1>2. /\ fault = None /\ phase = "run" /\ reader = None
      /\ walk.fn \in {"none", "timeout_auth_queries_event"}
  BY IdleFacts, WalkingFacts DEF timeout_auth_queries_event, auth_not_due, auth_expired
<1>3. auth_pending_list \in Seq(Clients) /\ request_list \in Seq(Requests)
  BY DEF Inv, TypeOK
<1>4. /\ walk' \in Walks /\ walk'.fn \in {"none", "timeout_auth_queries_event"} /\ walk'.called = FALSE
      /\ walk'.fn = "none" <=> walk' = NoWalk
      /\ walk'.fn # "none" => walk'.node # None
      /\ {walk'.node, walk'.next} \subseteq Referenced \cup {None}
  <2>1. CASE timeout_auth_queries_event
    <3>1. AuthMoveTo(Head(auth_pending_list)) /\ auth_pending_list # <<>>
      BY <2>1 DEF timeout_auth_queries_event
    <3>2. Head(auth_pending_list) \in Clients /\ Head(auth_pending_list) \in ToSet(auth_pending_list)
      BY <1>3, <3>1 DEF ToSet
    <3> QED BY <1>3, <3>1, <3>2, AuthMoveToFacts DEF Referenced
  <2>2. CASE auth_not_due
    BY <2>2, WalkFacts DEF auth_not_due
  <2>3. CASE auth_expired
    <3>1. AuthMoveTo(walk.next) /\ walk.next \in Clients \cup {None}
      BY <2>3, WalkingFacts DEF auth_expired
    <3> QED BY <1>3, <3>1, AuthMoveToFacts DEF Referenced
  <2> QED BY <2>1, <2>2, <2>3
<1>5. Contexts' = Contexts /\ request_list' = request_list
      /\ UNCHANGED <<auth_pending_list, abort_list, eac_next, dead_list>>
  BY <1>1 DEF Contexts, Ctx, listvars
<1>6. Returning = {} /\ Returning' = {} /\ IsInjective(Contexts)
  BY <1>2, <1>4 DEF Returning, Inv, Lookups
<1> QED BY <1>1, <1>2, <1>3, <1>4, <1>5, <1>6, MoveStep

(* read_packet() of a released client begins, and returns.                  *)
LEMMA ReadPacket ==
    ASSUME Inv, NEW c \in Clients, read_packet(c)
    PROVE  Inv'
<1>1. /\ Idle /\ may_read(c) /\ reader' = c
      /\ UNCHANGED <<phase, walk, clientvars, listvars, count, listener, fault>>
  BY DEF read_packet
<1>2. fault = None /\ phase = "run" /\ walk = NoWalk
  BY <1>1, IdleFacts
<1>3. TypeOK /\ Records /\ Aborts /\ Pointers /\ Lookups /\ Counters
  BY DEF Inv
<1>4. mem[c] = "used" /\ Has(c, "FinishedAuth")
  <2>1. Has(c, "FinishedAuth") /\ mem[c] \in {"free", "used"}
    BY <1>1, <1>3 DEF may_read, TypeOK
  <2> QED BY <1>3, <2>1 DEF Records, FreeIsBlank, Has
<1>5. /\ mem' = mem /\ ip' = ip /\ list' = list /\ flags' = flags /\ ident' = ident
      /\ auth_pending_list' = auth_pending_list /\ request_list' = request_list
      /\ abort_list' = abort_list /\ eac_next' = eac_next /\ dead_list' = dead_list
  BY <1>1 DEF clientvars, listvars
<1>6. TypeOK'
  BY <1>1, <1>3, <1>5 DEF TypeOK
<1>7. Records' /\ Counters'
  BY <1>1, <1>2, <1>3, Frame
<1>8. Contexts' = Contexts /\ Returning' = Returning /\ \A f : All(f)' = All(f)
  BY <1>1, <1>5 DEF Contexts, Ctx, Returning, All, Has
<1>9. Lookups'
  BY <1>1, <1>2, <1>3, <1>5, <1>8, LookupsMove DEF Lookups
<1>10. Aborts'
  BY <1>1, <1>2, <1>3, <1>5, <1>8 DEF Aborts
<1>11. Pointers'
  <2>1. \A d \in Referenced' : d \in Referenced \/ d = c
    BY <1>1, <1>5, <1>8 DEF Referenced
  <2> QED BY <1>1, <1>2, <1>3, <1>4, <1>5, <2>1, WalkFacts DEF Pointers, Has
<1> QED BY <1>1, <1>6, <1>7, <1>9, <1>10, <1>11 DEF Inv

(* read_packet() that returns to the event loop or to the walk that called it keeps the invariant. *)
LEMMA ReadPacketReturn ==
    ASSUME Inv, read_packet_return
    PROVE  Inv'
<1>1. /\ reader # None /\ reader' = None /\ fault = None
      /\ UNCHANGED <<phase, walk, clientvars, listvars, count, listener, fault>>
  BY DEF read_packet_return
<1>2. phase = "run"
  BY <1>1 DEF Inv, TypeOK, Phases, Aborts
<1>3. /\ Contexts' = Contexts /\ Returning' = Returning /\ request_list' = request_list
      /\ UNCHANGED <<auth_pending_list, abort_list, eac_next, dead_list>>
  BY <1>1 DEF Contexts, Ctx, Returning, listvars
<1>4. walk' \in Walks /\ request_list \in Seq(Requests)
  BY <1>1 DEF Inv, TypeOK
<1>5. /\ walk.fn # "exit_aborted_clients" /\ (walk.fn = "none" <=> walk = NoWalk)
      /\ walk.fn # "none" => walk.node # None
  BY <1>2 DEF Inv, Aborts, Pointers
<1>6. {walk.node, walk.next, None} \subseteq Referenced \cup {None}
  BY DEF Referenced
<1>7. IsInjective(Contexts) /\ (walk.fn = "res_readreply" => walk.called)
      /\ (walk.fn = "timeout_query_list" => walk.node \in ToSet(Contexts))
  BY <1>1 DEF Inv, Lookups
<1> QED BY <1>1, <1>2, <1>3, <1>4, <1>5, <1>6, <1>7, MoveStep

(* exit_aborted_clients() goes to the client that is first in abort_list.   *)
LEMMA AbortMoves ==
    ASSUME Inv, exit_aborted_clients \/ abort_exited
    PROVE  Inv'
<1> DEFINE c == First(abort_list, None)
<1>1. TypeOK /\ Records /\ Aborts /\ Pointers /\ Lookups /\ Counters
  BY DEF Inv
<1>2. /\ fault = None /\ fault' = None /\ reader = None /\ reader' = None
      /\ walk.fn \in {"none", "exit_aborted_clients"}
      /\ UNCHANGED <<clientvars, auth_pending_list, request_list, abort_list, dead_list, count, listener>>
  BY IdleFacts DEF exit_aborted_clients, abort_exited, In
<1>3. AbortMoveTo(c)
  <2>1. CASE exit_aborted_clients
    BY <2>1 DEF exit_aborted_clients
  <2>2. CASE abort_exited
    <3>1. walk.called /\ AbortMoveTo(eac_next)
      BY <2>2 DEF abort_exited
    <3> QED BY <1>1, <3>1 DEF Aborts
  <2> QED BY <2>1, <2>2
<1>4. /\ mem' = mem /\ ip' = ip /\ list' = list /\ flags' = flags /\ ident' = ident
      /\ UNCHANGED <<clientvars, count, listener>>
  BY <1>2 DEF clientvars
<1>5. abort_list \in Seq(Clients)
  BY <1>1 DEF TypeOK
<1>6. CASE abort_list = <<>>
  <2>1. walk' = NoWalk /\ eac_next' = None /\ phase' = "free"
    BY <1>3, <1>6 DEF AbortMoveTo, First
  <2>2. TypeOK'
    BY <1>1, <1>2, <1>4, <2>1, WalkFacts DEF TypeOK, Phases
  <2>3. Aborts'
    BY <1>1, <1>2, <1>4, <1>6, <2>1, WalkFacts DEF Aborts, All, Has, First
  <2>4. Returning' = {} /\ Returning = {} /\ Contexts' = Contexts
    BY <1>2, <2>1, WalkFacts DEF Returning, Contexts, Ctx
  <2>5. Lookups'
    BY <1>1, <1>2, <1>4, <2>1, <2>4, WalkFacts, LookupsMove DEF Lookups
  <2>6. Pointers'
    <3>1. \A d \in Referenced' : d \in Referenced
      BY <1>2, <2>1, <2>4, WalkFacts DEF Referenced
    <3> QED BY <1>1, <1>2, <1>4, <2>1, <3>1, WalkFacts DEF Pointers
  <2> QED BY <1>1, <1>2, <1>4, <2>2, <2>3, <2>5, <2>6, Frame, ConnectionAssumption DEF Inv
<1>7. CASE abort_list # <<>>
  <2>1. c = Head(abort_list) /\ c \in Clients /\ c \in ToSet(abort_list)
    BY <1>5, <1>7 DEF First, ToSet
  <2> HIDE DEF c
  <2>2. c # None
    BY <2>1, ConnectionAssumption
  <2>3. /\ walk' = Walk("exit_aborted_clients", c, None, FALSE) /\ phase' = "abort"
        /\ eac_next' = After(abort_list, c, None)
    BY <1>3, <2>2 DEF AbortMoveTo
  <2>4. /\ walk' \in Walks /\ walk'.fn = "exit_aborted_clients" /\ walk'.node = c /\ walk'.next = None
        /\ walk'.called = FALSE
    BY <2>1, <2>3 DEF Walk, Walks
  <2>5. eac_next' \in ToSet(abort_list) \cup {None} /\ eac_next' \in Clients \cup {None}
    <3>1. ToSet(abort_list) \subseteq Clients
      BY <1>5 DEF ToSet
    <3>2. After(abort_list, c, None) \in ToSet(abort_list) \cup {None}
      BY <1>5, <2>1, AfterFacts
    <3> QED BY <2>3, <3>1, <3>2
  <2>6. TypeOK'
    BY <1>1, <1>2, <1>4, <2>3, <2>4, <2>5 DEF TypeOK, Phases
  <2>7. Aborts'
    BY <1>1, <1>2, <1>4, <1>7, <2>1, <2>3, <2>4 DEF Aborts, All, Has
  <2>8. Returning' = {} /\ Returning = {} /\ Contexts' = Contexts
    BY <1>2, <2>4 DEF Returning, Contexts, Ctx
  <2>9. Lookups'
    BY <1>1, <1>2, <1>4, <2>4, <2>8, LookupsMove DEF Lookups
  <2>10. Pointers'
    <3>1. \A d \in Referenced' : d \in Referenced
      BY <1>2, <2>1, <2>4, <2>5, <2>8 DEF Referenced
    <3> QED BY <1>1, <1>2, <1>4, <2>2, <2>4, <3>1, WalkFacts DEF Pointers
  <2> QED BY <1>1, <1>2, <1>4, <2>6, <2>7, <2>9, <2>10, Frame, ConnectionAssumption DEF Inv
<1> QED BY <1>6, <1>7
-----------------------------------------------------------------------------
(* Records and Lookups, client by client.                                   *)
RecordOK(c) ==
    /\ FreeIsBlank(c) /\ UsedHasAddress(c) /\ ListedIsLive(c)
    /\ UnknownHoldsNothing(c) /\ ExitedIsStripped(c) /\ IdentIsFlagged(c)
LookupOK(c) ==
    /\ ~Has(c, "Closing") =>
         /\ c \in ToSet(Contexts) <=> Has(c, "DNSPending") \/ c \in Returning
         /\ SocketFails \/ (ident[c] # "closed" <=> Has(c, "DoingAuth"))
         /\ mem[c] = "used" => (Has(c, "InAuth") <=> flags[c] \cap {"DNSPending", "DoingAuth"} # {})
         /\ Has(c, "FinishedAuth") <=> mem[c] = "used" /\ ~Has(c, "InAuth")
    /\ Has(c, "Closing") => c \notin ToSet(Contexts) \ Returning
    /\ c \in Returning => c \in ToSet(Contexts) /\ ~Has(c, "DNSPending")
    /\ c \in ToSet(auth_pending_list) <=> Has(c, "InAuth")

(* A client whose own fields do not change keeps its part of Records. *)
LEMMA RecordSame ==
    ASSUME NEW c \in Clients, RecordOK(c), mem'[c] = mem[c], ip'[c] = ip[c], list'[c] = list[c],
           flags'[c] = flags[c], ident'[c] = ident[c]
    PROVE  RecordOK(c)'
BY DEF RecordOK, FreeIsBlank, UsedHasAddress, ListedIsLive, UnknownHoldsNothing, ExitedIsStripped,
       IdentIsFlagged, Has, IsUnknown

(* Records speaks of each client separately. *)
LEMMA RecordsSplit == Records <=> \A c \in Clients : RecordOK(c)
BY DEF Records, RecordOK

(* While no walk has failed, Lookups holds of each client. *)
LEMMA LookupsNow ==
    ASSUME Lookups, fault = None, NEW c \in Clients
    PROVE  LookupOK(c)
BY DEF Lookups, LookupOK, All, Has

(* A client whose flags and place on the lists do not change keeps its part of Lookups. *)
LEMMA LookupSame ==
    ASSUME NEW c \in Clients, LookupOK(c), mem'[c] = mem[c], flags'[c] = flags[c], ident'[c] = ident[c],
           c \in ToSet(Contexts') <=> c \in ToSet(Contexts), c \in Returning' <=> c \in Returning,
           c \in ToSet(auth_pending_list') <=> c \in ToSet(auth_pending_list)
    PROVE  LookupOK(c)'
BY DEF LookupOK, Has

(* Lookups follows from its parts for each client and for the walk. *)
LEMMA LookupsNext ==
    ASSUME fault' = None =>
             /\ IsInjective(auth_pending_list') /\ ToSet(auth_pending_list') \subseteq Clients
             /\ IsInjective(Contexts') /\ Returning' \subseteq Clients
             /\ \A c \in Clients : LookupOK(c)'
             /\ walk'.fn = "res_readreply" => walk'.called
             /\ walk'.fn = "timeout_query_list" => walk'.node \in ToSet(Contexts')
    PROVE  Lookups'
<1>1. SUFFICES ASSUME fault' = None PROVE Lookups'
  BY DEF Lookups
<1>2. ToSet(auth_pending_list') = All("InAuth")'
  <2>1. \A c \in Clients : c \in ToSet(auth_pending_list') <=> Has(c, "InAuth")'
    BY <1>1 DEF LookupOK
  <2> QED BY <1>1, <2>1 DEF All
<1>3. ASSUME NEW c \in Clients \ All("Closing")'
      PROVE  /\ c \in ToSet(Contexts') <=> Has(c, "DNSPending")' \/ c \in Returning'
             /\ SocketFails \/ (ident'[c] # "closed" <=> Has(c, "DoingAuth")')
             /\ mem'[c] = "used" => (Has(c, "InAuth")' <=> flags'[c] \cap {"DNSPending", "DoingAuth"} # {})
             /\ Has(c, "FinishedAuth")' <=> mem'[c] = "used" /\ ~Has(c, "InAuth")'
  <2>1. LookupOK(c)' /\ ~Has(c, "Closing")'
    BY <1>1, <1>3 DEF All
  <2> QED BY <2>1 DEF LookupOK
<1>4. ASSUME NEW c \in All("Closing")'
      PROVE  c \notin ToSet(Contexts') \ Returning'
  <2>1. LookupOK(c)' /\ Has(c, "Closing")'
    BY <1>1, <1>4 DEF All
  <2> QED BY <2>1 DEF LookupOK
<1>5. Returning' \subseteq ToSet(Contexts') \ All("DNSPending")'
  <2>1. \A c \in Clients : c \in Returning' => c \in ToSet(Contexts') /\ ~Has(c, "DNSPending")'
    BY <1>1 DEF LookupOK
  <2> QED BY <1>1, <2>1 DEF All
<1> QED BY <1>1, <1>2, <1>3, <1>4, <1>5 DEF Lookups

(* The ident socket is connected.                                           *)
LEMMA AuthConnect ==
    ASSUME Inv, NEW c \in Clients, auth_connect_callback(c)
    PROVE  Inv'
<1>1. /\ Idle /\ ident[c] = "connecting" /\ ident' = [ident EXCEPT ![c] = "reading"]
      /\ UNCHANGED <<loopvars, mem, ip, list, flags, listvars, count, listener, fault>>
  BY DEF auth_connect_callback
<1>2. TypeOK /\ Records /\ Aborts /\ Pointers /\ Lookups /\ Counters /\ fault = None /\ fault # "rem_request"
  BY <1>1, IdleFacts DEF Inv
<1>3. /\ phase' = phase /\ walk' = walk /\ reader' = reader /\ auth_pending_list' = auth_pending_list
      /\ request_list' = request_list /\ abort_list' = abort_list /\ eac_next' = eac_next /\ dead_list' = dead_list
      /\ mem' = mem /\ ip' = ip /\ list' = list /\ flags' = flags /\ count' = count /\ listener' = listener
      /\ fault' = fault
  BY <1>1 DEF loopvars, listvars
<1>4. ident \in [Clients -> {"closed", "connecting", "reading"}]
  BY <1>2 DEF TypeOK
<1>5. /\ \A d \in Clients : ident'[d] # "closed" <=> ident[d] # "closed"
      /\ ident' \in [Clients -> {"closed", "connecting", "reading"}]
  BY <1>1, <1>4
<1>6. TypeOK'
  BY <1>2, <1>3, <1>5 DEF TypeOK
<1>7. Records'
  BY <1>2, <1>3, <1>5
     DEF Records, FreeIsBlank, UsedHasAddress, ListedIsLive, UnknownHoldsNothing, ExitedIsStripped,
         IdentIsFlagged, Has, IsUnknown
<1>8. /\ Contexts' = Contexts /\ Returning' = Returning
      /\ \A f : All(f)' = All(f)
  BY <1>3 DEF Contexts, Ctx, Returning, All, Has
<1>9. Lookups'
  <2>1. \A d \in Clients : LookupOK(d)
    BY <1>2, LookupsNow
  <2>2. \A d \in Clients : LookupOK(d)'
    BY <1>3, <1>5, <1>8, <2>1 DEF LookupOK, Has
  <2>3. ToSet(auth_pending_list) \subseteq Clients /\ Returning \subseteq Clients
    BY <1>2, CtxFacts DEF Lookups, TypeOK, All, Contexts
  <2>4. /\ IsInjective(auth_pending_list) /\ IsInjective(Contexts)
        /\ walk.fn = "res_readreply" => walk.called
        /\ walk.fn = "timeout_query_list" => walk.node \in ToSet(Contexts)
    BY <1>2 DEF Lookups
  <2> QED BY <1>3, <1>8, <2>2, <2>3, <2>4, LookupsNext
<1>10. Counters'
  <2>1. {d \in Clients : ident'[d] # "closed"} = {d \in Clients : ident[d] # "closed"}
    BY <1>5
  <2>2. CountsFor(count, flags, listener = "active")
    BY <1>2, CountersAreFor
  <2>3. /\ \A a \in Addrs : count.ip[a] = Cardinality({d \in Clients : "IPHash" \in flags[d] /\ ip[d] = a})
        /\ count.class = Cardinality({d \in Clients : "Conf" \in flags[d]})
        /\ count.local = Cardinality({d \in Clients : list[d] = "local_client_list"})
        /\ count.fd = Cardinality({d \in Clients : "Open" \in flags[d]})
                        + Cardinality({d \in Clients : ident[d] # "closed"})
                        + (IF listener = "active" THEN 1 ELSE 0)
        /\ count.listener = Cardinality({d \in Clients : mem[d] = "used"})
    BY <2>2 DEF CountsFor, IsClient
  <2>4. count'.fd = Cardinality({d \in Clients : "Open" \in flags'[d]})
                      + Cardinality({d \in Clients : ident'[d] # "closed"})
                      + (IF listener' = "active" THEN 1 ELSE 0)
    BY <1>3, <2>1, <2>3
  <2> QED BY <1>3, <2>3, <2>4, CountersNext
<1>11. Aborts'
  BY <1>2, <1>3, <1>8 DEF Aborts
<1>12. Pointers'
  BY <1>2, <1>3, <1>8 DEF Pointers, Referenced, Has
<1> QED BY <1>2, <1>3, <1>6, <1>7, <1>9, <1>10, <1>11, <1>12 DEF Inv

(* An unknown client becomes a user.                                        *)
LEMMA RegisterLocalUser ==
    ASSUME Inv, NEW c \in Clients, register_local_user(c)
    PROVE  Inv'
<1> DEFINE f == {"IPHash", "Conf"}
<1>1. /\ Reading(c) /\ IsUnknown(c) /\ flags' = attached(c, f)
      /\ list' = [list EXCEPT ![c] = "local_client_list"]
      /\ count' = [with_conf(c) EXCEPT !.local = @ + 1]
      /\ handled /\ UNCHANGED <<ident, auth_pending_list, request_list, dead_list, fault>>
  BY DEF register_local_user
<1>2. /\ TypeOK /\ Records /\ Aborts /\ Pointers /\ Lookups /\ Counters /\ fault = None /\ fault # "rem_request"
      /\ mem[c] = "used" /\ ~Has(c, "Closing")
  BY <1>1, ReadingFacts DEF Inv
<1>3. /\ phase' = phase /\ walk' = walk /\ reader' = reader /\ auth_pending_list' = auth_pending_list
      /\ request_list' = request_list /\ abort_list' = abort_list /\ eac_next' = eac_next /\ dead_list' = dead_list
      /\ mem' = mem /\ ip' = ip /\ ident' = ident /\ listener' = listener /\ fault' = fault
  BY <1>1 DEF loopvars, handled
<1>4. /\ flags' \in [Clients -> SUBSET Flags] /\ \A d \in Clients : flags'[d] = IF d = c THEN flags[d] \cup f ELSE flags[d]
      /\ CountsFor(with_conf(c), flags', listener = "active")
  <2>1. f \in {{"IPHash"}, {"IPHash", "Conf"}}
    OBVIOUS
  <2> QED BY <1>1, <1>2, <2>1, AttachCounts
<1>5. list \in [Clients -> {"none", "unknown_list", "local_client_list"}] /\ flags \in [Clients -> SUBSET Flags]
  BY <1>2 DEF TypeOK
<1>6. /\ list' \in [Clients -> {"none", "unknown_list", "local_client_list"}]
      /\ \A d \in Clients : list'[d] = IF d = c THEN "local_client_list" ELSE list[d]
  BY <1>1, <1>5
<1>7. /\ with_conf(c) \in [ip : [Addrs -> Int], class : Int, local : Int, fd : Int, listener : Int]
      /\ count' \in [ip : [Addrs -> Int], class : Int, local : Int, fd : Int, listener : Int]
      /\ count'.ip = with_conf(c).ip /\ count'.class = with_conf(c).class /\ count'.fd = with_conf(c).fd
      /\ count'.listener = with_conf(c).listener /\ count'.local = with_conf(c).local + 1
  <2>1. with_conf(c) \in [ip : [Addrs -> Int], class : Int, local : Int, fd : Int, listener : Int]
    BY <1>4 DEF CountsFor
  <2> DEFINE w == with_conf(c)
  <2> HIDE DEF w
  <2>2. /\ w \in [ip : [Addrs -> Int], class : Int, local : Int, fd : Int, listener : Int]
        /\ count' = [w EXCEPT !.local = @ + 1]
    BY <1>1, <2>1 DEF w
  <2>3. /\ count' \in [ip : [Addrs -> Int], class : Int, local : Int, fd : Int, listener : Int]
        /\ count'.ip = w.ip /\ count'.class = w.class /\ count'.fd = w.fd
        /\ count'.listener = w.listener /\ count'.local = w.local + 1
    BY <2>2
  <2> QED BY <2>1, <2>3 DEF w
<1>8. TypeOK'
  BY <1>2, <1>3, <1>4, <1>6, <1>7 DEF TypeOK
<1>9. \A d \in Clients : \A g : g \notin f => (g \in flags'[d] <=> g \in flags[d])
  BY <1>4
<1>10. Records'
  <2>1. ASSUME NEW d \in Clients, d # c
        PROVE  RecordOK(d)'
    <3>1. flags'[d] = flags[d] /\ list'[d] = list[d]
      BY <1>4, <1>6, <2>1
    <3>2. RecordOK(d)
      BY <1>2, RecordsSplit
    <3> QED BY <1>3, <3>1, <3>2, RecordSame
  <2>2. RecordOK(c)'
    <3>1. RecordOK(c) /\ flags'[c] = flags[c] \cup {"IPHash", "Conf"} /\ list'[c] = "local_client_list"
      BY <1>2, <1>4, <1>6, RecordsSplit
    <3> QED BY <1>2, <1>3, <3>1
            DEF RecordOK, FreeIsBlank, UsedHasAddress, ListedIsLive, UnknownHoldsNothing, ExitedIsStripped,
                IdentIsFlagged, Has, IsUnknown
  <2>3. \A d \in Clients : RecordOK(d)'
    BY <2>1, <2>2
  <2> QED BY <2>3 DEF Records, RecordOK
<1>11. /\ Contexts' = Contexts /\ Returning' = Returning
       /\ \A g : g \notin f => All(g)' = All(g)
  BY <1>3, <1>9 DEF Contexts, Ctx, Returning, All, Has
<1>12. Lookups'
  <2>1. ASSUME NEW d \in Clients
        PROVE  LookupOK(d)'
    <3>1. /\ LookupOK(d) /\ mem'[d] = mem[d] /\ ident'[d] = ident[d]
          /\ \A g \in {"Closing", "DNSPending", "DoingAuth", "InAuth", "FinishedAuth"} : g \in flags'[d] <=> g \in flags[d]
      BY <1>2, <1>3, <1>9, LookupsNow
    <3>2. flags'[d] \cap {"DNSPending", "DoingAuth"} = flags[d] \cap {"DNSPending", "DoingAuth"}
      BY <3>1
    <3> QED BY <1>3, <1>11, <3>1, <3>2 DEF LookupOK, Has
  <2>3. ToSet(auth_pending_list) \subseteq Clients /\ Returning \subseteq Clients
    BY <1>2, CtxFacts DEF Lookups, TypeOK, All, Contexts
  <2>4. /\ IsInjective(auth_pending_list) /\ IsInjective(Contexts)
        /\ walk.fn = "res_readreply" => walk.called
        /\ walk.fn = "timeout_query_list" => walk.node \in ToSet(Contexts)
    BY <1>2 DEF Lookups
  <2> QED BY <1>3, <1>11, <2>1, <2>3, <2>4, LookupsNext
<1>13. Counters'
  <2> DEFINE A == {d \in Clients : IsClient(d)}
  <2>1. A \in SUBSET Clients /\ c \notin A /\ with_conf(c).local = Cardinality(A)
    BY <1>1, <1>4 DEF IsUnknown, IsClient, CountsFor
  <2>2. {d \in Clients : list'[d] = "local_client_list"} = A \cup {c}
    BY <1>6 DEF IsClient
  <2> HIDE DEF A
  <2>3. Cardinality(A \cup {c}) = Cardinality(A) + 1
    BY <2>1, Counting
  <2>4. count'.local = Cardinality({d \in Clients : list'[d] = "local_client_list"})
    BY <1>7, <2>1, <2>2, <2>3
  <2> QED BY <1>3, <1>4, <1>7, <2>4, CountersNext DEF CountsFor
<1>14. Aborts'
  BY <1>2, <1>3, <1>11 DEF Aborts
<1>15. Pointers'
  <2>1. reader # None => reader \in Clients
    BY <1>2 DEF TypeOK
  <2> QED BY <1>2, <1>3, <1>9, <1>11, <2>1 DEF Pointers, Referenced, Has
<1> QED BY <1>2, <1>3, <1>8, <1>10, <1>12, <1>13, <1>14, <1>15 DEF Inv

(* A failed write puts the client at the end of abort_list.                 *)
LEMMA DeadLinkOnWrite ==
    ASSUME Inv, NEW d \in Clients, dead_link_on_write(d)
    PROVE  Inv'
<1>1. /\ Sending /\ fault = None /\ mem[d] = "used" /\ ~IsDefunct(d)
      /\ abort_list' = Append(abort_list, d) /\ eac_next' = not_finished(d)
      /\ flags' = [flags EXCEPT ![d] = @ \cup {"Dead"}]
      /\ UNCHANGED <<loopvars, mem, ip, list, ident, auth_pending_list, request_list, dead_list, count, listener, fault>>
  BY DEF dead_link_on_write
<1>2. TypeOK /\ Records /\ Aborts /\ Pointers /\ Lookups /\ Counters /\ fault # "rem_request"
  BY DEF Inv
<1>3. /\ phase' = phase /\ walk' = walk /\ reader' = reader /\ auth_pending_list' = auth_pending_list
      /\ request_list' = request_list /\ dead_list' = dead_list /\ list' = list /\ count' = count
      /\ mem' = mem /\ ip' = ip /\ ident' = ident /\ listener' = listener /\ fault' = fault
  BY <1>1 DEF loopvars
<1>4. flags \in [Clients -> SUBSET Flags] /\ abort_list \in Seq(Clients) /\ eac_next \in Clients \cup {None}
  BY <1>2 DEF TypeOK
<1>5. /\ flags' \in [Clients -> SUBSET Flags]
      /\ \A c \in Clients : flags'[c] = IF c = d THEN flags[c] \cup {"Dead"} ELSE flags[c]
  BY <1>1, <1>4 DEF Flags
<1>6. \A c \in Clients : \A g : g # "Dead" => (g \in flags'[c] <=> g \in flags[c])
  BY <1>5
<1>7. /\ abort_list' \in Seq(Clients) /\ ToSet(abort_list') = ToSet(abort_list) \cup {d}
      /\ IsInjective(abort_list) /\ d \notin ToSet(abort_list) => IsInjective(abort_list')
      /\ First(abort_list', None) = IF abort_list = <<>> THEN d ELSE First(abort_list, None)
  BY <1>1, <1>4, AppendFacts
<1>8. d \notin ToSet(abort_list) /\ "Closing" \notin flags[d]
  BY <1>1, <1>2 DEF Aborts, All, Has, IsDefunct
<1>9. eac_next = First(abort_list, None) /\ phase # "free" /\ (phase = "abort" => walk.called)
  <2>1. phase = "free" => walk.called = FALSE
    BY <1>2, WalkFacts DEF Aborts
  <2> QED BY <1>1, <1>2, <2>1 DEF Aborts, Sending
<1>10. eac_next' = First(abort_list', None) /\ eac_next' \in Clients \cup {None}
       /\ eac_next' \in {eac_next, d}
  <2>1. abort_list # <<>> => First(abort_list, None) \in Clients
    BY <1>4 DEF First
  <2>2. eac_next = None <=> abort_list = <<>>
    BY <1>9, <2>1, ConnectionAssumption DEF First
  <2> QED BY <1>1, <1>4, <1>7, <1>9, <2>2 DEF not_finished
<1>11. /\ Contexts' = Contexts /\ Returning' = Returning
       /\ \A g : g # "Dead" => All(g)' = All(g)
       /\ All("Dead")' = All("Dead") \cup {d}
  BY <1>3, <1>5, <1>6 DEF Contexts, Ctx, Returning, All, Has
<1>12. TypeOK'
  BY <1>2, <1>3, <1>5, <1>7, <1>10 DEF TypeOK
<1>13. Records'
  <2>1. ASSUME NEW c \in Clients, c # d
        PROVE  RecordOK(c)'
    <3>1. flags'[c] = flags[c] /\ RecordOK(c)
      BY <1>2, <1>5, <2>1, RecordsSplit
    <3> QED BY <1>3, <3>1, RecordSame
  <2>2. RecordOK(d)'
    <3>1. RecordOK(d) /\ flags'[d] = flags[d] \cup {"Dead"}
      BY <1>2, <1>5, RecordsSplit
    <3> QED BY <1>1, <1>3, <1>8, <3>1
            DEF RecordOK, FreeIsBlank, UsedHasAddress, ListedIsLive, UnknownHoldsNothing, ExitedIsStripped,
                IdentIsFlagged, Has, IsUnknown
  <2>3. \A c \in Clients : RecordOK(c)'
    BY <2>1, <2>2
  <2> QED BY <2>3 DEF Records, RecordOK
<1>14. Lookups'
  <2>1. ASSUME NEW c \in Clients
        PROVE  LookupOK(c)'
    <3>1. /\ LookupOK(c) /\ mem'[c] = mem[c] /\ ident'[c] = ident[c]
          /\ \A g \in {"Closing", "DNSPending", "DoingAuth", "InAuth", "FinishedAuth"} : g \in flags'[c] <=> g \in flags[c]
      BY <1>1, <1>2, <1>3, <1>6, LookupsNow
    <3>2. flags'[c] \cap {"DNSPending", "DoingAuth"} = flags[c] \cap {"DNSPending", "DoingAuth"}
      BY <3>1
    <3> QED BY <1>3, <1>11, <3>1, <3>2 DEF LookupOK, Has
  <2>3. ToSet(auth_pending_list) \subseteq Clients /\ Returning \subseteq Clients
    BY <1>1, <1>2, CtxFacts DEF Lookups, TypeOK, All, Contexts
  <2>4. /\ IsInjective(auth_pending_list) /\ IsInjective(Contexts)
        /\ walk.fn = "res_readreply" => walk.called
        /\ walk.fn = "timeout_query_list" => walk.node \in ToSet(Contexts)
    BY <1>1, <1>2 DEF Lookups
  <2> QED BY <1>3, <1>11, <2>1, <2>3, <2>4, LookupsNext
<1>15. Counters'
  <2>1. /\ \A a : {c \in Clients : "IPHash" \in flags'[c] /\ ip'[c] = a} = {c \in Clients : "IPHash" \in flags[c] /\ ip[c] = a}
        /\ {c \in Clients : "Conf" \in flags'[c]} = {c \in Clients : "Conf" \in flags[c]}
        /\ {c \in Clients : "Open" \in flags'[c]} = {c \in Clients : "Open" \in flags[c]}
    BY <1>3, <1>6
  <2>2. CountsFor(count, flags, listener = "active")
    BY <1>1, <1>2, CountersAreFor
  <2> QED BY <1>3, <2>1, <2>2, CountersNext DEF CountsFor, IsClient
<1>16. Aborts'
  <2>1. /\ IsInjective(abort_list') /\ ToSet(abort_list') \subseteq All("Dead")'
        /\ All("Dead")' \subseteq ToSet(abort_list') \cup All("Closing")'
        /\ dead_list' = All("Closing")'
    BY <1>2, <1>3, <1>7, <1>8, <1>11 DEF Aborts
  <2> QED BY <1>2, <1>3, <1>9, <1>10, <2>1 DEF Aborts
<1>17. Pointers'
  <2>1. reader # None => reader \in Clients
    BY <1>2 DEF TypeOK
  <2>2. \A c \in Referenced' : c \in Referenced \/ c = d
    BY <1>3, <1>7, <1>10, <1>11 DEF Referenced
  <2> QED BY <1>1, <1>2, <1>3, <1>6, <2>1, <2>2 DEF Pointers, Has
<1> QED BY <1>2, <1>3, <1>12, <1>13, <1>14, <1>15, <1>16, <1>17 DEF Inv

(***************************************************************************)
(* free_exited_clients(): when it runs, nothing points to an exited client *)
(* any more, and exited clients hold nothing but their listener.           *)
(***************************************************************************)
LEMMA FreeExitedClients ==
    ASSUME Inv, free_exited_clients
    PROVE  Inv'
<1> DEFINE refs == count.listener - Cardinality(dead_list)
<1>1. /\ phase = "free" /\ fault = None /\ phase' = "run" /\ dead_list' = {}
      /\ mem' = [c \in Clients |-> IF c \in dead_list THEN "free" ELSE mem[c]]
      /\ ip' = [c \in Clients |-> IF c \in dead_list THEN None ELSE ip[c]]
      /\ flags' = [c \in Clients |-> IF c \in dead_list THEN {} ELSE flags[c]]
      /\ count' = [count EXCEPT !.listener = refs]
      /\ listener' = IF refs = 0 /\ dead_list # {} /\ listener = "closed" THEN "freed" ELSE listener
      /\ UNCHANGED <<walk, reader, list, ident, auth_pending_list, request_list, abort_list, eac_next, fault>>
  BY DEF free_exited_clients
<1>2. TypeOK /\ Records /\ Aborts /\ Pointers /\ Lookups /\ Counters /\ fault # "rem_request"
  BY DEF Inv
<1>3. /\ abort_list = <<>> /\ walk = NoWalk /\ reader = None /\ dead_list = All("Closing")
      /\ All("Dead") \subseteq ToSet(abort_list) \cup All("Closing") /\ eac_next = None
  BY <1>1, <1>2 DEF Aborts, First
<1>4. /\ dead_list \in SUBSET Clients /\ mem \in [Clients -> {"free", "used"}]
      /\ ip \in [Clients -> Addrs \cup {None}] /\ flags \in [Clients -> SUBSET Flags]
      /\ count \in [ip : [Addrs -> Int], class : Int, local : Int, fd : Int, listener : Int]
  BY <1>2 DEF TypeOK
<1>5. \A c \in Clients : c \in dead_list <=> "Closing" \in flags[c]
  BY <1>3 DEF All, Has
<1>6. ASSUME NEW c \in dead_list
      PROVE  /\ c \in Clients /\ mem[c] = "used" /\ list[c] = "none" /\ ident[c] = "closed"
             /\ \A f \in {"Open", "InAuth", "IPHash", "Conf"} : f \notin flags[c]
  <2>1. c \in Clients /\ RecordOK(c) /\ Has(c, "Closing")
    BY <1>2, <1>4, <1>5, RecordsSplit DEF Has
  <2>2. flags[c] \cap {"Open", "InAuth", "IPHash", "Conf"} = {} /\ mem[c] = "used" /\ list[c] = "none" /\ ident[c] = "closed"
    BY <2>1 DEF RecordOK, ExitedIsStripped
  <2> QED BY <2>1, <2>2
<1>7. /\ Returning = {} /\ Returning' = {} /\ Contexts' = Contexts
  BY <1>1, <1>3, WalkFacts DEF Returning, Contexts, Ctx
<1>8. \A f \in {"Open", "InAuth", "IPHash", "Conf"}, c \in Clients : f \in flags'[c] <=> f \in flags[c]
  BY <1>1, <1>6
<1>9. Cardinality(dead_list) \in Int
      /\ Cardinality({c \in Clients : mem'[c] = "used"}) = refs
  <2> DEFINE A == {c \in Clients : mem[c] = "used"}
  <2>1. A \in SUBSET Clients /\ dead_list \in SUBSET A
    BY <1>6
  <2>2. {c \in Clients : mem'[c] = "used"} = A \ dead_list
    BY <1>1
  <2>3. count.listener = Cardinality(A)
    BY <1>1, <1>2 DEF Counters
  <2> HIDE DEF A
  <2>4. Cardinality(dead_list) \in Nat /\ Cardinality(A \ dead_list) = Cardinality(A) - Cardinality(dead_list)
    BY <2>1, Counting
  <2> QED BY <2>2, <2>3, <2>4
<1>10. /\ count' \in [ip : [Addrs -> Int], class : Int, local : Int, fd : Int, listener : Int]
       /\ count'.ip = count.ip /\ count'.class = count.class /\ count'.local = count.local
       /\ count'.fd = count.fd /\ count'.listener = refs
  <2> DEFINE n == Cardinality(dead_list)
  <2>1. n \in Int /\ count' = [count EXCEPT !.listener = count.listener - n]
    BY <1>1, <1>9
  <2> HIDE DEF n
  <2>2. /\ count' \in [ip : [Addrs -> Int], class : Int, local : Int, fd : Int, listener : Int]
        /\ count'.ip = count.ip /\ count'.class = count.class /\ count'.local = count.local
        /\ count'.fd = count.fd /\ count'.listener = count.listener - n
    BY <1>4, <2>1
  <2> QED BY <2>2 DEF n
<1> HIDE DEF refs
<1>11. TypeOK'
  <2>1. /\ mem' \in [Clients -> {"free", "used"}] /\ ip' \in [Clients -> Addrs \cup {None}]
        /\ flags' \in [Clients -> SUBSET Flags] /\ listener' \in {"active", "closed", "freed"}
    BY <1>1, <1>2, <1>4 DEF TypeOK
  <2> QED BY <1>1, <1>2, <1>10, <2>1 DEF TypeOK, Phases
<1>12. Records'
  <2>1. ASSUME NEW c \in Clients
        PROVE  RecordOK(c)'
    <3>1. RecordOK(c)
      BY <1>2, RecordsSplit
    <3>2. CASE c \in dead_list
      <4>1. mem'[c] = "free" /\ flags'[c] = {} /\ list'[c] = "none" /\ ident'[c] = "closed"
        BY <1>1, <1>6, <3>2
      <4> QED BY <4>1 DEF RecordOK, FreeIsBlank, UsedHasAddress, ListedIsLive, UnknownHoldsNothing,
                          ExitedIsStripped, IdentIsFlagged, Has, IsUnknown
    <3>3. CASE c \notin dead_list
      <4>1. mem'[c] = mem[c] /\ ip'[c] = ip[c] /\ list'[c] = list[c] /\ flags'[c] = flags[c] /\ ident'[c] = ident[c]
        BY <1>1, <3>3
      <4> QED BY <3>1, <4>1, RecordSame
    <3> QED BY <3>2, <3>3
  <2> QED BY <2>1 DEF Records, RecordOK
<1>13. \A c \in Clients : LookupOK(c)
  BY <1>1, <1>2, LookupsNow
<1>14. \A c \in dead_list : c \notin ToSet(Contexts) /\ c \notin ToSet(auth_pending_list)
  <2>1. ASSUME NEW c \in dead_list
        PROVE  c \notin ToSet(Contexts) /\ c \notin ToSet(auth_pending_list)
    <3>1. c \in Clients /\ LookupOK(c) /\ Has(c, "Closing") /\ ~Has(c, "InAuth")
      BY <1>5, <1>6, <1>13 DEF Has
    <3> QED BY <1>7, <3>1 DEF LookupOK
  <2> QED BY <2>1
<1>15. Lookups'
  <2>1. ASSUME NEW c \in Clients
        PROVE  LookupOK(c)'
    <3>1. CASE c \in dead_list
      <4>1. mem'[c] = "free" /\ flags'[c] = {} /\ ident'[c] = "closed"
        BY <1>1, <1>6, <3>1
      <4>2. c \notin ToSet(Contexts') /\ c \notin ToSet(auth_pending_list') /\ c \notin Returning'
        BY <1>1, <1>7, <1>14, <3>1
      <4> QED BY <4>1, <4>2 DEF LookupOK, Has
    <3>2. CASE c \notin dead_list
      <4>1. mem'[c] = mem[c] /\ flags'[c] = flags[c] /\ ident'[c] = ident[c]
        BY <1>1, <3>2
      <4> QED BY <1>1, <1>7, <1>13, <4>1, LookupSame
    <3> QED BY <3>1, <3>2
  <2>2. /\ IsInjective(auth_pending_list) /\ IsInjective(Contexts) /\ ToSet(auth_pending_list) \subseteq Clients
    BY <1>1, <1>2 DEF Lookups, All
  <2> QED BY <1>1, <1>3, <1>7, <2>1, <2>2, WalkFacts, LookupsNext
<1>16. Counters'
  <2>1. /\ \A a \in Addrs : {c \in Clients : "IPHash" \in flags'[c] /\ ip'[c] = a} = {c \in Clients : "IPHash" \in flags[c] /\ ip[c] = a}
        /\ {c \in Clients : "Conf" \in flags'[c]} = {c \in Clients : "Conf" \in flags[c]}
        /\ {c \in Clients : "Open" \in flags'[c]} = {c \in Clients : "Open" \in flags[c]}
    <3>1. \A c \in Clients : "IPHash" \in flags[c] => ip'[c] = ip[c]
      BY <1>1, <1>6
    <3> QED BY <1>8, <3>1
  <2>2. /\ \A a \in Addrs : count.ip[a] = Cardinality({d \in Clients : "IPHash" \in flags[d] /\ ip[d] = a})
        /\ count.class = Cardinality({d \in Clients : "Conf" \in flags[d]})
        /\ count.local = Cardinality({d \in Clients : list[d] = "local_client_list"})
        /\ count.fd = Cardinality({d \in Clients : "Open" \in flags[d]})
                        + Cardinality({d \in Clients : ident[d] # "closed"})
                        + (IF listener = "active" THEN 1 ELSE 0)
    BY <1>1, <1>2, CountersAreFor DEF CountsFor, IsClient
  <2>3. listener' = "active" <=> listener = "active"
    BY <1>1
  <2>4. count'.fd = Cardinality({c \in Clients : "Open" \in flags'[c]})
                      + Cardinality({c \in Clients : ident'[c] # "closed"})
                      + (IF listener' = "active" THEN 1 ELSE 0)
    BY <1>1, <1>10, <2>1, <2>2, <2>3
  <2> QED BY <1>1, <1>9, <1>10, <2>1, <2>2, <2>4, CountersNext
<1>17. Aborts'
  <2>1. All("Closing")' = {} /\ All("Dead")' = {}
    <3>1. \A c \in Clients : "Closing" \notin flags'[c]
      BY <1>1, <1>5
    <3>2. \A c \in Clients : "Dead" \in flags[c] => c \in dead_list
      BY <1>3 DEF All, Has, ToSet
    <3>3. \A c \in Clients : "Dead" \notin flags'[c]
      BY <1>1, <3>2
    <3> QED BY <3>1, <3>3 DEF All, Has
  <2>2. IsInjective(<<>>) /\ ToSet(<<>>) = {}
    BY DEF IsInjective, ToSet
  <2> QED BY <1>1, <1>2, <1>3, <2>1, <2>2, WalkFacts DEF Aborts, First
<1>18. Pointers'
  <2>1. ToSet(abort_list) = {}
    BY <1>3 DEF ToSet
  <2>2. Referenced' \subseteq ToSet(auth_pending_list) \cup ToSet(Contexts)
    BY <1>1, <1>3, <1>7, <2>1, WalkFacts DEF Referenced
  <2>3. \A c \in Referenced : mem[c] = "used"
    BY <1>2 DEF Pointers
  <2>4. ToSet(auth_pending_list) \cup ToSet(Contexts) \subseteq Referenced
    BY DEF Referenced
  <2>5. ToSet(auth_pending_list) \cup ToSet(Contexts) \subseteq Clients
    BY <1>2, CtxFacts DEF TypeOK, Contexts, ToSet
  <2>6. \A c \in Referenced' : mem'[c] = "used"
    BY <1>1, <1>14, <2>2, <2>3, <2>4, <2>5
  <2>7. listener' = "freed" => \A c \in Clients : mem'[c] = "free"
    <3>1. CASE listener = "freed"
      BY <1>1, <1>2, <3>1 DEF Pointers
    <3>2. CASE listener # "freed"
      <4> DEFINE A == {c \in Clients : mem'[c] = "used"}
      <4>1. A \in SUBSET Clients /\ Cardinality(A) = refs
        BY <1>9
      <4>2. A = {} => \A c \in Clients : mem'[c] = "free"
        BY <1>11 DEF TypeOK
      <4> HIDE DEF A
      <4>3. Cardinality(A) = 0 => A = {}
        BY <4>1, Counting
      <4> QED BY <1>1, <3>2, <4>1, <4>2, <4>3
    <3> QED BY <3>1, <3>2
  <2> QED BY <1>1, <1>3, <2>6, <2>7, WalkFacts DEF Pointers
<1> QED BY <1>1, <1>2, <1>11, <1>12, <1>15, <1>16, <1>17, <1>18 DEF Inv

(* exit_aborted_clients() ends the client that is first in abort_list.      *)
LEMMA AbortExits ==
    ASSUME Inv, abort_exits
    PROVE  Inv'
<1> DEFINE c == walk.node
<1>1. /\ walk.fn = "exit_aborted_clients" /\ reader = None /\ fault = None /\ ~walk.called
      /\ eac_next' = After(abort_list, c, None)
      /\ abort_list' = Keep(abort_list, Clients \ {c})
      /\ exit_clients({c}, flags, count)
      /\ walk' = [walk EXCEPT !.called = TRUE]
      /\ UNCHANGED <<phase, reader, mem, ip, listener>>
  BY DEF abort_exits, In, exit_client
<1>2. TypeOK /\ Records /\ Aborts /\ Pointers /\ Lookups /\ Counters
  BY DEF Inv
<1>3. phase = "abort" /\ abort_list # <<>> /\ c = Head(abort_list)
  BY <1>1, <1>2 DEF Aborts
<1>4. abort_list \in Seq(Clients) /\ walk \in Walks /\ IsInjective(abort_list)
  BY <1>2 DEF TypeOK, Aborts
<1>5. c \in Clients /\ c \in ToSet(abort_list)
  BY <1>3, <1>4 DEF ToSet
<1>6. /\ walk' \in Walks /\ walk'.fn = walk.fn /\ walk'.node = c /\ walk'.next = walk.next /\ walk'.called = TRUE
  BY <1>1, <1>4 DEF Walks
<1>7. abort_list' = Tail(abort_list) /\ eac_next' = First(Tail(abort_list), None)
  BY <1>1, <1>3, <1>4, KeepTail, AfterHead
<1>8. /\ abort_list' \in Seq(Clients) /\ ToSet(abort_list') = ToSet(abort_list) \ {c} /\ IsInjective(abort_list')
  <2>1. /\ abort_list' \in Seq(Clients) /\ ToSet(abort_list') = ToSet(abort_list) \cap (Clients \ {c})
        /\ IsInjective(abort_list')
    BY <1>1, <1>4, KeepFacts
  <2>2. ToSet(abort_list) \subseteq Clients
    BY <1>4 DEF ToSet
  <2> QED BY <2>1, <2>2
<1>9. eac_next' = First(abort_list', None) /\ eac_next' \in ToSet(abort_list) \cup {None}
  BY <1>1, <1>4, <1>5, <1>7, AfterFacts
<1>10. mem[c] = "used"
  BY <1>2, <1>5 DEF Pointers, Referenced
<1> HIDE DEF c
<1>11. Called({c}, flags)
  BY <1>2, <1>5, <1>10 DEF Called, TypeOK
<1>12. CountsFor(count, flags, listener = "active")
  BY <1>1, <1>2, CountersAreFor
<1>13. Records'
  BY <1>1, <1>2, <1>11, ExitRecords
<1>14. Returning' = {} /\ Returning = {}
  BY <1>1, <1>6 DEF Returning
<1>15. Lookups'
  <2>1. walk'.node = walk.node
    BY <1>6 DEF c
  <2> QED BY <1>1, <1>2, <1>6, <1>11, <1>14, <2>1, ExitLookups
<1>16. /\ All("Dead")' = All("Dead") \cup Exiting({c})
       /\ All("Closing")' = All("Closing") \cup Exiting({c})
  BY <1>1, <1>2, <1>11, ExitDead
<1>17. Exiting({c}) = IF c \in All("Closing") THEN {} ELSE {c}
  BY <1>5 DEF Exiting, All
<1>18. /\ count' \in [ip : [Addrs -> Int], class : Int, local : Int, fd : Int, listener : Int]
       /\ Counters'
  <2>1. (listener = "active") \in BOOLEAN
    OBVIOUS
  <2>2. /\ count' \in [ip : [Addrs -> Int], class : Int, local : Int, fd : Int, listener : Int]
        /\ fault' = None => /\ \A a \in Addrs : count'.ip[a] = Cardinality({d \in Clients : "IPHash" \in flags'[d] /\ ip'[d] = a})
                            /\ count'.class = Cardinality({d \in Clients : "Conf" \in flags'[d]})
                            /\ count'.local = Cardinality({d \in Clients : list'[d] = "local_client_list"})
                            /\ count'.fd = Cardinality({d \in Clients : "Open" \in flags'[d]})
                                            + Cardinality({d \in Clients : ident'[d] # "closed"})
                                            + (IF listener = "active" THEN 1 ELSE 0)
                            /\ count'.listener = Cardinality({d \in Clients : mem'[d] = "used"})
    BY <1>1, <1>2, <1>11, <1>12, <2>1, ExitCounts
  <2> QED BY <1>1, <2>2, CountersNext
<1>19. TypeOK'
  <2>1. /\ flags' \in [Clients -> SUBSET Flags]
        /\ list' \in [Clients -> {"none", "unknown_list", "local_client_list"}]
        /\ ident' \in [Clients -> {"closed", "connecting", "reading"}]
        /\ auth_pending_list' \in Seq(Clients) /\ request_list' \in Seq(Requests)
        /\ dead_list' \in SUBSET Clients
        /\ fault' \in {None, "fd_close"}
    BY <1>1, <1>2, <1>11, ExitTypes
  <2>2. eac_next' \in Clients \cup {None}
    BY <1>4, <1>9 DEF ToSet
  <2> QED BY <1>1, <1>2, <1>6, <1>8, <1>18, <2>1, <2>2 DEF TypeOK
<1>20. dead_list' = dead_list \cup Exiting({c})
       /\ ToSet(auth_pending_list') \subseteq ToSet(auth_pending_list) /\ ToSet(Contexts') \subseteq ToSet(Contexts)
  BY <1>1, <1>2, <1>11, ExitFacts
<1>21. Aborts'
  <2>1. /\ ToSet(abort_list) \subseteq All("Dead") /\ All("Dead") \subseteq ToSet(abort_list) \cup All("Closing")
        /\ dead_list = All("Closing")
    BY <1>2 DEF Aborts
  <2>2. /\ ToSet(abort_list') \subseteq All("Dead")' /\ All("Dead")' \subseteq ToSet(abort_list') \cup All("Closing")'
        /\ dead_list' = All("Closing")'
    BY <1>8, <1>16, <1>17, <1>20, <2>1
  <2> QED BY <1>1, <1>3, <1>6, <1>8, <1>9, <2>2 DEF Aborts
<1>22. Pointers'
  <2>1. \A d \in Referenced' : d \in Referenced \/ d = c
    <3>1. reader' = reader /\ dead_list' \subseteq dead_list \cup {c}
      BY <1>1, <1>17, <1>20
    <3>2. ToSet(abort_list') \subseteq ToSet(abort_list)
      BY <1>8
    <3>3. ToSet(auth_pending_list') \subseteq ToSet(auth_pending_list) /\ ToSet(Contexts') \subseteq ToSet(Contexts)
      BY <1>20
    <3> QED BY <1>6, <1>9, <3>1, <3>2, <3>3 DEF Referenced
  <2>2. c # None
    BY <1>5, ConnectionAssumption
  <2> QED BY <1>1, <1>2, <1>6, <1>10, <2>1, <2>2, WalkFacts DEF Pointers
<1>23. fault' # "rem_request"
  BY <1>1, <1>2, <1>11, ExitTypes, ConnectionAssumption
<1> QED BY <1>13, <1>15, <1>18, <1>19, <1>21, <1>22, <1>23 DEF Inv
-----------------------------------------------------------------------------
(***************************************************************************)
(* release_auth_client(): fl are the flags without the lookup that ended.  *)
(***************************************************************************)
Released(fl) == IF still_pending(fl) THEN fl ELSE (fl \ {"InAuth"}) \cup {"FinishedAuth"}

(* What release_auth_client() does to flags, auth_pending_list and the reader. *)
LEMMA ReleaseFacts ==
    ASSUME TypeOK, NEW c \in Clients, NEW fl \in SUBSET Flags, release_auth_client(c, fl)
    PROVE  /\ flags' \in [Clients -> SUBSET Flags]
           /\ \A d \in Clients : flags'[d] = IF d = c THEN Released(fl) ELSE flags[d]
           /\ auth_pending_list' \in Seq(Clients)
           /\ IsInjective(auth_pending_list) => IsInjective(auth_pending_list')
           /\ \A d \in Clients : d \in ToSet(auth_pending_list') <=>
                                   d \in ToSet(auth_pending_list) /\ (d # c \/ still_pending(fl) \/ "InAuth" \notin fl)
           /\ reader' = IF still_pending(fl) THEN reader ELSE c
<1>1. flags \in [Clients -> SUBSET Flags] /\ auth_pending_list \in Seq(Clients)
  BY DEF TypeOK
<1>2. flags' = [flags EXCEPT ![c] = Released(fl)]
  BY DEF release_auth_client, Released
<1>3. Released(fl) \in SUBSET Flags
  BY DEF Released, Flags
<1>4. CASE still_pending(fl)
  <2>1. auth_pending_list' = auth_pending_list /\ reader' = reader
    BY <1>4 DEF release_auth_client
  <2> QED BY <1>1, <1>2, <1>3, <1>4, <2>1
<1>5. CASE ~still_pending(fl)
  <2> DEFINE T == IF "InAuth" \in fl THEN Clients \ {c} ELSE Clients
  <2>1. auth_pending_list' = Keep(auth_pending_list, T) /\ reader' = c
    BY <1>5 DEF release_auth_client
  <2>2. /\ auth_pending_list' \in Seq(Clients) /\ ToSet(auth_pending_list') = ToSet(auth_pending_list) \cap T
        /\ IsInjective(auth_pending_list) => IsInjective(auth_pending_list')
    BY <1>1, <2>1, KeepFacts
  <2> QED BY <1>1, <1>2, <1>3, <1>5, <2>1, <2>2
<1> QED BY <1>4, <1>5

(* The counts after some descriptors were closed. *)
LEMMA LessFd ==
    ASSUME NEW k \in [ip : [Addrs -> Int], class : Int, local : Int, fd : Int, listener : Int], NEW n \in Int,
           NEW m, m = [k EXCEPT !.fd = @ - n]
    PROVE  /\ m \in [ip : [Addrs -> Int], class : Int, local : Int, fd : Int, listener : Int]
           /\ m.ip = k.ip /\ m.class = k.class /\ m.local = k.local
           /\ m.fd = k.fd - n /\ m.listener = k.listener /\ k.fd \in Int
OBVIOUS

(* Counters, when the ident socket of c may have been closed.               *)
LEMMA ReleaseCounts ==
    ASSUME TypeOK, Counters, fault = None, NEW c \in Clients,
           NEW n \in Int, count' = [count EXCEPT !.fd = @ - n],
           mem' = mem, ip' = ip, list' = list, listener' = listener,
           \A d \in Clients, f \in {"Open", "IPHash", "Conf"} : f \in flags'[d] <=> f \in flags[d],
           \A d \in Clients : d # c => ident'[d] = ident[d],
           ident'[c] # "closed" => ident'[c] = ident[c],
           fault' = None => n = IF ident[c] # "closed" /\ ident'[c] = "closed" THEN 1 ELSE 0
    PROVE  /\ count' \in [ip : [Addrs -> Int], class : Int, local : Int, fd : Int, listener : Int]
           /\ Counters'
<1>11. /\ count' \in [ip : [Addrs -> Int], class : Int, local : Int, fd : Int, listener : Int]
       /\ count'.ip = count.ip /\ count'.class = count.class /\ count'.local = count.local
       /\ count'.fd = count.fd - n /\ count'.listener = count.listener
       /\ count.fd \in Int
  <2>1. count \in [ip : [Addrs -> Int], class : Int, local : Int, fd : Int, listener : Int]
    BY DEF TypeOK
  <2> QED BY <2>1, LessFd
<1>1. SUFFICES ASSUME fault' = None PROVE Counters'
  BY <1>11 DEF Counters
<1>2. /\ \A a : {d \in Clients : "IPHash" \in flags'[d] /\ ip'[d] = a} = {d \in Clients : "IPHash" \in flags[d] /\ ip[d] = a}
      /\ {d \in Clients : "Conf" \in flags'[d]} = {d \in Clients : "Conf" \in flags[d]}
      /\ {d \in Clients : "Open" \in flags'[d]} = {d \in Clients : "Open" \in flags[d]}
  OBVIOUS
<1>3. /\ \A a \in Addrs : count.ip[a] = Cardinality({d \in Clients : "IPHash" \in flags[d] /\ ip[d] = a})
      /\ count.class = Cardinality({d \in Clients : "Conf" \in flags[d]})
      /\ count.local = Cardinality({d \in Clients : list[d] = "local_client_list"})
      /\ count.fd = Cardinality({d \in Clients : "Open" \in flags[d]})
                      + Cardinality({d \in Clients : ident[d] # "closed"})
                      + (IF listener = "active" THEN 1 ELSE 0)
      /\ count.listener = Cardinality({d \in Clients : mem[d] = "used"})
  BY CountersAreFor DEF CountsFor, IsClient
<1> DEFINE A == {d \in Clients : ident[d] # "closed"}
           O == {d \in Clients : "Open" \in flags[d]}
<1>4. {d \in Clients : ident'[d] # "closed"} = IF n = 1 THEN A \ {c} ELSE A
  BY <1>1
<1>5. A \in SUBSET Clients /\ O \in SUBSET Clients /\ (n = 1 => c \in A) /\ n \in {0, 1}
  BY <1>1
<1> HIDE DEF A, O
<1>6. Cardinality(A) \in Int /\ Cardinality(O) \in Int /\ (c \in A => Cardinality(A \ {c}) = Cardinality(A) - 1)
  <2>1. Cardinality(A) \in Nat /\ Cardinality(O) \in Nat
    BY <1>5, CountIsNat
  <2>2. \A x : Cardinality(A \ {x}) = IF x \in A THEN Cardinality(A) - 1 ELSE Cardinality(A)
    BY <1>5, Counting
  <2> QED BY <2>1, <2>2
<1>7. Cardinality({d \in Clients : ident'[d] # "closed"}) = Cardinality(A) - n
  <2>1. CASE n = 1
    BY <1>4, <1>5, <1>6, <2>1
  <2>2. CASE n = 0
    <3>1. {d \in Clients : ident'[d] # "closed"} = A
      BY <1>4, <2>2
    <3>2. Cardinality(A) = Cardinality(A) - n
      BY <1>6, <2>2
    <3> QED BY <3>1, <3>2
  <2> QED BY <1>5, <2>1, <2>2
<1>8. count.fd = Cardinality(O) + Cardinality(A) + (IF listener = "active" THEN 1 ELSE 0)
  BY <1>3 DEF A, O
<1>9. count'.fd = Cardinality({d \in Clients : "Open" \in flags'[d]})
                    + Cardinality({d \in Clients : ident'[d] # "closed"})
                    + (IF listener' = "active" THEN 1 ELSE 0)
  <2>1. Cardinality({d \in Clients : "Open" \in flags'[d]}) = Cardinality(O)
    BY <1>2 DEF O
  <2>2. count'.fd = Cardinality(O) + (Cardinality(A) - n) + (IF listener' = "active" THEN 1 ELSE 0)
    BY <1>11, <1>6, <1>8
  <2> QED BY <1>7, <2>1, <2>2
<1> QED BY <1>11, <1>2, <1>3, <1>9, CountersNext

(***************************************************************************)
(* A lookup of c ends, by an answer or by a timer, and c is released if it *)
(* was the last one.  The ident socket may be closed with it.              *)
(***************************************************************************)
LEMMA ReleaseStep ==
    ASSUME Inv, fault = None, phase = "run", reader = None, NEW c \in Clients, mem[c] = "used",
           NEW fl, fl \in SUBSET flags[c], flags[c] \ {"DoingAuth", "DNSPending"} \subseteq fl,
           release_auth_client(c, fl),
           UNCHANGED <<phase, mem, ip, list, abort_list, eac_next, dead_list, listener>>,
           walk' \in Walks, walk'.fn # "exit_aborted_clients", walk'.fn = "none" <=> walk' = NoWalk,
           walk'.fn # "none" => walk'.node # None, walk'.fn = "none" \/ walk'.called,
           {walk'.node, walk'.next} \subseteq Referenced \cup {None},
           request_list' \in Seq(Requests), ToSet(Contexts') \subseteq ToSet(Contexts),
           \A d \in Clients : d # c => ident'[d] = ident[d],
           ident' \in [Clients -> {"closed", "connecting", "reading"}],
           ident'[c] # "closed" => ident'[c] = ident[c] /\ "DoingAuth" \in fl,
           fault' \in {None, "fd_close", "next_node"},
           NEW n \in Int, count' = [count EXCEPT !.fd = @ - n],
           fault' = None =>
             /\ IsInjective(Contexts') /\ Returning' \subseteq Clients
             /\ \A d \in Clients : d # c => /\ d \in ToSet(Contexts') <=> d \in ToSet(Contexts)
                                            /\ d \in Returning' <=> d \in Returning
             /\ "Closing" \notin fl => /\ c \in ToSet(Contexts') <=> "DNSPending" \in fl \/ c \in Returning'
                                       /\ SocketFails \/ (ident'[c] # "closed" <=> "DoingAuth" \in fl)
             /\ "Closing" \in fl => c \notin ToSet(Contexts') \ Returning'
             /\ c \in Returning' => c \in ToSet(Contexts') /\ "DNSPending" \notin fl
             /\ walk'.fn = "res_readreply" => walk'.called
             /\ walk'.fn = "timeout_query_list" => walk'.node \in ToSet(Contexts')
             /\ n = IF ident[c] # "closed" /\ ident'[c] = "closed" THEN 1 ELSE 0
    PROVE  Inv'
<1>1. TypeOK /\ Records /\ Aborts /\ Pointers /\ Lookups /\ Counters
  BY DEF Inv
<1>2. /\ flags \in [Clients -> SUBSET Flags] /\ auth_pending_list \in Seq(Clients) /\ fl \in SUBSET Flags
      /\ count \in [ip : [Addrs -> Int], class : Int, local : Int, fd : Int, listener : Int]
  BY <1>1 DEF TypeOK
<1>3. /\ flags' \in [Clients -> SUBSET Flags]
      /\ \A d \in Clients : flags'[d] = IF d = c THEN Released(fl) ELSE flags[d]
      /\ auth_pending_list' \in Seq(Clients)
      /\ IsInjective(auth_pending_list) => IsInjective(auth_pending_list')
      /\ \A d \in Clients : d \in ToSet(auth_pending_list') <=>
                              d \in ToSet(auth_pending_list) /\ (d # c \/ still_pending(fl) \/ "InAuth" \notin fl)
      /\ reader' = IF still_pending(fl) THEN reader ELSE c
  BY <1>1, <1>2, ReleaseFacts
<1>4. \A d \in Clients, f \in {"Open", "IPHash", "Conf", "Dead", "Closing"} : f \in flags'[d] <=> f \in flags[d]
  BY <1>3 DEF Released
<1>5. /\ count' \in [ip : [Addrs -> Int], class : Int, local : Int, fd : Int, listener : Int]
      /\ Counters'
  <2>1. mem' = mem /\ ip' = ip /\ list' = list /\ listener' = listener
    OBVIOUS
  <2>2. \A d \in Clients, f \in {"Open", "IPHash", "Conf"} : f \in flags'[d] <=> f \in flags[d]
    BY <1>4
  <2> QED BY <1>1, <2>1, <2>2, ReleaseCounts
<1>6. reader' \in Clients \cup {None} /\ (reader' # None => reader' = c /\ "FinishedAuth" \in flags'[c])
  BY <1>3 DEF Released
<1>7. TypeOK'
  BY <1>1, <1>3, <1>5, <1>6 DEF TypeOK
<1>8. Records'
  <2>1. ASSUME NEW d \in Clients, d # c
        PROVE  RecordOK(d)'
    <3>1. flags'[d] = flags[d] /\ ident'[d] = ident[d] /\ RecordOK(d)
      BY <1>1, <1>3, <2>1, RecordsSplit
    <3> QED BY <3>1, RecordSame
  <2>2. RecordOK(c)'
    <3>1. RecordOK(c) /\ flags'[c] = Released(fl)
      BY <1>1, <1>3, RecordsSplit
    <3>2. /\ ident'[c] # "closed" => "DoingAuth" \in flags'[c]
          /\ ident[c] = "closed" => ident'[c] = "closed"
      BY <3>1 DEF Released
    <3>3. "InAuth" \in flags'[c] => "InAuth" \in flags[c]
      BY <3>1 DEF Released
    <3> QED BY <1>4, <3>1, <3>2, <3>3
            DEF RecordOK, FreeIsBlank, UsedHasAddress, ListedIsLive, UnknownHoldsNothing, ExitedIsStripped,
                IdentIsFlagged, Has, IsUnknown
  <2>3. \A d \in Clients : RecordOK(d)'
    BY <2>1, <2>2
  <2> QED BY <2>3 DEF Records, RecordOK
<1>9. Lookups'
  <2>1. SUFFICES ASSUME fault' = None PROVE \A d \in Clients : LookupOK(d)'
    <3>1. IsInjective(auth_pending_list')
      BY <1>1, <1>3 DEF Lookups
    <3>2. ToSet(auth_pending_list') \subseteq Clients
      BY <1>3 DEF ToSet
    <3> QED BY <3>1, <3>2, LookupsNext
  <2>2. ASSUME NEW d \in Clients, d # c
        PROVE  LookupOK(d)'
    <3>1. /\ flags'[d] = flags[d] /\ ident'[d] = ident[d] /\ mem'[d] = mem[d] /\ LookupOK(d)
          /\ d \in ToSet(auth_pending_list') <=> d \in ToSet(auth_pending_list)
      BY <1>1, <1>3, <2>2, LookupsNow
    <3> QED BY <2>1, <2>2, <3>1, LookupSame
  <2>3. LookupOK(c)'
    <3>1. /\ LookupOK(c) /\ flags'[c] = Released(fl) /\ mem'[c] = "used"
          /\ c \in ToSet(auth_pending_list') <=>
               c \in ToSet(auth_pending_list) /\ (still_pending(fl) \/ "InAuth" \notin fl)
      BY <1>1, <1>3, LookupsNow
    <3>2. /\ "InAuth" \in flags'[c] <=> "InAuth" \in fl /\ still_pending(fl)
          /\ "InAuth" \in fl <=> "InAuth" \in flags[c]
          /\ "Closing" \in flags'[c] <=> "Closing" \in fl
          /\ "Closing" \in fl <=> "Closing" \in flags[c]
          /\ "DNSPending" \in flags'[c] <=> "DNSPending" \in fl
          /\ "DoingAuth" \in flags'[c] <=> "DoingAuth" \in fl
          /\ "FinishedAuth" \in flags'[c] <=> "FinishedAuth" \in flags[c] \/ ~still_pending(fl)
      BY <3>1 DEF Released
    <3>3. c \in ToSet(auth_pending_list') <=> "InAuth" \in flags'[c]
      BY <3>1, <3>2 DEF LookupOK, Has
    <3>4. still_pending(fl) <=> flags'[c] \cap {"DNSPending", "DoingAuth"} # {}
      BY <3>2 DEF still_pending
    <3>5. ASSUME "Closing" \notin fl
          PROVE  /\ "InAuth" \in flags'[c] <=> flags'[c] \cap {"DNSPending", "DoingAuth"} # {}
                 /\ "FinishedAuth" \in flags'[c] <=> "InAuth" \notin flags'[c]
      <4>1. /\ "InAuth" \in flags[c] <=> flags[c] \cap {"DNSPending", "DoingAuth"} # {}
            /\ "FinishedAuth" \in flags[c] <=> "InAuth" \notin flags[c]
        BY <3>1, <3>2, <3>5 DEF LookupOK, Has
      <4>2. still_pending(fl) => "InAuth" \in flags[c]
        BY <4>1 DEF still_pending
      <4> QED BY <3>2, <3>4, <4>1, <4>2
    <3> QED BY <2>1, <3>1, <3>2, <3>3, <3>5 DEF LookupOK, Has
  <2> QED BY <2>2, <2>3
<1>11. \A f \in {"Dead", "Closing"} : All(f)' = All(f)
  BY <1>4 DEF All, Has
<1>12. Aborts'
  BY <1>1, <1>11 DEF Aborts
<1>13. Pointers'
  <2>1. ToSet(auth_pending_list') \subseteq ToSet(auth_pending_list)
    <3>1. ToSet(auth_pending_list') \subseteq Clients
      BY <1>3 DEF ToSet
    <3> QED BY <1>3, <3>1
  <2>2. \A d \in Referenced' : d \in Referenced \/ d = c
    BY <1>6, <2>1 DEF Referenced
  <2> QED BY <1>1, <1>6, <2>2 DEF Pointers, Has
<1>14. fault' # "rem_request"
  BY ConnectionAssumption
<1> QED BY <1>5, <1>7, <1>8, <1>9, <1>12, <1>13, <1>14 DEF Inv

(* Closing no descriptor leaves the counts alone. *)
LEMMA SameFd ==
    ASSUME NEW k \in [ip : [Addrs -> Int], class : Int, local : Int, fd : Int, listener : Int]
    PROVE  k = [k EXCEPT !.fd = @ - 0]
OBVIOUS

(* The ident answer came, or the connection to identd failed.               *)
LEMMA CloseIdent ==
    ASSUME Inv, NEW c \in Clients, close_ident(c)
    PROVE  Inv'
<1> DEFINE fl == ClearAuth(flags[c])
<1>1. /\ Idle /\ ident[c] # "closed" /\ Has(c, "DoingAuth")
      /\ ident' = [ident EXCEPT ![c] = "closed"]
      /\ count' = [count EXCEPT !.fd = @ - 1]
      /\ release_auth_client(c, fl)
      /\ UNCHANGED <<phase, walk, mem, ip, list, request_list, abort_list, eac_next, dead_list, listener, fault>>
  BY DEF close_ident
<1>2. TypeOK /\ Records /\ Lookups
  BY DEF Inv
<1>3. fault = None /\ phase = "run" /\ reader = None /\ walk = NoWalk
  BY <1>1, IdleFacts
<1>4. mem[c] = "used" /\ "Closing" \notin flags[c]
  <2>1. RecordOK(c) /\ mem[c] \in {"free", "used"}
    BY <1>2, RecordsSplit DEF TypeOK
  <2> QED BY <1>1, <2>1 DEF RecordOK, FreeIsBlank, ExitedIsStripped, Has
<1>5. fl \in SUBSET flags[c] /\ flags[c] \ {"DoingAuth", "DNSPending"} \subseteq fl /\ "DoingAuth" \notin fl
      /\ ("DNSPending" \in fl <=> "DNSPending" \in flags[c]) /\ ("Closing" \notin fl)
  BY <1>4 DEF ClearAuth
<1>6. walk' = NoWalk /\ fault' = None /\ request_list' = request_list
  BY <1>1, <1>3
<1>7. Contexts' = Contexts /\ Returning' = {} /\ Returning = {}
  BY <1>3, <1>6, WalkFacts DEF Contexts, Ctx, Returning
<1>8. /\ ident' \in [Clients -> {"closed", "connecting", "reading"}] /\ ident'[c] = "closed"
      /\ \A d \in Clients : d # c => ident'[d] = ident[d]
  BY <1>1, <1>2 DEF TypeOK
<1>9. request_list \in Seq(Requests) /\ IsInjective(Contexts) /\ (c \in ToSet(Contexts) <=> "DNSPending" \in flags[c])
  <2>1. LookupOK(c)
    BY <1>2, <1>3, LookupsNow
  <2> QED BY <1>2, <1>3, <1>4, <1>7, <2>1 DEF TypeOK, Lookups, LookupOK, Has
<1>10. UNCHANGED <<phase, mem, ip, list, abort_list, eac_next, dead_list, listener>>
  BY <1>1
<1>11. 1 \in Int /\ count' = [count EXCEPT !.fd = @ - 1]
  BY <1>1
<1>12. release_auth_client(c, fl)
  BY <1>1
<1> HIDE DEF fl
<1> QED BY <1>1, <1>3, <1>4, <1>5, <1>6, <1>7, <1>8, <1>9, <1>10, <1>11, <1>12, WalkFacts, ReleaseStep

(* A request of c calls back: the answer is final, or it timed out.         *)
LEMMA DnsCallback ==
    ASSUME Inv, fault = None, phase = "run", reader = None, NEW c \in Clients,
           c \in ToSet(Contexts), Returning = {}, auth_dns_callback(c),
           walk' \in Walks, walk'.fn \in {"res_readreply", "timeout_query_list"}, walk'.node = c, walk'.called = TRUE,
           walk'.next \in Referenced \cup {None},
           UNCHANGED <<phase, mem, ip, list, ident, request_list, abort_list, eac_next, dead_list, count, listener, fault>>
    PROVE  Inv'
<1> DEFINE fl == ClearDNSPending(flags[c])
<1>1. release_auth_client(c, fl)
  BY DEF auth_dns_callback
<1>2. TypeOK /\ Records /\ Lookups /\ Pointers
  BY DEF Inv
<1>3. LookupOK(c) /\ RecordOK(c)
  BY <1>2, LookupsNow, RecordsSplit
<1>4. mem[c] = "used" /\ "Closing" \notin flags[c]
  BY <1>2, <1>3 DEF Pointers, Referenced, LookupOK, Has
<1>5. fl \in SUBSET flags[c] /\ flags[c] \ {"DoingAuth", "DNSPending"} \subseteq fl /\ "DNSPending" \notin fl
      /\ ("DoingAuth" \in fl <=> "DoingAuth" \in flags[c]) /\ ("Closing" \notin fl)
  BY <1>4 DEF ClearDNSPending
<1>6. Contexts' = Contexts /\ Returning' = {c} /\ request_list \in Seq(Requests) /\ IsInjective(Contexts)
  BY <1>2 DEF Contexts, Ctx, Returning, TypeOK, Lookups
<1>7. walk' # NoWalk /\ c # None /\ c \in Referenced
  BY WalkFacts, ConnectionAssumption DEF Referenced
<1>8. ident' = ident /\ ident \in [Clients -> {"closed", "connecting", "reading"}]
  BY <1>2 DEF TypeOK
<1>9. /\ ident[c] # "closed" => "DoingAuth" \in fl
      /\ SocketFails \/ (ident[c] # "closed" <=> "DoingAuth" \in fl)
  BY <1>3, <1>4, <1>5 DEF LookupOK, RecordOK, IdentIsFlagged, Has
<1>10. PICK n \in Int : n = 0 /\ count' = [count EXCEPT !.fd = @ - n]
  <2>1. count \in [ip : [Addrs -> Int], class : Int, local : Int, fd : Int, listener : Int] /\ count' = count
    BY <1>2 DEF TypeOK
  <2> QED BY <2>1, SameFd
<1>11. /\ UNCHANGED <<phase, mem, ip, list, abort_list, eac_next, dead_list, listener>>
       /\ request_list' = request_list /\ fault' = None
  OBVIOUS
<1>12. /\ walk'.fn # "exit_aborted_clients" /\ (walk'.fn = "none" <=> walk' = NoWalk) /\ walk'.called
       /\ {walk'.node, walk'.next} \subseteq Referenced \cup {None}
  BY <1>7
<1>13. /\ IsInjective(Contexts') /\ Returning' \subseteq Clients
       /\ \A d \in Clients : d # c => /\ d \in ToSet(Contexts') <=> d \in ToSet(Contexts)
                                      /\ d \in Returning' <=> d \in Returning
       /\ c \in ToSet(Contexts') /\ c \in Returning' /\ walk'.node \in ToSet(Contexts')
  BY <1>6
<1>14. /\ request_list' \in Seq(Requests) /\ ToSet(Contexts') \subseteq ToSet(Contexts)
       /\ \A d \in Clients : d # c => ident'[d] = ident[d]
       /\ ident' \in [Clients -> {"closed", "connecting", "reading"}]
       /\ ident'[c] # "closed" => ident'[c] = ident[c] /\ "DoingAuth" \in fl
       /\ SocketFails \/ (ident'[c] # "closed" <=> "DoingAuth" \in fl)
       /\ n = IF ident[c] # "closed" /\ ident'[c] = "closed" THEN 1 ELSE 0
  BY <1>6, <1>8, <1>9, <1>10, <1>11
<1>15. n \in Int /\ count' = [count EXCEPT !.fd = @ - n]
  BY <1>10
<1>16. /\ fl \in SUBSET flags[c] /\ flags[c] \ {"DoingAuth", "DNSPending"} \subseteq fl
       /\ "DNSPending" \notin fl /\ "Closing" \notin fl /\ mem[c] = "used" /\ c # None
  BY <1>4, <1>5, <1>7
<1> HIDE DEF fl
<1> QED BY <1>1, <1>11, <1>12, <1>13, <1>14, <1>15, <1>16, ReleaseStep

(* res_readreply() up to its callback keeps the invariant. *)
LEMMA ReplyFinal ==
    ASSUME Inv, NEW i \in DOMAIN request_list, res_readreply_final(i)
    PROVE  Inv'
<1> DEFINE c == request_list[i].ctx
<1>1. /\ Idle /\ auth_dns_callback(c) /\ walk' = Walk("res_readreply", c, None, TRUE)
      /\ UNCHANGED <<phase, mem, ip, list, ident, request_list, abort_list, eac_next, dead_list, count, listener, fault>>
  BY DEF res_readreply_final
<1>2. fault = None /\ phase = "run" /\ reader = None /\ walk.fn = "none"
  BY <1>1, IdleFacts
<1>3. c \in Clients /\ c \in ToSet(Contexts)
  <2>1. request_list \in Seq(Requests)
    BY DEF Inv, TypeOK
  <2>2. c \in Clients /\ i \in DOMAIN Ctx(request_list) /\ Ctx(request_list)[i] = c
    BY <2>1, CtxFacts
  <2> QED BY <2>2 DEF Contexts, ToSet
<1> HIDE DEF c
<1>4. walk' \in Walks /\ walk'.fn = "res_readreply" /\ walk'.node = c /\ walk'.next = None /\ walk'.called = TRUE
  BY <1>1, <1>3 DEF Walk, Walks
<1>5. Returning = {}
  BY <1>2 DEF Returning
<1> QED BY <1>1, <1>2, <1>3, <1>4, <1>5, DnsCallback

(* A request that fails or runs out of tries, up to its callback, keeps the invariant. *)
LEMMA QueryFails ==
    ASSUME Inv, NEW i \in DOMAIN request_list, query_fails(i)
    PROVE  Inv'
<1> DEFINE c == walk.node
<1>1. /\ In("timeout_query_list") /\ ~walk.called /\ auth_dns_callback(c) /\ walk' = [walk EXCEPT !.called = TRUE]
      /\ UNCHANGED <<phase, mem, ip, list, ident, request_list, abort_list, eac_next, dead_list, count, listener, fault>>
  BY DEF query_fails, query_at
<1>2. fault = None /\ phase = "run" /\ reader = None /\ walk.fn = "timeout_query_list" /\ c \in Clients
  BY <1>1, WalkingFacts
<1>3. c \in ToSet(Contexts) /\ Returning = {} /\ walk \in Walks
  BY <1>1, <1>2 DEF Inv, Lookups, Returning, TypeOK
<1>4. walk' \in Walks /\ walk'.fn = "timeout_query_list" /\ walk'.node = c /\ walk'.next = walk.next /\ walk'.called = TRUE
  BY <1>1, <1>2, <1>3 DEF Walks
<1>5. walk.next \in Referenced \cup {None}
  BY DEF Referenced
<1> HIDE DEF c
<1> QED BY <1>1, <1>2, <1>3, <1>4, <1>5, DnsCallback

(* The lookups of c took too long: both end, and c is released.  c may have *)
(* exited while it was the next node.                                       *)
LEMMA AuthExpires ==
    ASSUME Inv, NEW c \in Clients, auth_expires(c)
    PROVE  Inv'
<1> DEFINE fl == ClearDNSPending(ClearAuth(flags[c]))
           n == IF Has(c, "DoingAuth") THEN 1 ELSE 0
<1>1. /\ In("timeout_auth_queries_event") /\ ~walk.called /\ walk.node = c
      /\ ident' = [ident EXCEPT ![c] = IF Has(c, "DoingAuth") THEN "closed" ELSE @]
      /\ count' = [count EXCEPT !.fd = IF Has(c, "DoingAuth") THEN @ - 1 ELSE @]
      /\ fault' = IF ~Has(c, "DoingAuth") \/ ident[c] # "closed" THEN fault
                  ELSE IF Has(c, "Closing") THEN "next_node" ELSE "fd_close"
      /\ request_list' = IF Has(c, "DNSPending") THEN Without(request_list, {c}) ELSE request_list
      /\ release_auth_client(c, fl)
      /\ walk' = [walk EXCEPT !.called = TRUE]
      /\ UNCHANGED <<phase, mem, ip, list, abort_list, eac_next, dead_list, listener>>
  BY DEF auth_expires, delete_resolver_queries
<1>2. /\ fault = None /\ phase = "run" /\ reader = None /\ walk.fn = "timeout_auth_queries_event" /\ mem[c] = "used"
  BY <1>1, WalkingFacts
<1>3. TypeOK /\ Records /\ Lookups
  BY DEF Inv
<1>4. /\ request_list \in Seq(Requests) /\ walk \in Walks /\ ident \in [Clients -> {"closed", "connecting", "reading"}]
      /\ count \in [ip : [Addrs -> Int], class : Int, local : Int, fd : Int, listener : Int]
  BY <1>3 DEF TypeOK
<1>5. /\ walk' \in Walks /\ walk'.fn = "timeout_auth_queries_event" /\ walk'.node = c /\ walk'.next = walk.next
      /\ walk'.called = TRUE
  BY <1>1, <1>2, <1>4 DEF Walks
<1>6. Returning = {} /\ Returning' = {} /\ walk' # NoWalk /\ c # None
  BY <1>2, <1>5, WalkFacts, ConnectionAssumption DEF Returning
<1>7. LookupOK(c) /\ RecordOK(c)
  BY <1>2, <1>3, LookupsNow, RecordsSplit
<1>8. /\ fl \in SUBSET flags[c] /\ flags[c] \ {"DoingAuth", "DNSPending"} \subseteq fl
      /\ "DNSPending" \notin fl /\ "DoingAuth" \notin fl /\ ("Closing" \in fl <=> "Closing" \in flags[c])
  BY DEF ClearDNSPending, ClearAuth
<1>9. /\ ident' \in [Clients -> {"closed", "connecting", "reading"}] /\ ident'[c] = "closed"
      /\ \A d \in Clients : d # c => ident'[d] = ident[d]
  <2>1. ident[c] # "closed" => Has(c, "DoingAuth")
    BY <1>7 DEF RecordOK, IdentIsFlagged
  <2> QED BY <1>1, <1>4, <2>1
<1>10. fault' \in {None, "fd_close", "next_node"} /\ (fault' = None => (Has(c, "DoingAuth") <=> ident[c] # "closed"))
  <2>1. ident[c] # "closed" => Has(c, "DoingAuth")
    BY <1>7 DEF RecordOK, IdentIsFlagged
  <2> QED BY <1>1, <1>2, <2>1, ConnectionAssumption
<1>11. /\ request_list' \in Seq(Requests) /\ (IsInjective(Contexts) => IsInjective(Contexts'))
       /\ ToSet(Contexts') = ToSet(Contexts) \ (IF Has(c, "DNSPending") THEN {c} ELSE {})
  <2>1. Contexts' = Ctx(request_list') /\ Contexts = Ctx(request_list)
    BY DEF Contexts, Ctx
  <2>2. CASE Has(c, "DNSPending")
    <3>1. request_list' = Without(request_list, {c})
      BY <1>1, <2>2
    <3> QED BY <1>4, <2>1, <2>2, <3>1, WithoutFacts
  <2>3. CASE ~Has(c, "DNSPending")
    <3>1. request_list' = request_list
      BY <1>1, <2>3
    <3> QED BY <1>4, <2>1, <2>3, <3>1
  <2> QED BY <2>2, <2>3
<1>12. c \notin ToSet(Contexts') /\ IsInjective(Contexts)
  BY <1>2, <1>3, <1>6, <1>7, <1>11 DEF LookupOK, Lookups
<1>13. n \in Int /\ count' = [count EXCEPT !.fd = @ - n]
  <2>1. CASE Has(c, "DoingAuth")
    BY <1>1, <2>1
  <2>2. CASE ~Has(c, "DoingAuth")
    <3>1. count' = [count EXCEPT !.fd = @]
      BY <1>1, <2>2
    <3>2. count' = count
      BY <1>4, <3>1
    <3> QED BY <1>4, <2>2, <3>2, SameFd
  <2> QED BY <2>1, <2>2
<1>14. fault' = None => n = IF ident[c] # "closed" /\ ident'[c] = "closed" THEN 1 ELSE 0
  BY <1>9, <1>10
<1>15. walk.next \in Referenced \cup {None} /\ c \in Referenced
  BY <1>1, <1>6 DEF Referenced
<1>16. /\ release_auth_client(c, fl)
       /\ UNCHANGED <<phase, mem, ip, list, abort_list, eac_next, dead_list, listener>>
  BY <1>1
<1> HIDE DEF fl, n
<1> QED BY <1>2, <1>5, <1>6, <1>8, <1>9, <1>10, <1>11, <1>12, <1>13, <1>14, <1>15, <1>16, ReleaseStep

(* The counts after add_connection() took a reference of the listener and opened descriptors. *)
LEMMA MoreFd ==
    ASSUME NEW k \in [ip : [Addrs -> Int], class : Int, local : Int, fd : Int, listener : Int], NEW n \in Int,
           NEW m, m = [k EXCEPT !.listener = @ + 1, !.fd = @ + n]
    PROVE  /\ m \in [ip : [Addrs -> Int], class : Int, local : Int, fd : Int, listener : Int]
           /\ m.ip = k.ip /\ m.class = k.class /\ m.local = k.local
           /\ m.fd = k.fd + n /\ m.listener = k.listener + 1 /\ k.fd \in Int
<1>1. k.ip \in [Addrs -> Int] /\ k.class \in Int /\ k.local \in Int /\ k.fd \in Int /\ k.listener \in Int
  OBVIOUS
<1>2. k = [ip |-> k.ip, class |-> k.class, local |-> k.local, fd |-> k.fd, listener |-> k.listener]
  OBVIOUS
<1>3. m = [ip |-> k.ip, class |-> k.class, local |-> k.local, fd |-> k.fd + n, listener |-> k.listener + 1]
  BY <1>2
<1> QED BY <1>1, <1>3

(* A connection is accepted into a slot that nothing points to.             *)
LEMMA Accept ==
    ASSUME Inv, NEW c \in Clients, NEW a \in Addrs,
           NEW id \in {"off", "failed", "refused", "connecting", "reading"},
           listener_accept_connection(c, a, id)
    PROVE  Inv'
<1> DEFINE open == id \in {"connecting", "reading"}
           r == [ctx |-> c, type |-> "PTR", retries |-> 2]
           n == IF open THEN 2 ELSE 1
<1>1. /\ Idle /\ listener = "active" /\ mem[c] = "free" /\ (id = "failed" => SocketFails)
      /\ mem' = [mem EXCEPT ![c] = "used"]
      /\ ip' = [ip EXCEPT ![c] = a]
      /\ list' = [list EXCEPT ![c] = "unknown_list"]
      /\ flags' = [flags EXCEPT ![c] = start_auth_flags(id)]
      /\ ident' = [ident EXCEPT ![c] = IF open THEN id ELSE "closed"]
      /\ auth_pending_list' = Append(auth_pending_list, c)
      /\ request_list' = <<r>> \o request_list
      /\ count' = [count EXCEPT !.listener = @ + 1, !.fd = @ + n]
      /\ UNCHANGED <<loopvars, abort_list, eac_next, dead_list, listener, fault>>
  BY DEF listener_accept_connection
<1>2. TypeOK /\ Records /\ Aborts /\ Pointers /\ Lookups /\ Counters
  BY DEF Inv
<1>3. fault = None /\ phase = "run" /\ reader = None /\ walk = NoWalk
  BY <1>1, IdleFacts
<1>4. /\ phase' = phase /\ walk' = walk /\ reader' = reader /\ abort_list' = abort_list
      /\ eac_next' = eac_next /\ dead_list' = dead_list /\ listener' = listener /\ fault' = fault
  BY <1>1 DEF loopvars
<1>5. /\ mem \in [Clients -> {"free", "used"}] /\ ip \in [Clients -> Addrs \cup {None}]
      /\ list \in [Clients -> {"none", "unknown_list", "local_client_list"}] /\ flags \in [Clients -> SUBSET Flags]
      /\ ident \in [Clients -> {"closed", "connecting", "reading"}]
      /\ auth_pending_list \in Seq(Clients) /\ request_list \in Seq(Requests)
      /\ count \in [ip : [Addrs -> Int], class : Int, local : Int, fd : Int, listener : Int]
  BY <1>2 DEF TypeOK
<1>6. flags[c] = {} /\ list[c] = "none" /\ ident[c] = "closed"
  BY <1>1, <1>2 DEF Records, FreeIsBlank
<1>7. c \notin ToSet(auth_pending_list) /\ c \notin ToSet(Contexts)
  BY <1>1, <1>2 DEF Pointers, Referenced
<1>8. \A d \in Clients : d # c => /\ mem'[d] = mem[d] /\ ip'[d] = ip[d] /\ list'[d] = list[d]
                                  /\ flags'[d] = flags[d] /\ ident'[d] = ident[d]
  BY <1>1, <1>5
<1>9. /\ mem'[c] = "used" /\ ip'[c] = a /\ list'[c] = "unknown_list" /\ flags'[c] = start_auth_flags(id)
      /\ ident'[c] = IF open THEN id ELSE "closed"
  BY <1>1, <1>5
<1>10. /\ start_auth_flags(id) \in SUBSET Flags
       /\ \A f : f \in start_auth_flags(id) <=>
                   \/ f \in {"Open", "InAuth", "DNSPending"}
                   \/ f = "DoingAuth" /\ id \in {"failed", "connecting", "reading"}
  BY DEF start_auth_flags, Flags
<1>11. /\ mem' \in [Clients -> {"free", "used"}] /\ ip' \in [Clients -> Addrs \cup {None}]
       /\ list' \in [Clients -> {"none", "unknown_list", "local_client_list"}] /\ flags' \in [Clients -> SUBSET Flags]
       /\ ident' \in [Clients -> {"closed", "connecting", "reading"}]
  BY <1>1, <1>5, <1>10
<1>12. /\ auth_pending_list' \in Seq(Clients) /\ ToSet(auth_pending_list') = ToSet(auth_pending_list) \cup {c}
       /\ IsInjective(auth_pending_list) => IsInjective(auth_pending_list')
  BY <1>1, <1>5, <1>7, AppendFacts
<1>13. r \in Requests /\ r.ctx = c
  BY DEF Requests
<1> HIDE DEF r
<1>14. /\ request_list' \in Seq(Requests) /\ ToSet(Contexts') = ToSet(Contexts) \cup {c}
       /\ IsInjective(Contexts) => IsInjective(Contexts')
  <2>1. Contexts' = Ctx(request_list') /\ Contexts = Ctx(request_list)
    BY DEF Contexts, Ctx
  <2>2. c \notin ToSet(Ctx(request_list))
    BY <1>7, <2>1
  <2> QED BY <1>1, <1>5, <1>13, <2>1, <2>2, RequestPushed
<1>15. n \in Int /\ n = IF open THEN 2 ELSE 1
  OBVIOUS
<1> HIDE DEF n
<1>16. /\ count' \in [ip : [Addrs -> Int], class : Int, local : Int, fd : Int, listener : Int]
       /\ count'.ip = count.ip /\ count'.class = count.class /\ count'.local = count.local
       /\ count'.fd = count.fd + n /\ count'.listener = count.listener + 1 /\ count.fd \in Int
  BY <1>1, <1>5, <1>15, MoreFd
<1>17. TypeOK'
  BY <1>2, <1>4, <1>11, <1>12, <1>14, <1>16 DEF TypeOK
<1>18. Records'
  <2>1. ASSUME NEW d \in Clients, d # c
        PROVE  RecordOK(d)'
    BY <1>2, <1>8, <2>1, RecordsSplit, RecordSame
  <2>2. RecordOK(c)'
    BY <1>9, <1>10
       DEF RecordOK, FreeIsBlank, UsedHasAddress, ListedIsLive, UnknownHoldsNothing, ExitedIsStripped,
           IdentIsFlagged, Has, IsUnknown
  <2>3. \A d \in Clients : RecordOK(d)'
    BY <2>1, <2>2
  <2> QED BY <2>3 DEF Records, RecordOK
<1>19. Returning = {} /\ Returning' = {}
  BY <1>3, <1>4, WalkFacts DEF Returning
<1>20. Lookups'
  <2>1. ASSUME NEW d \in Clients, d # c
        PROVE  LookupOK(d)'
    <3>1. LookupOK(d)
      BY <1>2, <1>3, LookupsNow
    <3>2. /\ d \in ToSet(Contexts') <=> d \in ToSet(Contexts)
          /\ d \in ToSet(auth_pending_list') <=> d \in ToSet(auth_pending_list)
          /\ d \in Returning' <=> d \in Returning
      BY <1>12, <1>14, <1>19, <2>1
    <3> QED BY <1>8, <2>1, <3>1, <3>2, LookupSame
  <2>2. LookupOK(c)'
    <3>1. /\ "Closing" \notin flags'[c] /\ "DNSPending" \in flags'[c] /\ "InAuth" \in flags'[c]
          /\ "FinishedAuth" \notin flags'[c]
      BY <1>9, <1>10
    <3>3. id # "failed" => (ident'[c] # "closed" <=> "DoingAuth" \in flags'[c])
      BY <1>9, <1>10
    <3>4. SocketFails \/ (ident'[c] # "closed" <=> "DoingAuth" \in flags'[c])
      BY <1>1, <3>3, Zenon
    <3>2. c \in ToSet(Contexts') /\ c \in ToSet(auth_pending_list') /\ c \notin Returning'
      BY <1>12, <1>14, <1>19
    <3> QED BY <1>9, <3>1, <3>2, <3>4 DEF LookupOK, Has
  <2>3. \A d \in Clients : LookupOK(d)'
    BY <2>1, <2>2
  <2>4. IsInjective(auth_pending_list') /\ IsInjective(Contexts') /\ ToSet(auth_pending_list') \subseteq Clients
    <3>1. ToSet(auth_pending_list) \subseteq Clients
      BY <1>5 DEF ToSet
    <3> QED BY <1>2, <1>3, <1>12, <1>14, <3>1 DEF Lookups
  <2> QED BY <1>3, <1>4, <1>19, <2>3, <2>4, WalkFacts, LookupsNext
<1>21. Counters'
  <2> DEFINE O == {d \in Clients : "Open" \in flags[d]}
             A == {d \in Clients : ident[d] # "closed"}
             U == {d \in Clients : mem[d] = "used"}
  <2>1. /\ \A b : {d \in Clients : "IPHash" \in flags'[d] /\ ip'[d] = b} = {d \in Clients : "IPHash" \in flags[d] /\ ip[d] = b}
        /\ {d \in Clients : "Conf" \in flags'[d]} = {d \in Clients : "Conf" \in flags[d]}
        /\ {d \in Clients : list'[d] = "local_client_list"} = {d \in Clients : list[d] = "local_client_list"}
    BY <1>6, <1>8, <1>9, <1>10
  <2>2. /\ {d \in Clients : "Open" \in flags'[d]} = O \cup {c}
        /\ {d \in Clients : ident'[d] # "closed"} = IF open THEN A \cup {c} ELSE A
        /\ {d \in Clients : mem'[d] = "used"} = U \cup {c}
    BY <1>6, <1>8, <1>9, <1>10
  <2>3. O \in SUBSET Clients /\ A \in SUBSET Clients /\ U \in SUBSET Clients /\ c \notin O /\ c \notin A /\ c \notin U
    BY <1>1, <1>6
  <2>4. /\ \A b \in Addrs : count.ip[b] = Cardinality({d \in Clients : "IPHash" \in flags[d] /\ ip[d] = b})
        /\ count.class = Cardinality({d \in Clients : "Conf" \in flags[d]})
        /\ count.local = Cardinality({d \in Clients : list[d] = "local_client_list"})
        /\ count.fd = Cardinality(O) + Cardinality(A) + (IF listener = "active" THEN 1 ELSE 0)
        /\ count.listener = Cardinality(U)
    BY <1>2, <1>3, CountersAreFor DEF CountsFor, IsClient
  <2> HIDE DEF O, A, U, open
  <2>5. Cardinality(O) \in Int /\ Cardinality(A) \in Int /\ Cardinality(U) \in Int
    BY <2>3, CountIsNat
  <2>6. Cardinality(O \cup {c}) = Cardinality(O) + 1
    BY <2>3, Counting
  <2>7. Cardinality(A \cup {c}) = Cardinality(A) + 1
    BY <2>3, Counting
  <2>8. Cardinality(U \cup {c}) = Cardinality(U) + 1
    BY <2>3, Counting
  <2>9. Cardinality({d \in Clients : ident'[d] # "closed"}) = Cardinality(A) + (n - 1)
    <3>1. CASE open
      <4>1. {d \in Clients : ident'[d] # "closed"} = A \cup {c} /\ n - 1 = 1
        BY <1>15, <2>2, <3>1
      <4> QED BY ONLY <4>1, <2>7
    <3>2. CASE ~open
      <4>1. {d \in Clients : ident'[d] # "closed"} = A /\ n - 1 = 0
        BY <1>15, <2>2, <3>2
      <4>2. Cardinality(A) = Cardinality(A) + (n - 1)
        BY <2>5, <4>1
      <4> QED BY <4>1, <4>2
    <3> QED BY <3>1, <3>2
  <2>10. count'.fd = Cardinality({d \in Clients : "Open" \in flags'[d]})
                       + Cardinality({d \in Clients : ident'[d] # "closed"})
                       + (IF listener' = "active" THEN 1 ELSE 0)
    <3>1. count'.fd = (Cardinality(O) + 1) + (Cardinality(A) + (n - 1)) + (IF listener' = "active" THEN 1 ELSE 0)
      BY <1>4, <1>15, <1>16, <2>4, <2>5
    <3>2. Cardinality({d \in Clients : "Open" \in flags'[d]}) = Cardinality(O) + 1
      BY <2>2, <2>6
    <3> QED BY <2>9, <3>1, <3>2
  <2>11. count'.listener = Cardinality({d \in Clients : mem'[d] = "used"})
    BY <1>16, <2>2, <2>4, <2>8
  <2> QED BY <1>16, <2>1, <2>4, <2>10, <2>11, CountersNext
<1>22. \A f \in {"Dead", "Closing"} : All(f)' = All(f)
  BY <1>6, <1>8, <1>9, <1>10 DEF All, Has
<1>23. Aborts'
  BY <1>2, <1>4, <1>22 DEF Aborts
<1>24. Pointers'
  <2>1. \A d \in Referenced' : d \in Referenced \/ d = c
    BY <1>4, <1>12, <1>14 DEF Referenced
  <2>2. \A d \in Referenced : d \in Clients
    <3>1. ToSet(auth_pending_list) \subseteq Clients /\ ToSet(abort_list) \subseteq Clients
      BY <1>2 DEF TypeOK, ToSet
    <3>2. ToSet(Contexts) \subseteq Clients
      BY <1>5, CtxFacts DEF Contexts
    <3> QED BY <1>2, <3>1, <3>2 DEF Referenced, TypeOK, Walks
  <2>3. \A d \in Referenced' : mem'[d] = "used"
    BY <1>2, <1>8, <1>9, <2>1, <2>2 DEF Pointers
  <2> QED BY <1>1, <1>3, <1>4, <2>3, WalkFacts DEF Pointers
<1>25. fault' # "rem_request"
  BY <1>3, <1>4, ConnectionAssumption
<1> QED BY <1>17, <1>18, <1>20, <1>21, <1>23, <1>24, <1>25 DEF Inv
-----------------------------------------------------------------------------
(* The empty server that has opened its listener satisfies the invariant. *)
LEMMA InitInv == Init => Inv
<1>1. SUFFICES ASSUME Init PROVE Inv
  OBVIOUS
<1>2. /\ phase = "run" /\ walk = NoWalk /\ reader = None /\ mem = [c \in Clients |-> "free"]
      /\ ip = [c \in Clients |-> None] /\ list = [c \in Clients |-> "none"] /\ flags = [c \in Clients |-> {}]
      /\ ident = [c \in Clients |-> "closed"] /\ auth_pending_list = <<>> /\ request_list = <<>>
      /\ abort_list = <<>> /\ eac_next = None /\ dead_list = {}
      /\ count = [ip |-> [b \in Addrs |-> 0], class |-> 0, local |-> 0, fd |-> 1, listener |-> 0]
      /\ listener = "active" /\ fault = None
  BY <1>1 DEF Init
<1>3. TypeOK
  BY <1>2, WalkFacts DEF TypeOK, Phases
<1>4. Records
  BY <1>2 DEF Records, FreeIsBlank, UsedHasAddress, ListedIsLive, UnknownHoldsNothing, ExitedIsStripped,
              IdentIsFlagged, Has, IsUnknown
<1>5. \A f : All(f) = {}
  BY <1>2 DEF All, Has
<1>6. ToSet(<<>>) = {} /\ IsInjective(<<>>)
  BY DEF ToSet, IsInjective
<1>7. Contexts = <<>> /\ Returning = {}
  BY <1>2, WalkFacts DEF Contexts, Ctx, Returning
<1>8. Aborts
  BY <1>2, <1>5, <1>6, WalkFacts DEF Aborts, First
<1>9. Pointers
  BY <1>2, <1>6, <1>7, WalkFacts DEF Pointers, Referenced
<1>10. Lookups
  BY <1>2, <1>5, <1>6, <1>7, WalkFacts DEF Lookups, Has
<1>11. Counters
  <2>1. /\ \A b : {c \in All("IPHash") : ip[c] = b} = {}
        /\ {c \in Clients : IsClient(c)} = {} /\ {c \in Clients : ident[c] # "closed"} = {}
        /\ {c \in Clients : mem[c] = "used"} = {}
    BY <1>2, <1>5 DEF IsClient
  <2>2. Cardinality({}) = 0
    BY FS_EmptySet
  <2>3. /\ \A b \in Addrs : count.ip[b] = 0
        /\ count.class = 0 /\ count.local = 0 /\ count.fd = 1 /\ count.listener = 0
    BY <1>2
  <2>4. /\ \A b \in Addrs : Cardinality({c \in All("IPHash") : ip[c] = b}) = 0
        /\ Cardinality(All("Conf")) = 0 /\ Cardinality({c \in Clients : IsClient(c)}) = 0
        /\ Cardinality(All("Open")) = 0 /\ Cardinality({c \in Clients : ident[c] # "closed"}) = 0
        /\ Cardinality({c \in Clients : mem[c] = "used"}) = 0
    BY <1>5, <2>1, <2>2
  <2> QED BY <1>2, <2>3, <2>4 DEF Counters
<1> QED BY <1>2, <1>3, <1>4, <1>8, <1>9, <1>10, <1>11, ConnectionAssumption DEF Inv

(* Every step keeps the invariant.                                          *)
LEMMA NextInv == Inv /\ [Next]_vars => Inv'
<1>1. SUFFICES ASSUME Inv, [Next]_vars PROVE Inv'
  OBVIOUS
<1>2. CASE Continue
  <2>1. CASE read_packet_return
    BY <1>1, <2>1, ReadPacketReturn
  <2>2. CASE res_readreply_return
    BY <1>1, <2>2, ReplyReturn
  <2>3. ASSUME NEW i \in DOMAIN request_list, query_waits(i) PROVE Inv'
    BY <1>1, <2>3, QueryWaits
  <2>4. ASSUME NEW i \in DOMAIN request_list, query_fails(i) PROVE Inv'
    BY <1>1, <2>4, QueryFails
  <2>5. CASE query_failed
    BY <1>1, <2>5, QueryFailed
  <2>6. CASE auth_not_due \/ auth_expired
    BY <1>1, <2>6, AuthMoves
  <2>7. ASSUME NEW c \in Clients, auth_expires(c) PROVE Inv'
    BY <1>1, <2>7, AuthExpires
  <2>8. CASE abort_exits
    BY <1>1, <2>8, AbortExits
  <2>9. CASE abort_exited
    BY <1>1, <2>9, AbortMoves
  <2>10. CASE free_exited_clients
    BY <1>1, <2>10, FreeExitedClients
  <2> QED BY <1>2, <2>1, <2>2, <2>3, <2>4, <2>5, <2>6, <2>7, <2>8, <2>9, <2>10 DEF Continue
<1>3. CASE Handlers
  <2>1. ASSUME NEW c \in Clients, NEW a \in Addrs, NEW id \in {"off", "failed", "refused", "connecting", "reading"},
               listener_accept_connection(c, a, id)
        PROVE  Inv'
    BY <1>1, <2>1, Accept
  <2>2. ASSUME NEW c \in Clients, auth_connect_callback(c) PROVE Inv'
    BY <1>1, <2>2, AuthConnect
  <2>3. ASSUME NEW c \in Clients, auth_error(c) \/ read_auth_reply(c) PROVE Inv'
    BY <1>1, <2>3, CloseIdent DEF auth_error, read_auth_reply
  <2>4. ASSUME NEW i \in DOMAIN request_list, res_readreply_final(i) PROVE Inv'
    BY <1>1, <2>4, ReplyFinal
  <2>5. ASSUME NEW i \in DOMAIN request_list, res_readreply_name(i) PROVE Inv'
    BY <1>1, <2>5, ReplyName
  <2>6. CASE timeout_query_list
    BY <1>1, <2>6, TimeoutQueryList
  <2>7. CASE timeout_auth_queries_event
    BY <1>1, <2>7, AuthMoves
  <2>8. ASSUME NEW c \in Clients, read_packet(c) PROVE Inv'
    BY <1>1, <2>8, ReadPacket
  <2>9. ASSUME NEW c \in Clients, check_pings(c) \/ check_unknowns(c) PROVE Inv'
    BY <1>1, <2>9, Checks
  <2>10. CASE exit_aborted_clients
    BY <1>1, <2>10, AbortMoves
  <2> QED BY <1>3, <2>1, <2>2, <2>3, <2>4, <2>5, <2>6, <2>7, <2>8, <2>9, <2>10 DEF Handlers
<1>4. CASE Commands
  <2>1. ASSUME NEW c \in Clients, read_exits(c) PROVE Inv'
    BY <1>1, <2>1, ReadExits
  <2>2. ASSUME NEW c \in Clients, too_many(c) \/ register_refused(c) PROVE Inv'
    BY <1>1, <2>2, Refused
  <2>3. ASSUME NEW c \in Clients, register_local_user(c) PROVE Inv'
    BY <1>1, <2>3, RegisterLocalUser
  <2>4. ASSUME NEW c \in Clients, mo_close(c) PROVE Inv'
    BY <1>1, <2>4, MoClose
  <2>5. ASSUME NEW c \in Clients, NEW d \in Clients, mo_kill(c, d) PROVE Inv'
    BY <1>1, <2>5, MoKill
  <2>6. ASSUME NEW c \in Clients, NEW a \in Addrs, mo_dline(c, a) PROVE Inv'
    BY <1>1, <2>6, MoDline
  <2>7. ASSUME NEW D \in SUBSET Addrs, NEW listen \in BOOLEAN, conf_rehash(D, listen) PROVE Inv'
    BY <1>1, <2>7, ConfRehash
  <2> QED BY <1>4, <2>1, <2>2, <2>3, <2>4, <2>5, <2>6, <2>7 DEF Commands
<1>5. ASSUME NEW d \in Clients, dead_link_on_write(d) PROVE Inv'
  BY <1>1, <1>5, DeadLinkOnWrite
<1>6. CASE UNCHANGED vars
  <2>1. /\ phase' = phase /\ walk' = walk /\ reader' = reader /\ mem' = mem /\ ip' = ip /\ list' = list
        /\ flags' = flags /\ ident' = ident /\ auth_pending_list' = auth_pending_list /\ request_list' = request_list
        /\ abort_list' = abort_list /\ eac_next' = eac_next /\ dead_list' = dead_list /\ count' = count
        /\ listener' = listener /\ fault' = fault
    BY <1>6 DEF vars, loopvars, clientvars, listvars
  <2>2. /\ Contexts' = Contexts /\ Returning' = Returning /\ \A f : All(f)' = All(f)
    BY <2>1 DEF Contexts, Ctx, Returning, All, Has
  <2>3. Referenced' = Referenced
    BY <2>1, <2>2 DEF Referenced
  <2>4. TypeOK'
    BY <1>1, <2>1 DEF Inv, TypeOK
  <2>5. Records'
    BY <1>1, <2>1 DEF Inv, Records, FreeIsBlank, UsedHasAddress, ListedIsLive, UnknownHoldsNothing,
                      ExitedIsStripped, IdentIsFlagged, Has, IsUnknown
  <2>6. Aborts' /\ Pointers'
    BY <1>1, <2>1, <2>2, <2>3 DEF Inv, Aborts, Pointers, Has
  <2>7. Lookups'
    BY <1>1, <2>1, <2>2 DEF Inv, Lookups, Has
  <2>8. Counters'
    BY <1>1, <2>1, <2>2 DEF Inv, Counters, IsClient
  <2> QED BY <1>1, <2>1, <2>4, <2>5, <2>6, <2>7, <2>8 DEF Inv
<1> QED BY <1>1, <1>2, <1>3, <1>4, <1>5, <1>6 DEF Next

(***************************************************************************)
(* The inductive invariant holds in every reachable state.                 *)
(***************************************************************************)
THEOREM Invariance == Spec => []Inv
BY InitInv, NextInv, PTL DEF Spec

(* Every variable keeps its type, for every number of clients.             *)
THEOREM TypeCorrect == Spec => []TypeOK
<1>1. Inv => TypeOK
  BY DEF Inv
<1> QED BY <1>1, Invariance, PTL

(***************************************************************************)
(* free_client() never leaves a pointer behind, and exit_aborted_clients() *)
(* leaves nobody behind: for every number of clients and every length of   *)
(* auth_pending_list, request_list and abort_list.                         *)
(***************************************************************************)
THEOREM NothingDangles == Spec => []NoDangling
<1>1. Inv => NoDangling
  <2>1. SUFFICES ASSUME Inv PROVE NoDangling
    OBVIOUS
  <2>2. Pointers /\ Aborts
    BY <2>1 DEF Inv
  <2>3. phase = "free" => abort_list = <<>> /\ All("Dead") = dead_list /\ All("Closing") = dead_list
    <3>1. SUFFICES ASSUME phase = "free" PROVE abort_list = <<>> /\ All("Dead") = dead_list /\ All("Closing") = dead_list
      OBVIOUS
    <3>2. abort_list = <<>> /\ All("Closing") = dead_list /\ ToSet(abort_list) = {}
      BY <2>2, <3>1 DEF Aborts, ToSet
    <3>3. All("Dead") \subseteq All("Closing")
      BY <2>2, <3>2 DEF Aborts
    <3>4. All("Closing") \subseteq All("Dead")
      BY <2>1 DEF Inv, Records, ExitedIsStripped, All
    <3> QED BY <3>2, <3>3, <3>4
  <2> QED BY <2>2, <2>3 DEF NoDangling, Pointers
<1> QED BY <1>1, Invariance, PTL

(* The lookups of every client agree with its flags, and rem_request()     *)
(* always finds the request whose callback returned.                       *)
THEOREM LookupsAgree == Spec => []LookupsMatch
<1>1. Inv => LookupsMatch
  <2>1. SUFFICES ASSUME Inv PROVE LookupsMatch
    OBVIOUS
  <2>2. \A c \in All("Closing") : ident[c] = "closed"
    BY <2>1 DEF Inv, Records, ExitedIsStripped, All
  <2> QED BY <2>1, <2>2 DEF Inv, Lookups, LookupsMatch
<1> QED BY <1>1, Invariance, PTL

(***************************************************************************)
(* The counters of addresses, class, users, descriptors and listener are   *)
(* the numbers of clients that hold them, for every limit.                 *)
(***************************************************************************)
THEOREM CountersRight == Spec => []Counters
<1>1. Inv => Counters
  BY DEF Inv
<1> QED BY <1>1, Invariance, PTL

-----------------------------------------------------------------------------
(* Connection implements Lifecycle: whatever the handlers, walks, commands *)
(* and failed writes do, a client slot goes from free to auth, open, user, *)
(* exited and back to free, in that order and never backwards. The mapping *)
(* of a client is stage, which depends on its memory, list and flags.      *)
StageOf(m, l, fl) ==
    IF m = "free" THEN "free"
    ELSE IF "Closing" \in fl THEN "exited"
    ELSE IF l = "local_client_list" THEN "user"
    ELSE IF "FinishedAuth" \in fl THEN "open" ELSE "auth"

(* The stage of a client depends on its memory, its list and two flags.    *)
LEMMA StageFacts ==
    /\ stage = [c \in Clients |-> StageOf(mem[c], list[c], flags[c])]
    /\ stage' = [c \in Clients |-> StageOf(mem'[c], list'[c], flags'[c])]
    /\ \A c \in Clients : stage[c] = StageOf(mem[c], list[c], flags[c])
    /\ \A c \in Clients : stage'[c] = StageOf(mem'[c], list'[c], flags'[c])
<1>1. stage = [c \in Clients |-> StageOf(mem[c], list[c], flags[c])]
  BY DEF stage, StageOf, Has, IsClient
<1>2. stage' = [c \in Clients |-> StageOf(mem'[c], list'[c], flags'[c])]
  BY DEF stage, StageOf, Has, IsClient
<1> QED BY <1>1, <1>2

(* A step that leaves memory, lists and those two flags alone stutters.    *)
LEMMA Stutters ==
    ASSUME mem' = mem, list' = list,
           \A c \in Clients : /\ "Closing" \in flags'[c] <=> "Closing" \in flags[c]
                              /\ "FinishedAuth" \in flags'[c] <=> "FinishedAuth" \in flags[c]
    PROVE  stage' = stage
<1>1. \A c \in Clients : StageOf(mem'[c], list'[c], flags'[c]) = StageOf(mem[c], list[c], flags[c])
  BY DEF StageOf
<1> QED BY <1>1, StageFacts

(* exit_client(), from wherever it is called, is an Exit of those clients  *)
(* that are not closing already.                                           *)
LEMMA ExitRefines ==
    ASSUME NEW C, NEW fl, NEW cnt, Inv, fault = None, Called(C, fl), exit_clients(C, fl, cnt), mem' = mem
    PROVE  Abstract!Next
<1> DEFINE out == Exiting(C)
<1>1. /\ flags' = [c \in Clients |-> IF c \in out THEN Stripped(c) ELSE flags[c]]
      /\ list' = [c \in Clients |-> IF c \in out THEN "none" ELSE list[c]]
  BY ExitFacts DEF Inv
<1>2. out \in SUBSET Clients /\ \A c \in out : mem[c] = "used" /\ "Closing" \notin flags[c]
  BY DEF Called, Exiting, Has
<1>3. \A c \in Clients : "Closing" \in Stripped(c)
  BY DEF Stripped
<1> HIDE DEF out
<1>4. \A c \in out : stage[c] \in {"auth", "open", "user"}
  BY <1>2, StageFacts DEF StageOf
<1>5. ASSUME NEW c \in Clients
      PROVE  StageOf(mem'[c], list'[c], flags'[c]) = IF c \in out THEN "exited" ELSE stage[c]
  BY <1>1, <1>2, <1>3, StageFacts DEF StageOf
<1>6. stage' = [c \in Clients |-> IF c \in out THEN "exited" ELSE stage[c]]
  BY <1>5, StageFacts
<1>7. Abstract!Exit(out)
  BY <1>4, <1>6 DEF Abstract!Exit
<1> QED BY <1>2, <1>7 DEF Abstract!Next

(* The same with the flags of the state.                                   *)
LEMMA ExitCallRefines ==
    ASSUME NEW C, Inv, fault = None, C \in SUBSET Clients, \A c \in C : mem[c] = "used",
           exit_client(C), mem' = mem
    PROVE  Abstract!Next
<1>1. Called(C, flags)
  BY DEF Called, Inv, TypeOK
<1>2. exit_clients(C, flags, count)
  BY DEF exit_client
<1> QED BY <1>1, <1>2, ExitRefines

(* A lookup that ends releases the client, or leaves its stage alone: it   *)
(* waits for the other lookup, or has exited while this one was running.   *)
LEMMA ReleaseRefines ==
    ASSUME Inv, NEW c \in Clients, NEW fl \in SUBSET Flags, release_auth_client(c, fl),
           "Closing" \in fl <=> "Closing" \in flags[c],
           "FinishedAuth" \in fl <=> "FinishedAuth" \in flags[c],
           mem' = mem, list' = list
    PROVE  Abstract!Next \/ stage' = stage
<1>1. \A d \in Clients : flags'[d] = IF d = c THEN Released(fl) ELSE flags[d]
  BY ReleaseFacts DEF Inv
<1>2. "Closing" \in Released(fl) <=> "Closing" \in flags[c]
  BY DEF Released
<1>3. \A d \in Clients : d # c => stage'[d] = stage[d]
  BY <1>1, StageFacts
<1>4. CASE stage[c] = "auth" /\ stage'[c] = "open"
  <2>1. stage' = [stage EXCEPT ![c] = "open"]
    BY <1>3, <1>4, StageFacts
  <2> QED BY <1>4, <2>1 DEF Abstract!Next, Abstract!Release, Abstract!Move
<1>5. CASE ~(stage[c] = "auth" /\ stage'[c] = "open")
  <2>1. "FinishedAuth" \in flags[c] => "FinishedAuth" \in Released(fl)
    BY DEF Released
  <2>2. stage'[c] = stage[c]
    BY <1>1, <1>2, <1>5, <2>1, StageFacts DEF StageOf
  <2>3. \A d \in Clients : stage'[d] = stage[d]
    BY <1>3, <2>2
  <2> QED BY <2>3, StageFacts
<1> QED BY <1>4, <1>5

(* ClearAuth() and ClearDNSPending() touch neither flag.                   *)
LEMMA ClearFacts ==
    ASSUME NEW f \in SUBSET Flags
    PROVE  /\ ClearAuth(f) \in SUBSET Flags /\ ClearDNSPending(f) \in SUBSET Flags
           /\ ClearDNSPending(ClearAuth(f)) \in SUBSET Flags
           /\ \A x \in {"Closing", "FinishedAuth"} :
                /\ x \in ClearAuth(f) <=> x \in f
                /\ x \in ClearDNSPending(f) <=> x \in f
                /\ x \in ClearDNSPending(ClearAuth(f)) <=> x \in f
BY DEF ClearAuth, ClearDNSPending

(* listener_accept_connection() takes a free slot.                         *)
LEMMA AcceptRefines ==
    ASSUME Inv, NEW c \in Clients, NEW a \in Addrs,
           NEW id \in {"off", "failed", "refused", "connecting", "reading"},
           listener_accept_connection(c, a, id)
    PROVE  Abstract!Next
<1>1. /\ mem \in [Clients -> {"free", "used"}] /\ flags \in [Clients -> SUBSET Flags]
      /\ list \in [Clients -> {"none", "unknown_list", "local_client_list"}]
  BY DEF Inv, TypeOK
<1>2. /\ mem[c] = "free" /\ mem' = [mem EXCEPT ![c] = "used"]
      /\ list' = [list EXCEPT ![c] = "unknown_list"]
      /\ flags' = [flags EXCEPT ![c] = start_auth_flags(id)]
  BY DEF listener_accept_connection
<1>3. "Closing" \notin start_auth_flags(id) /\ "FinishedAuth" \notin start_auth_flags(id)
  BY DEF start_auth_flags
<1>4. stage[c] = "free" /\ stage'[c] = "auth" /\ \A d \in Clients : d # c => stage'[d] = stage[d]
  BY <1>1, <1>2, <1>3, StageFacts DEF StageOf
<1>5. stage' = [stage EXCEPT ![c] = "auth"]
  BY <1>4, StageFacts
<1> QED BY <1>4, <1>5 DEF Abstract!Next, Abstract!Accept, Abstract!Move

(* register_local_user() registers a client whose lookups are over.        *)
LEMMA RegisterRefines ==
    ASSUME Inv, NEW c \in Clients, register_local_user(c)
    PROVE  Abstract!Next
<1>1. /\ mem \in [Clients -> {"free", "used"}] /\ flags \in [Clients -> SUBSET Flags]
      /\ list \in [Clients -> {"none", "unknown_list", "local_client_list"}]
  BY DEF Inv, TypeOK
<1>2. /\ Reading(c) /\ list[c] = "unknown_list" /\ mem' = mem
      /\ list' = [list EXCEPT ![c] = "local_client_list"]
      /\ flags' = [flags EXCEPT ![c] = @ \cup {"IPHash", "Conf"}]
  BY DEF register_local_user, handled, attached, IsUnknown
<1>3. mem[c] = "used" /\ "FinishedAuth" \in flags[c] /\ "Closing" \notin flags[c]
  BY <1>2, ReadingFacts DEF Has
<1>4. stage[c] = "open" /\ stage'[c] = "user" /\ \A d \in Clients : d # c => stage'[d] = stage[d]
  BY <1>1, <1>2, <1>3, StageFacts DEF StageOf
<1>5. stage' = [stage EXCEPT ![c] = "user"]
  BY <1>4, StageFacts
<1> QED BY <1>4, <1>5 DEF Abstract!Next, Abstract!Register, Abstract!Move

(* free_exited_clients() frees the exited clients, all of them and no      *)
(* other.                                                                  *)
LEMMA ReapRefines ==
    ASSUME Inv, free_exited_clients
    PROVE  Abstract!Next
<1>1. /\ mem' = [c \in Clients |-> IF c \in dead_list THEN "free" ELSE mem[c]]
      /\ flags' = [c \in Clients |-> IF c \in dead_list THEN {} ELSE flags[c]]
      /\ list' = list
  BY DEF free_exited_clients
<1>2. \A c \in Clients : c \in dead_list <=> "Closing" \in flags[c]
  BY DEF Inv, Aborts, All, Has
<1>3. \A c \in Clients : "Closing" \in flags[c] => mem[c] = "used"
  BY DEF Inv, Records, ExitedIsStripped, Has
<1>4. ASSUME NEW c \in Clients
      PROVE  stage'[c] = IF stage[c] = "exited" THEN "free" ELSE stage[c]
  BY <1>1, <1>2, <1>3, StageFacts DEF StageOf
<1>5. stage' = [c \in Clients |-> IF stage[c] = "exited" THEN "free" ELSE stage[c]]
  BY <1>4, StageFacts
<1> QED BY <1>5 DEF Abstract!Next, Abstract!Reap
-----------------------------------------------------------------------------
(* The steps by which a handler goes on.                                   *)
LEMMA ContinueRefines ==
    ASSUME Inv, Continue
    PROVE  Abstract!Next \/ stage' = stage
<1>0. /\ flags \in [Clients -> SUBSET Flags] /\ walk.node \in Clients \cup {None}
      /\ walk.fn \notin {"none"} => walk.node \in Clients
      /\ \A i \in DOMAIN request_list : request_list[i].ctx \in Clients
  <2>1. request_list \in Seq(Requests) /\ walk \in Walks /\ flags \in [Clients -> SUBSET Flags]
    BY DEF Inv, TypeOK
  <2>2. \A i \in DOMAIN request_list : request_list[i].ctx \in Clients
    BY <2>1, CtxFacts
  <2>3. walk.node \in Clients \cup {None} /\ (walk.fn \notin {"none"} => walk.node # None)
    BY <2>1 DEF Inv, Pointers, Walks
  <2> QED BY <2>1, <2>2, <2>3
<1>1. ASSUME mem' = mem, list' = list, flags' = flags
      PROVE  stage' = stage
  BY <1>1, Stutters
<1>2. CASE read_packet_return \/ res_readreply_return \/ query_failed \/ auth_not_due \/ auth_expired \/ abort_exited
  <2>1. mem' = mem /\ list' = list /\ flags' = flags
    BY <1>2 DEF read_packet_return, res_readreply_return, query_failed, auth_not_due, auth_expired,
                abort_exited, clientvars
  <2> QED BY <2>1, <1>1
<1>3. ASSUME NEW i \in DOMAIN request_list, query_waits(i)
      PROVE  stage' = stage
  <2>1. mem' = mem /\ list' = list /\ flags' = flags
    BY <1>3 DEF query_waits, clientvars
  <2> QED BY <2>1, <1>1
<1>4. ASSUME NEW i \in DOMAIN request_list, query_fails(i)
      PROVE  Abstract!Next \/ stage' = stage
  <2>1. walk.node \in Clients /\ mem' = mem /\ list' = list
    BY <1>0, <1>4 DEF query_fails, query_at
  <2>2. release_auth_client(walk.node, ClearDNSPending(flags[walk.node]))
    BY <1>4 DEF query_fails, auth_dns_callback
  <2>3. flags[walk.node] \in SUBSET Flags
    BY <1>0, <2>1
  <2> QED BY <2>1, <2>2, <2>3, ClearFacts, ReleaseRefines
<1>5. ASSUME NEW c \in Clients, auth_expires(c)
      PROVE  Abstract!Next \/ stage' = stage
  <2>1. mem' = mem /\ list' = list /\ release_auth_client(c, ClearDNSPending(ClearAuth(flags[c])))
    BY <1>5 DEF auth_expires
  <2>2. flags[c] \in SUBSET Flags
    BY <1>0
  <2> QED BY <2>1, <2>2, ClearFacts, ReleaseRefines
<1>6. CASE abort_exits
  <2>1. In("exit_aborted_clients") /\ exit_client({walk.node}) /\ mem' = mem
    BY <1>6 DEF abort_exits
  <2>2. fault = None /\ walk.node \in Clients
    BY <1>0, <2>1 DEF In
  <2>3. mem[walk.node] = "used"
    BY <2>2, ConnectionAssumption DEF Inv, Pointers, Referenced
  <2> QED BY <2>1, <2>2, <2>3, ExitCallRefines
<1>7. CASE free_exited_clients
  BY <1>7, ReapRefines
<1> QED BY <1>2, <1>3, <1>4, <1>5, <1>6, <1>7 DEF Continue

(* The handlers the loop starts.                                           *)
LEMMA HandlersRefine ==
    ASSUME Inv, Handlers
    PROVE  Abstract!Next \/ stage' = stage
<1>0. /\ flags \in [Clients -> SUBSET Flags]
      /\ \A i \in DOMAIN request_list : request_list[i].ctx \in Clients
  <2>1. request_list \in Seq(Requests) /\ flags \in [Clients -> SUBSET Flags]
    BY DEF Inv, TypeOK
  <2> QED BY <2>1, CtxFacts
<1>1. ASSUME mem' = mem, list' = list, flags' = flags
      PROVE  stage' = stage
  BY <1>1, Stutters
<1>2. ASSUME NEW c \in Clients, NEW a \in Addrs,
             NEW id \in {"off", "failed", "refused", "connecting", "reading"}, listener_accept_connection(c, a, id)
      PROVE  Abstract!Next
  BY <1>2, AcceptRefines
<1>3. ASSUME NEW c \in Clients, auth_connect_callback(c)
      PROVE  stage' = stage
  BY <1>1, <1>3 DEF auth_connect_callback
<1>4. ASSUME NEW c \in Clients, auth_error(c) \/ read_auth_reply(c)
      PROVE  Abstract!Next \/ stage' = stage
  <2>1. mem' = mem /\ list' = list /\ release_auth_client(c, ClearAuth(flags[c]))
    BY <1>4 DEF auth_error, read_auth_reply, close_ident
  <2>2. flags[c] \in SUBSET Flags
    BY <1>0
  <2> QED BY <2>1, <2>2, ClearFacts, ReleaseRefines
<1>5. ASSUME NEW i \in DOMAIN request_list, res_readreply_final(i)
      PROVE  Abstract!Next \/ stage' = stage
  <2> DEFINE c == request_list[i].ctx
  <2>1. mem' = mem /\ list' = list /\ release_auth_client(c, ClearDNSPending(flags[c]))
    BY <1>5 DEF res_readreply_final, auth_dns_callback
  <2>2. c \in Clients /\ flags[c] \in SUBSET Flags
    BY <1>0
  <2> HIDE DEF c
  <2> QED BY <2>1, <2>2, ClearFacts, ReleaseRefines
<1>6. ASSUME NEW i \in DOMAIN request_list, res_readreply_name(i)
      PROVE  stage' = stage
  BY <1>1, <1>6 DEF res_readreply_name, clientvars
<1>7. CASE timeout_query_list \/ timeout_auth_queries_event \/ exit_aborted_clients
  <2>1. mem' = mem /\ list' = list /\ flags' = flags
    BY <1>7 DEF timeout_query_list, timeout_auth_queries_event, exit_aborted_clients, clientvars
  <2> QED BY <2>1, <1>1
<1>8. ASSUME NEW c \in Clients, read_packet(c)
      PROVE  stage' = stage
  BY <1>1, <1>8 DEF read_packet, clientvars
<1>9. ASSUME NEW c \in Clients, check_pings(c) \/ check_unknowns(c)
      PROVE  Abstract!Next
  <2>1. Idle /\ (IsClient(c) \/ IsUnknown(c)) /\ exit_client({c}) /\ mem' = mem
    BY <1>9 DEF check_pings, check_unknowns, handled
  <2>2. fault = None /\ {c} \in SUBSET Clients /\ \A d \in {c} : mem[d] = "used"
    BY <2>1, IdleFacts, ListedIsUsed
  <2> QED BY <2>1, <2>2, ExitCallRefines
<1> QED BY <1>2, <1>3, <1>4, <1>5, <1>6, <1>7, <1>8, <1>9 DEF Handlers

(* The commands of the client that is read, and a rehash.                  *)
LEMMA CommandsRefine ==
    ASSUME Inv, Commands
    PROVE  Abstract!Next
<1>1. ASSUME NEW c \in Clients, read_exits(c)
      PROVE  Abstract!Next
  <2>1. Reading(c) /\ exit_client({c}) /\ mem' = mem
    BY <1>1 DEF read_exits, handled
  <2>2. fault = None /\ {c} \in SUBSET Clients /\ \A d \in {c} : mem[d] = "used"
    BY <2>1, ReadingFacts
  <2> QED BY <2>1, <2>2, ExitCallRefines
<1>2. ASSUME NEW c \in Clients, too_many(c) \/ register_refused(c)
      PROVE  Abstract!Next
  <2>1. Reading(c) /\ IsUnknown(c) /\ mem' = mem
    BY <1>2 DEF too_many, register_refused, handled
  <2>2. fault = None /\ mem[c] = "used" /\ ~Has(c, "Closing")
    BY <2>1, ReadingFacts
  <2>3. PICK f \in {{"IPHash"}, {"IPHash", "Conf"}} : \E cnt : exit_clients({c}, attached(c, f), cnt)
    BY <1>2 DEF too_many, register_refused
  <2>4. PICK cnt : exit_clients({c}, attached(c, f), cnt)
    BY <2>3
  <2>5. /\ attached(c, f) \in [Clients -> SUBSET Flags]
        /\ \A d \in Clients : attached(c, f)[d] = IF d = c THEN flags[d] \cup f ELSE flags[d]
    BY <2>1, <2>2, AttachCounts
  <2>6. Called({c}, attached(c, f))
    BY <2>2, <2>5 DEF Called
  <2> QED BY <2>1, <2>2, <2>4, <2>6, ExitRefines
<1>3. ASSUME NEW c \in Clients, register_local_user(c)
      PROVE  Abstract!Next
  BY <1>3, RegisterRefines
<1>4. ASSUME NEW c \in Clients, mo_close(c)
      PROVE  Abstract!Next
  <2> DEFINE C == {d \in Clients : IsUnknown(d)}
  <2>1. Reading(c) /\ exit_client(C) /\ mem' = mem
    BY <1>4 DEF mo_close, handled
  <2>2. fault = None /\ C \in SUBSET Clients /\ \A d \in C : mem[d] = "used"
    BY <2>1, ReadingFacts, ListedIsUsed
  <2> HIDE DEF C
  <2> QED BY <2>1, <2>2, ExitCallRefines
<1>5. ASSUME NEW c \in Clients, NEW d \in Clients, mo_kill(c, d)
      PROVE  Abstract!Next
  <2>1. Reading(c) /\ IsClient(d) /\ exit_client({d}) /\ mem' = mem
    BY <1>5 DEF mo_kill, handled
  <2>2. fault = None /\ {d} \in SUBSET Clients /\ \A e \in {d} : mem[e] = "used"
    BY <2>1, ReadingFacts, ListedIsUsed
  <2> QED BY <2>1, <2>2, ExitCallRefines
<1>6. ASSUME NEW c \in Clients, NEW a \in Addrs, mo_dline(c, a)
      PROVE  Abstract!Next
  <2> DEFINE C == {d \in Clients : list[d] # "none" /\ ip[d] = a /\ ~Has(d, "Dead")}
  <2>1. Reading(c) /\ exit_client(C) /\ mem' = mem
    BY <1>6 DEF mo_dline, handled
  <2>2. fault = None /\ C \in SUBSET Clients /\ \A d \in C : mem[d] = "used"
    BY <2>1, ReadingFacts, ListedIsUsed
  <2> HIDE DEF C
  <2> QED BY <2>1, <2>2, ExitCallRefines
<1>7. ASSUME NEW D \in SUBSET Addrs, NEW listen \in BOOLEAN, conf_rehash(D, listen)
      PROVE  Abstract!Next
  <2> DEFINE C == {c \in Clients : ip[c] \in D /\ (IsUnknown(c) \/ (IsClient(c) /\ ~Has(c, "Dead")))}
  <2>1. /\ Idle \/ \E c \in Clients : Reading(c)
        /\ \E cnt : exit_clients(C, flags, cnt)
        /\ mem' = mem
    BY <1>7 DEF conf_rehash
  <2>2. fault = None
    BY <2>1 DEF Idle, Reading
  <2>3. C \in SUBSET Clients /\ \A c \in C : mem[c] = "used"
    BY ListedIsUsed
  <2> HIDE DEF C
  <2>4. PICK cnt : exit_clients(C, flags, cnt)
    BY <2>1
  <2>5. Called(C, flags)
    BY <2>3 DEF Called, Inv, TypeOK
  <2> QED BY <2>1, <2>2, <2>4, <2>5, ExitRefines
<1> QED BY <1>1, <1>2, <1>3, <1>4, <1>5, <1>6, <1>7 DEF Commands

(* The initial states and the steps of Connection are those of Lifecycle.  *)
LEMMA InitRefines == Init => Abstract!Init
BY DEF Init, Abstract!Init, stage

(* Every step is a step of Lifecycle, or leaves every stage alone.         *)
LEMMA StepRefines == Inv /\ [Next]_vars => [Abstract!Next]_stage
<1>1. SUFFICES ASSUME Inv, [Next]_vars PROVE Abstract!Next \/ stage' = stage
  OBVIOUS
<1>2. CASE Continue
  BY <1>1, <1>2, ContinueRefines
<1>3. CASE Handlers
  BY <1>1, <1>3, HandlersRefine
<1>4. CASE Commands
  BY <1>1, <1>4, CommandsRefine
<1>5. ASSUME NEW d \in Clients, dead_link_on_write(d)
      PROVE  stage' = stage
  <2>1. flags \in [Clients -> SUBSET Flags]
    BY <1>1 DEF Inv, TypeOK
  <2>2. mem' = mem /\ list' = list /\ flags' = [flags EXCEPT ![d] = @ \cup {"Dead"}]
    BY <1>5 DEF dead_link_on_write
  <2> QED BY <2>1, <2>2, Stutters
<1>6. CASE UNCHANGED vars
  BY <1>6, Stutters DEF vars, clientvars
<1> QED BY <1>1, <1>2, <1>3, <1>4, <1>5, <1>6 DEF Next

(***************************************************************************)
(* Every behaviour of the connection code is one of Lifecycle: a client is *)
(* released once, registers at most once and only when both lookups are    *)
(* over, exits at most once however many handlers end it, and its slot is  *)
(* free again only after that.                                             *)
(***************************************************************************)
THEOREM Refinement == Spec => Implements
BY InitRefines, StepRefines, Invariance, PTL DEF Spec, Implements, Abstract!Spec
=============================================================================
